---------------------------- MODULE GatewayProofs ----------------------------
(* Theorems about Gateway for any configuration, request and answer, and   *)
(* for a capture buffer of any size.                                       *)
EXTENDS Gateway, TLAPS

(* Of the body every front is told, and there is a number of them.         *)
LEMMA BodyType ==
  ASSUME InputsStand
  PROVE  /\ request.body \in Seq({"files", "deep", "other"})
         /\ Len(request.body) \in Nat
         /\ DOMAIN request.body = 1..Len(request.body)
  <1>1. request.body \in Seq({"files", "deep", "other"})
    BY GatewayAssumption DEF InputsStand, Request
  <1> DEFINE given == request.body
  <1> HIDE DEF given
  <1>2. given \in Seq({"files", "deep", "other"})
    BY <1>1 DEF given
  <1>3. Len(given) \in Nat /\ DOMAIN given = 1..Len(given)
    BY <1>2
  <1> QED
    BY <1>1, <1>3 DEF given

(* What was kept of the body is a front of it, and a nesting too deep is   *)
(* that of the longest front that was read and fits the buffer.            *)
LEMMA DeepFront ==
  ASSUME InputsStand, read \in 0..Len(request.body)
  PROVE  LoadsAs = "deep" <=>
           \E n \in DOMAIN request.body :
             /\ request.body[n] = "deep"
             /\ n <= read /\ n <= MAX_CAPTURED_REQUEST_BYTES
             /\ n \in {read, MAX_CAPTURED_REQUEST_BYTES}
  <1>1. Len(request.body) \in Nat /\ DOMAIN request.body = 1..Len(request.body)
    BY BodyType
  <1>2. Captured \in 0..Len(request.body) /\ MAX_CAPTURED_REQUEST_BYTES \in Nat
    BY <1>1, GatewayAssumption DEF Captured
  <1>3. ASSUME LoadsAs = "deep"
        PROVE  \E n \in DOMAIN request.body :
                 /\ request.body[n] = "deep"
                 /\ n <= read /\ n <= MAX_CAPTURED_REQUEST_BYTES
                 /\ n \in {read, MAX_CAPTURED_REQUEST_BYTES}
    <2>1. Captured # 0 /\ request.body[Captured] = "deep"
      BY <1>3 DEF LoadsAs
    <2>2. Captured \in DOMAIN request.body
      BY <1>1, <1>2, <2>1
    <2>3. /\ Captured <= read /\ Captured <= MAX_CAPTURED_REQUEST_BYTES
          /\ Captured \in {read, MAX_CAPTURED_REQUEST_BYTES}
      BY <1>1, <1>2 DEF Captured
    <2> QED
      BY <2>1, <2>2, <2>3
  <1>4. ASSUME NEW n \in DOMAIN request.body, request.body[n] = "deep",
               n <= read, n <= MAX_CAPTURED_REQUEST_BYTES, n \in {read, MAX_CAPTURED_REQUEST_BYTES}
        PROVE  LoadsAs = "deep"
    <2>1. n \in Nat /\ n # 0 /\ read \in Nat
      BY <1>1
    <2>2. Captured = n
      BY <1>2, <1>4, <2>1 DEF Captured
    <2> QED
      BY <1>4, <2>1, <2>2 DEF LoadsAs
  <1> QED
    BY <1>3, <1>4

(* What the request carries is a token or none.                            *)
LEMMA BearerTokenType ==
  ASSUME InputsStand
  PROVE  BearerToken \in DOMAIN Digest \cup {NoToken}
  <1>1. request.authorization \in Seq([scheme : STRING, token : DOMAIN Digest \cup {NoToken}])
    BY GatewayAssumption DEF InputsStand, Request
  <1> DEFINE given == request.authorization
  <1>2. Len(given) = 1 => given[1].token \in DOMAIN Digest \cup {NoToken}
    <2> HIDE DEF given
    <2> DEFINE Values == [scheme : STRING, token : DOMAIN Digest \cup {NoToken}]
    <2>1. Len(given) = 1 => given[1] \in Values
      <3>1. given \in Seq(Values)
        BY <1>1 DEF given
      <3> HIDE DEF Values
      <3> QED
        BY <3>1
    <2> QED
      BY <2>1
  <1> QED
    BY <1>2 DEF BearerToken

(* In an accepted configuration at most one record matches a token, so the *)
(* last that does is the one that does.                                    *)
LEMMA MatchIsUnique ==
  ASSUME tokens \in Document, Acceptable(tokens),
         NEW token \in DOMAIN Digest \cup {NoToken}, MatchToken(token) # Nobody
  PROVE  \E n \in 1..Len(tokens) :
           /\ token \in DOMAIN Digest
           /\ tokens[n].enabled
           /\ MatchToken(token) = tokens[n].id
           /\ \A m \in 1..Len(tokens) : tokens[m].token_sha256 = Digest[token] <=> m = n
  <1> DEFINE matching == {n \in 1..Len(tokens) : Matches(token, tokens[n])}
  <1>1. matching # {}
    BY DEF MatchToken
  <1>2. PICK n \in 1..Len(tokens) : Matches(token, tokens[n])
    BY <1>1
  <1>3. token \in DOMAIN Digest /\ tokens[n].token_sha256 = Digest[token] /\ tokens[n].enabled
    BY <1>2, GatewayAssumption DEF Matches
  <1>4. \A m \in 1..Len(tokens) : tokens[m].token_sha256 = Digest[token] <=> m = n
    BY <1>3 DEF Acceptable
  <1>5. matching = {n}
    BY <1>2, <1>3, <1>4 DEF Matches
  <1>6. Max(matching) = n
    BY <1>5 DEF Max
  <1>7. MatchToken(token) = tokens[n].id
    BY <1>1, <1>6 DEF MatchToken
  <1> QED
    BY <1>3, <1>4, <1>7

(* A token id is always that of a record.                                  *)
LEMMA MatchTokenType ==
  ASSUME tokens \in Document, Acceptable(tokens),
         NEW token \in DOMAIN Digest \cup {NoToken}
  PROVE  MatchToken(token) \in Ids \cup {Nobody}
  BY MatchIsUnique DEF Ids

(* The steps of the application leave the request, the configuration and   *)
(* what was decided about them alone.                                      *)
LEMMA DecisionStands ==
  ASSUME UNCHANGED <<config, token_id>>
  PROVE  /\ BearerToken' = BearerToken
         /\ MatchToken(BearerToken)' = MatchToken(BearerToken)
         /\ Acceptable(tokens)' = Acceptable(tokens)
         /\ Ids' = Ids
  BY DEF config, BearerToken, MatchToken, Matches, Acceptable, Ids

(* The inductive invariant.  The gate admits a request only for a token of *)
(* an accepted configuration; the tracker's body is what was sent up to    *)
(* the size of the buffer, and its flag tells whether more was sent; the   *)
(* record is made from these.                                              *)
THEOREM Inductive == Spec => []IInv
  <1> USE DEF config
  <1>1. Init => IInv
    <2> SUFFICES ASSUME Init PROVE IInv
      OBVIOUS
    <2>1. reply.size \in Nat \ {0} /\ Len(request.body) \in Nat
      BY BodyType, GatewayAssumption DEF Init, InputsStand, Reply
    <2>2. TypeOK
      <3>1. <<>> \in Document
        BY DEF Document
      <3>2. 0 \in 0..Len(request.body) /\ 0 \in 0..reply.size /\ 0 \in 0..MAX_LOGGED_RESPONSE_BYTES
        BY <2>1, GatewayAssumption
      <3> QED
        BY <3>1, <3>2 DEF Init, TypeOK
    <2>3. InputsStand /\ GatePassed /\ TrackerTells /\ RecordByPhase
      BY GatewayAssumption DEF Init, InputsStand, GatePassed, TrackerTells, RecordByPhase
    <2> QED
      BY <2>2, <2>3 DEF IInv
  <1>2. IInv /\ [Next]_vars => IInv'
    <2> SUFFICES ASSUME IInv, [Next]_vars PROVE IInv'
      OBVIOUS
    <2> USE DEF IInv
    <2>1. InputsStand'
      BY DEF InputsStand, Next, vars, Startup, Refuse, Admit, Receive, SendStart, SendBody,
             InnerEnds, InnerKillsServer, Over
    <2>2. reply.size \in Nat \ {0} /\ Len(request.body) \in Nat /\ reply.status \in Nat
      BY BodyType, GatewayAssumption DEF InputsStand, Reply
    <2>3. CASE Startup
      <3>1. tokens' \in Document /\ (phase' = "ready" => Acceptable(tokens)')
        BY <2>3, GatewayAssumption DEF Startup, TypeOK, Acceptable
      <3>2. phase = "starting" /\ phase' \in {"ready", "failed"} /\ UNCHANGED <<request, token_id, reply, read, status, sent, body, truncated, record>>
        BY <2>3 DEF Startup
      <3>3. token_id = Nobody
        BY <3>2 DEF GatePassed
      <3>4. TypeOK'
        BY <2>2, <3>1, <3>2, <3>3 DEF TypeOK
      <3>5. GatePassed'
        BY <3>1, <3>2, <3>3 DEF GatePassed
      <3>6. TrackerTells' /\ RecordByPhase'
        BY <3>2 DEF TrackerTells, RecordByPhase
      <3> QED
        BY <2>1, <3>4, <3>5, <3>6
    <2>4. CASE Refuse
      <3> USE <2>4 DEF Refuse
      <3>1. GateStatus \in Nat
        BY DEF GateStatus
      <3>2. TypeOK'
        BY <3>1, DecisionStands DEF TypeOK
      <3>3. GatePassed'
        BY DecisionStands DEF GatePassed
      <3>4. TrackerTells' /\ RecordByPhase'
        BY DEF TrackerTells, RecordByPhase
      <3> QED
        BY <2>1, <3>2, <3>3, <3>4
    <2>5. CASE Admit
      <3> USE <2>5 DEF Admit
      <3>1. MatchToken(BearerToken) \in Ids \cup {Nobody}
        BY BearerTokenType, MatchTokenType DEF TypeOK, GatePassed
      <3>2. MatchToken(BearerToken) # Nobody
        BY DEF GateStatus
      <3>3. BearerToken' = BearerToken /\ MatchToken(BearerToken)' = MatchToken(BearerToken) /\ Ids' = Ids
        BY DEF BearerToken, MatchToken, Matches, Ids
      <3>4. TypeOK'
        BY <3>1, <3>3 DEF TypeOK
      <3>5. GatePassed'
        BY <3>2, <3>3 DEF GatePassed, Acceptable
      <3>6. TrackerTells' /\ RecordByPhase'
        BY DEF TrackerTells, RecordByPhase
      <3> QED
        BY <2>1, <3>4, <3>5, <3>6
    <2>6. CASE Receive
      <3> USE <2>6 DEF Receive
      <3>1. TypeOK'
        BY <2>2, DecisionStands DEF TypeOK
      <3>2. GatePassed'
        BY DecisionStands DEF GatePassed
      <3>3. TrackerTells' /\ RecordByPhase'
        BY DEF TrackerTells, RecordByPhase
      <3> QED
        BY <2>1, <3>1, <3>2, <3>3
    <2>7. CASE SendStart
      <3> USE <2>7 DEF SendStart
      <3>1. TypeOK'
        BY <2>2, DecisionStands DEF TypeOK
      <3>2. GatePassed'
        BY DecisionStands DEF GatePassed
      <3>3. TrackerTells' /\ RecordByPhase'
        BY DEF TrackerTells, RecordByPhase
      <3> QED
        BY <2>1, <3>1, <3>2, <3>3
    <2>8. CASE SendBody
      <3> USE <2>8 DEF SendBody
      <3>1. PICK n \in 1..reply.size - sent :
              LET remaining == MAX_LOGGED_RESPONSE_BYTES - body
              IN  /\ sent' = sent + n
                  /\ truncated' = (truncated \/ n > remaining)
                  /\ body' = body + (IF n < remaining THEN n ELSE remaining)
        OBVIOUS
      <3>2. /\ sent \in Nat /\ body \in Nat /\ n \in Nat
            /\ MAX_LOGGED_RESPONSE_BYTES \in Nat /\ sent + n <= reply.size /\ n >= 1
        BY <2>2, <3>1, GatewayAssumption DEF TypeOK
      <3>3. /\ sent' = sent + n
            /\ body' = IF n < MAX_LOGGED_RESPONSE_BYTES - body THEN body + n ELSE MAX_LOGGED_RESPONSE_BYTES
        BY <3>1, <3>2
      <3>4. truncated' <=> truncated \/ n > MAX_LOGGED_RESPONSE_BYTES - body
        <4>1. truncated' = (truncated \/ n > MAX_LOGGED_RESPONSE_BYTES - body)
          BY <3>1
        <4> QED
          BY <4>1, Zenon
      <3>5. TrackerTells'
        <4>1. body' = IF sent + n < MAX_LOGGED_RESPONSE_BYTES THEN sent + n ELSE MAX_LOGGED_RESPONSE_BYTES
          BY <3>2, <3>3 DEF TrackerTells
        <4>2. (truncated \/ n > MAX_LOGGED_RESPONSE_BYTES - body) <=> sent + n > MAX_LOGGED_RESPONSE_BYTES
          <5>1. CASE sent < MAX_LOGGED_RESPONSE_BYTES
            BY <3>2, <5>1 DEF TrackerTells
          <5>2. CASE ~ (sent < MAX_LOGGED_RESPONSE_BYTES)
            BY <3>2, <5>2 DEF TrackerTells
          <5> QED
            BY <5>1, <5>2
        <4> QED
          BY <3>3, <3>4, <4>1, <4>2 DEF TrackerTells
      <3>6. TypeOK'
        BY <2>2, <3>1, <3>2, <3>5, DecisionStands DEF TypeOK, TrackerTells
      <3>7. GatePassed'
        BY DecisionStands DEF GatePassed
      <3>8. RecordByPhase'
        BY DEF RecordByPhase
      <3> QED
        BY <2>1, <3>5, <3>6, <3>7, <3>8
    <2>9. CASE InnerEnds
      <3> USE <2>9 DEF InnerEnds
      <3>1. TypeOK'
        BY <2>2, DecisionStands DEF TypeOK
      <3>2. GatePassed'
        BY DecisionStands DEF GatePassed
      <3>3. TrackerTells'
        BY DEF TrackerTells
      <3>4. Audit' = Audit /\ record = <<>>
        BY DEF Audit, FileCount, TotalBytes, LoadsAs, Captured, Recovered, ByStatus, RecordByPhase
      <3>5. Append(<<>>, Audit) = <<Audit>>
        OBVIOUS
      <3>6. LoadsAs' = LoadsAs
        BY DEF LoadsAs, Captured
      <3>7. RecordByPhase'
        BY <3>4, <3>5, <3>6 DEF RecordByPhase
      <3> QED
        BY <2>1, <3>1, <3>2, <3>3, <3>7
    <2>10. CASE InnerKillsServer
      <3> USE <2>10 DEF InnerKillsServer
      <3>1. TypeOK'
        BY <2>2, DecisionStands DEF TypeOK
      <3>2. GatePassed'
        BY DecisionStands DEF GatePassed
      <3>3. TrackerTells' /\ RecordByPhase'
        BY DEF TrackerTells, RecordByPhase
      <3> QED
        BY <2>1, <3>1, <3>2, <3>3
    <2>11. CASE UNCHANGED vars
      <3> USE <2>11 DEF vars
      <3>1. TypeOK' /\ GatePassed'
        BY DecisionStands DEF TypeOK, GatePassed
      <3>2. TrackerTells' /\ Audit' = Audit /\ LoadsAs' = LoadsAs
        BY DEF TrackerTells, Audit, FileCount, TotalBytes, LoadsAs, Captured, Recovered, ByStatus
      <3> QED
        BY <2>1, <3>1, <3>2 DEF RecordByPhase
    <2> QED
      BY <2>3, <2>4, <2>5, <2>6, <2>7, <2>8, <2>9, <2>10, <2>11 DEF Next, Over
  <1> QED
    BY <1>1, <1>2, PTL DEF Spec

(* Typing.  What is read, sent and kept stays within the request, the      *)
(* answer and the buffer, and a token id is one of the configuration's.    *)
THEOREM Typing == Spec => []TypeOK
  <1>1. IInv => TypeOK
    BY DEF IInv
  <1> QED
    BY <1>1, Inductive, PTL

(* One audit record for every request that reached the application, unless *)
(* the server ended under it or its body is nested too deeply to be read,  *)
(* and none for any other.                                                 *)
THEOREM OneRecord == Spec => []AuditedOnce
  <1>1. IInv => AuditedOnce
    <2> SUFFICES ASSUME IInv PROVE AuditedOnce
      OBVIOUS
    <2>1. Len(<<Audit>>) = 1 /\ Len(<<>>) = 0
      OBVIOUS
    <2>2. InputsStand /\ read \in 0..Len(request.body)
      BY DEF IInv, TypeOK
    <2> DEFINE tooDeep == \E n \in DOMAIN request.body :
                            /\ request.body[n] = "deep"
                            /\ n <= read /\ n <= MAX_CAPTURED_REQUEST_BYTES
                            /\ n \in {read, MAX_CAPTURED_REQUEST_BYTES}
    <2>3. LoadsAs = "deep" <=> tooDeep
      BY <2>2, DeepFront
    <2> HIDE DEF tooDeep
    <2>4. phase = "ended" => Len(record) = IF tooDeep THEN 0 ELSE 1
      BY <2>1, <2>3 DEF IInv, RecordByPhase
    <2>5. /\ phase # "ended" => record = <<>>
          /\ phase \notin {"inner", "ended", "killed"} => read = 0
      BY DEF IInv, RecordByPhase, GatePassed
    <2> QED
      BY <2>4, <2>5 DEF AuditedOnce, tooDeep
  <1> QED
    BY <1>1, Inductive, PTL

(* A request that reaches the application carried exactly one client's     *)
(* enabled token, and that client is the one its record names.             *)
THEOREM OneCaller == Spec => []AttributedToCaller
  <1>1. IInv => AttributedToCaller
    <2> SUFFICES ASSUME IInv, phase \in {"inner", "ended", "killed"}
                 PROVE  LET Carried(r) == BearerToken \in DOMAIN Digest
                                            /\ r.token_sha256 = Digest[BearerToken]
                        IN  /\ \E r \in ToSet(tokens) : r.enabled /\ Carried(r)
                            /\ {r.id : r \in {x \in ToSet(tokens) : Carried(x)}} = {token_id}
      BY DEF AttributedToCaller
    <2>1. PICK n \in 1..Len(tokens) :
            /\ BearerToken \in DOMAIN Digest
            /\ tokens[n].enabled
            /\ MatchToken(BearerToken) = tokens[n].id
            /\ \A m \in 1..Len(tokens) : tokens[m].token_sha256 = Digest[BearerToken] <=> m = n
      BY BearerTokenType, MatchIsUnique DEF IInv, TypeOK, GatePassed
    <2>2. ToSet(tokens) = {tokens[m] : m \in 1..Len(tokens)}
      BY DEF IInv, TypeOK, Document, ToSet
    <2>3. {x \in ToSet(tokens) : x.token_sha256 = Digest[BearerToken]} = {tokens[n]}
      BY <2>1, <2>2
    <2>4. token_id = tokens[n].id
      BY <2>1 DEF IInv, GatePassed
    <2> QED
      BY <2>1, <2>2, <2>3, <2>4
  <1> QED
    BY <1>1, Inductive, PTL

(* The audit record agrees with the answer: what it says of a tool's       *)
(* outcome is what the caller was told, it is marked when the answer was   *)
(* larger than the buffer, it never invents a clean-up, and it counts the  *)
(* files of a request that was kept whole.                                 *)
THEOREM RecordIsTrue == Spec => []RecordAgrees
  <1>1. IInv => RecordAgrees
    <2> SUFFICES ASSUME IInv, phase = "ended", NEW n \in 1..Len(record)
                 PROVE  LET r == record[n]
                        IN  /\ sent = reply.size /\ reply.form = "tool" /\ ~r.response_body_truncated
                                 => /\ r.execution_status = reply.execution_status
                                    /\ r.cleanup_status = reply.temporary_source_state
                            /\ r.response_body_truncated <=> sent > MAX_LOGGED_RESPONSE_BYTES
                            /\ r.cleanup_status # "unknown" =>
                                 sent = reply.size /\ r.cleanup_status = reply.temporary_source_state
                            /\ LET whole == Len(request.body)
                               IN  ( /\ read = whole
                                     /\ whole \in 1..MAX_CAPTURED_REQUEST_BYTES
                                     /\ request.body[whole] = "files"
                                     /\ request.total_bytes > 0 )
                                   => /\ r.file_count = request.file_count
                                      /\ r.total_bytes = request.total_bytes
      BY DEF RecordAgrees
    <2>1. record[n] = Audit
      <3>1. record = <<Audit>> \/ record = <<>>
        BY DEF IInv, RecordByPhase
      <3>2. record # <<>>
        OBVIOUS
      <3> QED
        BY <3>1, <3>2
    <2>2. sent \in Nat /\ sent <= reply.size /\ reply.size \in Nat /\ MAX_LOGGED_RESPONSE_BYTES \in Nat
      BY GatewayAssumption DEF IInv, TypeOK, InputsStand, Reply
    <2>3. Recovered => sent = reply.size
      BY <2>2 DEF IInv, TrackerTells, Recovered
    <2>4. sent = reply.size /\ reply.form = "tool" /\ ~truncated => Recovered
      BY <2>2 DEF IInv, TrackerTells, Recovered
    <2>5. truncated <=> sent > MAX_LOGGED_RESPONSE_BYTES
      BY DEF IInv, TrackerTells
    <2>6. ASSUME read = Len(request.body), Len(request.body) \in 1..MAX_CAPTURED_REQUEST_BYTES,
                 request.body[Len(request.body)] = "files", request.total_bytes > 0
          PROVE  FileCount = request.file_count /\ TotalBytes = request.total_bytes
      <3>1. Len(request.body) \in Nat /\ MAX_CAPTURED_REQUEST_BYTES \in Nat
        BY BodyType, GatewayAssumption DEF IInv
      <3>2. Captured = Len(request.body) /\ Captured # 0
        BY <2>6, <3>1 DEF Captured
      <3>3. LoadsAs = "files"
        BY <2>6, <3>2 DEF LoadsAs
      <3> QED
        BY <2>6, <3>3 DEF FileCount, TotalBytes
    <2>7. /\ record[n].file_count = FileCount /\ record[n].total_bytes = TotalBytes
          /\ record[n].response_body_truncated = truncated
          /\ record[n].execution_status =
               IF Recovered /\ reply.form = "tool" THEN reply.execution_status ELSE ByStatus
          /\ record[n].cleanup_status =
               IF Recovered /\ reply.form = "tool" THEN reply.temporary_source_state ELSE "unknown"
      BY <2>1 DEF Audit
    <2> QED
      BY <2>3, <2>4, <2>5, <2>6, <2>7
  <1> QED
    BY <1>1, Inductive, PTL
=============================================================================
