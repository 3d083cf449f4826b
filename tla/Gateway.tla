------------------------------- MODULE Gateway -------------------------------
(***************************************************************************)
(* The server's front: the configuration it starts with, the gate that a   *)
(* request passes before the MCP application sees it, and the audit record *)
(* that is recovered afterwards from the bytes that went by.  Requests     *)
(* share nothing but the configuration, so one request is followed.        *)
(*                                                                         *)
(* The MCP application is external: it reads the request in chunks, sends  *)
(* a status and a body in chunks, and may stop anywhere, by returning, by  *)
(* an exception or by cancellation.                                        *)
(***************************************************************************)
EXTENDS Naturals, Sequences, SequencesExt, FiniteSetsExt

CONSTANTS
  Documents,   \* what the configuration file may hold, see Document
  Requests,    \* what may arrive, see Request
  Replies,     \* what the application may answer, see Reply
  Digest,      \* the SHA-256 digest of each token
  NoToken,     \* stands for a token that is None
  Nobody,      \* no token id
  ZeroDigest,  \* "0" * 64
  MAX_LOGGED_RESPONSE_BYTES,
  MAX_CAPTURED_REQUEST_BYTES   \* 8 * 1024 * 1024

TokenRecords == [id : STRING, token_sha256 : STRING, enabled : BOOLEAN]

(* A configuration file whose fields are well formed.                      *)
Document == Seq(TokenRecords)

(* Headers are the sequences of their values, each "good", "other" or      *)
(* "undecodable"; of the authorization header, values [scheme, token],     *)
(* whose token is NoToken when more or less than one word follows.  Of the *)
(* body, what json.loads makes of its first n bytes, for each n from 1 on: *)
(* "files" a document whose arguments have a list of files, or none at     *)
(* all, "deep" a nesting at which it gives up with a RecursionError, and   *)
(* "other" anything else; the list has file_count files of total_bytes.    *)
Request == [path : {"/healthz", "/mcp", "other"}, method : STRING, query : BOOLEAN,
            host : Seq(STRING), origin : Seq(STRING),
            body : Seq({"files", "deep", "other"}), file_count : Nat, total_bytes : Nat,
            authorization : Seq([scheme : STRING, token : DOMAIN Digest \cup {NoToken}])]

(* form   "tool" an answer of the scan tool, "json" a JSON document in     *)
(*        which the keys of such an answer are looked up and not found,    *)
(*        "text" bytes for which json.loads or the lookup fails            *)
Reply == [form : {"tool", "json", "text"}, status : Nat, size : Nat \ {0},
          execution_status : STRING, temporary_source_state : STRING]

ASSUME GatewayAssumption ==
  /\ Documents \subseteq Document
  /\ Requests \subseteq Request
  /\ Replies \subseteq Reply
  /\ NoToken \notin DOMAIN Digest
  /\ ZeroDigest \notin {Digest[t] : t \in DOMAIN Digest}
  /\ MAX_LOGGED_RESPONSE_BYTES \in Nat
  /\ MAX_CAPTURED_REQUEST_BYTES \in Nat

VARIABLES
  phase,    \* "starting", "failed", "ready", "inner", "refused", "ended", "killed"
  tokens,   \* config.tokens, once it is loaded
  request,  \* the request that is served
  token_id, \* whose token it carries
  reply,    \* what the application sets out to answer
  read,     \* request bytes the application has received
  status,   \* the status sent, 0 before
  sent,     \* response bytes sent
  body,     \* response bytes in the tracker
  truncated,\* the tracker's flag
  record    \* the audit records written for the request

vars == <<phase, tokens, request, token_id, reply, read, status, sent, body, truncated, record>>
config == <<tokens, request, reply>>

Init ==
  /\ phase = "starting"
  /\ tokens = <<>>
  /\ request \in Requests
  /\ reply \in Replies
  /\ token_id = Nobody
  /\ read = 0
  /\ status = 0
  /\ sent = 0
  /\ body = 0
  /\ truncated = FALSE
  /\ record = <<>>

-----------------------------------------------------------------------------
(* Starting up.                                                            *)

(* Mutant: digests may be shared, as long as the ids differ.               *)
AcceptableIds(document) ==
  /\ \A m, n \in 1..Len(document) : m # n => document[m].id # document[n].id
  /\ \E n \in 1..Len(document) : document[n].enabled

(* load_config: ids and digests are unique, and one token is enabled.      *)
Acceptable(document) ==
  /\ \A m, n \in 1..Len(document) :
       m # n => /\ document[m].id # document[n].id
                /\ document[m].token_sha256 # document[n].token_sha256
  /\ \E n \in 1..Len(document) : document[n].enabled

(* _LazyConfiguredApp builds the application when the lifespan starts; a   *)
(* configuration that is refused fails the lifespan, and uvicorn exits.    *)
Startup ==
  /\ phase = "starting"
  /\ \E document \in Documents :
       IF Acceptable(document) THEN tokens' = document /\ phase' = "ready"
                               ELSE phase' = "failed" /\ UNCHANGED tokens
  /\ UNCHANGED <<request, token_id, reply, read, status, sent, body, truncated, record>>

-----------------------------------------------------------------------------
(* The gate.                                                               *)

(* _bearer_token: one header, the right scheme, one word after it.         *)
BearerToken ==
  IF Len(request.authorization) = 1 /\ request.authorization[1].scheme = "bearer"
  THEN request.authorization[1].token ELSE NoToken

Matches(token, r) ==
  LET candidate == IF token \in DOMAIN Digest THEN Digest[token] ELSE ZeroDigest
  IN  token # NoToken /\ candidate = r.token_sha256 /\ r.enabled

(* _match_token looks at every record and keeps the last that matches.     *)
MatchToken(token) ==
  LET matching == {n \in 1..Len(tokens) : Matches(token, tokens[n])}
  IN  IF matching = {} THEN Nobody ELSE tokens[Max(matching)].id

OriginAllowed == request.origin = <<>> \/ request.origin = <<"good">>

(* What __call__ answers before the application is asked; 0 to ask it.     *)
GateStatus ==
  CASE request.path = "/healthz" -> IF request.method = "GET" THEN 200 ELSE 405
    [] request.path = "other"    -> 404
    [] OTHER ->
         CASE request.query                                    -> 400
           [] request.host # <<"good">>                        -> 421
           [] request.method \notin {"GET", "POST", "DELETE"}  -> 405
           [] MatchToken(BearerToken) = Nobody                 -> 401
           [] ~OriginAllowed                                   -> 403
           [] OTHER                                            -> 0

Refuse ==
  /\ phase = "ready"
  /\ GateStatus # 0
  /\ status' = GateStatus
  /\ phase' = "refused"
  /\ UNCHANGED <<config, token_id, read, sent, body, truncated, record>>

Admit ==
  /\ phase = "ready"
  /\ GateStatus = 0
  /\ token_id' = MatchToken(BearerToken)
  /\ phase' = "inner"
  /\ UNCHANGED <<config, read, status, sent, body, truncated, record>>

-----------------------------------------------------------------------------
(* The application, through tracked_receive and _ResponseTracker.          *)

Receive ==
  /\ phase = "inner"
  /\ \E n \in 1..Len(request.body) - read : read' = read + n
  /\ UNCHANGED <<phase, config, token_id, status, sent, body, truncated, record>>

SendStart ==
  /\ phase = "inner"
  /\ status = 0
  /\ status' = reply.status
  /\ UNCHANGED <<phase, config, token_id, read, sent, body, truncated, record>>

(* Mutant: the whole chunk is kept while there is any room.                *)
SendBodyUncut ==
  /\ phase = "inner"
  /\ status # 0
  /\ \E n \in 1..reply.size - sent :
       LET remaining == MAX_LOGGED_RESPONSE_BYTES - body
       IN  /\ sent' = sent + n
           /\ truncated' = (truncated \/ n > remaining)
           /\ body' = body + (IF remaining > 0 THEN n ELSE 0)
  /\ UNCHANGED <<phase, config, token_id, read, status, record>>

(* Mutant: a chunk that fills the buffer exactly counts as cut.            *)
SendBodyFull ==
  /\ phase = "inner"
  /\ status # 0
  /\ \E n \in 1..reply.size - sent :
       LET remaining == MAX_LOGGED_RESPONSE_BYTES - body
       IN  /\ sent' = sent + n
           /\ truncated' = (truncated \/ n >= remaining)
           /\ body' = body + (IF n < remaining THEN n ELSE remaining)
  /\ UNCHANGED <<phase, config, token_id, read, status, record>>

SendBody ==
  /\ phase = "inner"
  /\ status # 0
  /\ \E n \in 1..reply.size - sent :
       LET remaining == MAX_LOGGED_RESPONSE_BYTES - body
       IN  /\ sent' = sent + n
           /\ truncated' = (truncated \/ n > remaining)
           /\ body' = body + (IF n < remaining THEN n ELSE remaining)
  /\ UNCHANGED <<phase, config, token_id, read, status, record>>

(* json.loads accepts the captured bytes when they are the whole document. *)
Recovered == body = reply.size /\ reply.form # "text"

(* tracker.status is 500 until a status is sent.                           *)
ByStatus == IF status \in 1..299 THEN "completed" ELSE "failed"

(* The bytes of the request that tracked_receive kept.                     *)
Captured == IF read < MAX_CAPTURED_REQUEST_BYTES THEN read ELSE MAX_CAPTURED_REQUEST_BYTES

(* What json.loads makes of them in _request_metadata.                     *)
LoadsAs == IF Captured = 0 THEN "other" ELSE request.body[Captured]

FileCount == IF LoadsAs = "files" THEN request.file_count ELSE 0

(* Without a readable answer a request of no content counts what was read. *)
TotalBytes ==
  LET total == IF LoadsAs = "files" THEN request.total_bytes ELSE Captured
  IN  IF total = 0 /\ ~Recovered THEN read ELSE total

(* The record of _log_request.                                             *)
Audit ==
  [token_id |-> token_id,
   file_count |-> FileCount,
   total_bytes |-> TotalBytes,
   execution_status |-> IF Recovered /\ reply.form = "tool" THEN reply.execution_status ELSE ByStatus,
   cleanup_status |-> IF Recovered /\ reply.form = "tool" THEN reply.temporary_source_state ELSE "unknown",
   response_body_truncated |-> truncated]

(* Mutant: the record is written after the application, not in a finally.  *)
InnerReturns ==
  /\ phase = "inner"
  /\ phase' = "ended"
  /\ record' = IF sent = reply.size /\ LoadsAs # "deep" THEN Append(record, Audit) ELSE record
  /\ UNCHANGED <<config, token_id, read, status, sent, body, truncated>>

(* It returns, raises or is cancelled: the finally clause runs.  Its first *)
(* call is _request_metadata, which does not catch the RecursionError; the *)
(* error leaves the clause before the record is written.                   *)
InnerEnds ==
  /\ phase = "inner"
  /\ phase' = "ended"
  /\ record' = IF LoadsAs = "deep" THEN record ELSE Append(record, Audit)
  /\ UNCHANGED <<config, token_id, read, status, sent, body, truncated>>

(* os._exit(70) of a failed clean-up, see ScanService: no finally runs.    *)
InnerKillsServer ==
  /\ phase = "inner"
  /\ phase' = "killed"
  /\ UNCHANGED <<config, token_id, read, status, sent, body, truncated, record>>

Over == phase \in {"failed", "refused", "ended", "killed"} /\ UNCHANGED vars

Next ==
  \/ Startup \/ Refuse \/ Admit
  \/ Receive \/ SendStart \/ SendBody \/ InnerEnds \/ InnerKillsServer
  \/ Over

Spec == Init /\ [][Next]_vars

-----------------------------------------------------------------------------
(* Properties.                                                             *)

Ids == {tokens[n].id : n \in 1..Len(tokens)}

(* Every variable keeps to the values the code can give it.                *)
TypeOK ==
  /\ phase \in {"starting", "failed", "ready", "inner", "refused", "ended", "killed"}
  /\ tokens \in Document
  /\ token_id \in Ids \cup {Nobody}
  /\ read \in 0..Len(request.body)
  /\ status \in Nat
  /\ sent \in 0..reply.size
  /\ body \in 0..MAX_LOGGED_RESPONSE_BYTES
  /\ truncated \in BOOLEAN

(* Whatever the application does, a request that reached it leaves exactly *)
(* one audit record, unless the server was ended under it or the captured  *)
(* part of its body is nested too deeply for json.loads: then it leaves    *)
(* none.  A request that did not reach the application leaves none, and    *)
(* nothing of its body was read.                                           *)
AuditedOnce ==
  /\ phase = "ended" =>
       Len(record) = IF \E n \in DOMAIN request.body :
                           /\ request.body[n] = "deep"
                           /\ n <= read /\ n <= MAX_CAPTURED_REQUEST_BYTES
                           /\ n \in {read, MAX_CAPTURED_REQUEST_BYTES}
                     THEN 0 ELSE 1
  /\ phase # "ended" => record = <<>>
  /\ phase \notin {"inner", "ended", "killed"} => read = 0

(* The record names one client, the only one whose enabled token the       *)
(* request carried.                                                        *)
AttributedToCaller ==
  phase \in {"inner", "ended", "killed"} =>
    LET Carried(r) == BearerToken \in DOMAIN Digest /\ r.token_sha256 = Digest[BearerToken]
    IN  /\ \E r \in ToSet(tokens) : r.enabled /\ Carried(r)
        /\ {r.id : r \in {x \in ToSet(tokens) : Carried(x)}} = {token_id}

(* The record tells the outcome the caller was told: when the answer of a  *)
(* tool went out whole, the record has its status, or is flagged as cut    *)
(* off, and it is flagged only when the answer was larger than the buffer. *)
(* It never names a clean-up that no answer named.  A request of files     *)
(* that was read whole and fitted its own buffer is counted as it is.      *)
RecordAgrees ==
  phase = "ended" =>
    \A n \in 1..Len(record) :
      LET r == record[n]
      IN  /\ sent = reply.size /\ reply.form = "tool" /\ ~r.response_body_truncated
               => /\ r.execution_status = reply.execution_status
                  /\ r.cleanup_status = reply.temporary_source_state
          /\ r.response_body_truncated <=> sent > MAX_LOGGED_RESPONSE_BYTES
          /\ r.cleanup_status # "unknown" =>
               sent = reply.size /\ r.cleanup_status = reply.temporary_source_state
          /\ LET whole == Len(request.body)
             IN  ( /\ read = whole
                   /\ whole \in 1..MAX_CAPTURED_REQUEST_BYTES
                   /\ request.body[whole] = "files"
                   /\ request.total_bytes > 0 )
                 => /\ r.file_count = request.file_count
                    /\ r.total_bytes = request.total_bytes

(* The inductive invariant.  The gate decides by a configuration that was  *)
(* accepted, the tracker tells what it was sent from what it kept, and the *)
(* one record there may be was made from what still stands.                *)
InputsStand ==
  /\ request \in Requests
  /\ reply \in Replies

GatePassed ==
  /\ phase \notin {"starting", "failed"} => Acceptable(tokens)
  /\ phase \in {"inner", "ended", "killed"} =>
       /\ token_id = MatchToken(BearerToken)
       /\ token_id # Nobody
  /\ phase \notin {"inner", "ended", "killed"} => token_id = Nobody /\ read = 0

TrackerTells ==
  /\ body = IF sent < MAX_LOGGED_RESPONSE_BYTES THEN sent ELSE MAX_LOGGED_RESPONSE_BYTES
  /\ truncated <=> sent > MAX_LOGGED_RESPONSE_BYTES

RecordByPhase == record = IF phase = "ended" /\ LoadsAs # "deep" THEN <<Audit>> ELSE <<>>

IInv ==
  /\ TypeOK
  /\ InputsStand
  /\ GatePassed
  /\ TrackerTells
  /\ RecordByPhase
=============================================================================
