------------------------------ MODULE MCGateway -------------------------------
(* Constants for checking Gateway: two clients, one of them disabled, any  *)
(* two-record configuration, requests that differ from a good one in at    *)
(* most one respect, bodies around a buffer of two bytes and answers       *)
(* around one of three.                                                    *)
EXTENDS Gateway, TLC

Digests == ("t1" :> "d1") @@ ("t2" :> "d2") @@ ("t3" :> "d3")

TokenRecord(id, digest, enabled) == [id |-> id, token_sha256 |-> digest, enabled |-> enabled]

SomeRecords == {TokenRecord(i, d, e) : i \in {"a", "b"}, d \in {"d1", "d2", "zero"}, e \in BOOLEAN}

AnyDocument == UNION {[1..n -> SomeRecords] : n \in 0..2}

Bearer(token) == [scheme |-> "bearer", token |-> token]

Good == [path |-> "/mcp", method |-> "POST", query |-> FALSE, host |-> <<"good">>,
         authorization |-> <<Bearer("t1")>>, origin |-> <<"good">>,
         body |-> <<"other", "files">>, file_count |-> 2, total_bytes |-> 1]

Headers == {<<>>, <<"good">>, <<"other">>, <<"undecodable">>, <<"good", "good">>}

Authorizations ==
  {<<>>, <<[scheme |-> "basic", token |-> "t1"]>>, <<Bearer("none")>>,
   <<Bearer("t2")>>, <<Bearer("t3")>>, <<Bearer("t1"), Bearer("t1")>>}

\* Bodies that are larger than their buffer, two of them nested too deeply, one
\* of these only beyond the buffer; one that is no document, and none.
Bodies == {<<"other", "other", "files">>, <<"other", "files", "other">>, <<"other", "other">>,
           <<"other", "deep", "deep">>, <<"other", "other", "deep">>, <<>>}

AnyRequest ==
  {Good} \cup {[Good EXCEPT !.authorization = a] : a \in Authorizations}
    \cup {[Good EXCEPT !.host = h] : h \in Headers}
    \cup {[Good EXCEPT !.origin = o] : o \in Headers}
    \cup {[Good EXCEPT !.method = m] : m \in {"GET", "PUT"}}
    \cup {[Good EXCEPT !.path = p] : p \in {"/healthz", "other"}}
    \cup {[Good EXCEPT !.path = "/healthz", !.method = "GET"], [Good EXCEPT !.query = TRUE]}
    \cup {[Good EXCEPT !.body = b, !.total_bytes = t] : b \in Bodies, t \in 0..1}

ToolReply(size, execution, state) ==
  [form |-> "tool", status |-> 200, size |-> size, execution_status |-> execution,
   temporary_source_state |-> state]

AnyReply ==
  {ToolReply(n, "completed", "deleted") : n \in 1..5}
    \cup {ToolReply(n, "busy", "not_created") : n \in 2..4}
    \cup {[ToolReply(2, "none", "none") EXCEPT !.form = f, !.status = c] :
            f \in {"json", "text"}, c \in {200, 413}}
=============================================================================
