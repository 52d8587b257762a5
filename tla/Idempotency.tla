------------------------------ MODULE Idempotency ------------------------------
(***************************************************************************)
(* IdempotencyInterceptor: the requests that carry one key in one scope,   *)
(* the record they race for, and the writes that are sent off without      *)
(* anybody waiting for them.  What a handler does is left to the module    *)
(* that composes this one: it takes a request from "run" to Succeed or     *)
(* Fail.  Nothing in the repository sweeps a record before it expires.     *)
(***************************************************************************)
EXTENDS Naturals, FiniteSets

CONSTANTS Calls,       \* requests with the same key: a first one and its retries
          Hashes       \* requestHash: of a request's target and body

VARIABLES records,     \* the IdempotencyRecord of the key, if there is one
          call,        \* what each request is doing, and how it ended
          writes       \* updates and deletes under way
idempotency == <<records, call, writes>>

Nothing == "nothing"
Outcomes == {"succeeded", "failed", "replayed", "conflict", "reused", "died"}
Start(c, pc) == call' = [call EXCEPT ![c].pc = pc]
Answer(c, outcome, body) == call' = [call EXCEPT ![c].pc = outcome, ![c].body = body]

\* claim, the INSERT: the unique constraint on (scope, key) lets one through.
Claim(c, hash) ==
    /\ call[c].pc = "idle"
    /\ \/ /\ records = {}
          /\ records' = {[status |-> "IN_FLIGHT", hash |-> hash, response |-> Nothing]}
          /\ call' = [call EXCEPT ![c].pc = "run", ![c].hash = hash]
       \/ /\ records # {} /\ UNCHANGED records
          /\ call' = [call EXCEPT ![c].pc = "consult", ![c].hash = hash]
    /\ UNCHANGED writes

BugConsult(c) ==
    /\ call[c].pc = "consult"
    /\ \/ \A r \in records : r.status = "IN_FLIGHT" /\ Start(c, "run")
       \/ \E r \in records : r.status = "COMPLETED" /\ Answer(c, "replayed", r.response)
    /\ UNCHANGED <<records, writes>>
\* claim, the read after a violation. No row any more: a fresh key.
Consult(c) ==
    /\ call[c].pc = "consult"
    /\ \/ records = {} /\ Start(c, "run")
       \/ \E r \in records :
            \/ r.hash # call[c].hash /\ Answer(c, "reused", Nothing)
            \/ /\ r.hash = call[c].hash /\ r.status = "IN_FLIGHT"
               /\ Answer(c, "conflict", Nothing)
            \/ /\ r.hash = call[c].hash /\ r.status = "COMPLETED"
               /\ Answer(c, "replayed", r.response)
    /\ UNCHANGED <<records, writes>>

\* runAndStore: the answer leaves at once, the record follows or does not.
Succeed(c, body) ==
    /\ Answer(c, "succeeded", body)
    /\ writes' = writes \cup {[by |-> c, kind |-> "store", body |-> body]}
    /\ UNCHANGED records
Fail(c) ==
    /\ Answer(c, "failed", Nothing)
    /\ writes' = writes \cup {[by |-> c, kind |-> "release", body |-> Nothing]}
    /\ UNCHANGED records

\* Both find the row by its key: whoever's it is by now, or nobody's.
Lands(w) ==
    /\ w \in writes /\ writes' = writes \ {w}
    /\ records' = IF w.kind = "release" THEN {}
                  ELSE {[r EXCEPT !.status = "COMPLETED", !.response = w.body] : r \in records}
    /\ UNCHANGED call

\* The process that serves c dies, with what it had not written yet. One that
\* has run nothing is a request the client never sent.
Running(c) == call[c].pc \notin {"idle", "consult"} \cup Outcomes
Die(c) ==
    /\ Running(c) \/ \E w \in writes : w.by = c
    /\ writes' = {w \in writes : w.by # c}
    /\ IF Running(c) THEN Answer(c, "died", Nothing) ELSE UNCHANGED call
    /\ UNCHANGED records

IdempotencyInit ==
    /\ records = {} /\ writes = {}
    /\ call = [c \in Calls |-> [pc |-> "idle", hash |-> Nothing, body |-> Nothing]]
=============================================================================
