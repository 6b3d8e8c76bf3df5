----------------------------- MODULE Idempotency -----------------------------
(***************************************************************************)
(* middleware/idempotency.middleware.js: requests that carry the same       *)
(* X-Idempotency-Key.  The key is looked up, then inserted under a unique   *)
(* index as inFlight, then the route runs.  res.json sends the answer, and  *)
(* the record is updated - or, after a server error, deleted - by a call    *)
(* that nothing waits for.  MongoDB's TTL monitor removes records a day     *)
(* old.                                                                     *)
(***************************************************************************)
EXTENDS Naturals, FiniteSets

CONSTANTS
  Requests,   \* requests with the same key, each sent any number of times
  MayFail     \* the process may die, and the record's update may fail

ASSUME IdempotencyAssumption == MayFail \in BOOLEAN

VARIABLES
  record,   \* the Idempotency document: "none", "inFlight" or "done"
  pc,       \* pc[r]: where request r is
  saving,   \* updates of the record that are on their way
  answers   \* answers below 500 that the route gave since the key was last free of age

idemVars == <<record, pc, saving, answers>>

IdemInit ==
  /\ record = "none"
  /\ pc = [r \in Requests |-> "unsent"]
  /\ saving = {}
  /\ answers = 0

Proceed(r, next) == pc' = [pc EXCEPT ![r] = next]

Sleeping == {"unsent", "conflict", "failed", "answered", "replayed"}

\* A client sends the request, or sends it again.
Send(r) ==
  /\ pc[r] \in Sleeping
  /\ Proceed(r, "lookUp")
  /\ UNCHANGED <<record, saving, answers>>

\* findOne: a finished record answers for the request, one in flight refuses it.
LookUp(r) ==
  /\ pc[r] = "lookUp"
  /\ Proceed(r, CASE record = "none" -> "acquire"
               [] record = "inFlight" -> "conflict"
               [] record = "done" -> "replayed")
  /\ UNCHANGED <<record, saving, answers>>

\* Faulty variant: the index on key is not unique.
AlwaysFree == TRUE

KeyFree == record = "none"

\* create: a collision answers 409.
Acquire(r) ==
  /\ pc[r] = "acquire"
  /\ IF KeyFree THEN Proceed(r, "running") /\ record' = "inFlight"
     ELSE Proceed(r, "conflict") /\ UNCHANGED record
  /\ UNCHANGED <<saving, answers>>

\* The route answers with a status below 500 ...
Answer(r) ==
  /\ pc[r] = "running"
  /\ Proceed(r, "answered")
  /\ answers' = answers + 1
  /\ saving' = saving \cup {"done"}
  /\ UNCHANGED record

\* Faulty variants: a server error is cached as well; it marks the record.
KeepsErrors(r) ==
  /\ pc[r] = "running"
  /\ Proceed(r, "failed")
  /\ saving' = saving \cup {"done"}
  /\ UNCHANGED <<record, answers>>
MarksErrors(r) ==
  /\ pc[r] = "running"
  /\ Proceed(r, "failed")
  /\ saving' = saving \cup {"failed"}
  /\ UNCHANGED <<record, answers>>

\* ... or with a server error.
AnswerError(r) ==
  /\ pc[r] = "running"
  /\ Proceed(r, "failed")
  /\ saving' = saving \cup {"none"}
  /\ UNCHANGED <<record, answers>>

\* findOneAndUpdate or deleteOne reaches the database.
SaveRecord(new) ==
  /\ new \in saving
  /\ record' = IF record = "none" THEN "none" ELSE new
  /\ saving' = saving \ {new}
  /\ UNCHANGED <<pc, answers>>

\* "[Idempotency] Save failed": it is logged only.
SaveFails(new) ==
  /\ MayFail
  /\ new \in saving
  /\ saving' = saving \ {new}
  /\ UNCHANGED <<record, pc, answers>>

\* The process dies while the route runs.
Die(r) ==
  /\ MayFail
  /\ pc[r] = "running"
  /\ Proceed(r, "failed")
  /\ UNCHANGED <<record, saving, answers>>

\* The TTL monitor: no request lives as long as its record.
Expire ==
  /\ record # "none"
  /\ saving = {}
  /\ \A r \in Requests : pc[r] \in Sleeping
  /\ record' = "none"
  /\ answers' = 0
  /\ UNCHANGED <<pc, saving>>

Handle(r) == LookUp(r) \/ Acquire(r) \/ Answer(r) \/ AnswerError(r)

IdemStep ==
  \/ \E r \in Requests : Send(r) \/ Handle(r) \/ Die(r)
  \/ \E new \in {"done", "none"} : SaveRecord(new) \/ SaveFails(new)
  \/ Expire

-------------------------------------------------------------------------------

IdemTypeOK ==
  /\ record \in {"none", "inFlight", "done"}
  /\ pc \in [Requests -> Sleeping \cup {"lookUp", "acquire", "running"}]
  /\ saving \subseteq {"done", "none"}
  /\ answers \in Nat

\* However requests with one key race, are sent again, fail, or find the record
\* half saved, the route gives one answer that may have moved money, and never
\* runs for two of them at the same time - until the record is a day old.
EffectOnce ==
  /\ answers <= 1
  /\ Cardinality({r \in Requests : pc[r] = "running"}) <= 1

\* An answer that is replayed was given: no request is told of a success, or
\* refused, on the strength of one that failed.
ReplayedWasGiven ==
  [][\A r \in Requests : pc'[r] = "replayed" /\ pc[r] # "replayed" => answers = 1]_idemVars

===============================================================================
