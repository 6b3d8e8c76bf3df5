-------------------------------- MODULE Calls --------------------------------
(***************************************************************************)
(* The slots in which concurrent requests run.  A request does its          *)
(* synchronous stretches one after the other, and what it read before an    *)
(* await is in its slot: by the fact that it has got that far, or in `seen`. *)
(***************************************************************************)
EXTENDS Integers, FiniteSets, FiniteSetsExt

CONSTANTS
  Slots,      \* slots for concurrent requests; a slot is reused
  MayAbort    \* transactions may abort, drivers err and the process die

ASSUME CallsAssumption == IsFiniteSet(Slots) /\ MayAbort \in BOOLEAN

VARIABLE call   \* call[k]: what the request in slot k does next, and to which document

Free == [task |-> "none", id |-> "none"]

CallsInit == call = [k \in Slots |-> Free]

Arrive(k, task, id) ==
  /\ call[k] = Free
  /\ call' = [call EXCEPT ![k] = [task |-> task, id |-> id]]

ArriveWith(k, task, id, seen) ==
  /\ call[k] = Free
  /\ call' = [call EXCEPT ![k] = [task |-> task, id |-> id, seen |-> seen]]

At(k, task) == call[k].task = task

Goto(k, task) == call' = [call EXCEPT ![k].task = task]

Leave(k) == call' = [call EXCEPT ![k] = Free]

\* The request is lost: a driver error, or the process dies.
Drop(k) ==
  /\ MayAbort
  /\ call[k] # Free
  /\ Leave(k)

===============================================================================
