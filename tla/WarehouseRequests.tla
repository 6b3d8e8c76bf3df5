--------------------------- MODULE WarehouseRequests ---------------------------
(***************************************************************************)
(* users/warehouse-change-request.service.js: a merchant asks for another   *)
(* address of his warehouse, and his distributor decides.                   *)
(*   create:  the pending requests of the warehouse are looked up, then the *)
(*            request is created;                                           *)
(*   approve: the request is read PENDING; the warehouse gets the address;  *)
(*            then the request is saved APPROVED;                           *)
(*   reject, cancel: read PENDING, then saved.                              *)
(* An administrator edits the warehouse directly: a Mongoose document saves *)
(* the fields that differ from what was loaded.  The carrier knows the      *)
(* address that was last registered with it.                                *)
(***************************************************************************)
EXTENDS Calls

CONSTANTS
  Changes,      \* change requests of one warehouse
  Wanted,       \* [Changes -> addresses]
  FirstAddress,
  AdminWants    \* addresses an administrator may type

ASSUME WarehouseAssumption ==
  /\ DOMAIN Wanted = Changes
  /\ \A a \in {FirstAddress} \cup AdminWants \cup {Wanted[q] : q \in Changes} :
       DOMAIN a = {"street", "pincode"}

VARIABLES
  change,      \* change[q]: the status, "none" before the request exists
  address,     \* of the warehouse: its street (with the city) and its pincode
  registered,  \* the address the carrier picks up at
  applied      \* the requests whose address was given to the warehouse

warehouseVars == <<change, address, registered, applied>>

WarehouseInit ==
  /\ change = [q \in Changes |-> "none"]
  /\ address = FirstAddress
  /\ registered = FirstAddress
  /\ applied = {}

-------------------------------------------------------------------------------
(* createAddressChangeRequestService.                                       *)

AskForChange(k, q) ==
  /\ change[q] = "none"
  /\ \A j \in Slots : call[j].id # q
  /\ Arrive(k, "findPendingChange", q)
  /\ UNCHANGED warehouseVars

FindPendingChange(k) ==
  /\ At(k, "findPendingChange")
  /\ IF \E q \in Changes : change[q] = "PENDING" THEN Leave(k) ELSE Goto(k, "createChange")
  /\ UNCHANGED warehouseVars

SaveChange(k, status) ==
  /\ change' = [change EXCEPT ![call[k].id] = status]
  /\ Leave(k)
  /\ UNCHANGED <<address, registered, applied>>

CreateChange(k) == At(k, "createChange") /\ SaveChange(k, "PENDING")

-------------------------------------------------------------------------------
(* The three answers.                                                       *)

ReadChange(k, q) ==
  /\ change[q] = "PENDING"
  /\ \E answer \in {"applyAddress", "rejectChange", "cancelChange"} :
       ArriveWith(k, answer, q, change[q])
  /\ UNCHANGED warehouseVars

\* Faulty variant: the request is saved before the warehouse.
AnswerFirst(k) ==
  /\ At(k, "applyAddress")
  /\ change' = [change EXCEPT ![call[k].id] = "APPROVED"]
  /\ Goto(k, "saveApproval")
  /\ UNCHANGED <<address, registered, applied>>

ApplyAddress(k) ==
  /\ At(k, "applyAddress")
  /\ address' = Wanted[call[k].id]
  /\ applied' = applied \cup {call[k].id}
  /\ Goto(k, "saveApproval")
  /\ UNCHANGED <<change, registered>>

SaveApproval(k) == At(k, "saveApproval") /\ SaveChange(k, "APPROVED")

RejectChange(k) == At(k, "rejectChange") /\ SaveChange(k, "REJECTED")

CancelChange(k) == At(k, "cancelChange") /\ SaveChange(k, "CANCELLED")

-------------------------------------------------------------------------------
(* updateWarehouseService and syncWarehouseToVelocityService.               *)

ReadWarehouse(k) ==
  /\ \E task \in {"editWarehouse", "register"} : ArriveWith(k, task, "warehouse", address)
  /\ UNCHANGED warehouseVars

EditWarehouse(k) ==
  /\ At(k, "editWarehouse")
  /\ \E a \in AdminWants :
       address' = [part \in DOMAIN address |->
                     IF a[part] # call[k].seen[part] THEN a[part] ELSE address[part]]
  /\ Leave(k)
  /\ UNCHANGED <<change, registered, applied>>

\* createWarehouse at the carrier, which may refuse.
Register(k) ==
  /\ At(k, "register")
  /\ registered' \in {call[k].seen, registered}
  /\ Leave(k)
  /\ UNCHANGED <<change, address, applied>>

LoseChange(k) == Drop(k) /\ UNCHANGED warehouseVars

WarehouseStep(k) ==
  \/ \E q \in Changes : AskForChange(k, q) \/ ReadChange(k, q)
  \/ FindPendingChange(k) \/ CreateChange(k)
  \/ ApplyAddress(k) \/ SaveApproval(k) \/ RejectChange(k) \/ CancelChange(k)
  \/ ReadWarehouse(k) \/ EditWarehouse(k) \/ Register(k) \/ LoseChange(k)

-------------------------------------------------------------------------------

Answers == {"APPROVED", "REJECTED", "CANCELLED"}

AnswerTasks == {"saveApproval", "rejectChange", "cancelChange"}

Addresses == {FirstAddress} \cup AdminWants \cup {Wanted[q] : q \in Changes}

WarehouseTypeOK ==
  /\ change \in [Changes -> {"none", "PENDING"} \cup Answers]
  /\ applied \subseteq Changes
  /\ \A part \in {"street", "pincode"} :
       /\ address[part] \in {a[part] : a \in Addresses}
       /\ registered[part] \in {a[part] : a \in Addresses}

\* A request is called APPROVED - and its merchant told so - only when the
\* warehouse was given its address, wherever an approval is cut off and
\* whatever rejection or cancellation of the same request it races.
ApprovedWasApplied == \A q \in Changes : change[q] = "APPROVED" => q \in applied

===============================================================================
