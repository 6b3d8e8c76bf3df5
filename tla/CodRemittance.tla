---------------------------- MODULE CodRemittance ----------------------------
(***************************************************************************)
(* The COD records of one merchant, from the delivery that creates them to  *)
(* the release of the money: remitCODService (finance/services/cod.service). *)
(* The record is read and its status tested outside the transaction; the    *)
(* transaction posts COD-<id>, saves the status over whatever is there and  *)
(* marks the shipment.                                                      *)
(***************************************************************************)
EXTENDS WalletCalls

CONSTANTS
  CodShipments,   \* shipments with isCOD, each with one COD record once delivered
  CodAmount

ASSUME CodAssumption ==
  /\ IsFiniteSet(CodShipments)
  /\ CodAmount \in [CodShipments -> Nat]

VARIABLES
  codRecord,   \* codRecord[c]: the status of the record, "none" before the delivery
  codStatus    \* codStatus[c] of the shipment

CodInit ==
  /\ codRecord = [c \in CodShipments |-> "none"]
  /\ codStatus = [c \in CodShipments |-> "PENDING"]

CodReference(c) == <<"COD", c>>

-------------------------------------------------------------------------------

\* The delivery transaction creates the record and fills the escrow.
Collect(c) ==
  /\ codRecord[c] = "none"
  /\ codRecord' = [codRecord EXCEPT ![c] = "PENDING"]
  /\ codStatus' = [codStatus EXCEPT ![c] = "COLLECTED"]
  /\ escrow' = escrow + CodAmount[c]
  /\ UNCHANGED <<balance, posted>>

\* Faulty variant: a distributor may remit what is not settled to Vexaro yet.
RemitsPending(task) == "PENDING"

\* The status a record must have for a Super Admin's or a distributor's call.
Expected(task) == IF task = "settleCOD" THEN "PENDING" ELSE "SETTLED_TO_VEXARO"

ReadCOD(k, c) ==
  /\ \E task \in {"settleCOD", "remitCOD"} :
       /\ codRecord[c] = Expected(task)
       /\ Arrive(k, task, c)
  /\ UNCHANGED <<walletVars, codRecord, codStatus>>

\* Super Admin.
SettleCOD(k) ==
  /\ At(k, "settleCOD")
  /\ codRecord' = [codRecord EXCEPT ![call[k].id] = "SETTLED_TO_VEXARO"]
  /\ Leave(k)
  /\ UNCHANGED <<walletVars, codStatus>>

\* Distributor: release, record and shipment, in one transaction.
RemitCOD(k) ==
  LET c == call[k].id IN
  /\ At(k, "remitCOD")
  /\ Release(Merchant, CodAmount[c], CodReference(c))
  /\ codRecord' = [codRecord EXCEPT ![c] = "REMITTED"]
  /\ codStatus' = [codStatus EXCEPT ![c] = "REMITTED"]
  /\ Leave(k)

CodStep(k) ==
  \/ \E c \in CodShipments : ReadCOD(k, c)
  \/ SettleCOD(k) \/ RemitCOD(k)

-------------------------------------------------------------------------------

CodTasks == {"settleCOD", "remitCOD"}

CodTypeOK ==
  /\ codRecord \in [CodShipments -> {"none", "PENDING", "SETTLED_TO_VEXARO", "REMITTED"}]
  /\ codStatus \in [CodShipments -> {"PENDING", "COLLECTED", "REMITTED"}]
  /\ escrow \in Nat
  /\ \A k \in Slots : call[k].task \in CodTasks => call[k].id \in CodShipments

PaidOut == {c \in CodShipments : CodReference(c) \in posted}

CodTotal(S) == MapThenSumSet(LAMBDA c : CodAmount[c], S)

\* COD money is conserved: the escrow holds exactly what was collected and is not
\* paid out, each record's amount once, however often and in whatever order stale
\* calls settle and remit it.
CODConserved ==
  escrow = CodTotal({c \in CodShipments : codRecord[c] # "none"}) - CodTotal(PaidOut)

\* A record that is REMITTED is paid out; and a payout is never forgotten by the
\* shipment, even when a stale Super Admin call takes the record back to
\* SETTLED_TO_VEXARO.
RemittedIsPaid ==
  \A c \in CodShipments :
    /\ codRecord[c] = "REMITTED" => c \in PaidOut
    /\ codStatus[c] = "REMITTED" <=> c \in PaidOut

\* A distributor never pays out money the Super Admin has not settled to Vexaro.
PaidAfterSettlement ==
  [][\A c \in CodShipments : CodReference(c) \in posted' \ posted =>
       codRecord[c] # "PENDING"]_<<walletVars, call, codRecord, codStatus>>

===============================================================================
