------------------------------ MODULE FinanceDesk ------------------------------
(***************************************************************************)
(* The finance module at work: settlements, refund requests, COD remittance *)
(* and Razorpay top-ups run concurrently, in the same slots and on the same *)
(* wallets and ledger.  A delivery ends the refunds of its shipment and     *)
(* starts its COD record.                                                   *)
(***************************************************************************)
EXTENDS Settlements, RefundRequests, CodRemittance, RazorpayPayments

CONSTANT Shipments

ASSUME DeskAssumption ==
  /\ CodShipments \subseteq Shipments
  /\ RefundOf \in [Refunds -> Shipments]

refundVars == <<refund, delivered>>
codVars == <<codRecord, codStatus>>
paymentVars == <<payment, gateway, event>>

vars == <<walletVars, call, settlementVars, refundVars, codVars, paymentVars>>

Init ==
  /\ WalletInit
  /\ SettlementInit /\ RefundInit /\ CodInit /\ PaymentInit

\* The delivery transaction of a shipment.
Deliver(s) ==
  /\ s \notin delivered
  /\ delivered' = delivered \cup {s}
  /\ IF s \in CodShipments THEN Collect(s) ELSE UNCHANGED <<walletVars, codVars>>
  /\ UNCHANGED <<call, settlementVars, refund, paymentVars>>

Settling(k) == SettlementStep(k) /\ UNCHANGED <<refundVars, codVars, paymentVars>>

Refunding(k) == RefundStep(k) /\ UNCHANGED <<settlementVars, codVars, paymentVars>>

Remitting(k) == CodStep(k) /\ UNCHANGED <<settlementVars, refundVars, paymentVars>>

Paying(k) == PaymentStep(k) /\ UNCHANGED <<settlementVars, refundVars, codVars>>

Losing(k) ==
  /\ Abort(k)
  /\ EventLost(k)
  /\ UNCHANGED <<settlementVars, refundVars, codVars, payment, gateway>>

AtGateway == GatewayStep /\ UNCHANGED <<settlementVars, refundVars, codVars>>

Next ==
  \/ \E k \in Slots :
       Settling(k) \/ Refunding(k) \/ Remitting(k) \/ Paying(k) \/ Losing(k)
  \/ \E s \in Shipments : Deliver(s)
  \/ AtGateway

Spec == Init /\ [][Next]_vars

\* The gateway repeats the delivery of an event until one is answered, and a
\* request that has begun goes on or is lost.
Delivers(p) == event[p] = "due" /\ \E k \in Slots : CapturedEvent(k, p)

FairSpec ==
  /\ Spec
  /\ \A k \in Slots : WF_vars(Paying(k) /\ call[k] # Free)
  /\ \A p \in Attempts : SF_vars(Delivers(p) /\ UNCHANGED <<settlementVars, refundVars, codVars>>)

-------------------------------------------------------------------------------

TypeOK ==
  /\ balance \in [Users -> Nat]
  /\ delivered \subseteq Shipments
  /\ SettlementTypeOK /\ RefundTypeOK /\ CodTypeOK /\ PaymentTypeOK
  /\ \A k \in Slots :
       call[k] = Free \/ call[k].task \in SettlementTasks \cup RefundTasks
                                            \cup CodTasks \cup PaymentTasks

\* What has come to a user's wallet and left it, by the documents of all four
\* workflows whose reference is in the ledger.
Earned(u) ==
  IF u = Merchant THEN Refunded + CodTotal(PaidOut) + ToppedUp ELSE 0

\* Every wallet holds its opening balance, plus what each refund request, COD
\* record and order brought it, once and in its own amount, less what each
\* settlement took - however calls, events and repetitions of them interleave.
BalanceExplained ==
  \A u \in Users : balance[u] = Opening[u] + Earned(u) - SettledFrom(u)

\* What a document says was paid, was: settlements taken, refunds credited, COD
\* amounts remitted - and the escrow holds the rest.
DocumentsArePaid == CompletedIsTaken /\ ApprovedIsCredited /\ RemittedIsPaid /\ CODConserved

===============================================================================
