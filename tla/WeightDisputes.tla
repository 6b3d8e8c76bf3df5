---------------------------- MODULE WeightDisputes ----------------------------
(***************************************************************************)
(* disputes/services: the carrier weighed more than was declared.           *)
(*   raise:   in one transaction the merchant, then his distributor, pay    *)
(*            the extra charge and the dispute is created OPEN for 3 days;  *)
(*   proof:   the merchant's; the dispute is read OPEN, and saved           *)
(*            UNDER_REVIEW after the shipment was looked up;                *)
(*   resolve: the dispute is read OPEN or UNDER_REVIEW; the transaction     *)
(*            gives both their money back if it is approved, and saves.     *)
(* Overdue OPEN disputes become EXPIRED at midnight, and CLOSED - a status  *)
(* the schema does not know - when somebody lists the disputes before that. *)
(***************************************************************************)
EXTENDS WalletCalls

CONSTANTS
  Weighed,         \* shipments found too heavy; each has at most one dispute
  DistributorOf,   \* [Weighed -> users, or NoDistributor]
  NoDistributor,
  Extra            \* [Weighed -> Nat]: what is charged

ASSUME WeighedAssumption ==
  /\ IsFiniteSet(Weighed)
  /\ NoDistributor \notin Users
  /\ DistributorOf \in [Weighed -> (Users \ {Merchant}) \cup {NoDistributor}]
  /\ Extra \in [Weighed -> Nat]

VARIABLES
  dispute,   \* dispute[s]: its status, "none" before it is raised
  overdue    \* the disputes whose disputeExpiresAt is past

disputeVars == <<dispute, overdue>>

DisputeInit ==
  /\ dispute = [s \in Weighed |-> "none"]
  /\ overdue = {}

Payers(s) == {Merchant, DistributorOf[s]} \ {NoDistributor}

ChargeReference(s, u) == <<"DISP", s, u>>

ReversalReference(s, u) == <<"REVS", s, u>>

-------------------------------------------------------------------------------
(* raiseWeightDisputeService: one transaction.                              *)

\* Faulty variant: the distributor is left out of the charge.
MerchantOnly(s) == {Merchant}

ShipmentFree(s) == dispute[s] = "none"

Charged(s) == Payers(s)

\* applyTransaction on each of the users in turn, of which all or none happen.
ChargeAll(s, who) ==
  LET due == {u \in who : ChargeReference(s, u) \notin posted} IN
  /\ \A u \in due : Covered(u, Extra[s])
  /\ balance' = [u \in Users |-> balance[u] - IF u \in due THEN Extra[s] ELSE 0]
  /\ posted' = posted \cup {ChargeReference(s, u) : u \in who}
  /\ UNCHANGED escrow

ReverseAll(s, who) ==
  LET due == {u \in who : ReversalReference(s, u) \notin posted} IN
  /\ balance' = [u \in Users |-> balance[u] + IF u \in due THEN Extra[s] ELSE 0]
  /\ posted' = posted \cup {ReversalReference(s, u) : u \in who}
  /\ UNCHANGED escrow

RaiseDispute(s) ==
  /\ ShipmentFree(s)
  /\ ChargeAll(s, Charged(s))
  /\ dispute' = [dispute EXCEPT ![s] = "OPEN"]
  /\ UNCHANGED <<call, overdue>>

-------------------------------------------------------------------------------
(* Time.                                                                    *)

BecomeOverdue(s) ==
  /\ dispute[s] # "none"
  /\ s \notin overdue
  /\ overdue' = overdue \cup {s}
  /\ UNCHANGED <<walletVars, call, dispute>>

OverdueOpen == {s \in overdue : dispute[s] = "OPEN"}

EndOverdue(status) ==
  /\ OverdueOpen # {}
  /\ dispute' = [s \in Weighed |-> IF s \in OverdueOpen THEN status ELSE dispute[s]]
  /\ UNCHANGED <<walletVars, call, overdue>>

\* expireDisputesWorker.
ExpireDisputes == EndOverdue("EXPIRED")

\* listWeightDisputesService.
ListWeightDisputes == EndOverdue("CLOSED")

-------------------------------------------------------------------------------
(* submitDisputeProofService.  The proof counts as long as the dispute is   *)
(* OPEN, overdue or not.                                                    *)

BeginProof(k, s) ==
  /\ dispute[s] = "OPEN"
  /\ ArriveWith(k, "saveProof", s, dispute[s])
  /\ UNCHANGED <<walletVars, disputeVars>>

SaveDispute(k, status) ==
  /\ dispute' = [dispute EXCEPT ![call[k].id] = status]
  /\ Leave(k)
  /\ UNCHANGED overdue

SaveProof(k) ==
  /\ At(k, "saveProof")
  /\ SaveDispute(k, "UNDER_REVIEW")
  /\ UNCHANGED walletVars

-------------------------------------------------------------------------------
(* resolveWeightDisputeService.                                             *)

Undecided == {"OPEN", "UNDER_REVIEW"}

\* Faulty variant: the status that was read is not tested.
Found(s) == dispute[s] # "none"

AwaitsRuling(s) == dispute[s] \in Undecided

BeginResolution(k, s) ==
  /\ AwaitsRuling(s)
  /\ \E ruling \in {"approveDispute", "rejectDispute"} : ArriveWith(k, ruling, s, dispute[s])
  /\ UNCHANGED <<walletVars, disputeVars>>

ApproveDispute(k) ==
  /\ At(k, "approveDispute")
  /\ ReverseAll(call[k].id, Payers(call[k].id))
  /\ SaveDispute(k, "APPROVED")

RejectDispute(k) ==
  /\ At(k, "rejectDispute")
  /\ SaveDispute(k, "REJECTED")
  /\ UNCHANGED walletVars

LoseDispute(k) == Abort(k) /\ UNCHANGED disputeVars

DisputeStep ==
  \/ \E s \in Weighed : RaiseDispute(s) \/ BecomeOverdue(s)
  \/ ExpireDisputes \/ ListWeightDisputes
  \/ \E k \in Slots :
       \/ \E s \in Weighed : BeginProof(k, s) \/ BeginResolution(k, s)
       \/ SaveProof(k) \/ ApproveDispute(k) \/ RejectDispute(k) \/ LoseDispute(k)

-------------------------------------------------------------------------------

DisputeTasks == {"saveProof", "approveDispute", "rejectDispute"}

Rulings == {"APPROVED", "REJECTED", "EXPIRED", "CLOSED"}

DisputeTypeOK ==
  /\ dispute \in [Weighed -> {"none"} \cup Undecided \cup Rulings]
  /\ overdue \subseteq Weighed

\* What the disputes cost user u, by the references in the ledger.
DisputeCost(u) ==
  MapThenSumSet(LAMBDA s : Extra[s], {s \in Weighed : ChargeReference(s, u) \in posted})
  - MapThenSumSet(LAMBDA s : Extra[s], {s \in Weighed : ReversalReference(s, u) \in posted})

\* A shipment that has a dispute has charged the merchant and his distributor,
\* once each; an APPROVED one has given both what it took; nothing is given
\* back that was not taken; and that is all that happened to their wallets -
\* however proofs, rulings and the two expiries race.
DisputeMoneyExplained ==
  /\ \A u \in Users : balance[u] = Opening[u] - DisputeCost(u)
  /\ \A s \in Weighed : \A u \in Payers(s) :
       /\ dispute[s] # "none" => ChargeReference(s, u) \in posted
       /\ dispute[s] = "APPROVED" => ReversalReference(s, u) \in posted
       /\ ReversalReference(s, u) \in posted => ChargeReference(s, u) \in posted

===============================================================================
