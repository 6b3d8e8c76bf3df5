------------------------------ MODULE Settlements ------------------------------
(***************************************************************************)
(* finance/services/settlement.service.js: a settlement is requested, and a *)
(* Super Admin later completes or fails it.                                 *)
(*   create:  two look-ups (duplicate, circular), then the insert;          *)
(*   process: the document is read and its status tested; the transaction   *)
(*            posts the debit if it succeeds and saves the status over      *)
(*            whatever is there by now.                                     *)
(***************************************************************************)
EXTENDS WalletCalls

CONSTANTS
  Settled,         \* settlements, each asked for once
  From, To,        \* who asks whom: [Settled -> Users]
  SettledAmount,   \* [Settled -> Nat]
  SettledReference \* [Settled -> references]: the caller's, or SETTLE-<id>

ASSUME SettlementAssumption ==
  /\ IsFiniteSet(Settled)
  /\ From \in [Settled -> Users] /\ To \in [Settled -> Users]
  /\ \A s \in Settled : From[s] # To[s]
  /\ SettledAmount \in [Settled -> Nat \ {0}]
  /\ DOMAIN SettledReference = Settled

VARIABLES
  settlement,   \* settlement[s]: the status, "none" before the insert
  taken         \* the settlements whose own debit is in the ledger

settlementVars == <<settlement, taken>>

SettlementInit ==
  /\ settlement = [s \in Settled |-> "none"]
  /\ taken = {}

Pending(s) == settlement[s] = "PENDING"

-------------------------------------------------------------------------------
(* createSettlementService.                                                 *)

Creating(s) ==
  \E k \in Slots :
    call[k].id = s /\ call[k].task \in {"lookForDuplicate", "lookForCircle", "insert"}

AskForSettlement(k, s) ==
  /\ settlement[s] = "none" /\ ~Creating(s)
  /\ Arrive(k, "lookForDuplicate", s)
  /\ UNCHANGED <<walletVars, settlementVars>>

Duplicate(s) ==
  \E t \in Settled : /\ Pending(t)
                     /\ From[t] = From[s] /\ To[t] = To[s]
                     /\ SettledAmount[t] = SettledAmount[s]

Circular(s) == \E t \in Settled : Pending(t) /\ From[t] = To[s] /\ To[t] = From[s]

LookForDuplicate(k) ==
  /\ At(k, "lookForDuplicate")
  /\ IF Duplicate(call[k].id) THEN Leave(k) ELSE Goto(k, "lookForCircle")
  /\ UNCHANGED <<walletVars, settlementVars>>

LookForCircle(k) ==
  /\ At(k, "lookForCircle")
  /\ IF Circular(call[k].id) THEN Leave(k) ELSE Goto(k, "insert")
  /\ UNCHANGED <<walletVars, settlementVars>>

Insert(k) ==
  /\ At(k, "insert")
  /\ settlement' = [settlement EXCEPT ![call[k].id] = "PENDING"]
  /\ Leave(k)
  /\ UNCHANGED <<walletVars, taken>>

-------------------------------------------------------------------------------
(* processSettlementService.                                                *)

ReadSettlement(k, s) ==
  /\ Pending(s)
  /\ \E decision \in {"complete", "fail"} : Arrive(k, decision, s)
  /\ UNCHANGED <<walletVars, settlementVars>>

\* A reference that is in the ledger already - another settlement's, where their
\* callers passed the same one - passes for this settlement's debit.
Complete(k) ==
  LET s == call[k].id IN
  /\ At(k, "complete")
  /\ Debit(To[s], SettledAmount[s], SettledReference[s])
  /\ taken' = IF AlreadyPosted(SettledReference[s]) THEN taken ELSE taken \cup {s}
  /\ settlement' = [settlement EXCEPT ![s] = "COMPLETED"]
  /\ Leave(k)

\* Insufficient balance: the transaction is aborted.
NotCovered(k) ==
  LET s == call[k].id IN
  /\ At(k, "complete")
  /\ ~AlreadyPosted(SettledReference[s])
  /\ ~Covered(To[s], SettledAmount[s])
  /\ Leave(k)
  /\ UNCHANGED <<walletVars, settlementVars>>

FailSettlement(k) ==
  /\ At(k, "fail")
  /\ settlement' = [settlement EXCEPT ![call[k].id] = "FAILED"]
  /\ Leave(k)
  /\ UNCHANGED <<walletVars, taken>>

SettlementStep(k) ==
  \/ \E s \in Settled : AskForSettlement(k, s) \/ ReadSettlement(k, s)
  \/ LookForDuplicate(k) \/ LookForCircle(k) \/ Insert(k)
  \/ Complete(k) \/ NotCovered(k) \/ FailSettlement(k)

-------------------------------------------------------------------------------

SettlementTasks == {"lookForDuplicate", "lookForCircle", "insert", "complete", "fail"}

SettlementTypeOK ==
  /\ settlement \in [Settled -> {"none", "PENDING", "COMPLETED", "FAILED"}]
  /\ taken \subseteq Settled
  /\ \A k \in Slots : call[k].task \in SettlementTasks => call[k].id \in Settled

SettledFrom(u) == MapThenSumSet(LAMBDA s : SettledAmount[s], {s \in taken : To[s] = u})

SameReference(s, t) == SettledReference[s] = SettledReference[t]

\* A settlement is COMPLETED - and its target told so - only when it was debited,
\* or one whose caller passed the same reference was; of those that share a
\* reference one at most is debited, however they are processed; and none that
\* was debited can be processed again.  (It may read FAILED: a decision that read
\* it before writes over the other.)
CompletedIsTaken ==
  /\ \A s \in Settled : settlement[s] = "COMPLETED" => \E t \in taken : SameReference(s, t)
  /\ \A s, t \in taken : SameReference(s, t) => s = t
  /\ \A s \in taken : settlement[s] \in {"COMPLETED", "FAILED"}

===============================================================================
