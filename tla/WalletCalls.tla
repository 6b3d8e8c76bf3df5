------------------------------ MODULE WalletCalls ------------------------------
(***************************************************************************)
(* What the requests that end in applyTransaction share: the wallets and    *)
(* the references in the ledger.  A runInTransaction block is one step here *)
(* that happens or does not (WalletLedger!ImplementsLedger).                *)
(***************************************************************************)
EXTENDS Calls

CONSTANTS
  Users,
  Merchant,   \* the merchant of the shipments, refunds and top-ups
  Opening     \* opening balances

ASSUME WalletCallsAssumption ==
  /\ Merchant \in Users
  /\ Opening \in [Users -> Nat]

VARIABLES
  balance,
  escrow,   \* codEscrowBalance of the merchant
  posted    \* the references in the ledger

walletVars == <<balance, escrow, posted>>

WalletInit ==
  /\ balance = Opening
  /\ escrow = 0
  /\ posted = {}
  /\ CallsInit

-------------------------------------------------------------------------------
(* applyTransaction.                                                        *)

\* Faulty variants: the reference is not looked up; only its kind is; the
\* filter of the update does not test the amount.
NeverPosted(ref) == FALSE
KindPosted(ref) == \E other \in posted : other[1] = ref[1]
AlwaysCovered(u, amount) == TRUE

AlreadyPosted(ref) == ref \in posted

Covered(u, amount) == balance[u] >= amount

Credit(u, amount, ref) ==
  IF AlreadyPosted(ref) THEN UNCHANGED walletVars
  ELSE /\ balance' = [balance EXCEPT ![u] = @ + amount]
       /\ posted' = posted \cup {ref}
       /\ UNCHANGED escrow

Debit(u, amount, ref) ==
  IF AlreadyPosted(ref) THEN UNCHANGED walletVars
  ELSE /\ Covered(u, amount)
       /\ balance' = [balance EXCEPT ![u] = @ - amount]
       /\ posted' = posted \cup {ref}
       /\ UNCHANGED escrow

\* Faulty variant: a release leaves the escrow as it is.
ReleaseTwice(u, amount, ref) ==
  IF AlreadyPosted(ref) THEN UNCHANGED walletVars
  ELSE /\ escrow >= amount
       /\ balance' = [balance EXCEPT ![u] = @ + amount]
       /\ posted' = posted \cup {ref}
       /\ UNCHANGED escrow

\* COD_CREDIT: from the escrow to the balance.
Release(u, amount, ref) ==
  IF AlreadyPosted(ref) THEN UNCHANGED walletVars
  ELSE /\ escrow >= amount
       /\ escrow' = escrow - amount
       /\ balance' = [balance EXCEPT ![u] = @ + amount]
       /\ posted' = posted \cup {ref}

\* Whatever a request has in hand is lost; nothing of its transaction remains.
Abort(k) == Drop(k) /\ UNCHANGED walletVars

===============================================================================
