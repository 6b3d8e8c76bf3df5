----------------------------- MODULE LedgerTypes -----------------------------
(***************************************************************************)
(* The vocabulary of the wallet ledger: the requests that move money, the  *)
(* Transaction documents they leave behind and what it means for the       *)
(* documents of one wallet to explain its balance.  Amounts are whole      *)
(* paise; the program keeps them as JavaScript numbers.                    *)
(***************************************************************************)
EXTENDS Integers, Sequences

CONSTANTS
  Wallets,          \* wallet documents, one per user
  Requests,         \* money-moving requests, each one run of runInTransaction
  Legs,             \* Legs[r]: the applyTransaction calls request r makes, in order
  References,       \* values of Transaction.reference
  InitialBalance,   \* balance of each wallet before the first request
  InitialEscrow     \* codEscrowBalance of each wallet before the first request

\* The transaction types that take money out of the balance; every other type
\* adds to it.
DebitTypes ==
  {"DEBIT", "CHARGE", "SETTLEMENT", "TRANSFER_DEBIT", "DISPUTE_CHARGE", "RTO_CHARGE"}

TransactionTypes ==
  DebitTypes \cup {"TOPUP", "REFUND", "COD_CREDIT", "TRANSFER_CREDIT", "CREDIT"}

Leg == [wallet : Wallets, type : TransactionTypes,
        amount : Nat \ {0}, ref : References]

\* A Transaction document.
Entry == [ref : References, type : TransactionTypes, amount : Nat \ {0},
          before : Int, after : Int]

ASSUME LegsAssumption == Legs \in [Requests -> Seq(Leg)]

\* Every reference is built from the id of one shipment, payment, request or
\* settlement and names one party, so it belongs to one wallet, type and amount.
ReferenceNamesOneLeg ==
  \A r, q \in Requests : \A i \in DOMAIN Legs[r], j \in DOMAIN Legs[q] :
    Legs[r][i].ref = Legs[q][j].ref => Legs[r][i] = Legs[q][j]

ASSUME InitialAssumption ==
  /\ InitialBalance \in [Wallets -> Nat]
  /\ InitialEscrow \in [Wallets -> Nat]

\* What a movement of this type and amount does to the balance.
Effect(type, amount) == IF type \in DebitTypes THEN -amount ELSE amount

\* The entries of one wallet, oldest first, lead from balance start to balance
\* end: each starts where the one before it ended, and each changes the balance
\* by its own amount.
Linked(entries, start, end) ==
  /\ entries = << >> => end = start
  /\ entries # << >> => /\ entries[1].before = start
                        /\ entries[Len(entries)].after = end
  /\ \A i \in 1 .. Len(entries) - 1 : entries[i + 1].before = entries[i].after
  /\ \A i \in 1 .. Len(entries) :
       entries[i].after = entries[i].before + Effect(entries[i].type, entries[i].amount)

\* No reference is posted twice.
PostedOnce(entries) ==
  \A i, j \in 1 .. Len(entries) : entries[i].ref = entries[j].ref => i = j

\* The leg is recorded among the entries.
RecordedIn(entries, lg) ==
  \E i \in 1 .. Len(entries) :
    /\ entries[i].ref = lg.ref
    /\ entries[i].type = lg.type
    /\ entries[i].amount = lg.amount

\* later keeps every entry of earlier, in place.
Extends(later, earlier) ==
  /\ Len(earlier) <= Len(later)
  /\ \A i \in 1 .. Len(earlier) : later[i] = earlier[i]

\* An entry that records one of the legs of request r on wallet w.
IsLegOf(e, r, w) ==
  \E i \in 1 .. Len(Legs[r]) :
    /\ Legs[r][i].wallet = w
    /\ e.ref = Legs[r][i].ref
    /\ e.type = Legs[r][i].type
    /\ e.amount = Legs[r][i].amount

=============================================================================
