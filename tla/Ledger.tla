-------------------------------- MODULE Ledger --------------------------------
(***************************************************************************)
(* What the finance module promises, without transactions, sessions or      *)
(* interleavings: one atomic step posts a whole request.  Either every leg  *)
(* of the request is in the ledger afterwards or nothing happened; a leg    *)
(* whose reference is already posted is not posted again; no posted entry   *)
(* is ever changed or removed; the entries of a wallet always explain its   *)
(* balance, which never goes below zero.                                    *)
(***************************************************************************)
EXTENDS LedgerTypes

VARIABLES balance, ledger

ledgerVars == <<balance, ledger>>

LedgerInit ==
  /\ balance = InitialBalance
  /\ ledger = [w \in Wallets |-> << >>]

\* The wallet is in order: a balance that may be spent, each reference once.
InOrder(w) ==
  /\ balance[w] \in Nat
  /\ Linked(ledger[w], InitialBalance[w], balance[w])
  /\ PostedOnce(ledger[w])

Post(r) ==
  /\ \A w \in Wallets : Extends(ledger'[w], ledger[w])
  /\ \A w \in Wallets : \A k \in Len(ledger[w]) + 1 .. Len(ledger'[w]) :
       IsLegOf(ledger'[w][k], r, w)
  /\ \A i \in 1 .. Len(Legs[r]) :
       RecordedIn(ledger'[Legs[r][i].wallet], Legs[r][i])
  /\ \A w \in Wallets : InOrder(w)'

LedgerNext == \E r \in Requests : Post(r)

LedgerSpec == LedgerInit /\ [][LedgerNext]_ledgerVars

=============================================================================
