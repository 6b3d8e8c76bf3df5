----------------------------- MODULE WalletLedger -----------------------------
(***************************************************************************)
(* applyTransaction (finance/services/payment.service.js) inside            *)
(* runInTransaction (utils/transaction.js), on top of MongoDB.              *)
(*                                                                          *)
(* A request runs the legs of Legs[r] one after the other; every await of   *)
(* applyTransaction is a step, so other requests run in between:            *)
(*   read the wallet - look the reference up - conditional $inc - insert    *)
(*   the Transaction document, then commitTransaction.                      *)
(* Against a replica set the steps read and write a private snapshot of the *)
(* store; a write to a wallet that another open transaction has written, or *)
(* that another one has committed since the snapshot, fails at once with a  *)
(* WriteConflict, and runInTransaction aborts and rethrows.  Against a      *)
(* standalone server runInTransaction passes no session: every step acts on *)
(* the store itself and nothing is rolled back.                             *)
(***************************************************************************)
EXTENDS LedgerTypes, FiniteSetsExt

CONSTANTS
  LiveWallets,     \* wallets that exist and are active; the others answer 404 or 400
  Transactional,   \* the server is a replica set
  CodAmount,       \* what one COD delivery puts in escrow
  MaxFailures,     \* bound on driver errors and process deaths
  MaxRetries,      \* bound on repetitions of a request by its caller
  MaxDeliveries    \* bound on COD deliveries

ASSUME WalletLedgerAssumption ==
  /\ IsFiniteSet(Wallets)
  /\ LiveWallets \subseteq Wallets
  /\ Transactional \in BOOLEAN
  /\ CodAmount \in Nat \ {0}
  /\ MaxFailures \in Nat /\ MaxRetries \in Nat /\ MaxDeliveries \in Nat

VARIABLES
  db,         \* the committed store: balance, escrow and Transaction documents per wallet
  view,       \* view[r]: the snapshot of request r with its own writes
  pc,         \* pc[r]: the await request r has reached
  leg,        \* leg[r]: the applyTransaction call in progress
  doc,        \* doc[r]: the wallet document in memory
  wrote,      \* wrote[r]: wallets written by the open transaction of r
  missed,     \* missed[r]: wallets others have committed since r's snapshot
  failures, retries, deliveries

vars == <<db, view, pc, leg, doc, wrote, missed, failures, retries, deliveries>>

Store == [balance : [Wallets -> Int], escrow : [Wallets -> Int],
          ledger : [Wallets -> Seq(Entry)]]

InitialStore == [balance |-> InitialBalance, escrow |-> InitialEscrow,
                 ledger |-> [w \in Wallets |-> << >>]]

NoDoc == [before |-> 0, escrow |-> 0, after |-> 0]

Init ==
  /\ db = InitialStore
  /\ view = [r \in Requests |-> InitialStore]
  /\ pc = [r \in Requests |-> "idle"]
  /\ leg = [r \in Requests |-> 1]
  /\ doc = [r \in Requests |-> NoDoc]
  /\ wrote = [r \in Requests |-> {}]
  /\ missed = [r \in Requests |-> {}]
  /\ failures = 0
  /\ retries = 0
  /\ deliveries = 0

Open == {"wallet", "reference", "update", "insert", "commit"}

-------------------------------------------------------------------------------
(* The session of a request.                                                *)

Call(r) == Legs[r][leg[r]]

\* What request r reads: its snapshot, or the store when there is no session.
See(r) == IF Transactional THEN view[r] ELSE db

\* What request r writes: its snapshot, or the store at once.
Put(r, store) ==
  IF Transactional THEN /\ view' = [view EXCEPT ![r] = store]
                        /\ UNCHANGED db
                   ELSE /\ db' = store
                        /\ UNCHANGED view

\* Where request r goes after the leg it is working on.
AfterLeg(r) ==
  IF leg[r] < Len(Legs[r])
    THEN /\ leg' = [leg EXCEPT ![r] = leg[r] + 1]
         /\ pc' = [pc EXCEPT ![r] = "wallet"]
    ELSE /\ pc' = [pc EXCEPT ![r] = "commit"]
         /\ UNCHANGED leg

\* The store with the wallets that request r has written taken from its view.
Committed(r) ==
  LET Choose(mine, theirs) ==
        [w \in Wallets |-> IF w \in wrote[r] THEN mine[w] ELSE theirs[w]]
  IN [balance |-> Choose(view[r].balance, db.balance),
      escrow  |-> Choose(view[r].escrow, db.escrow),
      ledger  |-> Choose(view[r].ledger, db.ledger)]

\* Faulty variant: an error leads to commitTransaction.
CommitOnError(r) ==
  /\ pc' = [pc EXCEPT ![r] = "failed"]
  /\ db' = IF Transactional THEN Committed(r) ELSE db
  /\ wrote' = [wrote EXCEPT ![r] = {}]
  /\ missed' = [q \in Requests |-> missed[q] \cup wrote[r]]
  /\ UNCHANGED <<view, leg, doc, failures, retries, deliveries>>

\* An error anywhere in fn: abortTransaction drops the session's writes, and
\* the error reaches the caller.  Without a session the writes stay.
Abort(r) ==
  /\ pc' = [pc EXCEPT ![r] = "failed"]
  /\ wrote' = [wrote EXCEPT ![r] = {}]
  /\ UNCHANGED <<db, view, leg, doc, missed, failures, retries, deliveries>>

Begin(r) ==
  /\ pc[r] = "idle"
  /\ view' = IF Transactional THEN [view EXCEPT ![r] = db] ELSE view
  /\ missed' = [missed EXCEPT ![r] = {}]
  /\ leg' = [leg EXCEPT ![r] = 1]
  /\ pc' = [pc EXCEPT ![r] = IF Legs[r] = << >> THEN "commit" ELSE "wallet"]
  /\ UNCHANGED <<db, doc, wrote, failures, retries, deliveries>>

-------------------------------------------------------------------------------
(* applyTransaction.                                                        *)

\* findWalletByUserId finds an active wallet.
FindWallet(r) ==
  /\ pc[r] = "wallet"
  /\ Call(r).wallet \in LiveWallets
  /\ doc' = [doc EXCEPT ![r] = [before |-> See(r).balance[Call(r).wallet],
                                escrow |-> See(r).escrow[Call(r).wallet],
                                after |-> See(r).balance[Call(r).wallet]]]
  /\ pc' = [pc EXCEPT ![r] = "reference"]
  /\ UNCHANGED <<db, view, leg, wrote, missed, failures, retries, deliveries>>

\* No wallet (404) or an inactive one (400).
WalletUnusable(r) ==
  /\ pc[r] = "wallet"
  /\ Call(r).wallet \notin LiveWallets
  /\ Abort(r)

\* Faulty variants: the reference is not looked up, or only the type is.
NeverPosted(r) == FALSE
PostedByType(r) ==
  \E w \in Wallets : \E i \in 1 .. Len(See(r).ledger[w]) :
    See(r).ledger[w][i].type = Call(r).type

\* findTransaction({ reference }) is not restricted to the wallet or the type.
AlreadyPosted(r) ==
  \E w \in Wallets : \E i \in 1 .. Len(See(r).ledger[w]) :
    See(r).ledger[w][i].ref = Call(r).ref

\* The escrow of the document read at the start must cover a COD_CREDIT.
EscrowRead(r) == Call(r).type = "COD_CREDIT" => doc[r].escrow >= Call(r).amount

\* alreadyProcessed: the leg returns without moving money.
SkipPosted(r) ==
  /\ pc[r] = "reference"
  /\ AlreadyPosted(r)
  /\ AfterLeg(r)
  /\ UNCHANGED <<db, view, doc, wrote, missed, failures, retries, deliveries>>

NotPosted(r) ==
  /\ pc[r] = "reference"
  /\ ~AlreadyPosted(r)
  /\ EscrowRead(r)
  /\ pc' = [pc EXCEPT ![r] = "update"]
  /\ UNCHANGED <<db, view, leg, doc, wrote, missed, failures, retries, deliveries>>

EscrowTooLow(r) ==
  /\ pc[r] = "reference"
  /\ ~AlreadyPosted(r)
  /\ ~EscrowRead(r)
  /\ Abort(r)

\* Faulty variant: the filter tests what was read.
CoveredWhenRead(r) ==
  /\ Call(r).type \in DebitTypes => doc[r].before >= Call(r).amount
  /\ Call(r).type = "COD_CREDIT" => doc[r].escrow >= Call(r).amount

\* The filter of the findOneAndUpdate: the amount must be there when it is taken.
Covered(r) ==
  LET w == Call(r).wallet IN
  /\ Call(r).type \in DebitTypes => See(r).balance[w] >= Call(r).amount
  /\ Call(r).type = "COD_CREDIT" => See(r).escrow[w] >= Call(r).amount

\* Another transaction has written the wallet, uncommitted or since the snapshot.
WriteConflict(r, w) ==
  /\ Transactional
  /\ \/ w \in missed[r]
     \/ \E q \in Requests \ {r} : w \in wrote[q]

\* Faulty variants: the escrow stays, or the balance is computed from what was read.
MovedWithoutEscrow(r) ==
  [See(r) EXCEPT !.balance[Call(r).wallet] = @ + Effect(Call(r).type, Call(r).amount)]
MovedFromRead(r) ==
  [See(r) EXCEPT
     !.balance[Call(r).wallet] = doc[r].before + Effect(Call(r).type, Call(r).amount)]

\* The wallet after the $inc.
Moved(r) ==
  LET w == Call(r).wallet
      a == Call(r).amount
  IN [See(r) EXCEPT
        !.balance[w] = @ + Effect(Call(r).type, a),
        !.escrow[w] = IF Call(r).type = "COD_CREDIT" THEN @ - a ELSE @]

\* debitWallet, creditWallet or the escrow release: one atomic $inc.
UpdateWallet(r) ==
  /\ pc[r] = "update"
  /\ ~WriteConflict(r, Call(r).wallet)
  /\ Covered(r)
  /\ Put(r, Moved(r))
  /\ doc' = [doc EXCEPT ![r].after = Moved(r).balance[Call(r).wallet]]
  /\ wrote' = IF Transactional
                THEN [wrote EXCEPT ![r] = @ \cup {Call(r).wallet}]
                ELSE wrote
  /\ pc' = [pc EXCEPT ![r] = "insert"]
  /\ UNCHANGED <<leg, missed, failures, retries, deliveries>>

\* Faulty variant: a conflicting write waits.
RefusedIfPoor(r) ==
  /\ pc[r] = "update"
  /\ ~WriteConflict(r, Call(r).wallet) /\ ~Covered(r)
  /\ Abort(r)

\* The filter matches nothing (insufficient balance or escrow), or the server
\* answers WriteConflict.
UpdateRefused(r) ==
  /\ pc[r] = "update"
  /\ WriteConflict(r, Call(r).wallet) \/ ~Covered(r)
  /\ Abort(r)

\* Faulty variants: the entry carries a signed amount, or the updated wallet as balanceBefore.
SignedEntry(r) ==
  [ref |-> Call(r).ref, type |-> Call(r).type,
   amount |-> Effect(Call(r).type, Call(r).amount),
   before |-> doc[r].before, after |-> doc[r].after]
EntryOfUpdated(r) ==
  [ref |-> Call(r).ref, type |-> Call(r).type, amount |-> Call(r).amount,
   before |-> doc[r].after, after |-> doc[r].after]

NewEntry(r) ==
  [ref |-> Call(r).ref, type |-> Call(r).type, amount |-> Call(r).amount,
   before |-> doc[r].before, after |-> doc[r].after]

Inserted(r) == [See(r) EXCEPT !.ledger[Call(r).wallet] = Append(@, NewEntry(r))]

\* createWalletTransaction.
InsertEntry(r) ==
  /\ pc[r] = "insert"
  /\ Put(r, Inserted(r))
  /\ AfterLeg(r)
  /\ UNCHANGED <<doc, wrote, missed, failures, retries, deliveries>>

-------------------------------------------------------------------------------
(* The end of a request, and everything around it.                          *)

Commit(r) ==
  /\ pc[r] = "commit"
  /\ db' = IF Transactional THEN Committed(r) ELSE db
  /\ missed' = [q \in Requests |-> missed[q] \cup wrote[r]]
  /\ wrote' = [wrote EXCEPT ![r] = {}]
  /\ pc' = [pc EXCEPT ![r] = "done"]
  /\ UNCHANGED <<view, leg, doc, failures, retries, deliveries>>

\* A driver error, or the process dies: an open transaction is aborted by the
\* driver or, once its session is gone, by the server.
Fail(r) ==
  /\ pc[r] \in Open
  /\ failures < MaxFailures
  /\ failures' = failures + 1
  /\ pc' = [pc EXCEPT ![r] = "failed"]
  /\ wrote' = [wrote EXCEPT ![r] = {}]
  /\ UNCHANGED <<db, view, leg, doc, missed, retries, deliveries>>

\* The caller, having failed or never having seen the answer, repeats the request.
Retry(r) ==
  /\ pc[r] \in {"done", "failed"}
  /\ retries < MaxRetries
  /\ retries' = retries + 1
  /\ pc' = [pc EXCEPT ![r] = "idle"]
  /\ UNCHANGED <<db, view, leg, doc, wrote, missed, failures, deliveries>>

\* The delivery of a COD shipment adds to the escrow in a transaction of its
\* own and leaves no Transaction document.  It is one step here: its wallet
\* write is followed only by its commit.
DeliverCOD(w) ==
  /\ w \in LiveWallets
  /\ deliveries < MaxDeliveries
  /\ \A r \in Requests : w \notin wrote[r]
  /\ deliveries' = deliveries + 1
  /\ db' = [db EXCEPT !.escrow[w] = @ + CodAmount]
  /\ missed' = [r \in Requests |-> missed[r] \cup {w}]
  /\ UNCHANGED <<view, pc, leg, doc, wrote, failures, retries>>

-------------------------------------------------------------------------------
(* The steps request r takes by itself once it has begun.                   *)
Step(r) ==
  \/ FindWallet(r) \/ WalletUnusable(r)
  \/ SkipPosted(r) \/ NotPosted(r) \/ EscrowTooLow(r)
  \/ UpdateWallet(r) \/ UpdateRefused(r)
  \/ InsertEntry(r)
  \/ Commit(r)

Next ==
  \/ \E r \in Requests : Begin(r) \/ Step(r) \/ Fail(r) \/ Retry(r)
  \/ \E w \in Wallets : DeliverCOD(w)

Spec == Init /\ [][Next]_vars

\* Node's event loop runs every callback and the driver answers every call or
\* errors; nobody has to send, repeat or deliver anything, and nothing has to fail.
FairSpec == Spec /\ \A r \in Requests : WF_vars(Step(r))

-------------------------------------------------------------------------------

TypeOK ==
  /\ db \in Store
  /\ view \in [Requests -> Store]
  /\ pc \in [Requests -> {"idle", "done", "failed"} \cup Open]
  /\ leg \in [Requests -> Nat]
  /\ doc \in [Requests -> [before : Int, escrow : Int, after : Int]]
  /\ wrote \in [Requests -> SUBSET Wallets]
  /\ missed \in [Requests -> SUBSET Wallets]
  /\ failures \in Nat /\ retries \in Nat /\ deliveries \in Nat

\* No interleaving of debits takes a balance or an escrow below zero: the
\* $gte filter of debitWallet and of the escrow release is evaluated by the
\* write itself, whatever the wallet looked like when it was read.
NeverOverdrawn ==
  \A w \in Wallets : db.balance[w] >= 0 /\ db.escrow[w] >= 0

\* "Every money movement is recorded here - immutable ledger": the entries of a
\* wallet are a gapless chain of balanceBefore/balanceAfter from the opening
\* balance to the balance now, with concurrent requests, aborts and retries.
LedgerExplainsBalance ==
  \A w \in Wallets : Linked(db.ledger[w], InitialBalance[w], db.balance[w])

\* Duplicated, concurrent or repeated requests post a reference at most once on
\* a wallet, although the reference has no unique index.
NoDoublePosting == \A w \in Wallets : PostedOnce(db.ledger[w])

\* A caller that was told "done" finds every leg of its request posted on the
\* wallet the leg names: an alreadyProcessed answer is never given for money
\* that did not move.
AcknowledgedIsPosted ==
  \A r \in Requests : pc[r] = "done" =>
    \A i \in 1 .. Len(Legs[r]) :
      RecordedIn(db.ledger[Legs[r][i].wallet], Legs[r][i])

\* What the entries of a wallet did to its balance, and released from its escrow.
Changes(entries) ==
  [i \in DOMAIN entries |-> Effect(entries[i].type, entries[i].amount)]

Releases(entries) ==
  [i \in DOMAIN entries |-> IF entries[i].type = "COD_CREDIT" THEN entries[i].amount ELSE 0]

Total(f) == MapThenSumSet(LAMBDA x : f[x], DOMAIN f)

\* COD money is neither lost nor made: what was in escrow at first and what the
\* deliveries have put there is still there or was released by a COD_CREDIT entry.
EscrowAccountedFor ==
  Total([w \in Wallets |-> db.escrow[w] + Total(Releases(db.ledger[w]))])
    = Total(InitialEscrow) + deliveries * CodAmount

\* Without a session and without errors, the entries still add up to the
\* balance as soon as no request is between its $inc and its insert.
BooksBalanceAtRest ==
  (\A r \in Requests : pc[r] # "insert") =>
    \A w \in Wallets : db.balance[w] = InitialBalance[w] + Total(Changes(db.ledger[w]))

\* A posted entry is never edited or removed: no commit overwrites the entries
\* or the balance another transaction committed in between.
AppendOnly ==
  [][\A w \in Wallets : Extends(db'.ledger[w], db.ledger[w])]_vars

\* Every request that has begun ends in an answer: conflicting requests are
\* refused, they never wait for each other.
EveryRequestEnds ==
  \A r \in Requests : pc[r] \in Open ~> pc[r] \in {"done", "failed"}

\* Requests are atomic: the store changes one whole request at a time.
L == INSTANCE Ledger WITH balance <- db.balance, ledger <- db.ledger

ImplementsLedger == L!LedgerSpec

===============================================================================
