# Vexaro backend: TLA+ models, model checking and proofs

Vexaro is a logistics platform: merchants book shipments with a carrier
(Velocity) through distributors, pay from prepaid wallets, and get back the cash
the carrier collects on delivery. The backend is one Node.js process (or several)
in front of MongoDB. This directory models the parts where money and shipments
change state, checks them with TLC and proves most of what the runs check, for every
value of the constants, with TLAPS.

All paths below are relative to `src/src/` unless they begin with `src/`.

## 1. The system

| part | state | operations | talks to | what makes it correct |
|---|---|---|---|---|
| Wallet ledger: `finance/services/payment.service.js`, `utils/wallet.js`, `utils/transaction.js` | `Wallet.balance`, `codEscrowBalance`, `isActive`; `Transaction` documents | `applyTransaction` inside `runInTransaction`; top-up, transfer, manual refund | MongoDB sessions; called by every part that moves money | never overdrawn; the entries explain the balance; a reference is posted once; all legs or none; acknowledged means posted |
| Settlements: `settlement.service.js` | `Settlement.status` | create, process | ledger | a COMPLETED settlement was debited, or shares its caller's reference with the one that was; none is debited twice |
| Refund requests: `refund-request.service.js` | `RefundRequest.status` | submit, approve, reject | ledger, shipments | decided once; approved means credited |
| COD: `cod.service.js`, delivery in `shipment-status.service.js` | `COD.status`, `Shipment.codStatus`, escrow | collect, settle, remit | ledger, shipments | cash is collected once, released once, only after it reached Vexaro |
| Razorpay: `razorpay.service.js`, `webhooks/razorpay.webhook.js` | `Payment.status` | order, verify, captured / failed / refunded events | gateway, ledger | a captured payment is credited once, and in the end unless its event is lost |
| Booking: `shipment-create.service.js`, `shipment-reverse.service.js` | `Shipment`, charges | charge and draft, carrier call, persist or compensate | ledger, carrier | charged and booked, or refunded |
| Shipment life: `shipment-delete`, `-status`, `-update`, `-webhook.service.js`, `utils/scheduler.js` | `Shipment.status`, `statusHistory`, `codStatus`, `isCOD` | cancel, status update, edit, webhook, tracking poll | ledger, COD, carrier | forward transitions; cancelled means refunded; delivered COD has a record |
| Weight disputes: `disputes/services/` | `WeightDispute.status`, `disputeExpiresAt` | raise, proof, resolve, expire by cron, close by listing | ledger, cron | what it took it gives back, once; a decision stands |
| Accounts: `auth/auth.service.js`, `users/user.service.js`, `middleware/auth.middleware.js` | `User.isActive`, `deletedAt`, link hashes; `RefreshToken`; profile cache | invite, activate, reset, login, refresh, logout, deactivate, reactivate | carrier (warehouse), ledger (wallet), cache | a token or link is used once; a merchant is whole; a deactivated user is out |
| Warehouses: `warehouse-change-request.service.js`, `updateWarehouseService` | request status, address | request, approve, reject, cancel, edit, register | carrier | decided once; APPROVED means applied |
| Support tickets: `support.service.js` | `Ticket.status`, `assignedTo`, `replies` | create, reply, update, delete | | a ticket is some agent's or nobody's, and its document stays legal |
| Address book: `address-book.service.js` | addresses, `lastUsedAt`, `deletedAt` | create, update, delete, mark used, list | booking | pages show every address once, in order; deleted stays deleted |
| Bulk upload and exports: `shipment-bulk.service.js`, `export.service.js` | job status, counters, files | process in the background | booking | a job accounts for every shipment that was charged; it ends |
| Caches: `utils/cache.js` | key, value, expiry | `remember`, `set`, `del`, cleanup | quotes, rate cards, statistics, profiles | what is outdated goes |
| Validation cache: `validation/helpers/cache.js` | entries, `memoryUsage`, access order | get, set, delete, evict, collect, export, import | validators | limits and running total hold |
| Validators: money, phone, pincode, email | none | pure functions | every form | what passes is in normal form |
| Pricing: `pricing/`, `rates/rate.service.js` | rate cards, margins | quote, charge | booking | the quote is the charge |
| Idempotency: `middleware/idempotency.middleware.js` | one record per key | lookup, acquire, answer, expire | every mutating route | one effect per key; replays are of answers given |
| Shipment disputes, reports, notifications, audit, settings, DTOs, shell | documents | CRUD and reads | | section 7 |

What is hard here: handlers are `async` functions that read a document, await
something else and save the document later, without version checks; money moves in
MongoDB transactions that may conflict and abort, or - on a standalone server - in
no transaction at all; the carrier and the gateway are called in the middle of a
workflow and answer late, twice, out of order or never; the process may die
between two of these steps. `PROJECT.json` lists these hazards line by line.

## 2. The modules

```
LedgerTypes <- Ledger                       what the ledger promises
     ^          ^  (INSTANCE, refinement)
     +------ WalletLedger <- MCWalletLedger, MCTransfer
                  ^
                  +-- WalletLedgerProofs <- WalletBooksProofs

Calls <- WalletCalls <- Settlements, RefundRequests, CodRemittance, RazorpayPayments
                            ^ all four: FinanceDesk <- MCFinanceDesk, FinanceDeskProofs
Shipment <- MCShipment, ShipmentProofs
Calls <- Accounts <- MCAccounts, AccountsProofs

WalletCalls <- WeightDisputes
Calls <- WarehouseRequests, SupportTickets, AddressBook
         Jobs
            ^ all five: BackOffice <- MCBackOffice, BackOfficeProofs

Calls <- QuoteCache
         Idempotency, ValidationCache, Money, PhoneNumbers, Pincodes,
         EmailAddresses, Pricing
            ^ all eight: Platform <- MCPlatform, PlatformProofs

Sums <- WalletBooksProofs, FinanceDeskProofs, BackOfficeProofs, PlatformProofs
```

**LedgerTypes, Ledger.** A request is a list of legs (wallet, type, amount,
reference). `Ledger` is the abstract specification: one step posts a whole request,
skips the legs whose reference is posted already, changes no entry and keeps every
wallet explained by its entries and non-negative.

**WalletLedger.** `applyTransaction` statement by statement: `FindWallet`,
the look-up by reference (`SkipPosted` / `NotPosted`), the escrow test
(`EscrowTooLow`), the conditional update (`UpdateWallet` / `UpdateRefused`),
`InsertEntry`, then the next leg or `Commit`. `Begin` gives the request its
snapshot `view[r]`; `missed[r]` are the wallets others committed since, and writing
one of them is the `WriteConflict` that aborts (`Fail`, `Abort`). With
`Transactional = FALSE` - `runInTransaction` on a standalone server - `view` is not
used and every statement reads and writes `db` itself. `Retry` repeats a request,
`DeliverCOD` adds to the escrow. `LiveWallets` are the wallets with `isActive`; no
code in the repository ever writes it false, so deactivated wallets appear only
here. MongoDB itself is modelled from how it is used (snapshot isolation, first
writer wins).

**Calls** is the server's concurrency: a *slot* is a handler in progress, `call[k]`
holds which await it is at and what it read before it. `Drop` loses a handler (a
driver error or the death of the process). **WalletCalls** adds the ledger one level
up: a transaction is one step that happens or not (what `ImplementsLedger` shows of
the detailed model), posting skips a posted reference, debits need `Covered`,
`Abort` loses a transaction.

**Settlements, RefundRequests, CodRemittance, RazorpayPayments** have one action
per stretch of code between awaits: read and test, look up, insert, transaction.
The save at the end of a handler writes over whatever is in the database by then,
as `document.save()` does. A settlement's caller may name its reference, and several may
name the same: `taken` are the settlements whose own debit is in the ledger. The webhook
answers 200 and then works: `event[p]` says whether the captured event of an attempt is still
due, was answered, came `late` (`GrowOld`, older than the 300 seconds of skew) or was `lost`
because its handling failed after the answer (`EventLost`). **FinanceDesk** runs all four on the same wallets and
slots and adds the delivery of a shipment, which ends refunds and starts COD.

**Shipment** is one shipment and everything that writes it. The booking has its own
program counter (`booking`): the draft and the charge in one transaction, the
carrier call, then `PersistCarrier` or `Compensate`. Every other handler is a
request slot holding the document it read (`req[r].doc`); a save writes only the
paths the handler changed (`Modified`), as mongoose does. `Entries` names the entry points an instance has: delete, status, webhook, poll, edit. `WalletLookups` are the
outcomes of looking a wallet up by the printed `merchantId` of a document that was read with
its users populated: `castError` is what the code gives, `found` what it is written for.
`carrier` is what
Velocity believes, which may run ahead of the database. `history` keeps the last
entry of `statusHistory` and the statuses that matter for money.

**Accounts** is one account in the hands of others. The document has `active`,
`deleted` and the live invitation and reset link; `tokens` is the list of refresh
tokens with the one each replaced. `Reaches` is `findUserWithAccess`, and every
handler saves the fields it changed since it read them, at its own await: the links
are tested in `FollowInvite` / `FollowReset` and used in `Activate` / `ResetPassword`,
a refresh tests in `Refresh` and `RefreshUser` and revokes in `Rotate`, a
deactivation revokes the tokens (`SignOut`), then saves (`Bury`), then forgets the
cached profile (`Forget`). The invitation registers the warehouse with the carrier
inside the transaction (`Register`, then `Commit`).

**WeightDisputes** charges through `WalletCalls`; `BecomeOverdue` is the clock,
`ExpireDisputes` the midnight cron, `ListWeightDisputes` the update that listing
performs. **WarehouseRequests** has the three answers to a change request, the
administrator's direct edit (Mongoose saves the fields that differ from what was
loaded) and what the carrier was told last. **SupportTickets** counts the open
tickets of each agent, then creates; replies claim. **AddressBook** keeps what the
database sorts by, and `Page` is the list as a merchant sees it: sorted and cut by
the database (`Slice`), sorted again by the code. `Sorted` is a permutation that is in order,
which is all that either sort promises. **Jobs** has the two background workers,
row by row; a booking that throws after its charge leaves a `stray` shipment behind a row that
counts as failed (`RowFails`, `MayStray`). **BackOffice** composes these five. They share no document, so a
behaviour is about one `desk`, with as many requests at it as there are slots.

**Idempotency** is the middleware: `LookUp`, `Acquire` under the unique index,
`Answer` or `AnswerError` (5xx), the asynchronous update of the record, `Expire`
after 24 hours and `Die`. **QuoteCache** is `remember` around an answer that edits
outdate: an answer is abstracted to the question it was computed for and the version
of the data it was computed from; `Dropped` are the keys that edits delete.
**ValidationCache** is the LRU / LFU / FIFO / TTL cache with its running total; a `Map`
is a function from its keys to their entries, each with its `place` in the order of
insertion, which is all that eviction looks at.
**Money, PhoneNumbers, Pincodes, EmailAddresses, Pricing** are operators: amounts are
integers in thousandths (money) or paise (prices); a price's rounding that binary64 may take
either way is the set of both, and a sum of amounts is off by any `Drift` before it is rounded; `Inexact` lists amounts whose product with 100 is not
whole in binary64, a phone number is its first digits and its length, an email
address its tokens and labels. **Platform** composes these eight; a behaviour is about
one `stage`, because nothing is shared between them either.

`WalletLedger!vars`, `Shipment!vars` and so on list the variables; `map` in
`PROJECT.json` gives, for each definition, the lines of code it stands for.
Definitions marked "Faulty variant" are not used by any specification: they are the
bugs each property is shown to notice.

## 3. The runs

| run | instance | what it shows |
|---|---|---|
| `wallet_txn` | two wallets and one former account; a charge of two legs repeated under the same references, a remittance and two deliveries that feed its escrow, one retry, one failure | under transactions the ledger explains each balance, has each reference once and neither loses nor makes escrow; what is acknowledged is posted; every request ends; **the program implements `Ledger`** |
| `wallet_standalone` | the repeated charge, a charge that reaches an account without a wallet, without transactions and without errors | the filters alone keep balances non-negative; whenever no request is between its update and its entry, the books balance |
| `shipment_safety` | a COD shipment, two handlers from all entry points, carrier refusals, failures | `MoneyMovesOnce`: refunds never exceed or halve the charge, return fee once, cash once; the history ends with the status |
| `shipment_api` | all kinds of shipment, delete and status update only, failures, wallet look-ups that find or fail | `EndedIsPaid`: cancelled is refunded, delivered COD has a record; `AnswersAreTrue`: what a booking answered, 201 or "refunded", stays true; a status goes to a successor of the one its writer read; a booking settles unless the process dies or its compensation fails |
| `finance_desk` | two equal settlements whose caller gave both the same reference, two refund requests for one shipment, its COD, one payment attempt, two slots, aborts | the balances are the sums of the documents of four workflows; `DocumentsArePaid`: COMPLETED is debited, or its reference was, once; APPROVED credited, escrow conserved, REMITTED paid; and only after Vexaro has the cash |
| `razorpay` | two orders, three attempts of which one may be refunded, two slots, invalid signatures, aborts | SUCCESS is credited; every captured payment is credited in the end, also after failed attempts and invalid verifications, unless its event came too late or was lost after the 200 |
| `accounts` | a merchant invited by a distributor, two requests at a time; four tokens and one invitation, or one token and two links of each kind | a token is replaced, and a link sets a password, no more often than requests with it overlap; whoever exists has his wallet and warehouse; a deactivated account leaves the cache for good |
| `back_office` | a shipment with and one without a distributor, two change requests and an administrator's edit, a ticket with two agents and two replies, three addresses on pages of two, an upload of three rows, an export | dispute charges and reversals explain the wallets; APPROVED was applied; jobs account for every shipment that was charged and end; pages are the book in order; a decision is changed only by a request that read the document before it |
| `platform` | three requests with one key; three questions under two keys and two edits; a cache of two entries and three bytes under each strategy; some 110,000 forms | one effect per key, replays of answers given; outdated quotes go; limits and running total hold; what passes is canonical; the quote is the charge, unless the parcel is bulkier than it is heavy |
| `wallet_transfer` | a transfer | **violated**, section 6 |
| `cancel_populated` | delete with the populated document | **violated**, section 6 |
| `refund_race` | two reviewers | **violated**, section 6 |

**Bounds.** Amounts are one to seven units, chosen so that some debits are covered
and some are not, and so that documents of one kind differ in their amount, but for the two
equal settlements. Failures, retries and deliveries are
bounded by constants named in the guards (`MaxFailures`, `MaxRetries`,
`MaxDeliveries`). Two handlers at a time are enough for the races in this code, each
of which is a read by one handler and a write by another before it saves; in
sequence any number of handlers run in the same two slots. That includes the bounds of
`SingleUseUnlessOverlapping`, which is stated in the number of slots: a token that a
later request could use again would exceed it. Each behaviour of `accounts` keeps
either to many tokens or to many links, which no handler relates. `MaxReplies`,
`Moments`, `Edits`, `MaxTouches` and `MaxTime` bound replies, the address book's clock,
edits of rate cards, and the validation cache's reads, writes and clock. Two edits are
the least for an answer to be outdated twice; three touches make each strategy choose
between entries that differ; three rows let some but not all of them fail. The forms
straddle each limit, each rounding and each branch of the checks: the smallest and
greatest amounts, half steps, sums that binary64 cannot hold, the prefixes 0, 0091, 091 and
91, country codes of one to three digits, local parts of up to four tokens, weights
at and next to the slabs' edges. The orders and slots that
are interchangeable are declared so (`SYMMETRY`) in runs without liveness. Runs with
a `CHECK_DEADLOCK FALSE` are those whose system may be finished: a shipment
delivered, every request decided.

`merchantId.toString()` of the document that `findShipmentWithAccess` returns is not an
id (section 6), so in the code a refund or a return's fee on that path always fails with
`castError`. The passing runs of `Shipment` have both values in `WalletLookups`: every handler
may meet either, which contains the code as it is, and checks what it does once this is
mended. No property of theirs depends on which it is. `cancel_populated` has `castError`
alone, and no failure besides.

`Refundable` are the attempts that the gateway may refund; one is enough, since an order has at most one
captured attempt. The look-up for a circular settlement is taken in `finance_desk` and never
finds one there: both settlements go the same way, so that both can be pending and equal.

**Fairness.** `WalletLedger!FairSpec`: weak fairness of `Step(r)`, since Node's
event loop runs every callback and the MongoDB driver answers or errors; nobody has
to send, repeat or deliver a request, and nothing has to fail. `Shipment!FairSpec`: weak fairness
of the booking once begun, again the event loop and an answer of the carrier (axios
has no timeout here; a carrier that never answers is `BookingDies`, which both passing runs
have). `FinanceDesk!FairSpec`: a handler that began goes on, and
Razorpay repeats a captured event until one delivery is answered or all are too old; after
a 200 it owes nothing more, so a handling that fails then is not repeated. Strong fairness stands for
"until one is answered" because a slot may be taken at any one moment, which is a bound of
the model and not a fact of the server. `CapturedIsCredited` excepts the events that grew old
and those lost after the 200, and nothing else.
`Accounts!FairSpec` and `Platform!FairSpec`: cached entries expire, by the read that
finds them expired or the cleanup every ten minutes (`utils/cache.js:111`), or Redis's own
expiry; nothing else is fair there. `BackOffice!FairSpec`: a
worker that is not lost goes on; `JobsEnd` excepts those that are lost or whose
last write the database refused, which nothing in the code repairs.

## 4. What is proved

Seven modules hold the theorems (`PROJECT.json` lists them) and `Sums` the lemmas about
sums and finite sets that four of them need. A theorem speaks about any values of the constants
that meet the modules' `ASSUME`s: any number of wallets, documents, handlers, slots, rows,
any amounts. Every safety invariant of the passing runs is a theorem, and so is every action
property; the last paragraph of this section says what is not. A theorem of the form
`ASSUME H PROVE ...` holds where H does; each H is named below, with what in the
code keeps or breaks it, and each run that checks the property has constants of which H is
true.

In all of them the property is not inductive as it stands: it speaks about documents,
and a handler that read a document may still save. The strengthening says what a handler
in progress knows, and which of it is still true.

**`WalletLedgerProofs`**: `TypeCorrect`, `BalancesNeverOverdrawn`, with and without
transactions. Under transactions, where a reference names one leg
(`ReferenceNamesOneLeg`): `BalanceIsExplained`, `PostedAtMostOnce`,
`AcknowledgedMeansPosted`, `LedgerIsAppendOnly`, `WalletLedgerImplementsLedger`. Three
places of the code break that assumption: the transfer (section 6), two top-ups and two
manual refunds in one millisecond.
A transaction holds a private snapshot in which half of a request has happened. The
inductive invariant is `TypeInv /\ Solvent /\ TxnInv`. `StoreInv` says the committed
database is in order; `ViewInv` says each open transaction's snapshot is in order
too, up to a wallet whose update is done and whose entry is not; `Isolated` says that a
wallet the transaction has written holds the committed entries followed by its own legs,
and that any other holds an earlier state of the committed one, the same unless it is
in `missed`; `WriteLocks` says that no two open transactions have written the same
wallet. When `Commit` installs a snapshot, `Isolated` makes the result the database with
this request's entries appended, and that is one `Post` of `Ledger`. A reference is not
posted twice, although the schema has no unique index, because the look-up by reference
is followed by a write of the wallet whose entries were looked at: a concurrent posting
is either visible or a write conflict.

**`WalletBooksProofs`**: `EscrowIsAccountedFor` under transactions, with no assumption on
references: in every wallet that an open transaction has not missed, the escrow of its
snapshot plus what it released, plus what the leg in hand has taken and not yet entered, is
what the committed database holds (`SnapshotHolds`). `BooksBalance` on a standalone
server where nothing fails (`~Transactional`, `MaxFailures = 0`; a failure between an
update and its entry is what the transaction is there for): each balance is the opening one
plus the entries plus the movements of the requests that are just between the two
(`BooksInv`).

**`ShipmentProofs`**: `TypeCorrect`, and for any handlers from any
entry points, whatever fails, `MoneyMovesAtMostOnce`, `HistoryIsTrue` and `AnswersStayTrue`.
`LedgerInv` ties the entries to one another: charges are all there or none, refunds all or none, all
only of a charged shipment that was CANCELLED once, by its history; likewise the fee of a
return. It is strong enough because the
transaction that posts looks its reference up. `AnswerInv` says that a number of the carrier's is only
on a shipment whose order he has, and what a booking that answered has left behind; no handler
takes a refund or an entry of the history away (`RefundedStays`, `HistoryGrows`). Two more
need a hypothesis on the entry points, `ForwardWhereApiWrites` (`ApiWrites`:
neither webhook nor poll) and `EndedIsPaidWhereApiOnly` (`ApiOnly`: DELETE and the status
update alone), because the
webhook and the cron write statuses without looking at money or transitions (section 6).
`AllowedBy` says that what a handler will write was allowed from the document it read.

**`FinanceDeskProofs`**: `TypeCorrect`, `SuccessMeansCredited`, `ApprovedMeansCredited`
unconditionally: entries are never removed (`EntriesStay`), and a handler saves such a status
only in the transaction that posts or after finding its reference posted. Three more
need `NoForeignReference`: `EveryBalanceIsExplained`, `EveryDocumentIsPaid`,
`PaidOutAfterSettlement`. The code makes references of the kind and the id of the document,
but the caller of a settlement may pass one of his own (`dto/finance/finance.dto.js:20`).
Settlements may share theirs with one another; the hypothesis is that none is that of a
refund, a remittance or a payment, which would let a settlement complete with the other's
entry for its debit (section 6). `SettledInv` says that a reference in the ledger is there for
one settlement of those that share it (`TakenOnce`), which is decided, and that a
settlement is created by one call (`OneCreator`).
`BooksInv` is the sum itself over the set of documents whose reference is posted: posting
adds one document to one of these sets and to none of the others. `CodInv` adds that
a handler which is to remit read a settled record, and that nothing unsettles one.

**`BackOfficeProofs`**, desk by desk: `DisputesAreExplained` (`DisputeBooks`: sums over
the disputes charged and reversed; a reversal is only posted after its charge),
`ApprovedMeansApplied` (a call about to save an approval has applied it),
`JobsShowWhatTheyDid` (`Truthful`: counters against the rows done, the writes that were
refused and the shipments that a failed row left behind), `DecisionsStand` (a request under
way holds the status it read, which its handler's test made one that is not decided) and `TypeCorrect`. `OneDesk` says that a step is of the
desk that the behaviour is about. `PagesAreTheBook` rests on `BookInv`, which adds that no
date is given twice (`DatesDiffer`): then `Before` is a strict order of the listed addresses,
a sorted list of them exists (`SortedExists`, by a smallest set that has none) and puts each strictly before the next (`SortedIs`). The
service's comparison is the same order (`OneOrder`), so its sort changes no page (`PageIs`),
and the slices of the pages are consecutive stretches of the list that cover it (`ListIs`,
`PagesInOrder`). That two entries are never made in one millisecond is what the clock
`Tick` assumes; entries that are may trade places between two pages.

**`AccountsProofs`**: `TypeCorrect`, `MerchantsExistWhole`, and
`UsedOnceUnlessOverlapping`, by counting: the replacements of a token and the requests
that hold it are together no more than the slots, and a live token has no replacement
(`TokenSpent`); the same for the uses of a link (`LinkSpent`). A request that comes to
hold a token finds it live, when only requests under way can hold it; one that replaces it
stops holding it.

**`PlatformProofs`**: `EffectHappensOnce` and `ReplaysAreTrue` (while a route runs, the record
is in flight and no update of it is on its way: `HoldsTheKey`, `SavingTells`),
`CachesAnswerUnderTheirKey` and `TypeCorrect`. `CacheKeepsBooks`: the strengthening
(`EntryInv`) adds that the cache and the backup, which an import restores, are well-formed
`Book`s over finite sets of keys; removing keys takes their weight out of the sum, an eviction
takes at least one entry where the strategy is not TTL (`EvictTakesOne`), and what an
import overwrites is the only weight that stays in the total. `QuotesAreCharged`, for any card, margin and
parcel that the DTOs let in, with whole percentages: the two searches for the slab are
the same choice among slabs of which there is one (`SlabIsFound`), so the same charge is
rounded after each stage by the one computation and once by the other, and `OneAgainstTwo`
and `OneAgainstThree` bound what that makes of half a paisa. With the percentages of the run
that is at most two paise; the bound grows with the percentages, as the error does.
`FormsStayCanonical` is four statements about pure functions, which hold of any form, and
`FormIsSubmitted`: the form in hand is one of `Forms` or none. Money: a rounded amount is a
multiple of its currency's step (`RoundingIsNear`, `StepsOf`), such multiples pass the tests
of precision and safety (`PreciseOnSteps`, `RoundedIsSafe`), a half goes up, and a sum of them is what it
is after the rounding, by whatever `Drift` binary64 was off before it
(`SumsExact`). Telephone numbers: cleaning takes a prefix off or leaves the number
(`CleaningKeepsDigits`), what it leaves it leaves again (`NormalFormStays`), no other
country's number is taken for an Indian one (`AbroadIsNotIndian`), and every way to write an
Indian mobile that is accepted is read as the same one (`SpellingsOfOne`); only a bare number
beginning with 916 to 919 may be refused (`BareIsRefused`, section 6). Pincodes lose their separators
(`PincodeCanonical`). Email addresses: the base address is the local part up to its first plus
sign (`FirstPlus`, `BaseIs`), and it is no longer than the address (`PartIsNoLonger`, a sum
over fewer positions), so it passes in its turn.

**`Sums`**. The fold behind `MapThenSumSet` recurses over subsets. Induction over data is
out of the prover's reach, so `AdderAdds` takes a smallest set at which the recursion
would fail, which exists because strict inclusion is well founded on the subsets of
a finite set. From it follow `SumWithout` (any element may be taken out first), `SumAddInt`,
`SumAgrees`, `SumChange` and `SumOfPieces`; by the same argument a set of naturals has a
least element (`LeastNumber`) and a finite set a first under any order of its elements
(`FirstExists`).

**Assumptions on constants** are in the modules that declare them: finite sets of what
is summed or counted (settlements, refunds, COD shipments, orders, disputes, tickets,
wallets, slots), a finite list of legs per request, natural amounts and opening
balances, at least one invitation and one reset link allowed to an account, and rate cards,
margins and parcels such as the DTOs let in. An instance has finitely many addresses
(`Saved`). For the validators: a currency has two decimals and a hundred subunits or none of either,
which are the two kinds in `CURRENCY_CONFIG` (`money.validator.js:25`); amounts whose product
with 100 is inexact are not whole themselves, since binary64 multiplies whole numbers of this
size exactly; country codes are sequences of digits, India's is 91 with ten digits and no
country has the code 9, as in `COUNTRY_CODES` (`phone.validator.js:50`); and a form has the
shape of its kind.

**Only model-checked.** Liveness (`EveryRequestEnds`, `BookingSettles`,
`CapturedIsCredited`, `ShutOut`, `JobsEnd`, `OutdatedGoes`) needs ENABLED for its fairness
and is out of the prover's reach. The lists with which the validators compare (currencies,
countries, dangerous domains, special PIN codes) are constants: no theorem says that those in
the code are the right ones.

## 5. Plan

The model covers what section 1 lists, and the safety properties of every passing run are
proved. What a change of the code should bring with it:

1. When a run of section 6 is expected to be violated and the code is mended, the run becomes
   one that passes: `WalletLookups` is `{"found"}` then, and the hypotheses
   `ReferenceNamesOneLeg` and `NoForeignReference` are facts.
2. The statistics cache could be composed with `Shipment`, if its keys come to matter.

## 6. Where the code departs from what it says

With a run:

- **Transfer to a merchant** (`wallet_transfer`). Both legs of
  `transferToMerchantService` carry `TXFR-<ms>`; the credit is taken for a repetition
  and skipped. The distributor pays, the merchant gets nothing, the answer is
  a success (`finance/services/wallet.service.js:85`).
- **Cancellation by DELETE** (`cancel_populated`). The wallet of a populated user is
  looked up by the printed document; the transaction fails after the carrier has
  cancelled (`shipment-delete.service.js:22`).
- **Refund requests decided twice** (`refund_race`). The update filters on the id
  only (`refund-request.repository.js:60`).

Seen while modelling, without a run:

- The webhook and the tracking poll deliver COD shipments without a COD record
  (`shipment-webhook.service.js:74`, `scheduler.js:45`; `src/README.md:46` says
  "Automatic COD record creation on delivery").
- The webhook lets ORDER_CREATED rewind any status (`shipment-webhook.service.js:61`).
- A failed compensation is logged, and the caller reads "Your payment has been
  refunded." (`shipment-create.service.js:273-277`).
- A settlement read twice as PENDING can end FAILED after it was completed and
  debited (`settlement.service.js:97`); two equal pending settlements, or two pending
  refund requests of one shipment, get past their look-ups together; a settlement
  created with a reference that is already in the ledger - another settlement's or any
  other entry's, `dto/finance/finance.dto.js:20` takes whatever the caller sends - completes
  without a debit (`settlement.service.js:92`).
- A captured payment is not credited when every delivery of its event comes more than 300
  seconds after it was made (`razorpay.webhook.js:56-65`), or when its handling fails after the
  200: the error is logged, and a transaction aborted by a conflict is not run again
  (`razorpay.webhook.js:77`, `transaction.js:36-38`). Only `verify` can still credit it.
- A stale Super Admin save takes a REMITTED record back to SETTLED_TO_VEXARO; a second
  remittance posts nothing but says it did (`cod.service.js:40`).
- A captured event delivered after the refund's turns REFUNDED back to SUCCESS
  (`razorpay.service.js:304`); a stale verification saves FAILED over SUCCESS (`:148`).
- PATCH to CANCELLED does not cancel at the carrier (`shipment-status.service.js:54`),
  and neither does DELETE while the booking is at the carrier
  (`shipment-delete.service.js:58`).

- A cancellation that the carrier reports by its webhook sets CANCELLED and refunds nobody
  (`shipment-webhook.service.js:73`; `src/README.md:44` says "automatic refunds on
  cancellation"), and what is CANCELLED cannot be cancelled again.
- A refund request may ask for more than the shipment cost
  (`refund-request.service.js:73`), and two of one shipment can both be approved (`:67`).
- `refund.processed` marks the payment REFUNDED and takes nothing from the wallet
  (`razorpay.service.js:367`).
- A merchant invited by the Super Admin has no distributor who could remit his cash
  (`shipment-create.service.js:88`).

Disputes, warehouses, tickets, jobs:

- Listing weight disputes closes the overdue ones with `CLOSED`
  (`dispute.repository.js:88`), which `DisputeStatus` does not have
  (`constants/index.js:68`); the cron calls the same ones EXPIRED.
- A shipment dispute is closed with statuses the same enumeration lacks, so its own
  guards compare with `undefined`.
- An approved change of address is never told to the carrier: pick-ups stay at the
  address that was last registered until somebody syncs it
  (`warehouse-change-request.service.js:161`).
- A row of an upload counts as failed though its shipment was charged when
  `createShipmentService` throws after that: the carrier's answer could not be persisted, or
  the compensation failed (`shipment-create.service.js:273-309`). A counter write that fails
  after a booking counts the row as failed too (`shipment-bulk.service.js:290`), and a job whose process died stays PROCESSING.
- The REVENUE export filters on fields its documents do not have and is empty.

Accounts:

- A deactivated account is not found by `reactivateUserService`, though the route is for
  it (`user.routes.js:733`), and its address cannot be invited again. A pending account
  can be reactivated: it becomes active without a password and its invitation
  is refused from then on.
- Invitations and reset links are looked up without `deletedAt`; what they set does not
  open a deleted account.
- Neither a reset nor a change of password revokes refresh tokens.
- A warehouse registered at the carrier stays there when the invitation's transaction
  aborts (`user.service.js:169`).

Caches, validators, prices:

- The key of a serviceability quote is made of four of the nine arguments it is given
  (`cache.js:108`, `shipment-velocity.service.js:7`): quotes for other weights and other
  users are answered from it, and edits of rate cards do not drop them, for 30 minutes.
  `saveMarginConfigService` deletes a key that nothing sets.
- Imports and the TTL strategy let the validation cache exceed `maxSize`; an import over a
  present key counts its bytes twice (`helpers/cache.js:362`).
- `Number.isSafeInteger(amount * 100)` refuses about one in nine amounts of two
  decimals and every amount of three (`money.validator.js:250`; its header promises
  "Safe number handling to prevent floating point issues"). Zero is tested before the
  rounding, so an amount that rounds to it passes.
- A ten-digit mobile number that begins 916 to 919 is taken for one with its country code and
    refused (`phone.validator.js:188-190`; `:10`, `:22` and `:154` say ten digits starting with 6-9
  are a valid number).
- `/^test/i` still blocks `test.com`, which a note above it says was removed
    (`email.validator.js:100`, `:122`); a domain that is listed but let through skips the
  test for `+` (`:488`); a subaddress whose `+` stands before a `_` passes
  `allowSubaddressing: false` (`:392`, `:509`); the base address may end with a dot.
- `strictFormat` changes nothing for a valid pincode.
- `roundToPrecision` "uses banker's rounding (round half to even)" by its comment and
  `Math.round`, which rounds half up, by its code (`money.validator.js:292`).
- The list of addresses is sorted a second time because "MongoDB sorts null lastUsedAt first
  when descending" (`address-book.service.js:106`). Null is the least value to MongoDB and comes
  last, so the second sort changes nothing (`PageIs`).
- A rate enquiry does not look at the parcel's volume, a booking does; a
  direct merchant's mark-up is booked as `distributorProfit` (`pricing.service.js:69`).
- The wallet report leaves out SETTLEMENT, which the revenue report counts as a credit.

## 7. Not modelled, and why

- Shipment disputes: one document, single updates, no money.
- Changing a known password, the time of the last sign-in, the contact of a warehouse,
  profile fields: assignments that no other part reads.
- Reports and statistics only read; notifications, audit entries, logs, DTOs,
  configuration, email, settings and Swagger have no state that the modelled parts read. An
  API key is looked up in the database at every request.
- Dates, object ids and passwords are checked by a regular expression each; the schema builder
  wraps Zod; the error formatter is wording.
- The statistics that a cancellation or a status update deletes from the cache are
  not part of `Shipment`: `QuoteCache` has the same reads, edits and deletes.
- The token that the Velocity client caches for 23 hours.
- The choice of carrier and the resolution of addresses in a booking.
- `mock_signature` in `razorpay.service.js:144` is accepted as a signature without any
  payment at the gateway. `RazorpayPayments` has valid and invalid signatures only, so
  `SuccessIsCredited` is about payments that exist.
- In `Idempotency`, a request does not outlive the 24 hours of its record, and a 5xx
  answer counts as no effect, which is what the middleware takes it for. Keys are not
  tied to a user or a route in the code; the model has one key.
- In the workflows amounts are whole paise; floating point appears in `Money` and
  `Pricing` only, as the outcomes a rounding can have.
