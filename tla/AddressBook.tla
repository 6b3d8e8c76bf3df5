------------------------------ MODULE AddressBook ------------------------------
(***************************************************************************)
(* users/address-book.service.js: the addresses a merchant has saved.  Each *)
(* write filters on deletedAt: null.  The list is sorted and cut into pages *)
(* by MongoDB, and each page is sorted once more by the service.            *)
(***************************************************************************)
EXTENDS Calls, Sequences, SequencesExt

CONSTANTS
  Saved,      \* address book entries
  PageSize,
  Moments     \* bound: dates on which an entry is made or used

ASSUME AddressBookAssumption ==
  IsFiniteSet(Saved) /\ PageSize \in Nat \ {0} /\ Moments \in Nat

VARIABLES
  entry,  \* entry[a]: the document; used is lastUsedAt, 0 for null
  today   \* dates given out so far

bookVars == <<entry, today>>

Unsaved == [state |-> "none", made |-> 0, used |-> 0, text |-> "first"]

BookInit ==
  /\ entry = [a \in Saved |-> Unsaved]
  /\ today = 0

Tick == today < Moments /\ today' = today + 1

-------------------------------------------------------------------------------

\* createAddressService.
SaveEntry(a) ==
  /\ entry[a] = Unsaved
  /\ Tick
  /\ entry' = [entry EXCEPT ![a].state = "live", ![a].made = today']
  /\ UNCHANGED call

\* updateAddressService and deleteAddressService look the entry up first.
FindEntry(k, a) ==
  /\ entry[a].state = "live"
  /\ \E task \in {"editEntry", "deleteEntry"} : Arrive(k, task, a)
  /\ UNCHANGED bookVars

Live(a) == entry[a].state = "live"

EditEntry(k) ==
  /\ At(k, "editEntry")
  /\ entry' = IF Live(call[k].id) THEN [entry EXCEPT ![call[k].id].text = "edited"] ELSE entry
  /\ Leave(k)
  /\ UNCHANGED today

DeleteEntry(k) ==
  /\ At(k, "deleteEntry")
  /\ entry' = IF Live(call[k].id) THEN [entry EXCEPT ![call[k].id].state = "deleted"] ELSE entry
  /\ Leave(k)
  /\ UNCHANGED today

\* markAddressUsedService, set off by the booking of a shipment: silent when the
\* entry is gone.
MarkUsed(a) ==
  /\ Live(a)
  /\ Tick
  /\ entry' = [entry EXCEPT ![a].used = today']
  /\ UNCHANGED call

LoseEntry(k) == Drop(k) /\ UNCHANGED bookVars

BookStep ==
  \/ \E a \in Saved : SaveEntry(a) \/ MarkUsed(a)
  \/ \E k \in Slots :
       (\E a \in Saved : FindEntry(k, a)) \/ EditEntry(k) \/ DeleteEntry(k) \/ LoseEntry(k)

-------------------------------------------------------------------------------
(* listAddressesService.                                                    *)

\* Faulty variant: MongoDB sorts by createdAt alone.
NewestFirst(a, b) == entry[a].made > entry[b].made

\* sort({lastUsedAt: -1, createdAt: -1}); null is smaller than every date.
Before(a, b) ==
  \/ entry[a].used > entry[b].used
  \/ entry[a].used = entry[b].used /\ entry[a].made > entry[b].made

Sorted(S, op(_, _)) == CHOOSE s \in Bijection(1..Cardinality(S), S) : IsSorted(s, op)

Listed == {a \in Saved : Live(a)}

InDatabase == Sorted(Listed, Before)

\* The comparison of the service.
Precedes(a, b) ==
  IF entry[a].used > 0 /\ entry[b].used > 0 THEN entry[a].used > entry[b].used
  ELSE IF entry[a].used > 0 \/ entry[b].used > 0 THEN entry[a].used > 0
  ELSE entry[a].made > entry[b].made

\* skip and limit, then the service's own sort.
Slice(p) ==
  {InDatabase[i] : i \in ((p - 1) * PageSize + 1) .. Min({p * PageSize, Cardinality(Listed)})}

Page(p) == Sorted(Slice(p), Precedes)

PageCount == (Cardinality(Listed) + PageSize - 1) \div PageSize

-------------------------------------------------------------------------------

BookTypeOK ==
  \A a \in Saved :
    /\ entry[a].state \in {"none", "live", "deleted"}
    /\ entry[a].made \in 0..Moments /\ entry[a].used \in 0..Moments

\* Page after page, the list shows every address that is not deleted once: the
\* used ones first, the latest use in front, then the others from the newest on -
\* although each page is sorted by itself.
PagesShowTheBook ==
  LET pages == [p \in 1..PageCount |-> Page(p)]
      Places == UNION {{p} \X DOMAIN pages[p] : p \in 1..PageCount}
      Shown(x) == pages[x[1]][x[2]]
      Above(x, y) == x[1] < y[1] \/ (x[1] = y[1] /\ x[2] < y[2])
  IN /\ {Shown(x) : x \in Places} = {a \in Saved : entry[a].state = "live"}
     /\ \A x, y \in Places :
          LET a == entry[Shown(x)]  b == entry[Shown(y)] IN
          Above(x, y) => /\ Shown(x) # Shown(y)
                         /\ a.used >= b.used
                         /\ a.used = 0 => a.made > b.made

===============================================================================
