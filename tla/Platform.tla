------------------------------- MODULE Platform -------------------------------
(***************************************************************************)
(* What every request passes: the idempotency middleware, the caches, and   *)
(* the checks and prices of what it carries.  They share no state, so a     *)
(* behaviour exercises one of them: repeated requests with one key, answers *)
(* kept in a cache, the validation library's own cache, or a form that is   *)
(* checked or priced.                                                       *)
(***************************************************************************)
EXTENDS Idempotency, QuoteCache, ValidationCache,
        Money, PhoneNumbers, Pincodes, EmailAddresses, Pricing

CONSTANTS
  Stages,   \* the parts a behaviour may be about
  Forms     \* what is submitted: a kind of input and the options it is checked with

ASSUME PlatformAssumption ==
  /\ Stages \subseteq {"idempotency", "quotes", "entries", "forms"}
  /\ \A f \in Forms : f.kind \in {"money", "phone", "pincode", "email", "parcel"}
  /\ \A f \in Forms :
       /\ f.kind = "money" => IsAmount(f.input) /\ f.opts \in MoneyOptions
       /\ f.kind = "phone" => f.input \in PhoneInput
       /\ f.kind = "pincode" => f.input \in PincodeInput
       /\ f.kind = "email" => f.input \in EmailInput
       /\ f.kind = "parcel" => f.card \in RateCard /\ f.margin \in MarginConfig /\ f.parcel \in Parcel

VARIABLES
  stage,   \* what a behaviour is about
  form     \* the form submitted last, or NoForm

vars == <<idemVars, cacheVars, call, entryVars, stage, form>>

NoForm == [kind |-> "none"]

Init ==
  /\ IdemInit /\ CacheInit /\ CallsInit /\ EntryCacheInit
  /\ stage \in Stages
  /\ stage # "entries" => strategy = CHOOSE s \in Strategies : TRUE
  /\ form = NoForm

Repeating ==
  /\ stage = "idempotency"
  /\ IdemStep
  /\ UNCHANGED <<cacheVars, call, entryVars, stage, form>>

Quoting(step) ==
  /\ stage = "quotes"
  /\ step
  /\ UNCHANGED <<idemVars, entryVars, stage, form>>

Remembering ==
  /\ stage = "entries"
  /\ EntryCacheStep
  /\ UNCHANGED <<idemVars, cacheVars, call, stage, form>>

\* The checks and prices keep nothing from one form to the next.
Submit ==
  /\ stage = "forms"
  /\ form = NoForm
  /\ form' \in Forms
  /\ UNCHANGED <<idemVars, cacheVars, call, entryVars, stage>>

Next ==
  \/ Repeating
  \/ Quoting(CacheStep)
  \/ Remembering
  \/ Submit

Spec == Init /\ [][Next]_vars

\* The cleanup of the cache comes round every ten minutes.
FairSpec == Spec /\ \A key \in CacheKeys : WF_vars(Quoting(ExpireKey(key)))

-------------------------------------------------------------------------------

TypeOK ==
  /\ IdemTypeOK /\ CacheTypeOK /\ EntryCacheTypeOK
  /\ form \in Forms \cup {NoForm}

\* Of every form that is submitted, the value a check lets through is the
\* normal form of what was given: it is let through again as it is, and means
\* the same amount, number, place or mailbox.
FormsAreCanonical ==
  /\ form.kind = "money" =>
       /\ MoneyIsCanonical(form.input, form.currency, form.opts)
       /\ \A step \in {-1000, 10} :
            form.input.kind = "number" => SumsAreExact(form.input.value, step, form.currency)
  /\ form.kind = "phone" =>
       /\ PhoneIsCanonical(form.input, form.opts)
       /\ IsMobile(form.input) => SpellingsAgree(form.input)
  /\ form.kind = "pincode" => PincodeIsCanonical(form.input, form.opts)
  /\ form.kind = "email" => EmailIsCanonical(form.input, form.opts)

\* A parcel costs at booking what an enquiry with the same card and margin said, but
\* for half a paisa of each rounding, and unless it is bulkier than it is heavy.
PricesAgree == form.kind = "parcel" => QuoteIsCharged(form.card, form.margin, form.parcel)

===============================================================================
