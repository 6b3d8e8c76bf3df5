----------------------------- MODULE PhoneNumbers -----------------------------
(***************************************************************************)
(* validation/validators/phone.validator.js.  A cleaned number is a record:  *)
(* whether it begins with +, its first digits, and how many digits it has;   *)
(* the digits after the first ones are never looked at.                      *)
(***************************************************************************)
EXTENDS Integers, Sequences, SequencesExt

CONSTANT Countries   \* COUNTRY_CODES: code -> shortest and longest national number

\* India is in the list, and no code is a single 9.
ASSUME CountriesAssumption ==
  /\ DOMAIN Countries \subseteq Seq(0..9)
  /\ \A code \in DOMAIN Countries :
       /\ Countries[code].min \in Nat /\ Countries[code].max \in Nat
       /\ Countries[code].min <= Countries[code].max
  /\ <<9, 1>> \in DOMAIN Countries /\ Countries[<<9, 1>>].min = 10 /\ Countries[<<9, 1>>].max = 10
  /\ <<9>> \notin DOMAIN Countries

\* Stands among the digits for a character that is neither digit nor separator.
Letter == 10

PhoneInput == [plus : BOOLEAN, head : Seq(0..Letter), length : Nat]

Digits(plus, head, length) == [plus |-> plus, head |-> head, length |-> length]

Starts(p, prefix) == ~p.plus /\ IsPrefix(prefix, p.head)

Strip(p, n) == Digits(FALSE, SubSeq(p.head, n + 1, Len(p.head)), p.length - n)

\* The digits of p after a prefix and before the end, read as a mobile number.
MobileAfter(p, n) == Len(p.head) > n /\ p.head[n + 1] \in 6..9

IsMobile(p) ==
  ~p.plus /\ MobileAfter(p, 0) /\ p.length = 10 /\ ~Contains(p.head, Letter)

WithCode(p) == Digits(TRUE, <<9, 1>> \o p.head, p.length + 2)

LooksCoded(p) == Starts(p, <<9, 1>>) /\ MobileAfter(p, 2) /\ p.length = 12

\* /^91[6-9]/, whatever the length.
TakenForCoded(p) == Starts(p, <<9, 1>>) /\ MobileAfter(p, 2)

CleanPhone(p) ==
  IF Starts(p, <<0, 0, 9, 1>>) THEN WithCode(Strip(p, 4))
  ELSE IF Starts(p, <<0, 9, 1>>) /\ MobileAfter(p, 3) /\ p.length = 13 THEN WithCode(Strip(p, 3))
  ELSE IF TakenForCoded(p) THEN WithCode(Strip(p, 2))
  ELSE IF Starts(p, <<0>>) /\ MobileAfter(p, 1) /\ p.length = 11 THEN Strip(p, 1)
  ELSE p

NoNumber == Digits(FALSE, <<>>, 0)

\* Digits after the country code 91, with or without + or 00.
IndianNational(p) ==
  IF IsMobile(p) THEN p
  ELSE IF p.plus /\ IsPrefix(<<9, 1>>, p.head) /\ MobileAfter(p, 2) /\ p.length = 12 THEN Strip(p, 2)
  ELSE IF LooksCoded(p) THEN Strip(p, 2)
  ELSE IF Starts(p, <<0, 0, 9, 1>>) /\ MobileAfter(p, 4) /\ p.length = 14 THEN Strip(p, 4)
  ELSE NoNumber

Invalid(error) == [isValid |-> FALSE, error |-> error]

ValidateIndianMobile(p) ==
  IF IndianNational(p) = NoNumber THEN Invalid("INVALID_INDIAN_MOBILE")
  ELSE [isValid |-> TRUE, type |-> "indian_mobile", code |-> <<9, 1>>,
        national |-> IndianNational(p), normalized |-> WithCode(IndianNational(p))]

\* The shortest prefix that is a country's code.
CodesOf(p) == {n \in 1..4 : n <= Len(p.head) /\ SubSeq(p.head, 1, n) \in DOMAIN Countries}

ValidateInternational(p) ==
  IF ~p.plus THEN Invalid("INVALID_FORMAT")
  ELSE IF IsPrefix(<<0>>, p.head) THEN Invalid("INVALID_COUNTRY_CODE")
  ELSE IF p.length \notin 2..18 THEN Invalid("INVALID_FORMAT")
  ELSE IF CodesOf(p) = {} THEN Invalid("INVALID_COUNTRY_CODE")
  ELSE LET n == CHOOSE m \in CodesOf(p) : \A o \in CodesOf(p) : m <= o
           code == SubSeq(p.head, 1, n)
           national == Strip(p, n)
       IN IF national.length \in Countries[code].min..Countries[code].max
          THEN [isValid |-> TRUE, type |-> "international", code |-> code,
                national |-> national, normalized |-> p]
          ELSE Invalid("INVALID_LENGTH")

\* A long number without + that cannot be Indian gets one.
Internationally(p) ==
  IF ~p.plus /\ p.length > 10 /\ ~MobileAfter(p, 0) THEN [p EXCEPT !.plus = TRUE] ELSE p

ValidatePhone(input, opts) ==
  IF input.length = 0 /\ ~input.plus THEN Invalid("EMPTY_PHONE")
  ELSE IF Contains(input.head, Letter) THEN Invalid("INVALID_CHARACTERS")
  ELSE
    LET cleaned == CleanPhone(input)
        indian == ValidateIndianMobile(cleaned)
        abroad == Internationally(cleaned)
        foreign == ValidateInternational(abroad)
    IN IF indian.isValid \/ opts.requireIndian THEN indian
       ELSE IF opts.allowInternational /\ abroad.plus /\
                 (foreign.isValid \/ cleaned.plus \/ cleaned.length > 12) THEN foreign
       ELSE IF ~opts.allowInternational /\ (cleaned.plus \/ cleaned.length > 11)
         THEN Invalid("INTERNATIONAL_NOT_ALLOWED")
       ELSE indian

\* getCountryInfo, isIndianMobile and isInternationalPhone read the result.
CountryInfo(result) ==
  IF result.isValid /\ result.code \in DOMAIN Countries THEN Countries[result.code] ELSE <<>>

\* The ways an Indian mobile number m is written.
Spellings(m) ==
  [bare  |-> m,
   plus  |-> WithCode(m),
   code  |-> [WithCode(m) EXCEPT !.plus = FALSE],
   trunk |-> Digits(FALSE, <<0>> \o m.head, 11),
   both  |-> Digits(FALSE, <<0, 9, 1>> \o m.head, 13),
   abroad |-> Digits(FALSE, <<0, 0, 9, 1>> \o m.head, 14)]

-------------------------------------------------------------------------------

\* What is accepted is accepted in its normal form, as the same number of the
\* same country, which is of the length the country has.
PhoneIsCanonical(input, opts) ==
  LET result == ValidatePhone(input, opts) IN
    result.isValid =>
      /\ ValidatePhone(result.normalized, opts) = result
      /\ CountryInfo(result) # <<>> =>
           result.national.length \in CountryInfo(result).min..CountryInfo(result).max

\* However an Indian mobile number is spelled, what is accepted has its one normal
\* form; and every spelling is accepted, the ten digits alone where they do not
\* begin like a number with its code.
SpellingsAgree(m) ==
  \A s \in DOMAIN Spellings(m) :
    LET result == ValidatePhone(Spellings(m)[s], [requireIndian |-> FALSE, allowInternational |-> TRUE])
    IN /\ result.isValid => result.normalized = WithCode(m)
       /\ s # "bare" \/ ~TakenForCoded(m) => result.isValid

===============================================================================
