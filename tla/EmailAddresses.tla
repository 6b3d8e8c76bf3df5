---------------------------- MODULE EmailAddresses ----------------------------
(***************************************************************************)
(* validation/validators/email.validator.js.  A local part is a sequence of *)
(* pieces: "." and "+" themselves, "_" for the characters a local part may  *)
(* have and a subaddress may not, "!" for those only the RFC's pattern      *)
(* takes, and words.  A domain is a sequence of labels.                     *)
(***************************************************************************)
EXTENDS Integers, Sequences, SequencesExt

CONSTANTS
  WordLength,   \* lengths of the words in local parts
  Labels,       \* what the patterns tell of a label: length, wellFormed, tld, blocked
  DangerousDomains

ASSUME EmailAssumption ==
  /\ \A w \in DOMAIN WordLength : WordLength[w] \in Nat \ {0}
  /\ \A l \in DOMAIN Labels : Labels[l].length \in Nat \ {0}

EmailInput == [local : Seq(STRING), domain : Seq(DOMAIN Labels)]

\* cleanEmail trims and lowers: neither is part of what an address is here.
Address(local, domain) == [local |-> local, domain |-> domain]

No(error) == [isValid |-> FALSE, error |-> error]

PieceLength(x) == IF x \in DOMAIN WordLength THEN WordLength[x] ELSE 1

Total(lengths) == MapThenSumSet(LAMBDA i : lengths[i], DOMAIN lengths)

LocalLength(local) == Total([i \in DOMAIN local |-> PieceLength(local[i])])
DomainLength(domain) == Total([i \in DOMAIN domain |-> Labels[domain[i]].length + 1]) - 1

\* RFC5322_EMAIL_PATTERN takes every piece; labels that begin or end with a
\* hyphen, or are empty, it does not.
RFCFormat(a) ==
  /\ a.local # <<>> /\ a.domain # <<>>
  /\ \A i \in DOMAIN a.domain : Labels[a.domain[i]].wellFormed

LocalPartError(local) ==
  IF LocalLength(local) > 64 THEN "LOCAL_PART_TOO_LONG"
  ELSE IF local[1] = "." \/ Last(local) = "." THEN "DOT_AT_BOUNDARY"
  ELSE IF \E i \in 2..Len(local) : local[i - 1] = "." /\ local[i] = "." THEN "CONSECUTIVE_DOTS"
  ELSE IF Contains(local, "!") THEN "INVALID_LOCAL_PART"
  ELSE "none"

\* The list, or a pattern the domain begins with.
IsDangerous(domain) == domain \in DangerousDomains \/ Labels[domain[1]].blocked

DomainError(domain) ==
  IF DomainLength(domain) > 255 THEN "DOMAIN_TOO_LONG"
  ELSE IF DomainLength(domain) < 4 THEN "INVALID_DOMAIN"
  ELSE IF Len(domain) < 2 \/ ~Labels[Last(domain)].tld THEN "INVALID_TLD"
  ELSE IF IsDangerous(domain) THEN "DANGEROUS_DOMAIN"
  ELSE "none"

\* SUBADDRESS_PATTERN: from some + on, only letters, digits, ".", "+" and "-".
HasSubaddress(local) ==
  \E i \in DOMAIN local :
    local[i] = "+" /\ \A j \in i..Len(local) : local[j] \notin {"_", "!"}

Accepted(a, dangerous) ==
  [isValid |-> TRUE, normalized |-> a, tld |-> Last(a.domain),
   hasSubaddress |-> HasSubaddress(a.local), isDangerousDomain |-> dangerous]

\* A dangerous domain that is not blocked is accepted before the subaddress is
\* looked at.
ValidateEmail(a, opts) ==
  IF a.local = <<>> /\ a.domain = <<>> THEN No("EMPTY_EMAIL")
  ELSE IF LocalLength(a.local) + 1 + DomainLength(a.domain) > 254 THEN No("EMAIL_TOO_LONG")
  ELSE IF ~RFCFormat(a) THEN No("INVALID_FORMAT")
  ELSE IF LocalPartError(a.local) # "none" THEN No(LocalPartError(a.local))
  ELSE IF DomainError(a.domain) = "DANGEROUS_DOMAIN" /\ ~opts.blockDangerousDomains
    THEN Accepted(a, TRUE)
  ELSE IF DomainError(a.domain) # "none" THEN No(DomainError(a.domain))
  ELSE IF HasSubaddress(a.local) /\ ~opts.allowSubaddressing THEN No("INVALID_SUBADDRESS")
  ELSE Accepted(a, FALSE)

\* getBaseEmail: what stands before the first +, unless that is nothing.
BaseEmail(a) ==
  LET plus == SelectInSeq(a.local, LAMBDA x : x = "+") IN
  IF plus <= 1 THEN a ELSE Address(SubSeq(a.local, 1, plus - 1), a.domain)

-------------------------------------------------------------------------------

\* The local part reads as words between single dots.
IsDotAtom(local) ==
  \A i \in DOMAIN local :
    local[i] = "." => i \notin {1, Len(local)} /\ local[i - 1] # "."

\* What is accepted has a mailbox of words between single dots.  It is
\* accepted again unchanged, and by every option that allows more.  Its base
\* address is its own base, has no + but in front, and is accepted too, unless a
\* dot stood before the +.
EmailIsCanonical(a, opts) ==
  LET result == ValidateEmail(a, opts)
      base == BaseEmail(a)
      lenient == [blockDangerousDomains |-> FALSE, allowSubaddressing |-> TRUE]
  IN result.isValid =>
       /\ IsDotAtom(a.local)
       /\ ValidateEmail(result.normalized, opts) = result
       /\ ValidateEmail(a, lenient).isValid
       /\ BaseEmail(base) = base
       /\ Contains(base.local, "+") => a.local[1] = "+"
       /\ ValidateEmail(base, opts).isValid \/ Last(base.local) = "."

===============================================================================
