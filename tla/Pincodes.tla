------------------------------- MODULE Pincodes -------------------------------
(***************************************************************************)
(* validation/validators/pincode.validator.js.  An input is its digits, and *)
(* whether anything but digits stands among them.                           *)
(***************************************************************************)
EXTENDS Integers, Sequences, SequencesExt

CONSTANT SpecialPincodes   \* SPECIAL_PINCODES: sequences of six digits

ASSUME PincodeAssumption ==
  \A p \in SpecialPincodes : Len(p) = 6 /\ p[1] # 0

PincodeInput == [digits : Seq(0..9), extra : BOOLEAN]

Pin(digits, extra) == [digits |-> digits, extra |-> extra]

Bad(error) == [isValid |-> FALSE, error |-> error]

\* cleanPincode: whatever is not a digit is dropped.
CleanPincode(input) == Pin(input.digits, FALSE)

IsPincode(digits) == Len(digits) = 6 /\ digits[1] \in 1..9

PincodeFormat(digits) ==
  IF IsPincode(digits) THEN "none"
  ELSE IF Len(digits) < 6 THEN "PINCODE_TOO_SHORT"
  ELSE IF Len(digits) > 6 THEN "PINCODE_TOO_LONG"
  ELSE "INVALID_STARTING_DIGIT"

\* POSTAL_REGIONS has the regions 1 to 9.
Region(digits) == IF Len(digits) = 6 /\ digits[1] \in 1..9 THEN digits[1] ELSE 0

\* Other characters are tolerated exactly when the digits make a pincode,
\* strictFormat or not.
PincodeError(input, opts) ==
  LET digits == CleanPincode(input).digits IN
  IF digits = <<>> THEN "EMPTY_PINCODE"
  ELSE IF opts.strictFormat /\ input.extra /\ ~IsPincode(digits) THEN "INVALID_CHARACTERS"
  ELSE IF PincodeFormat(digits) # "none" THEN PincodeFormat(digits)
  ELSE IF opts.validateRegion /\ Region(digits) = 0 THEN "INVALID_REGION"
  ELSE "none"

ValidatePincode(input, opts) ==
  LET digits == CleanPincode(input).digits IN
  IF PincodeError(input, opts) # "none" THEN Bad(PincodeError(input, opts))
  ELSE [isValid |-> TRUE, normalized |-> digits, region |-> Region(digits),
        special |-> digits \in SpecialPincodes]

\* formatPincode with a separator: XXX XXX.
Grouped(digits) == Pin(digits, Len(digits) = 6)

\* createPincodeSchema and pincodeSchema clean before they validate.
PincodeSchema(input, opts) == ValidatePincode(CleanPincode(input), opts)

-------------------------------------------------------------------------------

\* A pincode is six digits of which the first is a region; it is accepted in
\* every spelling, by the schema as by the function, and as it is displayed.
PincodeIsCanonical(input, opts) ==
  LET result == ValidatePincode(input, opts) IN
    /\ result.isValid <=> (Len(input.digits) = 6 /\ input.digits[1] # 0)
    /\ result.isValid =>
         /\ result.region = input.digits[1]
         /\ PincodeSchema(input, opts) = result
         /\ ValidatePincode(Grouped(result.normalized), opts) = result

===============================================================================
