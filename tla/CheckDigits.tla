---------------------------- MODULE CheckDigits -----------------------------
(***************************************************************************)
(* The check digits of a CPF (domain/document/cpf.go) and of a CNPJ        *)
(* (domain/company/cnpj.go), on numbers that are already normalised to     *)
(* their digits: a CPF is formed, or a CNPJ is generated by the verifier   *)
(* (cmd/verify) with its own computation, and one digit is mistyped.       *)
(***************************************************************************)
EXTENDS Naturals, Sequences

CONSTANT BaseDigits     \* digits the numbers are formed from

ASSUME BaseDigitsAssumption == BaseDigits \subseteq 0 .. 9

VARIABLES
    kind,       \* "CPF", "CNPJ", or "" before a number is formed
    number,     \* the number a request holds
    formed,     \* history: the valid number it comes from
    typo        \* history: the position that was mistyped, 0 if none

digitVars == <<kind, number, formed, typo>>

DigitInit == kind = "" /\ number = <<>> /\ formed = <<>> /\ typo = 0

\* Weights of the digits in front of the first and of the second check digit.
CnpjWeights(position) ==
    IF position = 12 THEN <<5, 4, 3, 2, 9, 8, 7, 6, 5, 4, 3, 2>>
    ELSE <<6, 5, 4, 3, 2, 9, 8, 7, 6, 5, 4, 3, 2>>

CpfWeights(position) == [i \in 1 .. position |-> position + 2 - i]

Weights(k, position) == IF k = "CPF" THEN CpfWeights(position) ELSE CnpjWeights(position)

WeightedSum(n, w) ==
    LET s[i \in 0 .. Len(w)] == IF i = 0 THEN 0 ELSE s[i - 1] + n[i] * w[i]
    IN  s[Len(w)]

\* 0 for a remainder below 2, otherwise 11 minus the remainder.
ExpectedDigit(n, w) ==
    LET remainder == WeightedSum(n, w) % 11
    IN  IF remainder >= 2 THEN 11 - remainder ELSE 0

validateCheckDigit(k, n, position) ==
    n[position + 1] = ExpectedDigit(n, Weights(k, position))

isAllSameDigit(n) == \A i \in DOMAIN n : n[i] = n[1]

\* Digits in front of the check digits.
Length(k) == IF k = "CPF" THEN 9 ELSE 12

\* Mutant of Validate: the second check digit is not looked at.
Validate_FirstOnly(k, n) ==
    /\ Len(n) = Length(k) + 2
    /\ ~isAllSameDigit(n)
    /\ validateCheckDigit(k, n, Length(k))

\* Length, not all digits equal, first and second check digit.
Validate(k, n) ==
    /\ Len(n) = Length(k) + 2
    /\ ~isAllSameDigit(n)
    /\ validateCheckDigit(k, n, Length(k))
    /\ validateCheckDigit(k, n, Length(k) + 1)

\* Bases of a CPF, and of a CNPJ of a head office (0001).
Bases(k) ==
    IF k = "CPF" THEN [1 .. 9 -> BaseDigits]
    ELSE {b \o <<0, 0, 0, 1>> : b \in [1 .. 8 -> BaseDigits]}

\* The verifier's check digit behind the first position digits.
calculateCheckDigit(n, position) ==
    LET remainder == WeightedSum(n, CnpjWeights(position)) % 11
    IN  IF remainder < 2 THEN 0 ELSE 11 - remainder

generateCNPJ(base) ==
    LET first == Append(base, calculateCheckDigit(base, 12))
    IN  Append(first, calculateCheckDigit(first, 13))

\* A number with the digits validation expects.
Complete(base) ==
    LET first == Append(base, ExpectedDigit(base, CpfWeights(9)))
    IN  Append(first, ExpectedDigit(first, CpfWeights(10)))

Hold(k, n) == kind' = k /\ number' = n /\ formed' = n /\ typo' = 0

\* NewCPF accepts a number.
Form(base) ==
    /\ kind = ""
    /\ Validate("CPF", Complete(base))
    /\ Hold("CPF", Complete(base))

\* The verifier makes up a company.
Generate(base) ==
    /\ kind = ""
    /\ Hold("CNPJ", generateCNPJ(base))

\* The number arrives with one digit changed.
Mistype(i, d) ==
    /\ kind # "" /\ typo = 0
    /\ i \in DOMAIN number /\ d # number[i]
    /\ number' = [number EXCEPT ![i] = d]
    /\ typo' = i
    /\ UNCHANGED <<kind, formed>>

\* Another request.
Forget == typo # 0 /\ kind' = "" /\ number' = <<>> /\ formed' = <<>> /\ typo' = 0

DigitNext ==
    \/ \E base \in Bases("CPF") : Form(base)
    \/ \E base \in Bases("CNPJ") : Generate(base)
    \/ \E i \in 1 .. 14, d \in 0 .. 9 : Mistype(i, d)
    \/ Forget

DigitSpec == DigitInit /\ [][DigitNext]_digitVars

-----------------------------------------------------------------------------
(* Properties.                                                             *)

\* A check digit completes its weighted sum to a multiple of 11; it is 0 when
\* only 10 would.
CheckDigitExact ==
    kind # "" /\ typo = 0 =>
        \A position \in {Length(kind), Length(kind) + 1} :
            LET sum  == WeightedSum(number, Weights(kind, position))
                fits == {d \in 0 .. 9 : (sum + d) % 11 = 0}
            IN  number[position + 1] \in fits \/ (fits = {} /\ number[position + 1] = 0)

\* The API accepts every CNPJ the verifier generates: two computations of the
\* check digits, written apart, agree.
GeneratedAccepted == kind = "CNPJ" /\ typo = 0 => Validate(kind, number)

\* One mistyped digit is noticed unless both check digits are 0, the value two
\* remainders share; the first digit of a CPF has weight 11 in the second
\* sum, so there the first check digit decides alone.
TypoDetected ==
    typo # 0 /\ Validate(kind, number) =>
        /\ formed[Length(kind) + 1] = 0
        /\ formed[Length(kind) + 2] = 0 \/ (kind = "CPF" /\ typo = 1)

\* Validation agrees with the definition of the check digits, generated numbers
\* are accepted, and one mistyped digit is noticed but for the shared digit 0.
DigitsSound == CheckDigitExact /\ GeneratedAccepted /\ TypoDetected

=============================================================================
