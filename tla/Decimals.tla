------------------------------ MODULE Decimals ------------------------------
(***************************************************************************)
(* Exact decimal arithmetic on digit strings                               *)
(* (src/application/balances/decimal.rs).  A digit string is a sequence of *)
(* 0..9; a decimal text "12.05" is its integer digits and its fraction     *)
(* digits, the latter empty when the text has no point.                    *)
(***************************************************************************)
EXTENDS Lists

IsUnsignedInteger(digits) ==
    digits # <<>> /\ \A i \in DOMAIN digits : digits[i] \in 0..9

Zeros(n) == [i \in 1..n |-> 0]

(* trim_start_matches('0'), never empty.                                   *)
NormalizeIntegerDigits(digits) ==
    LET from == {i \in DOMAIN digits : digits[i] # 0} IN
    IF from = {} THEN <<0>>
    ELSE SubSeq(digits, CHOOSE i \in from : \A j \in from : i <= j, Len(digits))

FormatScaledDigits(digits, scale) ==
    IF scale < Len(digits)
    THEN [int  |-> SubSeq(digits, 1, Len(digits) - scale),
          frac |-> SubSeq(digits, Len(digits) - scale + 1, Len(digits))]
    ELSE IF scale = 0 THEN [int |-> digits, frac |-> <<>>]
    ELSE [int |-> <<0>>, frac |-> Zeros(scale - Len(digits)) \o digits]

(* A text that is no decimal has no digits.                                *)
IsUnsignedDecimal(text) == IsUnsignedInteger(text.int)

ParseUnsignedDecimal(text) ==
    [digits |-> NormalizeIntegerDigits(text.int \o text.frac),
     scale  |-> Len(text.frac)]

FormatAmount(raw_amount, decimals) ==
    FormatScaledDigits(NormalizeIntegerDigits(raw_amount), decimals)

(* The digits, least significant first, of the number whose columns of     *)
(* weight 10^(k-1) are columns[k]: one pass of carries.                    *)
Carried(columns) ==
    LET sum[k \in 1..Len(columns)] ==
          columns[k] + (IF k = 1 THEN 0 ELSE sum[k - 1] \div 10)
    IN [k \in 1..Len(columns) |->
          IF k = Len(columns) THEN sum[k] ELSE sum[k] % 10]

(* Schoolbook multiplication.                                              *)
MultiplyIntegerDigits(left, right) ==
    LET l == Reverse(NormalizeIntegerDigits(left))
        r == Reverse(NormalizeIntegerDigits(right))
        Column(k) == FoldLeft(LAMBDA sum, i : sum +
                                IF k - i + 1 \in DOMAIN r
                                THEN l[i] * r[k - i + 1] ELSE 0,
                              0, [i \in DOMAIN l |-> i])
    IN NormalizeIntegerDigits(
         Reverse(Carried([k \in 1..(Len(l) + Len(r)) |-> Column(k)])))

(* Column addition; a last carry opens one more column.                    *)
AddIntegerDigits(left, right) ==
    LET n == IF Len(left) > Len(right) THEN Len(left) ELSE Len(right)
        Digit(s, k) == IF k <= Len(s) THEN s[Len(s) - k + 1] ELSE 0
        carried == Carried([k \in 1..(n + 1) |->
                              IF k > n THEN 0
                              ELSE Digit(left, k) + Digit(right, k)])
    IN Reverse(IF carried[n + 1] = 0 THEN SubSeq(carried, 1, n) ELSE carried)

(* The product keeps at least the balance's scale: only the zeros that the *)
(* price's fraction adds are dropped.                                      *)
MultiplyAmountByPrice(raw_amount, decimals, unit_price) ==
    LET price   == ParseUnsignedDecimal(unit_price)
        product == MultiplyIntegerDigits(raw_amount, price.digits)
        trims   == {n \in 0..price.scale :
                      \A i \in 0..(n - 1) :
                        i < Len(product) /\ product[Len(product) - i] = 0}
        trim    == IF product = <<0>> THEN 0
                   ELSE CHOOSE n \in trims : \A m \in trims : m <= n
        scale   == IF product = <<0>> THEN decimals
                   ELSE decimals + price.scale - trim
    IN FormatScaledDigits(SubSeq(product, 1, Len(product) - trim), scale)

(* Mutant: the shorter fraction is not padded.                             *)
AddUnaligned(left, right) ==
    LET l == ParseUnsignedDecimal(left)
        r == ParseUnsignedDecimal(right)
        scale == IF l.scale > r.scale THEN l.scale ELSE r.scale
    IN FormatScaledDigits(AddIntegerDigits(l.digits, r.digits), scale)

AddUnsignedDecimals(left, right) ==
    LET l == ParseUnsignedDecimal(left)
        r == ParseUnsignedDecimal(right)
        scale == IF l.scale > r.scale THEN l.scale ELSE r.scale
    IN FormatScaledDigits(
         AddIntegerDigits(l.digits \o Zeros(scale - l.scale),
                          r.digits \o Zeros(scale - r.scale)), scale)

(***************************************************************************)
(* Reference: the number that digits stand for, and a decimal text as an   *)
(* integer of units 10^-scale.                                             *)
(***************************************************************************)
Number(digits) == FoldLeft(LAMBDA n, d : 10 * n + d, 0, digits)

Power10(n) == FoldLeft(LAMBDA p, z : 10 * p, 1, Zeros(n))

InUnits(text, scale) ==
    Number(text.int \o text.frac) * Power10(scale - Len(text.frac))

=============================================================================
