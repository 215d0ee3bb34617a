---------------------------- MODULE DecimalValue ----------------------------
(***************************************************************************)
(* ebinlog/BinlogTypes.h, bin2decimal: a DECIMAL in a row is a sequence of *)
(* groups of up to nine digits, the integer part's first and the           *)
(* fraction's last one shorter, each a big-endian number of as many bytes  *)
(* as its digits need.  A negative value has every bit inverted, and the   *)
(* very first bit is inverted once more, so that the bytes sort like the   *)
(* values.  The parser prints the groups of the value, nine digits each and *)
(* a point between any two, so that a text with more than one point, or of  *)
(* a fraction alone, is not the value's.                                    *)
(*                                                                         *)
(* A DECIMAL has at most 65 digits, and its groups always fit the buffer:  *)
(* the branch for values that do not fit is left out.                      *)
(***************************************************************************)
EXTENDS Integers, Sequences, FiniteSets, SequencesExt

DIG_PER_DEC1 == 9
DIG_MAX == 999999999

\* The bytes of a number of 0 to 9 digits.
dig2bytes == [n \in 0..9 |-> CASE n = 0 -> 0 [] n \in 1..2 -> 1 [] n \in 3..4 -> 2 [] n \in 5..6 -> 3 [] OTHER -> 4]

ROUND_UP(x) == (x + DIG_PER_DEC1 - 1) \div DIG_PER_DEC1

decimal_bin_size(precision, scale) ==
    LET size(n) == 4 * (n \div DIG_PER_DEC1) + dig2bytes[n % DIG_PER_DEC1]
    IN  size(precision - scale) + size(scale)

\* The digits of each group, in the order of the bytes.
Part(n) == IF n = 0 THEN <<>> ELSE <<n>>
Nines(n) == [i \in 1..n |-> DIG_PER_DEC1]
IntGroups(precision, scale) ==
    Part((precision - scale) % DIG_PER_DEC1) \o Nines((precision - scale) \div DIG_PER_DEC1)
FracGroups(scale) == Nines(scale \div DIG_PER_DEC1) \o Part(scale % DIG_PER_DEC1)

\* mi_sint1korr to mi_sint4korr: big-endian and signed.
mi_sintkorr(b) ==
    FoldLeft(LAMBDA x, y : 256 * x + y, IF b[1] >= 128 THEN b[1] - 256 ELSE b[1], Tail(b))

\* Exclusive or with a mask of no bits or of all.
masked(x, negative) == IF negative THEN -x - 1 ELSE x

\* decimal_make_zero
Zero == [sign |-> FALSE, intg |-> 1, frac |-> 0, buf |-> <<0>>]

\* A first group may have one digit more than it should; a group that is out
\* of range makes the whole value zero.  Groups of zeros in front of the
\* first other one are dropped; in an integer zero a single one remains.
bin2decimal(from, precision, scale) ==
    LET negative == from[1] < 128
        d        == [from EXCEPT ![1] = (@ + 128) % 256]
        whole    == IntGroups(precision, scale)
        digits   == whole \o FracGroups(scale)
        at(i)    == FoldLeft(LAMBDA n, w : n + dig2bytes[w], 0, SubSeq(digits, 1, i - 1))
        group    == [i \in DOMAIN digits |->
                        masked(mi_sintkorr(SubSeq(d, at(i) + 1, at(i) + dig2bytes[digits[i]])), negative)]
        highest(i) == IF i = 1 /\ whole # <<>> /\ digits[1] < DIG_PER_DEC1 THEN 10 ^ (digits[1] + 1) - 1
                      ELSE IF i > Len(whole) THEN 10 ^ digits[i] - 1 ELSE DIG_MAX
        scaled   == [i \in DOMAIN digits |->
                        IF i > Len(whole) THEN group[i] * 10 ^ (DIG_PER_DEC1 - digits[i]) ELSE group[i]]
        zeros    == Cardinality({i \in DOMAIN whole : \A j \in 1..i : group[j] = 0})
        dropped  == FoldLeft(LAMBDA n, w : n + w, 0, SubSeq(digits, 1, zeros))
    IN  IF \E i \in DOMAIN digits : group[i] \notin 0..highest(i) THEN Zero
        ELSE [sign |-> negative, intg |-> (precision - scale) - dropped, frac |-> scale,
              buf |-> LET rest == SubSeq(scaled, zeros + 1, Len(scaled))
                      IN  IF rest = <<>> THEN <<0>> ELSE rest]

\* What is printed: the sign, and the groups with a point between each two.
printed(dec) ==
    LET end == ROUND_UP(dec.frac) + ROUND_UP(dec.intg) - 1
        groups == SubSeq(dec.buf, 1, IF end < 0 THEN 1 ELSE end + 1)
    IN  [sign |-> dec.sign,
         text |-> [k \in 1..(2 * Len(groups) - 1) |-> IF k % 2 = 1 THEN groups[(k + 1) \div 2] ELSE "."]]

-----------------------------------------------------------------------------
(* The server: decimal2bin.  A value is a sign and the numbers of its       *)
(* groups; zero has no sign.                                                *)

BigEndian(x, n) == [k \in 1..n |-> (x \div 256 ^ (n - k)) % 256]

decimal2bin(v, precision, scale) ==
    LET digits == IntGroups(precision, scale) \o FracGroups(scale)
        bytes  == FlattenSeq([i \in DOMAIN digits |-> BigEndian(masked(v.groups[i], v.sign), dig2bytes[digits[i]])])
    IN  [bytes EXCEPT ![1] = (@ + 128) % 256]

\* The values whose groups are zero, one, or all nines.
Edges(precision, scale) ==
    LET digits == IntGroups(precision, scale) \o FracGroups(scale)
        values == {g \in [DOMAIN digits -> 0..2] : TRUE}
        number(i, e) == IF e = 2 THEN 10 ^ digits[i] - 1 ELSE e
    IN  {v \in [sign : BOOLEAN, groups : {[i \in DOMAIN digits |-> number(i, g[i])] : g \in values}] :
            v.sign => \E i \in DOMAIN digits : v.groups[i] # 0}

\* The groups of a value from the first of the integer part that is not zero,
\* the fraction's filled up to nine digits.
Groups(v, precision, scale) ==
    LET whole == Len(IntGroups(precision, scale))
        frac  == FracGroups(scale)
        full  == [i \in DOMAIN v.groups |->
                    IF i <= whole THEN v.groups[i] ELSE v.groups[i] * 10 ^ (DIG_PER_DEC1 - frac[i - whole])]
        from  == CHOOSE i \in 1..whole + 1 :
                    /\ \A j \in 1..i - 1 : v.groups[j] = 0
                    /\ i <= whole => v.groups[i] # 0
    IN  [whole |-> SubSeq(full, from, whole), frac |-> SubSeq(full, whole + 1, Len(full))]

\* A text of nine digits, or of nine digits before and after a point, read as a
\* number: the integer part, and the fraction in 10^-9.
Reads(text) == [whole |-> text[1], frac |-> IF Len(text) = 3 THEN text[3] ELSE 0]

\* bin2decimal is the inverse of decimal2bin: the digits are those of the value.
DigitsExact(v, precision, scale) ==
    LET g   == Groups(v, precision, scale)
        dec == bin2decimal(decimal2bin(v, precision, scale), precision, scale)
    IN  /\ Len(decimal2bin(v, precision, scale)) = decimal_bin_size(precision, scale)
        /\ dec.sign = v.sign
        /\ dec.buf = IF g.whole \o g.frac = <<>> THEN <<0>> ELSE g.whole \o g.frac

\* The text is the value's when there is one group of the integer part, or the
\* value is an integer's zero, and at most one of the fraction.  It is not when
\* the integer part is zero and there is a fraction (0.50 is "500000000"), nor
\* when either part has two groups (12345678901 is "000000012.345678901").
TextExact(v, precision, scale) ==
    LET g == Groups(v, precision, scale)
        p == printed(bin2decimal(decimal2bin(v, precision, scale), precision, scale))
    IN  (Len(g.whole) = 1 /\ Len(g.frac) <= 1) \/ (g.whole = <<>> /\ g.frac = <<>>) =>
           /\ p.sign = v.sign /\ Len(p.text) <= 3
           /\ Reads(p.text) = [whole |-> IF g.whole = <<>> THEN 0 ELSE g.whole[1],
                              frac  |-> IF g.frac = <<>> THEN 0 ELSE g.frac[1]]

DecimalExact(precision, scale) ==
    \A v \in Edges(precision, scale) : DigitsExact(v, precision, scale) /\ TextExact(v, precision, scale)
=============================================================================
