----------------------------- MODULE TextFields -----------------------------
(***************************************************************************)
(* Texts and what is read from them: numbers (src/str_utils.hpp,           *)
(* src/fixed_point.hpp) and the fields of a CSV line (src/parser/csv.cpp). *)
(* A text is a sequence of characters; a line is a sequence of texts, the  *)
(* parts between its commas.  "//" is one character here.                  *)
(***************************************************************************)
EXTENDS FixedPoint, Sequences, SequencesExt

CONSTANTS
    WordLimit,  \* the largest uint32_t
    MaxID       \* the longest order id (10 in the code)

ASSUME TextAssumption == WordLimit \in Nat /\ MaxID \in Nat

Digits == <<"0", "1", "2", "3", "4", "5", "6", "7", "8", "9">>
DigitSet == {Digits[i] : i \in DOMAIN Digits}
DigitValue == [d \in DigitSet |-> CHOOSE v \in 0 .. 9 : Digits[v + 1] = d]

IsNumber(text) == text # <<>> /\ \A i \in DOMAIN text : text[i] \in DigitSet
NumberOf(text) == FoldLeft(LAMBDA n, d : 10 * n + DigitValue[d], 0, text)

-----------------------------------------------------------------------------
(* Numbers.                                                                *)

\* parse_integer into a type whose largest value is "limit": digits only and
\* all of them.  (A signed type is given no sign, an unsigned one takes none.)
ParseInteger(text, limit) ==
    IF IsNumber(text) /\ NumberOf(text) <= limit
    THEN Some(NumberOf(text)) ELSE None

\* str.find('.'), or 0.
Dot(text) == SelectInSeq(text, LAMBDA c : c = ".")

Before(text, i) == IF i = 0 THEN text ELSE SubSeq(text, 1, i - 1)
Signed(text) == text # <<>> /\ text[1] \in {"-", "+"}

\* Mutant: a number is negative if its whole part is.
NegativeWhole(whole) ==
    whole # <<>> /\ whole[1] = "-" /\ Tail(whole) # <<"0">>

Negative(whole) == whole # <<>> /\ whole[1] = "-"

\* frac_part: at most Decimals characters.  What follows them is not read.
Fraction(text) ==
    LET end == Dot(text) + Decimals
    IN  SubSeq(text, Dot(text) + 1, IF end < Len(text) THEN end ELSE Len(text))

\* parse_float: both products are taken modulo 2^64.
ParseFloat(text) ==
    LET whole == Before(text, Dot(text))
        fraction == Fraction(text)
        units == ParseInteger(IF Signed(whole) THEN Tail(whole) ELSE whole, Half - 1)
        parts == ParseInteger(fraction, Half - 1)
        raw == Wrapped(Value(units) * Scale
                       + IF Dot(text) = 0 THEN 0
                         ELSE Value(parts) * 10 ^ (Decimals - Len(fraction)))
    IN  IF ~ Has(units) \/ (Dot(text) # 0 /\ ~ Has(parts)) THEN None
        ELSE Some(IF Negative(whole) THEN Wrapped(-raw) ELSE raw)

-----------------------------------------------------------------------------
(* Printing.                                                               *)

\* The last k digits of n.
Padded(n, k) == [i \in 1 .. k |-> Digits[((n \div 10 ^ (k - i)) % 10) + 1]]

Printed(n) ==
    Padded(n, CHOOSE k \in 1 .. n + 1 :
                  n < 10 ^ k /\ \A j \in 1 .. k - 1 : n >= 10 ^ j)

\* Mutant: no leading zeros behind the point.
WholeAndDigits(n) == Printed(n \div Scale) \o <<".">> \o Printed(n % Scale)

WholeAndParts(n) == Printed(n \div Scale) \o <<".">> \o Padded(n % Scale, Decimals)

\* operator<<.
PriceText(raw) ==
    IF raw < 0 THEN <<"-">> \o WholeAndParts(-raw) ELSE WholeAndParts(raw)

\* price_from_raw: an ITCH price by way of its text.
PriceFromRaw(raw) == ParseFloat(WholeAndParts(raw))

-----------------------------------------------------------------------------
(* The fields of a CSV line.                                               *)

CommentAt(text) == SelectInSeq(text, LAMBDA c : c = "//")

\* trim_inline_comments.
WithoutComment(line) ==
    LET i == SelectInSeq(line, LAMBDA text : CommentAt(text) # 0)
    IN  IF i = 0 THEN line
        ELSE Append(SubSeq(line, 1, i - 1), Before(line[i], CommentAt(line[i])))

\* trim_whitespace_suffix: a comma is no white space, so only the last field
\* loses any.
WithoutBlanks(line) ==
    LET text == Last(line)
        ends == {k \in 0 .. Len(text) : \A i \in k + 1 .. Len(text) : text[i] = " "}
        end == CHOOSE k \in ends : \A j \in ends : k <= j
    IN  Append(Front(line), SubSeq(text, 1, end))

Trimmed(line) == WithoutBlanks(WithoutComment(line))

\* split: field i of five, and the price, which is all that follows.
Field(line, i) == IF i <= Len(line) THEN line[i] ELSE <<>>
PriceField(line) ==
    IF Len(line) < 6 THEN <<>>
    ELSE FlattenSeq([i \in 1 .. Len(line) - 5 |->
            IF i = 1 THEN line[6] ELSE <<",">> \o line[i + 5]])

\* isalnum or '-'.
ValidID(text) ==
    /\ text # <<>>
    /\ Len(text) <= MaxID
    /\ \A i \in DOMAIN text : text[i] \notin {"!", " ", "."}

RequestType == [N |-> "New", C |-> "Cancel", A |-> "AmendPriceQuantity"]
MessageSide == [B |-> "Buy", S |-> "Sell"]
Letter(text, letters) == Len(text) = 1 /\ text[1] \in letters

\* Mutant: zero passes.
NotNegative(n) == Has(n) /\ Value(n) >= 0

Positive(n) == Has(n) /\ Value(n) > 0

\* parse_line: a message, if every check passes.
ParseLine(text) ==
    LET line == Trimmed(text)
        symbol == ParseInteger(Field(line, 1), WordLimit)
        quantity == ParseInteger(Field(line, 5), WordLimit)
        price == ParseFloat(PriceField(line))
        type == Field(line, 2)
        side == Field(line, 4)
    IN  IF /\ Positive(symbol)
           /\ Letter(type, DOMAIN RequestType)
           /\ ValidID(Field(line, 3))
           /\ Letter(side, DOMAIN MessageSide)
           /\ Positive(quantity)
           /\ Positive(price)
        THEN Some([symbol |-> Value(symbol), type |-> RequestType[type[1]],
                   id |-> Field(line, 3), side |-> MessageSide[side[1]],
                   quantity |-> Value(quantity), price |-> Value(price)])
        ELSE None

=============================================================================
