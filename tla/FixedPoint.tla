----------------------------- MODULE FixedPoint -----------------------------
(***************************************************************************)
(* FixedPoint<DecimalPlaces> of src/fixed_point.hpp.  A value is its raw   *)
(* integer m_value: the number it stands for times Scale.                  *)
(* Sums and scaled integers of 64 bits are taken as exact, since their     *)
(* overflow is undefined; the conversions that the code makes on purpose,  *)
(* from 128 bits and from unsigned, keep their width.                      *)
(***************************************************************************)
EXTENDS Integers

CONSTANTS
    Decimals,  \* DecimalPlaces
    Half       \* raw values are -Half .. Half - 1 (2^63 in the code)

ASSUME FixedPointAssumption ==
    /\ Decimals \in Nat
    /\ Half \in Nat \ {0}

\* std::optional.
None == <<>>
Some(x) == <<x>>
Has(o) == o # None
Value(o) == o[1]
ValueOr(o, x) == IF Has(o) THEN Value(o) ELSE x

Scale == 10 ^ Decimals

\* static_cast<int64_t>.
Wrapped(x) == ((x + Half) % (2 * Half)) - Half

Magnitude(x) == IF x < 0 THEN -x ELSE x

\* The integer division of C++: towards zero.
TruncDiv(x, y) ==
    LET q == Magnitude(x) \div Magnitude(y)
    IN  IF (x < 0) <=> (y < 0) THEN q ELSE -q

\* FixedPoint(BaseType): the number n.
FromInt(n) == n * Scale

\* Unary minus hands the raw value to the constructor that scales.
Neg(x) == FromInt(-x)

Sub(x, y) == x - y
Add(x, y) == x + y

Mul(x, y) == Wrapped(TruncDiv(x * y, Scale))

Div(x, y) == Wrapped(TruncDiv(x * Scale, y))

\* static_cast<FixedPoint>(std::sqrt(static_cast<double>(x))): the double is
\* converted to the integer that the constructor takes, so only whole units
\* of the root are left.
WholeRoot(x) ==
    LET whole == x \div Scale
    IN  FromInt(CHOOSE r \in 0 .. whole :
                    r * r <= whole /\ whole < (r + 1) * (r + 1))

=============================================================================
