---------------------------- MODULE NumericOrder ----------------------------
(***************************************************************************)
(* Comparison of values of different types and the keys under which joins  *)
(* hash them (database/src/executor/value.rs, the end of filter.rs).       *)
(* Integers and floats are compared without rounding either, on the binary *)
(* significand and exponent of the float.                                  *)
(*                                                                         *)
(* The widths are parameters.  The code has IntBits = 64, floats with 53   *)
(* bits of significand and exponents from -1074 to 971; shifts act on      *)
(* twice as many bits as an integer has.                                   *)
(***************************************************************************)
EXTENDS Integers

CONSTANTS
  IntBits,      \* u64::BITS
  Precision,    \* bits of a significand
  MinExponent,  \* of subnormal floats and of the smallest normal ones
  MaxExponent

ASSUME NumericOrderAssumption ==
  /\ {IntBits, Precision} \subseteq Nat \ {0} /\ Precision <= IntBits
  /\ MinExponent \in Int /\ MaxExponent \in Nat /\ MinExponent < 0

\* 2 ^ n.
PowerOfTwo[n \in Nat] == IF n = 0 THEN 1 ELSE 2 * PowerOfTwo[n - 1]

-----------------------------------------------------------------------------
(* Values: Data with its type.                                             *)

Infinite(negative) == [class |-> "infinite", negative |-> negative, significand |-> 0, exponent |-> 0]
NaN == [class |-> "nan", negative |-> FALSE, significand |-> 0, exponent |-> 0]
Finite(negative, significand, exponent) ==
  [class |-> "finite", negative |-> negative, significand |-> significand, exponent |-> exponent]
Zero(negative) == Finite(negative, 0, MinExponent)

\* BinaryFloat::from_f64: subnormal significands have a leading zero and the least exponent.
Floats ==
  {NaN} \cup {Infinite(n) : n \in BOOLEAN} \cup {Zero(n) : n \in BOOLEAN} \cup
  {Finite(n, s, MinExponent) : n \in BOOLEAN, s \in 1 .. PowerOfTwo[Precision - 1] - 1} \cup
  {Finite(n, s, e) : n \in BOOLEAN, s \in PowerOfTwo[Precision - 1] .. PowerOfTwo[Precision] - 1,
                     e \in MinExponent .. MaxExponent}

MaxInt == PowerOfTwo[IntBits - 1] - 1
Ints == - MaxInt - 1 .. MaxInt

Int32(v) == [type |-> "Int32", int |-> v]
Int64(v) == [type |-> "Int64", int |-> v]
Float64(f) == [type |-> "Float64", float |-> f]
Text(rank) == [type |-> "String", rank |-> rank]  \* its place in the order of strings

Values ==
  [type : {"Int32", "Int64"}, int : Ints] \cup [type : {"Float32", "Float64"}, float : Floats]
  \cup [type : {"String"}, rank : Nat]

IsInt(data) == data.type \in {"Int32", "Int64"}
IsFloat(data) == data.type \in {"Float32", "Float64"}

-----------------------------------------------------------------------------
(* Comparison.                                                             *)

Order(a, b) == CASE a < b -> "Less" [] a = b -> "Equal" [] a > b -> "Greater"

Reversed(order) ==
  CASE order = "Less" -> "Greater" [] order = "Greater" -> "Less" [] OTHER -> order

\* Twice this is a float's place among the floats of its sign: what IEEE comparison goes by.
Scaled(f) == (IF f.negative THEN -1 ELSE 1) * f.significand * PowerOfTwo[f.exponent - MinExponent]
Beyond == PowerOfTwo[Precision + MaxExponent - MinExponent + IntBits]
Place(f) ==
  IF f.class = "infinite" THEN (IF f.negative THEN - Beyond ELSE Beyond) ELSE Scaled(f)

\* f64::partial_cmp.
CompareFloats(f, g) ==
  IF "nan" \in {f.class, g.class} THEN "None" ELSE Order(Place(f), Place(g))

\* Number of bits of a natural number.
BitLength(n) == CHOOSE k \in 0 .. 2 * IntBits : PowerOfTwo[k] > n /\ (k > 0 => PowerOfTwo[k - 1] <= n)

HasFraction(f) == f.exponent < 0 /\ f.significand % PowerOfTwo[- f.exponent] # 0
IntegerPart(f) ==
  IF - f.exponent >= IntBits THEN 0 ELSE f.significand \div PowerOfTwo[- f.exponent]

ComparePositiveIntToPositiveFloat_NoFraction(int_value, f) ==   \* mutant: the fraction is cut off
  IF f.exponent >= 0
  THEN LET float_bit_length == BitLength(f.significand) + f.exponent IN
       IF BitLength(int_value) # float_bit_length
       THEN Order(BitLength(int_value), float_bit_length)
       ELSE Order(int_value, f.significand * PowerOfTwo[f.exponent])
  ELSE Order(int_value, IntegerPart(f))

ComparePositiveIntToPositiveFloat(int_value, f) ==
  IF f.exponent >= 0
  THEN LET float_bit_length == BitLength(f.significand) + f.exponent IN
       IF BitLength(int_value) # float_bit_length
       THEN Order(BitLength(int_value), float_bit_length)
       ELSE Order(int_value, f.significand * PowerOfTwo[f.exponent])
  ELSE IF int_value = IntegerPart(f) /\ HasFraction(f) THEN "Less"
       ELSE Order(int_value, IntegerPart(f))

Magnitude(v) == IF v < 0 THEN - v ELSE v

CompareIntToFloat(int_value, f) ==
  CASE f.class = "nan" -> "None"
    [] f.class = "infinite" -> IF f.negative THEN "Greater" ELSE "Less"
    [] f.class = "finite" /\ f.significand = 0 -> Order(int_value, 0)
    [] f.class = "finite" /\ f.significand # 0 ->
         IF (int_value < 0) # f.negative
         THEN IF int_value < 0 THEN "Less" ELSE "Greater"
         ELSE LET magnitude_ordering ==
                    ComparePositiveIntToPositiveFloat(Magnitude(int_value), f)
              IN IF int_value < 0 THEN Reversed(magnitude_ordering) ELSE magnitude_ordering

\* compare_numeric_order; "None" is an error of compare_values.
CompareValues(left, right) ==
  CASE IsInt(left) /\ IsInt(right) -> Order(left.int, right.int)
    [] IsInt(left) /\ IsFloat(right) -> CompareIntToFloat(left.int, right.float)
    [] IsFloat(left) /\ IsInt(right) -> Reversed(CompareIntToFloat(right.int, left.float))
    [] IsFloat(left) /\ IsFloat(right) -> CompareFloats(left.float, right.float)
    [] left.type = "String" /\ right.type = "String" -> Order(left.rank, right.rank)
    [] OTHER -> "None"

-----------------------------------------------------------------------------
(* The key of a value in a join's hash table.                              *)

NoInteger == PowerOfTwo[2 * IntBits]

SignedFromMagnitude(magnitude, is_negative) ==
  CASE is_negative /\ magnitude <= MaxInt + 1 -> - magnitude
    [] ~is_negative /\ magnitude <= MaxInt -> magnitude
    [] OTHER -> NoInteger

(* exact_integral_i64_from_f64.  checked_shl fails for a shift by the      *)
(* width or more; below, bits are shifted out unnoticed.                   *)
ExactIntegral(f) ==
  CASE f.class # "finite" -> NoInteger
    [] f.class = "finite" /\ f.significand = 0 -> 0
    [] f.class = "finite" /\ f.significand # 0 /\ f.exponent >= 0 ->
         IF f.exponent >= 2 * IntBits THEN NoInteger
         ELSE SignedFromMagnitude((f.significand * PowerOfTwo[f.exponent]) % PowerOfTwo[2 * IntBits], f.negative)
    [] f.class = "finite" /\ f.significand # 0 /\ f.exponent < 0 ->
         IF - f.exponent >= IntBits \/ HasFraction(f) THEN NoInteger
         ELSE SignedFromMagnitude(IntegerPart(f), f.negative)

\* normalized_f64_bits: zero has one representation.
NormalizedBits(f) == IF f.class = "finite" /\ f.significand = 0 THEN Zero(FALSE) ELSE f

\* mutant: a float is hashed by its bits
JoinKey_FloatBits(data) ==
  CASE IsInt(data) -> <<"integer", data.int>>
    [] IsFloat(data) -> <<"float", NormalizedBits(data.float)>>
    [] data.type = "String" -> <<"string", data.rank>>

\* hash_join_value: what goes into the digest.
JoinKey(data) ==
  CASE IsInt(data) -> <<"integer", data.int>>
    [] IsFloat(data) ->
         IF ExactIntegral(data.float) # NoInteger
         THEN <<"integer", ExactIntegral(data.float)>>
         ELSE <<"float", NormalizedBits(data.float)>>
    [] data.type = "String" -> <<"string", data.rank>>

-----------------------------------------------------------------------------
(* What comparison is to agree with: the numbers the values stand for.     *)

\* In units of the smallest float.
NumberOf(data) == IF IsInt(data) THEN data.int * PowerOfTwo[- MinExponent] ELSE Place(data.float)

IsNaN(data) == IsFloat(data) /\ data.float.class = "nan"
IsNumber(data) == (IsInt(data) \/ IsFloat(data)) /\ ~IsNaN(data)

ExactOrder(left, right) ==
  CASE IsNumber(left) /\ IsNumber(right) -> Order(NumberOf(left), NumberOf(right))
    [] left.type = "String" /\ right.type = "String" -> Order(left.rank, right.rank)
    [] OTHER -> "None"

SameValue(left, right) == ExactOrder(left, right) = "Equal"

=============================================================================
