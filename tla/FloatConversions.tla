------------------------- MODULE FloatConversions -------------------------
(***************************************************************************)
(* The conversions between float and the 16-bit floats Float16 and         *)
(* BFloat16 (src/data_type.h), on bit patterns.                            *)
(*                                                                         *)
(* A pattern is sign, biased exponent and mantissa.  The code's masks,     *)
(* shifts and limits follow from the widths of these fields, which are     *)
(* constants here: 8 and 23 bits in a float, 5 and 10 in a Float16, 8 and  *)
(* 7 in a BFloat16.                                                        *)
(***************************************************************************)
EXTENDS Integers

CONSTANTS
  E32, M32,      \* widths of the exponent and the mantissa of a float,
  E16, M16,      \* of a Float16
  MB,            \* and of the mantissa of a BFloat16
  NoValue

\* 1 << k.
Pow2[k \in Nat] == IF k = 0 THEN 1 ELSE 2 * Pow2[k - 1]

ASSUME WidthsAssumption ==
  /\ {E32, M32, E16, M16, MB} \subseteq Nat \ {0}
  /\ 1 < E16 /\ E16 < E32 /\ M16 < M32 /\ MB < M32
  \* a float whose exponent is 0 is too small for a Float16
  /\ Pow2[E16 - 1] + M16 < Pow2[E32 - 1]

VARIABLE
  value          \* a number that the program has, as [dtype, bits], or NoValue

ValueInit == value = NoValue

Bias(e) == Pow2[e - 1] - 1
Mantissa(bits, m) == bits % Pow2[m]
Exponent(bits, e, m) == (bits \div Pow2[m]) % Pow2[e]
Sign(bits, e, m) == bits \div Pow2[e + m]
Infinity(e, m) == (Pow2[e] - 1) * Pow2[m]
IsNaN(bits, e, m) == Exponent(bits, e, m) = Pow2[e] - 1 /\ Mantissa(bits, m) # 0

\* Adding the bias and dropping the last bits rounds to the nearest, and to
\* an even pattern in the middle between two.
BiasUp(bits, drop) == Pow2[drop - 1]
BiasEven(bits, drop) == Pow2[drop - 1] - 1 + ((bits \div Pow2[drop]) % 2)
RoundOff(bits, drop) == (bits + BiasEven(bits, drop)) \div Pow2[drop]

-----------------------------------------------------------------------------
\* Float16::FromFloat without the sign: too large, normal, subnormal or too
\* small for a Float16.
Subnormal(exponent, mantissa) ==
  RoundOff(mantissa + Pow2[M32], M32 - M16 + 1 - Bias(E16) - exponent)
Narrowed16(exponent, mantissa) ==
  CASE exponent >= Bias(E16) + 1 ->
         IF exponent = Bias(E32) + 1 /\ mantissa # 0
         THEN Infinity(E16, M16) + Pow2[M16 - 1] ELSE Infinity(E16, M16)
    [] exponent \in 1 - Bias(E16) .. Bias(E16) ->
         (exponent + Bias(E16)) * Pow2[M16] + RoundOff(mantissa, M32 - M16)
    [] exponent \in -(Bias(E16) + M16) .. -Bias(E16) -> Subnormal(exponent, mantissa)
    [] OTHER -> 0

Float16FromFloat(f) ==
  Sign(f, E32, M32) * Pow2[E16 + M16]
    + Narrowed16(Exponent(f, E32, M32) - Bias(E32), Mantissa(f, M32))

\* Float16::ToFloat: a subnormal Float16 is a normal float; its mantissa is
\* shifted up until the leading bit is where the implicit one belongs.
Shifts(mantissa) ==
  CHOOSE s \in 1 .. M16 : mantissa * Pow2[s] \in Pow2[M16] .. Pow2[M16 + 1] - 1
WidenedSubnormalLow(mantissa) ==
  (-Bias(E16) - Shifts(mantissa) + Bias(E32)) * Pow2[M32]
    + Mantissa(mantissa * Pow2[Shifts(mantissa)], M16) * Pow2[M32 - M16]
WidenedSubnormal(mantissa) ==
  (1 - Bias(E16) - Shifts(mantissa) + Bias(E32)) * Pow2[M32]
    + Mantissa(mantissa * Pow2[Shifts(mantissa)], M16) * Pow2[M32 - M16]
Widened16(exponent, mantissa) ==
  CASE exponent = Pow2[E16] - 1 -> Infinity(E32, M32) + mantissa * Pow2[M32 - M16]
    [] exponent = 0 -> IF mantissa = 0 THEN 0 ELSE WidenedSubnormal(mantissa)
    [] exponent \in 1 .. Pow2[E16] - 2 ->
         (exponent + Bias(E32) - Bias(E16)) * Pow2[M32] + mantissa * Pow2[M32 - M16]

Float16ToFloat(h) ==
  Sign(h, E16, M16) * Pow2[E32 + M32]
    + Widened16(Exponent(h, E16, M16), Mantissa(h, M16))

\* A BFloat16 is the first half of a float; the sum wraps around as a float.
BFloat16FromFloat(f) ==
  RoundOff(f, M32 - MB) % Pow2[1 + E32 + MB]
BFloat16ToFloat(b) == b * Pow2[M32 - MB]

-----------------------------------------------------------------------------
Floats == 0 .. Pow2[1 + E32 + M32] - 1
Number(dtype, bits) == [dtype |-> dtype, bits |-> bits]

Has(dtype) == value # NoValue /\ value.dtype = dtype

Load(f) == value = NoValue /\ value' = Number("float32", f)

FromFloat ==
  /\ Has("float32")
  /\ \/ value' = Number("float16", Float16FromFloat(value.bits))
     \/ value' = Number("bfloat16", BFloat16FromFloat(value.bits))

ToFloat ==
  \/ Has("float16") /\ value' = Number("float32", Float16ToFloat(value.bits))
  \/ Has("bfloat16") /\ value' = Number("float32", BFloat16ToFloat(value.bits))

Drop == value # NoValue /\ value' = NoValue

ValueNext == (\E f \in Floats : Load(f)) \/ FromFloat \/ ToFloat \/ Drop

ValueSpec == ValueInit /\ [][ValueNext]_value

-----------------------------------------------------------------------------
\* The reference: how many times its smallest positive number a pattern is,
\* infinity being where the next number would be.
Units(bits, e, m) ==
  LET exponent == Exponent(bits, e, m)
      mantissa == Mantissa(bits, m)
  IN  IF exponent = 0 THEN mantissa ELSE (Pow2[m] + mantissa) * Pow2[exponent - 1]

\* Units of a float in one of a format with e and m bits.
Scale(e, m) == Pow2[Bias(E32) + M32 - Bias(e) - m]

Distance(f, bits, e, m) ==
  LET difference == Units(f, E32, M32) - Units(bits, e, m) * Scale(e, m)
  IN  IF difference < 0 THEN -difference ELSE difference

Nearest(f, bits, e, m) ==
  /\ Sign(bits, e, m) = Sign(f, E32, M32)
  /\ \A other \in 0 .. Infinity(e, m) :
       \/ other = bits % Pow2[e + m]
       \/ Distance(f, bits, e, m) < Distance(f, other, e, m)
       \/ Distance(f, bits, e, m) = Distance(f, other, e, m) /\ bits % 2 = 0

\* FromFloat picks the nearest number, the even one of two that are equally
\* near, from the subnormals up to infinity, and keeps the sign; a NaN stays
\* one in a Float16 (data_type.h:81-107, 142-150).  A NaN may become anything
\* in a BFloat16: the bias carries out of its mantissa.
RoundsToNearest ==
  [][FromFloat =>
       IF IsNaN(value.bits, E32, M32)
       THEN value'.dtype = "float16" => IsNaN(value'.bits, E16, M16)
       ELSE IF value'.dtype = "float16"
       THEN ~IsNaN(value'.bits, E16, M16) /\ Nearest(value.bits, value'.bits, E16, M16)
       ELSE ~IsNaN(value'.bits, E32, MB) /\ Nearest(value.bits, value'.bits, E32, MB)]_value

\* ToFloat is exact: it keeps the number, a subnormal one as well, and its
\* sign, and what is not a number (data_type.h:109-136, 152-157).
Same(f, bits, e, m) ==
  /\ Sign(f, E32, M32) = Sign(bits, e, m)
  /\ IsNaN(f, E32, M32) <=> IsNaN(bits, e, m)
  /\ ~IsNaN(bits, e, m) =>
       IF bits % Pow2[e + m] = Infinity(e, m) THEN f % Pow2[E32 + M32] = Infinity(E32, M32)
       ELSE Distance(f, bits, e, m) = 0
WidensExactly ==
  [][ToFloat =>
       IF value.dtype = "float16" THEN Same(value'.bits, value.bits, E16, M16)
       ELSE Same(value'.bits, value.bits, E32, MB)]_value
=============================================================================
