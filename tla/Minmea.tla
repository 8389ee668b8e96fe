------------------------------- MODULE Minmea -------------------------------
(***************************************************************************)
(* A coordinate on its way from the text of a sentence to degrees: the     *)
(* field type 'f' of minmea_scan (libs/gps/minmea/src/minmea.c), which     *)
(* reads a decimal number into an integer and a scale, one character per   *)
(* step, and the conversion of that pair in gps_testTask (app.c).          *)
(*                                                                         *)
(* Characters are their ASCII codes.  Integers have the width of MaxInt:   *)
(* minmea bounds the value before it multiplies and does not bound the     *)
(* scale, whose product wraps.                                             *)
(***************************************************************************)
EXTENDS Integers, SequencesExt

CONSTANTS MaxInt,     \* INT_LEAST32_MAX
          Char,       \* the characters a field may consist of
          MaxLength   \* bound: the length of a field

Space == 32
Plus == 43
Minus == 45
Point == 46
isdigit(c) == c \in 48..57

ASSUME MinmeaAssumption ==
    MaxInt \in Nat /\ MaxInt > 9 /\ Char \subseteq Nat /\ MaxLength \in Nat

VARIABLES text,                \* the field up to here
          sign, value, scale,  \* the locals of case 'f'
          state                \* "scan", "cut" after the break, "error", "done"

vars == <<text, sign, value, scale, state>>

Init == text = <<>> /\ sign = 0 /\ value = -1 /\ scale = 0 /\ state = "scan"

\* A product of the width of int.
Wrap(i) == ((i + MaxInt + 1) % (2 * (MaxInt + 1))) - (MaxInt + 1)

Become(sg, v, sc, st) == sign' = sg /\ value' = v /\ scale' = sc /\ state' = st

SignChar(c) ==
    /\ c \in {Plus, Minus} /\ sign = 0 /\ value = -1
    /\ Become(IF c = Plus THEN 1 ELSE -1, value, scale, "scan")

\* Mutant: the room for the digit itself is not counted.
OutOfBitsLoose(v, digit) == v > MaxInt \div 10

OutOfBits(v, digit) == v > (MaxInt - digit) \div 10

\* Mutant: the scale is raised before the point, too.
NextScaleAlways == Wrap(10 * (IF scale = 0 THEN 1 ELSE scale))

NextScale == IF scale # 0 THEN Wrap(10 * scale) ELSE 0

\* A digit for which there is no room ends the scan: extra precision is cut
\* off, an integer is refused.
DigitChar(c) ==
    LET digit == c - 48
        v     == IF value = -1 THEN 0 ELSE value
    IN  /\ isdigit(c)
        /\ IF OutOfBits(v, digit)
           THEN Become(sign, v, scale, IF scale # 0 THEN "cut" ELSE "error")
           ELSE Become(sign, Wrap(10 * v + digit), NextScale, "scan")

PointChar(c) == c = Point /\ scale = 0 /\ Become(sign, value, 1, "scan")

SpaceChar(c) ==
    /\ c = Space /\ sign = 0 /\ value = -1 /\ scale = 0
    /\ UNCHANGED <<sign, value, scale, state>>

Taken(c) ==
    \/ c \in {Plus, Minus} /\ sign = 0 /\ value = -1
    \/ isdigit(c)
    \/ c = Point /\ scale = 0
    \/ c = Space /\ sign = 0 /\ value = -1 /\ scale = 0

OtherChar(c) == ~Taken(c) /\ Become(sign, value, scale, "error")

ScanChar(c) ==
    /\ state = "scan"
    /\ SignChar(c) \/ DigitChar(c) \/ PointChar(c) \/ SpaceChar(c) \/ OtherChar(c)

\* What follows the break is skipped by next_field.
SkipChar(c) == state = "cut" /\ UNCHANGED <<sign, value, scale, state>>

ReadChar(c) ==
    /\ Len(text) < MaxLength
    /\ ScanChar(c) \/ SkipChar(c)
    /\ text' = Append(text, c)

\* The field ends: no digits at all, no point, or a sign to be applied.
FieldEnd ==
    /\ state \in {"scan", "cut"}
    /\ text' = text
    /\ \/ value = -1 /\ (sign # 0 \/ scale # 0) /\ Become(sign, value, scale, "error")
       \/ value = -1 /\ sign = 0 /\ scale = 0 /\ Become(sign, 0, 0, "done")
       \/ /\ value # -1
          /\ Become(sign, IF sign = 0 THEN value ELSE value * sign,
                    IF scale = 0 THEN 1 ELSE scale, "done")

Next == (\E c \in Char : ReadChar(c)) \/ FieldEnd
Spec == Init /\ [][Next]_vars

-----------------------------------------------------------------------------
(* gps_testTask: degrees from ddmm.mmmm.  C divides towards zero.          *)

Quot(a, b) == IF a >= 0 THEN a \div b ELSE -((-a) \div b)

\* Mutant: the minutes keep the hundreds of the degrees.
DegreesTwice(v, s) ==
    LET temp == Quot(Quot(v, s), 100)
    IN  60 * s * temp + Wrap(v - Wrap(temp * s))

\* The double is kept exact: this is latitude, in units of 1/(60 * s) degree.
Degrees(v, s) ==
    LET temp == Quot(Quot(v, s), 100)
    IN  60 * s * temp + Wrap(v - Wrap(Wrap(temp * s) * 100))

-----------------------------------------------------------------------------
(* What the text says *)

Power[k \in 0..MaxLength] == IF k = 0 THEN 1 ELSE 10 * Power[k - 1]

\* The number that the digits of s make.
Number(s) ==
    LET upTo[k \in 0..Len(s)] ==
            IF k = 0 THEN 0
            ELSE IF isdigit(s[k]) THEN 10 * upTo[k - 1] + (s[k] - 48)
            ELSE upTo[k - 1]
    IN  upTo[Len(s)]

\* The body of the field: without leading spaces and sign.
Body ==
    LET rest == SelectInSeq(text, LAMBDA c : c # Space)
        t    == IF rest = 0 THEN <<>> ELSE SubSeq(text, rest, Len(text))
    IN  IF t # <<>> /\ t[1] \in {Plus, Minus} THEN Tail(t) ELSE t

PointAt == SelectInSeq(Body, LAMBDA c : c = Point)
IntegerDigits  == IF PointAt = 0 THEN Body ELSE SubSeq(Body, 1, PointAt - 1)
FractionDigits == IF PointAt = 0 THEN <<>> ELSE SubSeq(Body, PointAt + 1, Len(Body))

IsDecimal ==
    /\ \A i \in 1..Len(IntegerDigits) : isdigit(IntegerDigits[i])
    /\ \A i \in 1..Len(FractionDigits) : isdigit(FractionDigits[i])
    /\ IntegerDigits \o FractionDigits # <<>>
IsBlank == \A i \in 1..Len(text) : text[i] = Space
Fits == Number(IntegerDigits) <= MaxInt

\* The scale of a number below one is not bounded by its value.
ScaleFits == Number(IntegerDigits) # 0 \/ Power[Len(FractionDigits)] <= MaxInt

\* The number with k decimals, as an integer.
Shown(k) == Number(IntegerDigits \o SubSeq(FractionDigits, 1, k))

(* Properties *)

\* minmea.c 'f': a field is read exactly if it is a number whose integer part
\* fits, or empty; but a sign behind the point (".-5") is read as well, and
\* so is whatever follows the last digit there was room for.
ReadsTheNumbers ==
    /\ state = "error" => ~IsBlank /\ ~(IsDecimal /\ Fits)
    /\ state = "done" =>
          \/ IsBlank
          \/ IsDecimal /\ Fits
          \/ PointAt = 1 /\ Len(Body) > 1 /\ Body[2] \in {Plus, Minus}
          \/ ~IsDecimal /\ Number(IntegerDigits \o FractionDigits) > MaxInt

\* "truncate extra precision": the pair is the number, cut after as many
\* decimals as there is room for and no earlier.
FloatIsTruncation ==
    state = "done" /\ IsDecimal /\ ScaleFits =>
       \E kept \in 0..Len(FractionDigits) :
          /\ scale = Power[kept]
          /\ value = (IF Minus \in Range(text) THEN -1 ELSE 1) * Shown(kept)
          /\ kept < Len(FractionDigits) => Shown(kept + 1) > MaxInt

\* app.c:868-871: the degrees computed from the pair are those of ddmm.mmmm;
\* no product on the way is too wide for int, on either side of the equator.
DegreesOfText ==
    state = "done" /\ IsDecimal /\ ScaleFits =>
       LET whole   == Number(IntegerDigits)
           minutes == IF value >= 0 THEN value - (whole \div 100) * 100 * scale
                      ELSE value + (whole \div 100) * 100 * scale
           dd      == IF Minus \in Range(text) THEN -(whole \div 100) ELSE whole \div 100
       IN  Degrees(value, scale) = 60 * scale * dd + minutes
=============================================================================
