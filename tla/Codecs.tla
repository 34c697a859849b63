------------------------------- MODULE Codecs -------------------------------
(* What is on the wire, byte for byte: levels and brightness (light.py), the  *)
(* reports of a load (elegance.py, jetstream.py) and the bitmaps of ^G and ^H  *)
(* (protocol/common.py). A line is a sequence of ASCII codes.                 *)
EXTENDS Integers, Sequences

CR == 13
LF == 10

-----------------------------------------------------------------------------
(* Levels are 0..99, brightness is 0..255.                                   *)

\* async_turn_on: max(1, round(b / 255 * 99)). 66 * b is never an odd multiple of
\* 85, so no half is there to be rounded.
LevelOfDown(b) == (33 * b) \div 85                           \* mutant
LevelOf(b) ==
    LET nearest == (66 * b + 85) \div 170 IN IF nearest < 1 THEN 1 ELSE nearest

\* brightness: min(255, int(l / 99 * 255)).
BrightnessOf(l) == LET b == (255 * l) \div 99 IN IF b > 255 THEN 255 ELSE b

-----------------------------------------------------------------------------
(* Numbers.                                                                  *)

Dec2(n) == <<48 + n \div 10, 48 + (n % 10)>>
Dec3(n) == <<48 + n \div 100, 48 + ((n \div 10) % 10), 48 + (n % 10)>>

AreDigits(s) == \A i \in DOMAIN s : s[i] \in 48..57
Value2(s) == 10 * (s[1] - 48) + s[2] - 48
Value3(s) == 100 * (s[1] - 48) + 10 * (s[2] - 48) + s[3] - 48

HexOf(v) == IF v < 10 THEN 48 + v ELSE 55 + v
AreHex(s) == \A i \in DOMAIN s : s[i] \in 48..57 \cup 65..70
HexValue(c) == IF c < 65 THEN c - 48 ELSE c - 55

-----------------------------------------------------------------------------
(* The reports of a load: ^Knnnll and DEVnnnll.                              *)

Prefix(system) == IF system = "jetstream" THEN <<68, 69, 86>> ELSE <<94, 75>>

LoadLine(system, idx, level) == Prefix(system) \o Dec3(idx) \o Dec2(level)

\* _dispatch and _dispatch_load_event: what is such a line, and what it says.
IsLoadLine(system, s) ==
    LET p == Len(Prefix(system)) IN
    Len(s) = p + 5 /\ SubSeq(s, 1, p) = Prefix(system)
IsReadable(system, s) == AreDigits(SubSeq(s, Len(Prefix(system)) + 1, Len(s)))
LoadIn(system, s)  == Value3(SubSeq(s, Len(s) - 4, Len(s) - 2))
LevelIn(system, s) == Value2(SubSeq(s, Len(s) - 1, Len(s)))

-----------------------------------------------------------------------------
(* The bitmaps: `groups` chunks of `bytes` bytes, two digits to a byte.       *)

\* What the bridge sends, after the manual as common.py quotes it: each byte is
\* its high digit and its low digit, bit 0 the lowest number.
Bitmap(lit, groups, bytes) ==
    LET First(p)     == 8 * ((p - 1) \div 2) + (IF p % 2 = 1 THEN 5 ELSE 1)
        Bit(n, w)    == IF n \in lit THEN w ELSE 0
        Digit(n)     == Bit(n, 1) + Bit(n + 1, 2) + Bit(n + 2, 4) + Bit(n + 3, 8)
    IN [p \in 1..2 * bytes * groups |-> HexOf(Digit(First(p)))]

\* int(x, 16) takes small letters as well; no bridge of the models sends any.
IsBitmap(s, groups, bytes) == Len(s) = 2 * bytes * groups /\ AreHex(s)

\* parse_load_bitmap and parse_switch_bitmap: the numbers whose bit is set.
Weight == <<1, 2, 4, 8, 16, 32, 64, 128>>
SwappedBits(s, groups, bytes) ==                             \* mutant
    LET Byte(i) == 16 * HexValue(s[2 * i + 2]) + HexValue(s[2 * i + 1])
        Places  == (0..groups - 1) \X (0..bytes - 1) \X (0..7)
    IN {8 * (bytes * t[1] + t[2]) + t[3] + 1 :
           t \in {u \in Places : (Byte(bytes * u[1] + u[2]) \div Weight[u[3] + 1]) % 2 = 1}}
SetBits(s, groups, bytes) ==
    LET Byte(i) == 16 * HexValue(s[2 * i + 1]) + HexValue(s[2 * i + 2])
        Places  == (0..groups - 1) \X (0..bytes - 1) \X (0..7)
    IN {8 * (bytes * t[1] + t[2]) + t[3] + 1 :
           t \in {u \in Places : (Byte(bytes * u[1] + u[2]) \div Weight[u[3] + 1]) % 2 = 1}}
=============================================================================
