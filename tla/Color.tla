-------------------------------- MODULE Color --------------------------------
(***************************************************************************)
(* The arithmetic on colors and speeds of fnordlicht-firmware/pwm.c and    *)
(* remote.c, with the widths of the AVR: uint8_t, uint16_t, and an int of  *)
(* 16 bits.  A product of two uint8_t is an int and may overflow; what the *)
(* generated code gives then is the product modulo 2^16, read as signed.   *)
(***************************************************************************)
EXTENDS Integers

Channel == 1 .. 3                   \* red, green, blue

WordSize == 65536                   \* uint16_t, int8_t, int16_t
Word == 0 .. WordSize - 1
SignedByte == -128 .. 127
SignedWord == -(WordSize \div 2) .. WordSize \div 2 - 1

ToByte(x) == x % 256
ToWord(x) == x % WordSize
ToInt(x) == ((x + WordSize \div 2) % WordSize) - WordSize \div 2

\* The division of C, which rounds towards zero.
Quot(a, b) == IF a >= 0 THEN a \div b ELSE -((-a) \div b)

Clamp(x) == IF x > 255 THEN 255 ELSE IF x < 0 THEN 0 ELSE x

Largest(rgb) == CHOOSE x \in {rgb[i] : i \in Channel} : \A i \in Channel : x >= rgb[i]
Smallest(rgb) == CHOOSE x \in {rgb[i] : i \in Channel} : \A i \in Channel : x <= rgb[i]
Distance(a, b) == IF a > b THEN a - b ELSE b - a

\* remote_apply_offset, with a signed offset
ApplyOffset(value, offset) ==
    IF offset < 0
    THEN IF value > -offset THEN value + offset ELSE 1
    ELSE IF value + offset > 255 THEN 255 ELSE value + offset

\* apply_scale
ApplyScale(value, scale) == (value * scale) \div 255

\* remote_apply_hsv_offset
ApplyHsvOffset(hsv, offsets) ==
    [hue |-> ToWord(hsv.hue + offsets.hue),
     sat |-> ApplyScale(hsv.sat, offsets.sat),
     val |-> ApplyScale(hsv.val, offsets.val)]

\* pwm_hsv2rgb
HsvToRgb(hsv) ==
    LET h == hsv.hue % 360
        s == hsv.sat
        v == hsv.val
        f == ((h % 60) * 255 + 30) \div 60
        p == ToByte(Quot(ToInt(v * (255 - s) + 128), 255))
        q == (v * (255 - (s * f + 128) \div 255) + 128) \div 255
        t == (v * (255 - (s * (255 - f)) \div 255)) \div 255
        sectors == <<<<v, t, p>>, <<q, v, p>>, <<p, v, t>>,
                     <<p, q, v>>, <<t, p, v>>, <<v, p, q>>>>
    IN  IF s = 0 THEN <<v, v, v>> ELSE sectors[h \div 60 + 1]

\* The hue in pwm_rgb2hsv: the first channel that has the largest value counts.
HueOf(rgb) ==
    LET diff == Largest(rgb) - Smallest(rgb)
        Turned(a, b, base) == Quot(60 * (rgb[a] - rgb[b]) + diff \div 2, diff) + base
    IN  IF diff = 0 THEN 0
        ELSE IF rgb[1] = Largest(rgb) THEN Turned(2, 3, 360) % 360
        ELSE IF rgb[2] = Largest(rgb) THEN Turned(3, 1, 120) % 360
        ELSE Turned(1, 2, 240) % 360

\* pwm_rgb2hsv
RgbToHsv(rgb) ==
    LET max == Largest(rgb)
        diff == max - Smallest(rgb)
    IN  [hue |-> IF max = 0 THEN 0 ELSE HueOf(rgb),
         sat |-> IF max = 0 THEN 0 ELSE ToByte(Quot(ToInt(255 * diff + max \div 2), max)),
         val |-> max]

-----------------------------------------------------------------------------
(* compute_speed: slower channels for shorter distances *)

\* The first channel of those that have farthest to go.
Farthest(from, to) ==
    CHOOSE c \in Channel : \A i \in Channel :
        LET d(k) == Distance(from[k], to[k])
        IN  d(c) > d(i) \/ (d(c) = d(i) /\ c <= i)

Ratio(dist, d) == IF d = 0 THEN 1 ELSE (dist + d \div 2) \div d

ChannelDelays(from, to, delay) ==
    LET lead == Farthest(from, to)
        dist == Distance(from[lead], to[lead])
    IN  [c \in Channel |->
            IF c = lead THEN delay
            ELSE ToByte(Ratio(dist, Distance(from[c], to[c])) * delay)]
==============================================================================
