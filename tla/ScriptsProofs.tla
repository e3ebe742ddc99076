---------------------------- MODULE ScriptsProofs -----------------------------
(***************************************************************************)
(* Proofs about Fading and Scripts, for every set of programs, commands    *)
(* and stored colors of the types that the structures of the code give     *)
(* them.                                                                   *)
(***************************************************************************)
EXTENDS Scripts, TLAPS

-----------------------------------------------------------------------------
(* Arithmetic *)

LEMMA ByteIs == \A x \in Int : ToByte(x) \in Brightness
BY DEF ToByte, Brightness

LEMMA WordSizeIs == WordSize \in Nat /\ WordSize > 360
BY SMT DEF WordSize

LEMMA WordIs == \A x \in Int : ToWord(x) \in Word
BY WordSizeIs, SMT DEF ToWord, Word

LEMMA WordsAre == \A x \in Word : x \in Int /\ x % 360 \in 0 .. 359
<1>1. \A x \in Word : x \in Int
    BY WordSizeIs, SMT DEF Word
<1>2. \A x \in Int : x % 360 \in 0 .. 359
    BY SMT
<1> QED BY <1>1, <1>2, Zenon

LEMMA HuesAre == \A x \in 0 .. 359 : x \in Word
BY WordSizeIs, SMT DEF Word

LEMMA SignedAre == \A x \in SignedWord : x \in Int
BY WordSizeIs, SMT DEF SignedWord

LEMMA IntIs == \A x \in Int : ToInt(x) \in Int
BY WordSizeIs, SMT DEF ToInt

LEMMA QuotIs == \A a \in Int, b \in Nat \ {0} : Quot(a, b) \in Int
BY DEF Quot

LEMMA ClampIs == \A x \in Int : Clamp(x) \in Brightness
BY DEF Clamp, Brightness

\* remote_apply_offset stays within a byte.
LEMMA OffsetIs ==
    ASSUME NEW value \in Brightness, NEW offset \in SignedByte
    PROVE  ApplyOffset(value, offset) \in Brightness
BY DEF ApplyOffset, Brightness, SignedByte

\* The product of two factors lies between 0 and the product of their bounds.
LEMMA ProductIs ==
    ASSUME NEW a \in Nat, NEW b \in Nat, NEW m \in Nat, a <= m
    PROVE  a * b \in Nat /\ a * b <= m * b
<1> DEFINE d == m - a
<1>1. d \in Nat /\ m = a + d
    OBVIOUS
<1>2. m * b = a * b + d * b
    BY <1>1
<1>3. d * b \in Nat /\ a * b \in Nat
    BY <1>1
<1> QED BY <1>2, <1>3

\* A byte times at most 255, halves added, and divided by 255, is a byte.
LEMMA ScaledIs ==
    ASSUME NEW a \in Brightness, NEW b \in Brightness, NEW r \in 0 .. 128
    PROVE  (a * b + r) \div 255 \in Brightness
<1>1. a * b \in Nat /\ a * b <= 255 * b
    BY ProductIs DEF Brightness
<1> DEFINE x == a * b
<1>2. x \in Nat /\ x <= 65025
    BY <1>1 DEF Brightness
<1> HIDE DEF x
<1>3. (x + r) \div 255 \in Brightness
    BY <1>2 DEF Brightness
<1> QED BY <1>3 DEF x

LEMMA ScaleIs ==
    ASSUME NEW value \in Brightness, NEW scale \in Brightness
    PROVE  ApplyScale(value, scale) \in Brightness
<1>1. (value * scale + 0) \div 255 \in Brightness
    BY ScaledIs
<1>2. value * scale \in Int
    BY DEF Brightness
<1> QED BY <1>1, <1>2 DEF ApplyScale

LEMMA HsvOffsetIs ==
    ASSUME NEW hsv \in HsvColors, NEW o \in OffsetSets
    PROVE  ApplyHsvOffset(hsv, o) \in HsvColors
<1>1. hsv.hue \in Word /\ hsv.sat \in Brightness /\ hsv.val \in Brightness
    BY Zenon DEF HsvColors
<1>2. o.hue \in SignedWord /\ o.sat \in Brightness /\ o.val \in Brightness
    BY Zenon DEF OffsetSets
<1>3. ToWord(hsv.hue + o.hue) \in Word
    <2>1. hsv.hue + o.hue \in Int
        BY <1>1, <1>2, WordsAre, SignedAre
    <2> QED BY <2>1, WordIs
<1>4. ApplyScale(hsv.sat, o.sat) \in Brightness /\ ApplyScale(hsv.val, o.val) \in Brightness
    BY <1>1, <1>2, ScaleIs, Zenon
<1> QED BY <1>3, <1>4 DEF ApplyHsvOffset, HsvColors

-----------------------------------------------------------------------------
(* Colors *)

\* pwm_hsv2rgb gives three bytes, whatever its 16 bit sums overflow to.
LEMMA HsvToRgbIs ==
    ASSUME NEW hsv \in HsvColors
    PROVE  HsvToRgb(hsv) \in Rgb
<1> DEFINE h == hsv.hue % 360
           s == hsv.sat
           v == hsv.val
           f == ((h % 60) * 255 + 30) \div 60
           p == ToByte(Quot(ToInt(v * (255 - s) + 128), 255))
           sf == (s * f + 128) \div 255
           q == (v * (255 - sf) + 128) \div 255
           sg == (s * (255 - f)) \div 255
           t == (v * (255 - sg)) \div 255
<1>1. s \in Brightness /\ v \in Brightness /\ h \in 0 .. 359
    <2>1. hsv.hue \in Word /\ hsv.sat \in Brightness /\ hsv.val \in Brightness
        BY Zenon DEF HsvColors
    <2>2. hsv.hue % 360 \in 0 .. 359
        BY <2>1, WordsAre
    <2> QED BY <2>1, <2>2, Zenon
<1>2. f \in 0 .. 251
    BY <1>1
<1> HIDE DEF h, s, v, f
<1>3. p \in Brightness
    <2>1. v * (255 - s) + 128 \in Int
        BY <1>1 DEF Brightness
    <2>2. ToInt(v * (255 - s) + 128) \in Int
        BY <2>1, IntIs
    <2>3. Quot(ToInt(v * (255 - s) + 128), 255) \in Int
        BY <2>2, QuotIs
    <2> QED BY <2>3, ByteIs
<1>4. sf \in Brightness /\ 255 - sf \in Brightness
    <2>1. f \in Brightness /\ 128 \in 0 .. 128
        BY <1>2 DEF Brightness
    <2>2. sf \in Brightness
        BY <1>1, <2>1, ScaledIs
    <2> HIDE DEF sf
    <2> QED BY <2>2 DEF Brightness
<1> HIDE DEF sf
<1>5. q \in Brightness
    <2>1. 128 \in 0 .. 128
        OBVIOUS
    <2> QED BY <1>1, <1>4, <2>1, ScaledIs
<1>6. 255 - f \in Brightness
    BY <1>2 DEF Brightness
<1>7. sg \in Brightness /\ 255 - sg \in Brightness
    <2>1. (s * (255 - f) + 0) \div 255 \in Brightness
        BY <1>1, <1>6, ScaledIs
    <2>2. s * (255 - f) \in Int
        BY <1>1, <1>6 DEF Brightness
    <2> QED BY <2>1, <2>2 DEF Brightness
<1> HIDE DEF sg
<1>8. t \in Brightness
    <2>1. (v * (255 - sg) + 0) \div 255 \in Brightness
        BY <1>1, <1>7, ScaledIs
    <2>2. v * (255 - sg) \in Int
        BY <1>1, <1>7 DEF Brightness
    <2> QED BY <2>1, <2>2
<1> HIDE DEF p, q, t
<1> DEFINE sectors == <<<<v, t, p>>, <<q, v, p>>, <<p, v, t>>,
                        <<p, q, v>>, <<t, p, v>>, <<v, p, q>>>>
<1>9. HsvToRgb(hsv) = IF s = 0 THEN <<v, v, v>> ELSE sectors[h \div 60 + 1]
    BY Zenon DEF HsvToRgb, h, s, v, f, p, q, t, sf, sg
<1>10. \A x, y, z \in Brightness : <<x, y, z>> \in Rgb
    BY DEF Rgb, Channel
<1>11. h \div 60 + 1 \in 1 .. 6
    BY <1>1
<1>12. \A i \in 1 .. 6 : sectors[i] \in Rgb
    BY <1>1, <1>3, <1>5, <1>8, <1>10
<1> QED BY <1>1, <1>9, <1>10, <1>11, <1>12, Zenon

\* Three integers have a largest and a smallest one.
LEMMA ThreeHave ==
    ASSUME NEW a \in Int, NEW b \in Int, NEW c \in Int
    PROVE  /\ \E x \in {a, b, c} : x >= a /\ x >= b /\ x >= c
           /\ \E x \in {a, b, c} : x <= a /\ x <= b /\ x <= c
<1>1. \/ a >= a /\ a >= b /\ a >= c
      \/ b >= a /\ b >= b /\ b >= c
      \/ c >= a /\ c >= b /\ c >= c
    OBVIOUS
<1>2. \/ a <= a /\ a <= b /\ a <= c
      \/ b <= a /\ b <= b /\ b <= c
      \/ c <= a /\ c <= b /\ c <= c
    OBVIOUS
<1> QED BY <1>1, <1>2, Zenon

LEMMA ExtremesAre ==
    ASSUME NEW rgb \in Rgb
    PROVE  Largest(rgb) \in Brightness /\ Smallest(rgb) \in Brightness
           /\ Smallest(rgb) <= Largest(rgb)
<1>1. rgb[1] \in Brightness /\ rgb[2] \in Brightness /\ rgb[3] \in Brightness
    BY DEF Rgb, Channel
<1> DEFINE values == {rgb[i] : i \in Channel}
<1>2. rgb[1] \in Int /\ rgb[2] \in Int /\ rgb[3] \in Int
    BY <1>1 DEF Brightness
<1>0. values = {rgb[1], rgb[2], rgb[3]}
    BY DEF Channel
<1>3. \E x \in values : \A i \in Channel : x >= rgb[i]
    <2>1. \E x \in {rgb[1], rgb[2], rgb[3]} : x >= rgb[1] /\ x >= rgb[2] /\ x >= rgb[3]
        BY <1>2, ThreeHave, SMT
    <2> QED BY <2>1, <1>0, SMT DEF Channel
<1>4. \E x \in values : \A i \in Channel : x <= rgb[i]
    <2>1. \E x \in {rgb[1], rgb[2], rgb[3]} : x <= rgb[1] /\ x <= rgb[2] /\ x <= rgb[3]
        BY <1>2, ThreeHave, SMT
    <2> QED BY <2>1, <1>0, SMT DEF Channel
<1>5. Largest(rgb) \in values /\ \A i \in Channel : Largest(rgb) >= rgb[i]
    BY <1>3, Zenon DEF Largest
<1>6. Smallest(rgb) \in values /\ \A i \in Channel : Smallest(rgb) <= rgb[i]
    BY <1>4, Zenon DEF Smallest
<1>7. Largest(rgb) \in Brightness /\ Smallest(rgb) \in Brightness
    BY <1>1, <1>0, <1>5, <1>6
<1>8. Largest(rgb) >= rgb[1] /\ Smallest(rgb) <= rgb[1]
    BY <1>5, <1>6 DEF Channel
<1>9. \A x, y, z \in Brightness : x >= y /\ z <= y => z <= x
    BY DEF Brightness
<1> QED BY <1>1, <1>7, <1>8, <1>9, Zenon

\* pwm_rgb2hsv, whose product overflows, still gives a hue and two bytes.
LEMMA RgbToHsvIs ==
    ASSUME NEW rgb \in Rgb
    PROVE  RgbToHsv(rgb) \in HsvColors
<1> DEFINE max == Largest(rgb)
           diff == max - Smallest(rgb)
           hue == IF max = 0 THEN 0 ELSE HueOf(rgb)
           sat == IF max = 0 THEN 0 ELSE ToByte(Quot(ToInt(255 * diff + max \div 2), max))
           Turned(a, b, base) ==
               (Quot(60 * (rgb[a] - rgb[b]) + diff \div 2, diff) + base) % 360
           Hues == 0 .. 359
           red == 360
           green == 120
           blue == 240
<1>1. max \in Brightness /\ diff \in Brightness /\ diff \in Nat
    <2>1. \A x, y \in Brightness : y <= x => x - y \in Brightness /\ x - y \in Nat
        BY DEF Brightness
    <2> QED BY <2>1, ExtremesAre, Zenon
<1>2. rgb[1] \in Int /\ rgb[2] \in Int /\ rgb[3] \in Int
    BY DEF Rgb, Channel, Brightness
<1>3. HueOf(rgb) = IF diff = 0 THEN 0
                   ELSE IF rgb[1] = max THEN Turned(2, 3, red)
                   ELSE IF rgb[2] = max THEN Turned(3, 1, green)
                   ELSE Turned(1, 2, blue)
    BY Zenon DEF HueOf
<1> HIDE DEF max, diff
<1>4. ASSUME NEW a \in 1 .. 3, NEW b \in 1 .. 3, NEW base \in Int, diff # 0
      PROVE  Turned(a, b, base) \in Hues
    <2>1. diff \in Nat \ {0} /\ diff \div 2 \in Int
        BY <1>1, <1>4
    <2>2. rgb[a] \in Int /\ rgb[b] \in Int
        BY <1>2
    <2>3. 60 * (rgb[a] - rgb[b]) + diff \div 2 \in Int
        BY <2>1, <2>2
    <2>4. Quot(60 * (rgb[a] - rgb[b]) + diff \div 2, diff) \in Int
        BY <2>1, <2>3, QuotIs
    <2>5. \A y \in Int : (y + base) % 360 \in 0 .. 359
        OBVIOUS
    <2> QED BY <2>4, <2>5, Zenon
<1>5. red \in Int /\ green \in Int /\ blue \in Int
    OBVIOUS
<1>6. 1 \in 1 .. 3 /\ 2 \in 1 .. 3 /\ 3 \in 1 .. 3
    OBVIOUS
<1>11. 0 \in Hues /\ (\A x \in Hues : x \in Word)
    <2>1. 0 \in Hues
        OBVIOUS
    <2> QED BY <2>1, HuesAre, Zenon
<1> HIDE DEF Turned, Hues, red, green, blue
<1>7. HueOf(rgb) \in Hues
    <2>1. diff # 0 => /\ Turned(2, 3, red) \in Hues
                      /\ Turned(3, 1, green) \in Hues
                      /\ Turned(1, 2, blue) \in Hues
        BY <1>4, <1>5, <1>6, Zenon
    <2> QED BY <1>3, <1>11, <2>1, Zenon
<1>8. hue \in Word
    BY <1>7, <1>11, Zenon
<1>9. sat \in Brightness
    <2>1. CASE max = 0
        BY <2>1 DEF Brightness
    <2>2. CASE max # 0
        <3>1. max \in Nat \ {0} /\ max \div 2 \in Int
            BY <1>1, <2>2 DEF Brightness
        <3>2. 255 * diff + max \div 2 \in Int
            BY <1>1, <3>1
        <3>3. ToInt(255 * diff + max \div 2) \in Int
            BY <3>2, IntIs
        <3>4. Quot(ToInt(255 * diff + max \div 2), max) \in Int
            BY <3>1, <3>3, QuotIs
        <3> QED BY <2>2, <3>4, ByteIs
    <2> QED BY <2>1, <2>2
<1>10. RgbToHsv(rgb) = [hue |-> hue, sat |-> sat, val |-> max]
    BY Zenon DEF RgbToHsv, max, diff
<1> HIDE DEF hue, sat
<1> QED BY <1>1, <1>8, <1>9, <1>10 DEF HsvColors

\* pwm_modify_rgb and pwm_modify_hsv
LEMMA ModifiedIs ==
    ASSUME NEW rgb \in Rgb, NEW change \in ColorChanges
    PROVE  ModifiedHsv(ModifiedRgb(rgb, change.rgb), change.hsv) \in Rgb
<1>1. change.rgb \in [Channel -> SignedByte] /\ change.hsv.hue \in SignedWord
      /\ change.hsv.sat \in SignedByte /\ change.hsv.val \in SignedByte
    BY Zenon DEF ColorChanges
<1> DEFINE modified == ModifiedRgb(rgb, change.rgb)
           hsv == RgbToHsv(modified)
           end == [hue |-> ToWord(hsv.hue + change.hsv.hue),
                   sat |-> Clamp(hsv.sat + change.hsv.sat),
                   val |-> Clamp(hsv.val + change.hsv.val)]
<1>2. \A c \in Channel : rgb[c] + change.rgb[c] \in Int
    <2> TAKE c \in Channel
    <2>1. rgb[c] \in Brightness /\ change.rgb[c] \in SignedByte
        BY <1>1 DEF Rgb
    <2>2. \A x \in Brightness, y \in SignedByte : x + y \in Int
        BY DEF Brightness, SignedByte
    <2> QED BY <2>1, <2>2
<1>3. modified \in Rgb
    BY <1>2, ClampIs DEF ModifiedRgb, Rgb
<1> HIDE DEF modified
<1>4. hsv \in HsvColors
    BY <1>3, RgbToHsvIs
<1> HIDE DEF hsv
<1>5. hsv.hue \in Word /\ hsv.sat \in Brightness /\ hsv.val \in Brightness
    BY <1>4, Zenon DEF HsvColors
<1>6. /\ hsv.hue + change.hsv.hue \in Int
      /\ hsv.sat + change.hsv.sat \in Int /\ hsv.val + change.hsv.val \in Int
    <2>1. hsv.hue \in Int /\ change.hsv.hue \in Int
        BY <1>1, <1>5, WordsAre, SignedAre
    <2>2. /\ hsv.sat \in Int /\ change.hsv.sat \in Int
          /\ hsv.val \in Int /\ change.hsv.val \in Int
        BY <1>1, <1>5 DEF Brightness, SignedByte
    <2> QED BY <2>1, <2>2
<1>7. end \in HsvColors
    <2>1. ToWord(hsv.hue + change.hsv.hue) \in Word
        BY <1>6, WordIs
    <2>2. /\ Clamp(hsv.sat + change.hsv.sat) \in Brightness
          /\ Clamp(hsv.val + change.hsv.val) \in Brightness
        BY <1>6, ClampIs
    <2> QED BY <2>1, <2>2 DEF HsvColors
<1>8. ModifiedHsv(modified, change.hsv) = HsvToRgb(end)
    BY Zenon DEF ModifiedHsv, hsv
<1> QED BY <1>7, <1>8, HsvToRgbIs DEF modified

-----------------------------------------------------------------------------
(* The fading engine *)

FadingTyped ==
    /\ current \in Rgb /\ target \in Rgb
    /\ fade_step \in [Channel -> Brightness]
    /\ offsets \in OffsetSets

LEMMA StartIs ==
    ASSUME FadingTyped, NEW color \in Rgb, NEW step \in Brightness, NEW delay,
           Start(color, step, delay)
    PROVE  FadingTyped' /\ current' = current
<1>1. /\ target' = color /\ fade_step' = [c \in Channel |-> step]
      /\ current' = current /\ offsets' = offsets
    BY Zenon DEF Start
<1>2. [c \in Channel |-> step] \in [Channel -> Brightness]
    OBVIOUS
<1> QED BY <1>1, <1>2, Zenon DEF FadingTyped

LEMMA OffsetsAre ==
    ASSUME FadingTyped
    PROVE  offsets.step \in SignedByte /\ offsets.delay \in SignedByte
BY Zenon DEF FadingTyped, OffsetSets

LEMMA FadeRgbIs ==
    ASSUME FadingTyped, NEW color \in Rgb, NEW step \in Brightness, NEW delay,
           FadeRgb(color, step, delay)
    PROVE  FadingTyped' /\ current' = current
<1>1. ApplyOffset(step, offsets.step) \in Brightness
    BY OffsetsAre, OffsetIs
<1>2. \E d : Start(color, ApplyOffset(step, offsets.step), d)
    BY Zenon DEF FadeRgb
<1> QED BY <1>1, <1>2, StartIs, Zenon

LEMMA FadeHsvIs ==
    ASSUME FadingTyped, NEW hsv \in HsvColors, NEW step \in Brightness, NEW delay,
           FadeHsv(hsv, step, delay)
    PROVE  FadingTyped' /\ current' = current
<1>1. ApplyOffset(step, offsets.step) \in Brightness
    BY OffsetsAre, OffsetIs
<1>2. HsvToRgb(ApplyHsvOffset(hsv, offsets)) \in Rgb
    BY HsvOffsetIs, HsvToRgbIs, Zenon DEF FadingTyped
<1>3. Start(HsvToRgb(ApplyHsvOffset(hsv, offsets)), ApplyOffset(step, offsets.step),
            ApplyOffset(delay, offsets.delay))
    BY Zenon DEF FadeHsv
<1> QED BY <1>1, <1>2, <1>3, StartIs, Zenon

LEMMA ModifyIs ==
    ASSUME FadingTyped, NEW change \in ColorChanges,
           Modify(change.rgb, change.hsv, change.step, change.delay)
    PROVE  FadingTyped' /\ current' = current
<1>1. change.step \in Brightness
    BY Zenon DEF ColorChanges
<1>2. ModifiedHsv(ModifiedRgb(target, change.rgb), change.hsv) \in Rgb
    BY ModifiedIs, Zenon DEF FadingTyped
<1>3. Start(ModifiedHsv(ModifiedRgb(target, change.rgb), change.hsv), change.step, change.delay)
    BY Zenon DEF Modify
<1> QED BY <1>1, <1>2, <1>3, StartIs, Zenon

LEMMA StopFadingIs ==
    ASSUME FadingTyped, StopFading
    PROVE  FadingTyped' /\ current' = current
BY Zenon DEF FadingTyped, StopFading

LEMMA StillBetween == \A x, y \in Brightness : Between(x, x, y)
BY DEF Between, Brightness

\* A step, or the distance if that is less, up or down.
LEMMA MoveBetween ==
    ASSUME NEW x \in Brightness, NEW y \in Brightness, NEW by \in Brightness,
           x < y => by <= y - x, ~(x < y) => by <= x - y
    PROVE  LET z == IF x < y THEN x + by ELSE x - by
           IN  z \in Brightness /\ Between(z, x, y)
<1>1. CASE x < y
    <2>1. x + by \in Brightness /\ x <= x + by /\ x + by <= y
        BY <1>1 DEF Brightness
    <2> QED BY <1>1, <2>1 DEF Between
<1>2. CASE ~(x < y)
    <2>1. x - by \in Brightness /\ y <= x - by /\ x - by <= x
        BY <1>2 DEF Brightness
    <2> QED BY <1>2, <2>1 DEF Between
<1> QED BY <1>1, <1>2, Zenon

\* update_rgb takes a channel to a byte on its way.
LEMMA MovedIs ==
    ASSUME FadingTyped, NEW c \in Channel
    PROVE  Moved(c) \in Brightness /\ Between(Moved(c), current[c], target[c])
<1>1. current[c] \in Brightness /\ target[c] \in Brightness /\ fade_step[c] \in Brightness
    BY DEF FadingTyped, Rgb
<1> DEFINE x == current[c]
           y == target[c]
           by == IF Distance(x, y) >= fade_step[c] THEN fade_step[c] ELSE Distance(x, y)
<1>2. Moved(c) = IF x < y THEN x + by ELSE x - by
    BY Zenon DEF Moved
<1>3. by \in Brightness /\ (x < y => by <= y - x) /\ (~(x < y) => by <= x - y)
    <2>1. \A a, b, m \in Brightness :
              LET n == IF Distance(a, b) >= m THEN m ELSE Distance(a, b)
              IN  n \in Brightness /\ (a < b => n <= b - a) /\ (~(a < b) => n <= a - b)
        BY DEF Distance, Brightness
    <2> QED BY <1>1, <2>1
<1> HIDE DEF by
<1>4. LET z == IF x < y THEN x + by ELSE x - by
      IN  z \in Brightness /\ Between(z, x, y)
    BY <1>1, <1>3, MoveBetween
<1> QED BY <1>2, <1>4

LEMMA PollFadingIs ==
    ASSUME FadingTyped, NEW expired, PollFading(expired)
    PROVE  FadingTyped' /\ \A c \in Channel : Between(current'[c], current[c], target[c])
<1>1. current' = [c \in Channel |-> IF c \in expired THEN Moved(c) ELSE current[c]]
    BY Zenon DEF PollFading
<1>2. \A c \in Channel : current[c] \in Brightness /\ target[c] \in Brightness
    BY DEF FadingTyped, Rgb
<1>3. \A c \in Channel : Between(current[c], current[c], target[c])
    BY <1>2, StillBetween, Zenon
<1>4. current' \in Rgb
    BY <1>1, <1>2, MovedIs DEF Rgb
<1>5. \A c \in Channel : Between(current'[c], current[c], target[c])
    BY <1>1, <1>3, MovedIs
<1>6. target' = target /\ fade_step' = fade_step /\ offsets' = offsets
    BY Zenon DEF PollFading
<1> QED BY <1>4, <1>5, <1>6, Zenon DEF FadingTyped

\* What does not move is between where it is and where it goes.
LEMMA StillIs ==
    ASSUME FadingTyped, current' = current
    PROVE  \A c \in Channel : Between(current'[c], current[c], target[c])
<1>1. \A c \in Channel : current[c] \in Brightness /\ target[c] \in Brightness
    BY DEF FadingTyped, Rgb
<1> QED BY <1>1, StillBetween, Zenon

-----------------------------------------------------------------------------
(* Types *)

Typed ==
    /\ FadingTyped
    /\ program \in Programs \cup {NoProgram}
    /\ wheel_hue \in Word
    /\ pos \in Brightness /\ direction \in {"up", "down"}

\* The parameters of a program have the types of its structure.
LEMMA WheelIs ==
    ASSUME Typed, program.kind = "colorwheel"
    PROVE  /\ program.start \in Word /\ program.inc \in SignedWord /\ program.add \in SignedByte
           /\ program.sat \in Brightness /\ program.val \in Brightness
           /\ program.step \in Brightness
<1>1. program \in Wheels
    <2>1. program # NoProgram
        BY DEF NoProgram
    <2>2. program \in Wheels \/ program \in Randoms \/ program \in Replays
        BY <2>1, ScriptAssumption, Zenon DEF Typed
    <2>3. program \notin Randoms /\ program \notin Replays
        BY DEF Randoms, Replays
    <2> QED BY <2>2, <2>3, Zenon
<1> QED BY <1>1, Zenon DEF Wheels

LEMMA RandomIs ==
    ASSUME Typed, program.kind = "random"
    PROVE  /\ program.sat \in Brightness /\ program.val \in Brightness
           /\ program.step \in Brightness
<1>1. program \in Randoms
    <2>1. program # NoProgram
        BY DEF NoProgram
    <2>2. program \in Wheels \/ program \in Randoms \/ program \in Replays
        BY <2>1, ScriptAssumption, Zenon DEF Typed
    <2>3. program \notin Wheels /\ program \notin Replays
        BY DEF Wheels, Replays
    <2> QED BY <2>2, <2>3, Zenon
<1> QED BY <1>1, Zenon DEF Randoms

LEMMA ReplayIs ==
    ASSUME Typed, program.kind = "replay"
    PROVE  /\ program.start \in Brightness /\ program.end \in Brightness
           /\ program.repeat \in {"none", "start", "reverse"}
<1>1. program \in Replays
    <2>1. program # NoProgram
        BY DEF NoProgram
    <2>2. program \in Wheels \/ program \in Randoms \/ program \in Replays
        BY <2>1, ScriptAssumption, Zenon DEF Typed
    <2>3. program \notin Wheels /\ program \notin Randoms
        BY DEF Wheels, Randoms
    <2> QED BY <2>2, <2>3, Zenon
<1> QED BY <1>1, Zenon DEF Replays

LEMMA FirstHueIs ==
    ASSUME Typed, program.kind = "colorwheel"
    PROVE  FirstHue(program) \in Word
<1>1. program.start \in Int /\ program.inc \in Int
    BY WheelIs, WordsAre, SignedAre
<1>2. program.add \in Int /\ ADDRESS \in Int
    BY WheelIs, ScriptAssumption DEF SignedByte, Brightness
<1>3. ADDRESS * program.add * program.inc \in Int
    BY <1>1, <1>2
<1>4. program.start + ToInt(ADDRESS * program.add * program.inc) \in Int
    BY <1>1, <1>3, IntIs
<1> QED BY <1>4, WordIs DEF FirstHue

\* No field of the program engine but those named is touched by these.
LEMMA StartsTyped ==
    ASSUME Typed, StartProgram PROVE Typed' /\ current' = current
<1>1. PICK p \in Programs :
         Command /\ StopFading /\ ScriptStart(p, InitialThread, TRUE) /\ stopped' = FALSE
    BY Zenon DEF StartProgram
<1>2. program' \in Programs \cup {NoProgram}
    BY <1>1, Zenon DEF ScriptStart, Typed
<1>3. wheel_hue' = wheel_hue /\ pos' = pos /\ direction' = direction
    BY <1>1, Zenon DEF ScriptStart
<1>4. FadingTyped' /\ current' = current
    BY <1>1, StopFadingIs, Zenon DEF Typed
<1> QED BY <1>2, <1>3, <1>4, Zenon DEF Typed

LEMMA StopTyped ==
    ASSUME Typed, Stop PROVE Typed' /\ current' = current
<1>1. PICK stopFading \in BOOLEAN :
         ScriptStop /\ IF stopFading THEN StopFading ELSE UNCHANGED fadingVars
    BY Zenon DEF Stop
<1>2. FadingTyped' /\ current' = current
    <2>1. CASE stopFading
        BY <1>1, <2>1, StopFadingIs, Zenon DEF Typed
    <2>2. CASE ~stopFading
        BY <1>1, <2>2, Zenon DEF Typed, FadingTyped, fadingVars
    <2> QED BY <2>1, <2>2
<1>3. program' = program /\ wheel_hue' = wheel_hue /\ pos' = pos /\ direction' = direction
    BY <1>1, Zenon DEF ScriptStop
<1> QED BY <1>2, <1>3, Zenon DEF Typed

\* The commands that leave the programs alone.
LEMMA CommandTyped ==
    ASSUME Typed, FadeRgbCommand \/ FadeHsvCommand \/ ModifyCurrent \/ ConfigOffsets
    PROVE  Typed' /\ current' = current
<1>1. UNCHANGED scriptVars
    BY Zenon DEF FadeRgbCommand, FadeHsvCommand, ModifyCurrent, ConfigOffsets
<1>2. program' = program /\ wheel_hue' = wheel_hue /\ pos' = pos /\ direction' = direction
    BY <1>1, Zenon DEF scriptVars, threadVars
<1>3. FadingTyped
    BY Zenon DEF Typed
<1>4. FadingTyped' /\ current' = current
    <2>1. CASE FadeRgbCommand
        <3>1. PICK f \in RgbFades : FadeRgb(f.color, f.step, f.delay)
            BY <2>1, Zenon DEF FadeRgbCommand
        <3>2. f.color \in Rgb /\ f.step \in Brightness
            BY CommandAssumption, Zenon DEF FadesTo
        <3> QED BY <1>3, <3>1, <3>2, FadeRgbIs, Zenon
    <2>2. CASE FadeHsvCommand
        <3>1. PICK f \in HsvFades : FadeHsv(f.color, f.step, f.delay)
            BY <2>2, Zenon DEF FadeHsvCommand
        <3>2. f.color \in HsvColors /\ f.step \in Brightness
            BY CommandAssumption, Zenon DEF FadesTo
        <3> QED BY <1>3, <3>1, <3>2, FadeHsvIs, Zenon
    <2>3. CASE ModifyCurrent
        <3>1. PICK m \in Changes :
                 IF disable /\ TargetReached THEN Modify(m.rgb, m.hsv, m.step, m.delay)
                 ELSE UNCHANGED fadingVars
            BY <2>3, Zenon DEF ModifyCurrent
        <3>2. m \in ColorChanges
            BY CommandAssumption, Zenon
        <3>3. CASE Modify(m.rgb, m.hsv, m.step, m.delay)
            BY <1>3, <3>2, <3>3, ModifyIs, Zenon
        <3>4. CASE UNCHANGED fadingVars
            BY <1>3, <3>4, Zenon DEF FadingTyped, fadingVars
        <3> QED BY <3>1, <3>3, <3>4, Zenon
    <2>4. CASE ConfigOffsets
        <3>1. offsets' \in OffsetSets
            BY <2>4, CommandAssumption, Zenon DEF ConfigOffsets
        <3>2. current' = current /\ target' = target /\ fade_step' = fade_step
            BY <2>4, Zenon DEF ConfigOffsets
        <3> QED BY <1>3, <3>1, <3>2, Zenon DEF FadingTyped
    <2> QED BY <2>1, <2>2, <2>3, <2>4, Zenon
<1> QED BY <1>2, <1>4, Zenon DEF Typed

\* program_colorwheel: the hue wraps round at 2^16.
LEMMA WheelTyped ==
    ASSUME Typed, WheelTurns PROVE Typed' /\ current' = current
<1> DEFINE hue == IF lc = "begin" THEN FirstHue(program) ELSE wheel_hue
           color == [hue |-> hue, sat |-> program.sat, val |-> program.val]
<1>1. program.kind = "colorwheel" /\ program' = program
    BY Zenon DEF WheelTurns, InProgram
<1>2. FadeHsv(color, program.step, program.delay) /\ wheel_hue' = ToWord(hue + program.inc)
    BY Zenon DEF WheelTurns
<1>3. pos' = pos /\ direction' = direction
    BY Zenon DEF WheelTurns
<1>4. hue \in Word
    BY <1>1, FirstHueIs, Zenon DEF Typed
<1>5. hue + program.inc \in Int
    BY <1>1, <1>4, WheelIs, WordsAre, SignedAre
<1> HIDE DEF hue
<1>6. color \in HsvColors
    BY <1>1, <1>4, WheelIs DEF HsvColors
<1> HIDE DEF color
<1>7. FadingTyped' /\ current' = current
    BY <1>1, <1>2, <1>6, WheelIs, FadeHsvIs, Zenon DEF Typed
<1>8. wheel_hue' \in Word
    BY <1>2, <1>5, WordIs, Zenon
<1> QED BY <1>1, <1>3, <1>7, <1>8, Zenon DEF Typed

LEMMA RandomTyped ==
    ASSUME Typed, RandomAccepts PROVE Typed' /\ current' = current
<1>1. program.kind = "random" /\ program' = program
    BY Zenon DEF RandomAccepts, InProgram
<1>2. PICK h \in RandomHues :
         FadeHsv([hue |-> h, sat |-> program.sat, val |-> program.val],
                 program.step, program.delay)
    BY Zenon DEF RandomAccepts
<1>3. wheel_hue' = wheel_hue /\ pos' = pos /\ direction' = direction
    BY Zenon DEF RandomAccepts
<1>4. h \in Word
    <2>1. h \in 0 .. 359
        BY ScriptAssumption, Zenon
    <2> QED BY <2>1, HuesAre, Zenon
<1> DEFINE color == [hue |-> h, sat |-> program.sat, val |-> program.val]
<1>5. color \in HsvColors
    BY <1>1, <1>4, RandomIs DEF HsvColors
<1>6. FadeHsv(color, program.step, program.delay)
    BY <1>2
<1> HIDE DEF color
<1>7. FadingTyped' /\ current' = current
    BY <1>1, <1>5, <1>6, RandomIs, FadeHsvIs, Zenon DEF Typed
<1> QED BY <1>1, <1>3, <1>7, Zenon DEF Typed

\* storage_load_color gives a color of the EEPROM, wherever it reads.
LEMMA LoadsAre == \A p : \A slot \in Loads(p) : IsStored(slot)
BY CommandAssumption, Zenon DEF Loads

\* The next position of a replay.
LEMMA MovesAre ==
    ASSUME Typed, program.kind = "replay", NEW here \in Brightness, NEW dir \in {"up", "down"}
    PROVE  /\ ReplayMoves(program, here, dir).pos \in Brightness
           /\ ReplayMoves(program, here, dir).dir \in {"up", "down"}
<1>1. program.start \in Brightness
    BY ReplayIs
<1>2. ToByte(here + 1) \in Brightness /\ ToByte(here - 1) \in Brightness
    <2>1. here + 1 \in Int /\ here - 1 \in Int
        BY DEF Brightness
    <2> QED BY <2>1, ByteIs
<1> QED BY <1>1, <1>2 DEF ReplayMoves

LEMMA ReplayColorTyped ==
    ASSUME Typed, ReplayColor PROVE Typed' /\ current' = current
<1> DEFINE here == IF lc = "begin" THEN program.start ELSE pos
           dir == IF lc = "begin" THEN "up" ELSE direction
           next == ReplayMoves(program, here, dir)
<1>1. program.kind = "replay" /\ program' = program /\ wheel_hue' = wheel_hue
    BY Zenon DEF ReplayColor, InProgram
<1>2. PICK slot \in Loads(here) :
         IF slot.kind = "rgb"
         THEN FadeRgb(slot.color, slot.step, slot.delay)
         ELSE FadeHsv(slot.color, slot.step, slot.delay)
    BY Zenon DEF ReplayColor
<1>3. (pos' = here /\ direction' = dir) \/ (pos' = next.pos /\ direction' = next.dir)
    <2>1. CASE Exits(program, here, dir)
        BY <2>1, Zenon DEF ReplayColor
    <2>2. CASE ~Exits(program, here, dir)
        BY <2>2, Zenon DEF ReplayColor
    <2> QED BY <2>1, <2>2, Zenon
<1>4. here \in Brightness /\ dir \in {"up", "down"}
    BY <1>1, ReplayIs, Zenon DEF Typed
<1>5. next.pos \in Brightness /\ next.dir \in {"up", "down"}
    BY <1>1, <1>4, MovesAre
<1>6. IsStored(slot)
    BY <1>2, LoadsAre, Zenon
<1>7. FadingTyped' /\ current' = current
    <2>1. CASE slot.kind = "rgb"
        BY <1>2, <1>6, <2>1, FadeRgbIs, Zenon DEF IsStored, Typed
    <2>2. CASE slot.kind # "rgb"
        BY <1>2, <1>6, <2>2, FadeHsvIs, Zenon DEF IsStored, Typed
    <2> QED BY <2>1, <2>2, Zenon
<1>8. pos' \in Brightness /\ direction' \in {"up", "down"}
    BY <1>3, <1>4, <1>5, Zenon
<1> QED BY <1>1, <1>7, <1>8, Zenon DEF Typed

\* Steps that leave the light and the programs' colors alone.
LEMMA QuietTyped ==
    ASSUME Typed,
           RemoteQuiet \/ ScriptPollReturns \/ ScriptPollRuns \/ WaitForTarget \/ Sleep
           \/ RandomRejects \/ UNCHANGED vars
    PROVE  Typed' /\ current' = current
<1>1. UNCHANGED fadingVars
    BY Zenon DEF RemoteQuiet, ScriptPollReturns, ScriptPollRuns, WaitForTarget, Sleep,
       RandomRejects, vars
<1>2. program' = program /\ wheel_hue' = wheel_hue /\ pos' = pos /\ direction' = direction
    BY Zenon DEF RemoteQuiet, ScriptPollReturns, ScriptPollRuns, WaitForTarget, Sleep,
       RandomRejects, InProgram, vars, scriptVars, threadVars
<1> QED BY <1>1, <1>2, Zenon DEF Typed, FadingTyped, fadingVars

LEMMA TypedInit == Init => Typed
<1>1. Init => FadingTyped
    <2>1. Black \in Rgb
        BY DEF Black, Rgb, Brightness
    <2>2. [c \in Channel |-> 1] \in [Channel -> Brightness]
        BY DEF Brightness
    <2>3. NoOffsets \in OffsetSets
        <3>1. 0 \in SignedByte /\ 255 \in Brightness
            BY DEF SignedByte, Brightness
        <3>2. 0 \in SignedWord
            BY WordSizeIs, SMT DEF SignedWord
        <3> QED BY <3>1, <3>2 DEF NoOffsets, OffsetSets
    <2> QED BY <2>1, <2>2, <2>3, Zenon DEF Init, FadingInit, FadingTyped
<1>2. 0 \in Word /\ 0 \in Brightness
    BY WordSizeIs, SMT DEF Word, Brightness
<1>3. Init => program \in Programs \cup {NoProgram}
    BY Zenon DEF Init
<1> QED BY <1>1, <1>2, <1>3, Zenon DEF Init, Typed

LEMMA TypedNext ==
    ASSUME Typed, [Next]_vars
    PROVE  Typed' /\ \A c \in Channel : Between(current'[c], current[c], target[c])
<1>1. FadingTyped
    BY Zenon DEF Typed
<1>2. SUFFICES (Typed' /\ current' = current)
               \/ (Typed' /\ \A c \in Channel : Between(current'[c], current[c], target[c]))
    BY <1>1, StillIs, Zenon
<1>3. CASE RemotePoll
    BY <1>3, StartsTyped, StopTyped, CommandTyped, QuietTyped, Zenon DEF RemotePoll
<1>4. CASE ScriptPollReturns \/ ScriptPollRuns \/ UNCHANGED vars
    BY <1>4, QuietTyped, Zenon
<1>5. CASE ProgramRuns
    BY <1>5, WheelTyped, RandomTyped, ReplayColorTyped, QuietTyped, Zenon DEF ProgramRuns
<1>6. ASSUME NEW expired \in SUBSET Channel, FadingPoll(expired)
      PROVE  Typed' /\ \A c \in Channel : Between(current'[c], current[c], target[c])
    <2>1. FadingTyped' /\ \A c \in Channel : Between(current'[c], current[c], target[c])
        BY <1>1, <1>6, PollFadingIs, Zenon DEF FadingPoll
    <2>2. program' = program /\ wheel_hue' = wheel_hue /\ pos' = pos /\ direction' = direction
        BY <1>6, Zenon DEF FadingPoll, scriptVars, threadVars
    <2> QED BY <2>1, <2>2, Zenon DEF Typed
<1> QED BY <1>3, <1>4, <1>5, <1>6, Zenon DEF Next

\* Every fade goes to a color of three bytes, whatever commands, offsets and
\* programs started it, and no channel ever moves away from its target or past
\* it: the light of a lamp never jumps.
THEOREM MovesTowards == Spec => MovesTowardsTarget
<1>1. Typed /\ [Next]_vars =>
          [\A c \in Channel : Between(current'[c], current[c], target[c])]_fadingVars
    BY TypedNext, Zenon
<1>2. Typed /\ [Next]_vars => Typed'
    BY TypedNext, Zenon
<1> QED BY <1>1, <1>2, TypedInit, PTL DEF Spec, MovesTowardsTarget

-----------------------------------------------------------------------------
(* STOP *)

\* While a STOP holds no program runs, no timer of a channel does, and no
\* channel has a way to go.
Light ==
    stopped => disable /\ target = current /\ running = {} /\ at # "program"

LEMMA LightNext ==
    ASSUME Typed, Light, [Next]_vars
    PROVE  Light' /\ (stopped /\ stopped' => UNCHANGED current)
<1>1. CASE FadeRgbCommand \/ FadeHsvCommand \/ ModifyCurrent \/ StartProgram
    <2>1. stopped' = FALSE
        BY <1>1, Zenon DEF FadeRgbCommand, FadeHsvCommand, ModifyCurrent, StartProgram
    <2> QED BY <2>1, Zenon DEF Light
<1>2. CASE ConfigOffsets
    <2>1. /\ UNCHANGED <<current, target, running, stopped>> /\ UNCHANGED disable
          /\ at' = "script"
        BY <1>2, Zenon DEF ConfigOffsets, Command, scriptVars
    <2>2. at' # "program"
        BY <2>1
    <2> QED BY <2>1, <2>2, Zenon DEF Light
<1>3. CASE Stop
    <2>1. PICK stopFading \in BOOLEAN :
             /\ Command /\ ScriptStop
             /\ IF stopFading THEN StopFading ELSE UNCHANGED fadingVars
             /\ stopped' = (stopped \/ stopFading)
        BY <1>3, Zenon DEF Stop
    <2>2. disable' = TRUE /\ at' # "program"
        BY <2>1 DEF Command, ScriptStop
    <2>3. CASE stopFading
        BY <2>1, <2>2, <2>3, Zenon DEF StopFading, Light
    <2>4. CASE ~stopFading
        BY <2>1, <2>2, <2>4, Zenon DEF fadingVars, Light
    <2> QED BY <2>3, <2>4, Zenon
<1>4. CASE RemoteQuiet \/ ScriptPollReturns \/ UNCHANGED vars
    <2>1. UNCHANGED <<current, target, running, stopped, disable>>
        BY <1>4, Zenon DEF RemoteQuiet, ScriptPollReturns, vars, fadingVars, scriptVars
    <2>2. at' # "program" \/ at' = at
        BY <1>4 DEF RemoteQuiet, ScriptPollReturns, vars
    <2> QED BY <2>1, <2>2, Zenon DEF Light
<1>5. CASE ScriptPollRuns
    BY <1>5, Zenon DEF ScriptPollRuns, Light
<1>6. CASE ProgramRuns
    <2>1. at = "program" /\ stopped' = stopped
        BY <1>6, Zenon DEF ProgramRuns, WaitForTarget, Sleep, WheelTurns, RandomAccepts,
           RandomRejects, ReplayColor, InProgram
    <2> QED BY <2>1, Zenon DEF Light
<1>7. ASSUME NEW expired \in SUBSET Channel, FadingPoll(expired)
      PROVE  Light' /\ (stopped /\ stopped' => UNCHANGED current)
    <2>1. /\ PollFading(expired) /\ UNCHANGED disable /\ stopped' = stopped /\ at' = "remote"
        BY <1>7, Zenon DEF FadingPoll, scriptVars
    <2>2. at' # "program"
        BY <2>1
    <2>3. ASSUME stopped
          PROVE  current' = current /\ target' = target /\ running' = {}
        <3>1. running = {} /\ target = current
            BY <2>3, Zenon DEF Light
        <3>2. expired = {}
            BY <2>1, <3>1, Zenon DEF PollFading
        <3>3. current' = [c \in Channel |-> current[c]]
            <4>1. current' = [c \in Channel |-> IF c \in expired THEN Moved(c) ELSE current[c]]
                BY <2>1, Zenon DEF PollFading
            <4> QED BY <3>2, <4>1
        <3>4. current' = current
            BY <3>3 DEF Typed, FadingTyped, Rgb
        <3>5. target' = target
            BY <2>1, Zenon DEF PollFading
        <3>6. \A c \in Channel : ~Starts(c)
            BY <3>1, <3>4, Zenon DEF Starts
        <3>7. running' = {c \in Channel : c \in running \ expired \/ Starts(c)}
            BY <2>1, Zenon DEF PollFading
        <3>8. running' = {}
            BY <3>1, <3>6, <3>7
        <3> QED BY <3>4, <3>5, <3>8, Zenon
    <2> QED BY <2>1, <2>2, <2>3, Zenon DEF Light
<1> QED BY <1>1, <1>2, <1>3, <1>4, <1>5, <1>6, <1>7, Zenon DEF Next, RemotePoll

\* After a STOP that stops fading nothing moves the light before the next
\* command does: script_stop, pwm_stop_fading and pwm_poll_fading together.
THEOREM Stops == Spec => StopHolds
<1>1. Init => Light
    BY Zenon DEF Init, Light
<1>2. Typed /\ Light /\ [Next]_vars => Typed' /\ Light'
    BY TypedNext, LightNext, Zenon
<1>3. Typed /\ Light /\ [Next]_vars => [stopped /\ stopped' => UNCHANGED current]_vars
    BY LightNext, Zenon
<1> QED BY <1>1, <1>2, <1>3, TypedInit, PTL DEF Spec, StopHolds

-----------------------------------------------------------------------------
(* Programs begin at their beginning *)

\* A task is enabled only together with a thread that begins.
LEMMA Begins ==
    ASSUME [Next]_vars, enable', lc' # "begin"
    PROVE  enable /\ program' = program
<1>1. CASE FadeRgbCommand \/ FadeHsvCommand \/ ModifyCurrent \/ ConfigOffsets \/ RemoteQuiet
    BY <1>1, Zenon DEF FadeRgbCommand, FadeHsvCommand, ModifyCurrent, ConfigOffsets,
       RemoteQuiet, scriptVars, threadVars
<1>2. CASE StartProgram
    BY <1>2, Zenon DEF StartProgram, ScriptStart, InitialThread
<1>3. CASE Stop
    BY <1>3, Zenon DEF Stop, ScriptStop
<1>4. CASE ScriptPollReturns \/ ScriptPollRuns \/ UNCHANGED vars
    BY <1>4, Zenon DEF ScriptPollReturns, ScriptPollRuns, vars, scriptVars, threadVars
<1>5. CASE ProgramRuns
    <2>1. program' = program
        BY <1>5, Zenon DEF ProgramRuns, WaitForTarget, Sleep, WheelTurns, RandomAccepts,
           RandomRejects, ReplayColor, InProgram
    <2>2. enable' = enable \/ enable' = FALSE
        BY <1>5, Zenon DEF ProgramRuns, WaitForTarget, Sleep, WheelTurns, RandomAccepts,
           RandomRejects, ReplayColor
    <2> QED BY <2>1, <2>2, Zenon
<1>6. CASE \E expired \in SUBSET Channel : FadingPoll(expired)
    BY <1>6, Zenon DEF FadingPoll, scriptVars, threadVars
<1> QED BY <1>1, <1>2, <1>3, <1>4, <1>5, <1>6, Zenon DEF Next, RemotePoll

\* The steps in which neither a wheel nor a replay moves on.
LEMMA Rests ==
    ASSUME [Next]_vars, enable', lc' # "begin"
    PROVE  \/ lc # "begin" /\ UNCHANGED <<wheel_hue, pos, direction>>
           \/ WheelTurns \/ RandomAccepts \/ RandomRejects \/ ReplayColor
<1>1. CASE FadeRgbCommand \/ FadeHsvCommand \/ ModifyCurrent \/ ConfigOffsets \/ RemoteQuiet
    BY <1>1, Zenon DEF FadeRgbCommand, FadeHsvCommand, ModifyCurrent, ConfigOffsets,
       RemoteQuiet, scriptVars, threadVars
<1>2. CASE StartProgram
    BY <1>2, Zenon DEF StartProgram, ScriptStart, InitialThread
<1>3. CASE Stop
    BY <1>3, Zenon DEF Stop, ScriptStop
<1>4. CASE ScriptPollReturns \/ ScriptPollRuns \/ UNCHANGED vars
    BY <1>4, Zenon DEF ScriptPollReturns, ScriptPollRuns, vars, scriptVars, threadVars
<1>5. CASE WaitForTarget \/ Sleep
    <2>1. lc \in {"wait", "sleep"} /\ UNCHANGED <<wheel_hue, pos, direction>>
        BY <1>5, Zenon DEF WaitForTarget, Sleep, InProgram
    <2>2. lc # "begin"
        BY <2>1
    <2> QED BY <2>1, <2>2, Zenon
<1>6. CASE \E expired \in SUBSET Channel : FadingPoll(expired)
    BY <1>6, Zenon DEF FadingPoll, scriptVars, threadVars
<1> QED BY <1>1, <1>2, <1>3, <1>4, <1>5, <1>6, Zenon DEF Next, RemotePoll, ProgramRuns

LEMMA WordAdds == \A x, y \in Int : ToWord(ToWord(x) + y) = ToWord(x + y)
BY SMT DEF ToWord, WordSize

LEMMA WordLaps == \A x, y \in Int : ToWord(x + WordSize * y) = ToWord(x)
BY SMT DEF ToWord, WordSize

LEMMA TurnsAre ==
    /\ 1 \in Turns
    /\ \A k \in Turns : k \in Int /\ (k + 1 \in Turns \/ k = WordSize)
BY WordSizeIs, SMT DEF Turns

\* After 2^16 steps a wheel is where it began.
LEMMA StepAdds ==
    ASSUME NEW a \in Int, NEW inc \in Int, NEW k \in Turns
    PROVE  \E n \in Turns : ToWord(ToWord(a + k * inc) + inc) = ToWord(a + n * inc)
<1>1. k \in Int /\ (k + 1 \in Turns \/ k = WordSize)
    BY TurnsAre, Zenon
<1>2. k * inc \in Int /\ (k + 1) * inc = k * inc + inc /\ 1 * inc = inc
    BY <1>1, SMT
<1>3. a + k * inc \in Int
    BY <1>2
<1>4. ToWord(ToWord(a + k * inc) + inc) = ToWord((a + k * inc) + inc)
    BY <1>3, WordAdds
<1>5. CASE k + 1 \in Turns
    <2>1. (a + k * inc) + inc = a + (k + 1) * inc
        BY <1>2, SMT
    <2> QED BY <1>4, <1>5, <2>1, Zenon
<1>6. CASE k = WordSize
    <2>1. (a + k * inc) + inc = (a + 1 * inc) + WordSize * inc
        BY <1>6, <1>2, SMT
    <2>2. a + 1 * inc \in Int
        BY <1>2
    <2>3. ToWord((a + 1 * inc) + WordSize * inc) = ToWord(a + 1 * inc)
        BY <2>2, WordLaps, Zenon
    <2>4. ToWord((a + k * inc) + inc) = ToWord(a + 1 * inc)
        BY <2>1, <2>3, Zenon
    <2> QED BY TurnsAre, <1>4, <2>4, Zenon
<1> QED BY <1>1, <1>5, <1>6, Zenon

LEMMA WheelNext ==
    ASSUME Typed, WheelKeepsStep, [Next]_vars
    PROVE  WheelKeepsStep'
<1> SUFFICES ASSUME enable', program'.kind = "colorwheel", lc' # "begin"
             PROVE  \E k \in Turns :
                        wheel_hue' = ToWord(FirstHue(program') + k * program'.inc)
    BY Zenon DEF WheelKeepsStep
<1>1. enable /\ program' = program /\ program.kind = "colorwheel"
    BY Begins, Zenon
<1> DEFINE first == FirstHue(program)
           inc == program.inc
           Shown(hue) == \E k \in Turns : hue = ToWord(first + k * inc)
<1>2. first \in Int /\ inc \in Int
    BY <1>1, FirstHueIs, WheelIs, WordsAre, SignedAre
<1>3. lc # "begin" => Shown(wheel_hue)
    BY <1>1, Zenon DEF WheelKeepsStep
<1>4. ~RandomAccepts /\ ~RandomRejects /\ ~ReplayColor
    BY <1>1 DEF RandomAccepts, RandomRejects, ReplayColor
<1>5. Shown(wheel_hue')
    <2>1. CASE lc # "begin" /\ UNCHANGED wheel_hue
        BY <1>3, <2>1, Zenon
    <2>2. CASE WheelTurns /\ lc = "begin"
        <3>1. wheel_hue' = ToWord(first + inc)
            BY <2>2, Zenon DEF WheelTurns
        <3> HIDE DEF first, inc
        <3>2. first + inc = first + 1 * inc
            BY <1>2
        <3> QED BY <3>1, <3>2, TurnsAre, Zenon
    <2>3. CASE WheelTurns /\ lc # "begin"
        <3>1. wheel_hue' = ToWord(wheel_hue + inc)
            BY <2>3, Zenon DEF WheelTurns
        <3> HIDE DEF first, inc
        <3>2. PICK k \in Turns : wheel_hue = ToWord(first + k * inc)
            BY <1>3, <2>3, Zenon
        <3>3. \E n \in Turns :
                 ToWord(ToWord(first + k * inc) + inc) = ToWord(first + n * inc)
            BY <1>2, <3>2, StepAdds, Zenon
        <3> QED BY <3>1, <3>2, <3>3, Zenon
    <2> QED BY <1>4, <2>1, <2>2, <2>3, Rests, Zenon
<1> QED BY <1>1, <1>5, Zenon

\* A color wheel shows the hues of its own parameters and address, whichever
\* programs were stopped or replaced before, and however often it has gone
\* round the 2^16 values of its hue.
THEOREM WheelInStep == Spec => []WheelKeepsStep
<1>1. Init => WheelKeepsStep
    BY Zenon DEF Init, WheelKeepsStep
<1>2. Typed /\ WheelKeepsStep /\ [Next]_vars => Typed' /\ WheelKeepsStep'
    BY TypedNext, WheelNext, Zenon
<1> QED BY <1>1, <1>2, TypedInit, PTL DEF Spec

\* Bytes counted up, down and from one another.
LEMMA ByteSteps == \A x \in Brightness :
    /\ ToByte(x + 1) = IF x = 255 THEN 0 ELSE x + 1
    /\ ToByte(x - 1) = IF x = 0 THEN 255 ELSE x - 1
BY DEF ToByte, Brightness

LEMMA ByteDiffers == \A x, y \in Brightness :
    ToByte(x - y) = IF y <= x THEN x - y ELSE x - y + 256
<1> TAKE x, y \in Brightness
<1>1. x \in Int /\ y \in Int /\ -255 <= x - y /\ x - y <= 255
    BY DEF Brightness
<1>2. \A d \in Int : 0 <= d /\ d <= 255 => d % 256 = d
    OBVIOUS
<1>3. \A d \in Int : -255 <= d /\ d < 0 => d % 256 = d + 256
    OBVIOUS
<1> QED BY <1>1, <1>2, <1>3 DEF ToByte

\* The distance from a byte up to another is 0 only if they are the same.
LEMMA ByteDistance == \A x, y \in Brightness :
    /\ ToByte(x - x) <= ToByte(y - x)
    /\ ToByte(y - x) <= ToByte(x - x) => y = x
<1> TAKE x, y \in Brightness
<1>1. x \in 0 .. 255 /\ y \in 0 .. 255
    BY Zenon DEF Brightness
<1> DEFINE d == ToByte(y - x)
<1>2. d = IF x <= y THEN y - x ELSE y - x + 256
    BY ByteDiffers
<1>3. ToByte(x - x) = 0
    <2>1. x - x = 0
        BY <1>1
    <2> QED BY <2>1 DEF ToByte
<1> HIDE DEF d
<1>4. 0 <= d /\ (d <= 0 => y = x)
    BY <1>1, <1>2
<1> QED BY <1>3, <1>4 DEF d

\* A position that is not the last one has its successor among the slots, and
\* one that is not the first its predecessor.
LEMMA SlotsGoOn ==
    ASSUME NEW p, p.start \in Brightness, p.end \in Brightness, NEW here \in SlotsOf(p)
    PROVE  /\ here # p.end => ToByte(here + 1) \in SlotsOf(p)
           /\ here # p.start => ToByte(here - 1) \in SlotsOf(p)
<1> DEFINE start == p.start
           last == p.end
           up == ToByte(here + 1)
           down == ToByte(here - 1)
<1>1. here \in Brightness /\ ToByte(here - start) <= ToByte(last - start)
    BY DEF SlotsOf
<1>2. up = (IF here = 255 THEN 0 ELSE here + 1) /\ down = (IF here = 0 THEN 255 ELSE here - 1)
    BY <1>1, ByteSteps
<1>3. \A x \in Brightness :
         ToByte(x - start) = IF start <= x THEN x - start ELSE x - start + 256
    BY ByteDiffers
<1>4. start \in Brightness /\ last \in Brightness
    OBVIOUS
<1> HIDE DEF start, last, up, down
<1>5. up \in Brightness /\ down \in Brightness
    BY <1>1, <1>2 DEF Brightness
<1>6. /\ ToByte(here - start) = IF start <= here THEN here - start ELSE here - start + 256
      /\ ToByte(last - start) = IF start <= last THEN last - start ELSE last - start + 256
      /\ ToByte(up - start) = IF start <= up THEN up - start ELSE up - start + 256
      /\ ToByte(down - start) = IF start <= down THEN down - start ELSE down - start + 256
    BY <1>1, <1>3, <1>4, <1>5
<1>7. here # last => ToByte(up - start) <= ToByte(last - start)
    BY <1>1, <1>2, <1>4, <1>6 DEF Brightness
<1>8. here # start => ToByte(down - start) <= ToByte(last - start)
    BY <1>1, <1>2, <1>4, <1>6 DEF Brightness
<1> QED BY <1>5, <1>7, <1>8 DEF SlotsOf, start, last, up, down

LEMMA FirstSlot ==
    ASSUME NEW p, p.start \in Brightness, p.end \in Brightness
    PROVE  p.start \in SlotsOf(p)
<1> QED BY ByteDistance, Zenon DEF SlotsOf

\* A replay of one slot never turns round: down from it there is nowhere to go.
OneWay(p, dir) == p.start = p.end => dir = "up"

\* The positions and directions of a replay, up and down, with its ends.
LEMMA MovesInRange ==
    ASSUME Typed, program.kind = "replay", ~RunsAway(program),
           NEW here \in SlotsOf(program), NEW dir \in {"up", "down"},
           OneWay(program, dir), ~Exits(program, here, dir)
    PROVE  /\ ReplayMoves(program, here, dir).pos \in SlotsOf(program)
           /\ OneWay(program, ReplayMoves(program, here, dir).dir)
<1>1. /\ program.start \in Brightness /\ program.end \in Brightness
      /\ program.repeat \in {"none", "start", "reverse"}
    BY ReplayIs
<1>2. /\ here # program.end => ToByte(here + 1) \in SlotsOf(program)
      /\ here # program.start => ToByte(here - 1) \in SlotsOf(program)
      /\ program.start \in SlotsOf(program)
    BY <1>1, SlotsGoOn, FirstSlot
<1>3. CASE program.start = program.end
    <2>1. dir = "up" /\ program.repeat # "reverse"
        BY <1>3 DEF OneWay, RunsAway
    <2>2. here = program.end
        <3>1. here \in Brightness /\ ToByte(here - program.start) <= ToByte(program.start - program.start)
            BY <1>3 DEF SlotsOf
        <3> QED BY <1>1, <1>3, <3>1, ByteDistance, Zenon
    <2>3. program.repeat = "start"
        BY <1>1, <2>1, <2>2 DEF Exits, LastPosition
    <2>4. ReplayMoves(program, here, dir) = [pos |-> program.start, dir |-> "up"]
        BY <2>1, <2>2, <2>3 DEF ReplayMoves, LastPosition
    <2> QED BY <1>2, <2>4 DEF OneWay
<1>4. CASE program.start # program.end
    <2>1. ReplayMoves(program, here, dir).pos =
              IF dir = "up" /\ here = program.end
              THEN IF program.repeat = "start" THEN program.start ELSE ToByte(here - 1)
              ELSE IF dir = "down" /\ here = program.start THEN ToByte(here + 1)
              ELSE IF dir = "up" THEN ToByte(here + 1) ELSE ToByte(here - 1)
        BY DEF ReplayMoves, LastPosition
    <2>2. CASE dir = "up"
        <3>1. dir # "down"
            BY <2>2
        <3> QED BY <1>2, <1>4, <2>1, <2>2, <3>1, Zenon DEF OneWay
    <2>3. CASE dir = "down"
        <3>1. dir # "up"
            BY <2>3
        <3> QED BY <1>2, <1>4, <2>1, <2>3, <3>1, Zenon DEF OneWay
    <2> QED BY <2>2, <2>3, Zenon
<1> QED BY <1>3, <1>4, Zenon

\* What a replay keeps of its direction.
ReplayTurns ==
    enable /\ program.kind = "replay" /\ lc # "begin" /\ ~RunsAway(program) =>
        OneWay(program, direction)

LEMMA ReplayNext ==
    ASSUME Typed, ReplayInRange, ReplayTurns, [Next]_vars
    PROVE  ReplayInRange' /\ ReplayTurns'
<1> SUFFICES ASSUME enable', program'.kind = "replay", lc' # "begin", ~RunsAway(program')
             PROVE  pos' \in SlotsOf(program') /\ OneWay(program', direction')
    BY Zenon DEF ReplayInRange, ReplayTurns, SlotsOf, RunsAway, OneWay
<1>1. enable /\ program' = program /\ program.kind = "replay" /\ ~RunsAway(program)
    BY Begins, Zenon
<1>2. lc # "begin" => pos \in SlotsOf(program) /\ OneWay(program, direction)
    BY <1>1, Zenon DEF ReplayInRange, ReplayTurns
<1>3. ~RandomAccepts /\ ~RandomRejects /\ ~WheelTurns
    BY <1>1 DEF RandomAccepts, RandomRejects, WheelTurns
<1>4. CASE ReplayColor
    <2> DEFINE here == IF lc = "begin" THEN program.start ELSE pos
               dir == IF lc = "begin" THEN "up" ELSE direction
    <2>1. here \in SlotsOf(program)
        <3>1. program.start \in SlotsOf(program)
            BY <1>1, ReplayIs, FirstSlot
        <3> QED BY <1>2, <3>1, Zenon
    <2>2. dir \in {"up", "down"} /\ OneWay(program, dir)
        BY <1>2, Zenon DEF Typed, OneWay
    <2>3. ~Exits(program, here, dir)
        BY <1>4, Zenon DEF ReplayColor
    <2>4. /\ pos' = ReplayMoves(program, here, dir).pos
          /\ direction' = ReplayMoves(program, here, dir).dir
        BY <1>4, <2>3, Zenon DEF ReplayColor
    <2> HIDE DEF here, dir
    <2>5. /\ ReplayMoves(program, here, dir).pos \in SlotsOf(program)
          /\ OneWay(program, ReplayMoves(program, here, dir).dir)
        BY <1>1, <2>1, <2>2, <2>3, MovesInRange
    <2> QED BY <1>1, <2>4, <2>5, Zenon
<1>5. CASE lc # "begin" /\ UNCHANGED <<pos, direction>>
    BY <1>1, <1>2, <1>5, Zenon
<1> QED BY <1>3, <1>4, <1>5, Rests, Zenon

\* A replay that does not run away stays in the slots from its start on to its
\* end, whichever way it goes and whatever it replaced.
THEOREM ReplayStays == Spec => []ReplayInRange
<1>1. Init => ReplayInRange /\ ReplayTurns
    BY Zenon DEF Init, ReplayInRange, ReplayTurns
<1>2. /\ Typed /\ ReplayInRange /\ ReplayTurns /\ [Next]_vars
      => Typed' /\ ReplayInRange' /\ ReplayTurns'
    BY TypedNext, ReplayNext, Zenon
<1> QED BY <1>1, <1>2, TypedInit, PTL DEF Spec
===============================================================================
