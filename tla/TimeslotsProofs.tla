--------------------------- MODULE TimeslotsProofs ----------------------------
(***************************************************************************)
(* Proofs about Timeslots, for every color, every table of top values that *)
(* is in order, every period, number of levels of brightness and place of  *)
(* the middle of the period among them.                                    *)
(*                                                                         *)
(* The ring says nothing about frames: it holds masks and top values.  The *)
(* inductive invariant says that they have a meaning, a sequence t of the  *)
(* slots that is shown, that the interrupt has in its hands and that are   *)
(* still in the ring.  Each begins a frame, begins its second half or ends *)
(* channels of some brightness, and they follow one another as such slots  *)
(* do.  t[b] .. t[g] is the last frame that was there at the last complete *)
(* pwm_poll and whose second half is still to come; c is the place, counted*)
(* from the shown slot, at which the newest frame begins.  A frame has at  *)
(* most five slots and begins in the first seven places, so the ring is    *)
(* never overfull.  As a half is never shorter than GAP, the interrupt does*)
(* not get past that second half without a complete pwm_poll, and so the  *)
(* ring is never empty.                                                    *)
(***************************************************************************)
EXTENDS Timeslots, Sequences, TLAPS

-----------------------------------------------------------------------------
(* Slots *)

\* The slot an event shows, in words: the one that begins a frame, the one that
\* begins its second half, or one in which channels of brightness b end.  In
\* each of them b is the highest brightness that has ended.
Roles == {"begin", "middle", "end"}
Items == [mask : SUBSET Channel, top : Nat, frame : [color : Color, id : {0, 1}],
          role : Roles, b : 0 .. MAX - 1]
Item(mask, top, frame, role, b) ==
    [mask |-> mask, top |-> top, frame |-> frame, role |-> role, b |-> b]
Bare(e) == Slot(e.mask, e.top, e.frame)

\* The channels of a color that are lit once those up to brightness b have ended.
Remaining(color, b) == {c \in Channel : color[c] = MAX \/ (color[c] > MIN /\ color[c] > b)}
\* A channel of the color ends between brightness a and brightness b.
EndsBetween(color, a, b) ==
    \E c \in Channel : ~Skipped(color[c]) /\ a < color[c] /\ color[c] < b

InSecondHalf(e) == e.role = "middle" \/ e.b >= MIDDLE
TimeOf(e) == IF e.role = "end" THEN Top[e.b] ELSE 0

\* A slot is entered with the top value of its brightness.
WellMade(e) ==
    /\ e \in Items
    /\ e.role = "begin" => e.b = 0 /\ e.top = NEVER
    /\ e.role = "middle" => e.b = MIDDLE - 1 /\ e.top = NEVER
    /\ e.role = "end" => e.b > MIN /\ e.top = Top[e.b]

\* The ways in which a slot may follow another one.
FrameFollows(e, f) ==
    /\ f.role = "begin" /\ f.frame.id # e.frame.id
    /\ InSecondHalf(e) /\ ~EndsBetween(e.frame.color, e.b, MAX)
MiddleFollows(e, f) ==
    /\ f.role = "middle" /\ f.frame = e.frame
    /\ ~InSecondHalf(e) /\ ~EndsBetween(e.frame.color, e.b, MIDDLE)
EndFollows(e, f) ==
    /\ f.role = "end" /\ f.frame = e.frame
    /\ e.b < f.b /\ ~EndsBetween(e.frame.color, e.b, f.b)
    /\ InSecondHalf(e) <=> f.b >= MIDDLE
Follows(e, f) == FrameFollows(e, f) \/ MiddleFollows(e, f) \/ EndFollows(e, f)

-----------------------------------------------------------------------------
(* The inductive invariant: there is a sequence t of slots, the one shown,  *)
(* the one the interrupt or the timer has, and those in the ring.           *)

Hand == IF isr = NoSlot THEN next ELSE isr
InRing(r, k) == (r + k - 1) % SLOTS
Holds(t) ==
    /\ t \in Seq(Items) /\ Len(t) = unread + 2
    /\ out = t[1].mask /\ shown = t[1].frame /\ Hand = Bare(t[2])
    /\ \A k \in 1 .. unread : slot[InRing(read, k)] = Bare(t[k + 2])
    /\ write = InRing(read, unread + 1)

\* Its slots follow one another.  The mask of the last one may have to be changed.
Chained(t) ==
    /\ \A k \in 1 .. Len(t) : WellMade(t[k])
    /\ \A k \in 1 .. Len(t) - 1 : Follows(t[k], t[k + 1])
    /\ \A k \in 1 .. Len(t) : k < Len(t) \/ pc # "frame" =>
          t[k].mask = Remaining(t[k].frame.color, t[k].b)

\* What update_pwm_timeslots has done so far.
AtMiddle == work.middle /\ work.last < MIDDLE
LastEntered(e) ==
    /\ e.mask = work.mask
    /\ IF AtMiddle THEN e.role = "middle"
       ELSE e.b = work.last /\ e.role = IF work.last = 0 THEN "begin" ELSE "end"
Sorting ==
    /\ \A i \in 1 .. 3, j \in 1 .. 3 :
         /\ i # j => work.order[i] # work.order[j]
         /\ i < j => newest.color[work.order[i]] <= newest.color[work.order[j]]
    /\ \A i \in 1 .. work.n - 1 :
         Skipped(newest.color[work.order[i]]) \/ newest.color[work.order[i]] <= work.last
    /\ \A i \in work.n .. 3 : newest.color[work.order[i]] >= work.last
    /\ work.mask = {c \in Lit(newest.color) :
                      newest.color[c] = MAX \/ \E i \in work.n .. 3 : work.order[i] = c}
Working(t) ==
    /\ t[Len(t)].frame = newest
    /\ pc = "frame" =>
         /\ LastEntered(t[Len(t)]) /\ Sorting
         /\ work.last = 0 \/ work.last > MIN
         /\ work.last >= MIDDLE => work.middle
         /\ AtMiddle => work.n <= 3 /\ ~Skipped(ThisBrightness) /\ ThisBrightness >= MIDDLE
    /\ pc # "frame" =>
         InSecondHalf(t[Len(t)]) /\ ~EndsBetween(newest.color, t[Len(t)].b, MAX)

\* The last frame begins with t[c], in what was in the ring before, and has at
\* most five slots.
Counted(t, c) ==
    /\ c <= 7 /\ c <= Len(t) /\ Len(t) - c <= 4
    /\ c >= 1 => t[c].role = "begin"
    /\ pc = "frame" => Len(t) - c <= (work.n - 1) + (IF work.middle THEN 1 ELSE 0)

\* The shown slot is as old as the timer says.
OnTime(t) ==
    /\ now \in Nat /\ TimeOf(t[1]) <= now /\ now < HALF
    /\ half = IF InSecondHalf(t[1]) THEN 1 ELSE 0
    /\ isr # NoSlot => now = TimeOf(t[1]) /\ ~polled
    /\ isr = NoSlot /\ t[2].role = "end" => now < TimeOf(t[2])

\* Of the frame t[b] .. t[g], which was complete when pwm_poll was, the second
\* half is still to come.
Supplied(t, b, g) ==
    /\ since \in Nat /\ b < g /\ g \in 2 .. Len(t) /\ InSecondHalf(t[g])
    /\ pc = "frame" => g < Len(t)
    /\ b >= 2 => t[b].role = "begin"
    /\ IF polled THEN b >= 3 ELSE b >= 2 \/ (half = 0 /\ since > now)

Types ==
    /\ current \in Color /\ slot \in [Index -> [mask : SUBSET Channel, top : Nat,
                                                frame : [color : Color, id : {0, 1}]]]
    /\ read \in Index /\ write \in Index /\ unread \in 0 .. SLOTS - 1
    /\ pc \in {"loop", "again", "frame"} /\ polled \in BOOLEAN
    /\ newest \in [color : Color, id : {0, 1}]
    /\ work \in [order : [1 .. 3 -> Channel], n : 1 .. 4, mask : SUBSET Channel,
                 last : 0 .. MAX - 1, middle : BOOLEAN]

Picture(t, b, g, c) ==
    Holds(t) /\ Chained(t) /\ Working(t) /\ Counted(t, c) /\ OnTime(t) /\ Supplied(t, b, g)
IInv == Types /\ \E t : \E b, g, c \in Int : Picture(t, b, g, c)

-----------------------------------------------------------------------------
(* The ring *)

LEMMA Sizes ==
    /\ SLOTS = 10 /\ Index = 0 .. 9 /\ RefillBelow = 5 /\ Channel = {1, 2, 3}
    /\ MIN \in Nat /\ MIDDLE \in Nat /\ MAX \in Nat /\ MIN + 1 < MIDDLE /\ MIDDLE < MAX
    /\ HALF \in Nat /\ NEAR \in Nat /\ COST \in Nat /\ GAP \in Nat
    /\ COST < NEAR /\ COST < HALF /\ GAP <= HALF /\ NEVER = HALF + NEAR
BY TimeslotAssumption DEF SLOTS, Index, RefillBelow, Channel, NEVER

LEMMA Tops ==
    ASSUME NEW b \in 1 .. MAX - 1
    PROVE  Top[b] \in Nat /\ 1 <= Top[b] /\ Top[b] < HALF - COST
BY TimeslotAssumption

LEMMA Places ==
    ASSUME NEW r \in 0 .. 9, NEW k \in 1 .. 10
    PROVE  InRing(r, k) = (IF r + k <= 10 THEN r + k - 1 ELSE r + k - 11)
<1>1. SLOTS = 10
    BY Sizes
<1>2. CASE r + k <= 10
    BY <1>1, <1>2 DEF InRing
<1>3. CASE r + k > 10
    BY <1>1, <1>3 DEF InRing
<1> QED BY <1>2, <1>3

LEMMA FollowingIs ==
    ASSUME NEW i \in 0 .. 9
    PROVE  Following(i) = (IF i = 9 THEN 0 ELSE i + 1) /\ Following(i) \in 0 .. 9
<1>1. SLOTS = 10
    BY Sizes
<1>2. CASE i = 9
    BY <1>1, <1>2 DEF Following
<1>3. CASE i # 9
    BY <1>1, <1>3 DEF Following
<1> QED BY <1>2, <1>3

LEMMA FillIs ==
    ASSUME Types, NEW t, Holds(t)
    PROVE  Fill = unread
<1>1. read \in 0 .. 9 /\ write \in 0 .. 9 /\ unread \in 0 .. 9 /\ SLOTS = 10
    BY Sizes DEF Types
<1>2. write = (IF read + unread + 1 <= 10 THEN read + unread ELSE read + unread - 10)
    <2>1. unread + 1 \in 1 .. 10 /\ write = InRing(read, unread + 1)
        BY <1>1 DEF Holds
    <2> QED BY <1>1, <2>1, Places
<1> QED BY <1>1, <1>2 DEF Fill

LEMMA SlotsAreSlots ==
    ASSUME NEW mask, NEW top, NEW frame
    PROVE  Slot(mask, top, frame) # NoSlot
<1>1. "mask" \in DOMAIN Slot(mask, top, frame) /\ "mask" \notin DOMAIN NoSlot
    BY DEF Slot, NoSlot
<1> QED BY <1>1

LEMMA BareIs ==
    ASSUME NEW e
    PROVE  /\ Bare(e) # NoSlot
           /\ Bare(e).mask = e.mask /\ Bare(e).top = e.top /\ Bare(e).frame = e.frame
<1>1. Bare(e) # NoSlot
    BY SlotsAreSlots DEF Bare
<1> QED BY <1>1 DEF Bare, Slot

LEMMA Apart ==
    ASSUME NEW r \in 0 .. 9, NEW k \in 1 .. 9, NEW u \in 1 .. 9, k # u
    PROVE  InRing(r, k) # InRing(r, u) /\ InRing(r, k) \in 0 .. 9
<1>1. /\ InRing(r, k) = (IF r + k <= 10 THEN r + k - 1 ELSE r + k - 11)
      /\ InRing(r, u) = (IF r + u <= 10 THEN r + u - 1 ELSE r + u - 11)
    BY Places
<1> QED BY <1>1

LEMMA TailIs ==
    ASSUME NEW t \in Seq(Items), Len(t) >= 3
    PROVE  /\ Tail(t) \in Seq(Items) /\ Len(Tail(t)) = Len(t) - 1
           /\ \A k \in 1 .. Len(t) - 1 : Tail(t)[k] = t[k + 1]
OBVIOUS

-----------------------------------------------------------------------------
(* The interrupt shows a slot and takes the next one *)

\* What Interrupt and Spin have in common.
ShowsHand ==
    /\ Dequeue /\ out' = Hand.mask /\ shown' = Hand.frame
    /\ UNCHANGED mainVars /\ polled' \in BOOLEAN

LEMMA ShowHolds ==
    ASSUME Types, NEW t, NEW t2, Holds(t), Len(t) >= 3, t2 = Tail(t), ShowsHand
    PROVE  Types' /\ Holds(t2)' /\ isr' = Bare(t[3]) /\ isr' # NoSlot
<1>1. /\ t \in Seq(Items) /\ Len(t) = unread + 2 /\ unread \in 1 .. 9 /\ read \in 0 .. 9
      /\ SLOTS = 10 /\ Index = 0 .. 9
    BY Sizes DEF Holds, Types
<1>2. /\ t2 \in Seq(Items) /\ Len(t2) = unread + 1
      /\ \A k \in 1 .. unread + 1 : t2[k] = t[k + 1]
    BY <1>1, TailIs
<1>3. unread' = unread - 1 /\ unread' \in 0 .. 8
    BY <1>1 DEF ShowsHand, Dequeue
<1>4. read' = (IF read = 9 THEN 0 ELSE read + 1) /\ read' \in 0 .. 9
    BY <1>1, FollowingIs DEF ShowsHand, Dequeue
<1>5. ASSUME NEW k \in 1 .. unread
      PROVE  InRing(read', k) = InRing(read, k + 1)
    <2>1. k \in 1 .. 10 /\ k + 1 \in 1 .. 10
        BY <1>1, <1>5
    <2>2. InRing(read, k + 1) = (IF read + (k + 1) <= 10 THEN read + (k + 1) - 1 ELSE read + (k + 1) - 11)
        BY <1>1, <2>1, Places
    <2>3. InRing(read', k) = (IF read' + k <= 10 THEN read' + k - 1 ELSE read' + k - 11)
        BY <1>4, <2>1, Places
    <2> QED BY <1>1, <1>4, <1>5, <2>2, <2>3
<1>6. Slot(t[3].mask, t[3].top, t[3].frame) = slot[read]
    <2>1. InRing(read, 1) = read
        <3>1. InRing(read, 1) = (IF read + 1 <= 10 THEN read + 1 - 1 ELSE read + 1 - 11)
            BY <1>1, Places
        <3> QED BY <1>1, <3>1
    <2>2. slot[InRing(read, 1)] = Bare(t[1 + 2])
        BY <1>1 DEF Holds
    <2> QED BY <2>1, <2>2 DEF Bare
<1>7. isr' = Bare(t[3]) /\ isr' # NoSlot
    BY <1>6, BareIs DEF Bare, ShowsHand, Dequeue
<1>8. Hand' = Bare(t2[2])
    BY <1>1, <1>2, <1>7 DEF Hand
<1>9. out' = t2[1].mask /\ shown' = t2[1].frame
    <2>1. Hand = Bare(t[2])
        BY DEF Holds
    <2>2. t2[1] = t[2]
        BY <1>1, <1>2
    <2> QED BY <2>1, <2>2, BareIs DEF ShowsHand
<1>10. ASSUME NEW k \in 1 .. unread'
       PROVE  slot'[InRing(read', k)] = Bare(t2[k + 2])
    <2>1. k \in 1 .. unread /\ k + 1 \in 1 .. unread /\ k + 2 \in 1 .. unread + 1
        BY <1>1, <1>3, <1>10
    <2>2. slot[InRing(read, k + 1)] = Bare(t[(k + 1) + 2])
        BY <2>1 DEF Holds
    <2>3. t2[k + 2] = t[(k + 1) + 2]
        BY <1>2, <2>1
    <2> QED BY <1>5, <2>1, <2>2, <2>3 DEF ShowsHand, Dequeue
<1>11. write' = InRing(read', unread' + 1)
    <2>1. write = InRing(read, unread + 1) /\ unread \in 1 .. unread
        BY <1>1 DEF Holds
    <2>2. unread' + 1 = unread
        BY <1>1, <1>3
    <2> QED BY <1>5, <2>1, <2>2 DEF ShowsHand, Dequeue
<1>12. Holds(t2)'
    <2>1. Len(t2) = unread' + 2
        BY <1>1, <1>2, <1>3
    <2> QED BY <1>2, <1>8, <1>9, <1>10, <1>11, <2>1 DEF Holds
<1>13. Types'
    <2>1. read' \in Index /\ write' = write /\ slot' = slot /\ unread' \in 0 .. SLOTS - 1
        BY <1>1, <1>3, <1>4 DEF ShowsHand, Dequeue
    <2> QED BY <2>1 DEF Types, ShowsHand, mainVars
<1> QED BY <1>7, <1>12, <1>13

LEMMA ShowKeeps ==
    ASSUME Types, NEW t, NEW t2, NEW c \in Int, Holds(t), Len(t) >= 3, t2 = Tail(t), ShowsHand,
           Chained(t), Working(t), Counted(t, c)
    PROVE  Chained(t2)' /\ Working(t2)' /\ Counted(t2, c - 1)'
<1>1. /\ t \in Seq(Items) /\ Len(t) \in Nat /\ Len(t) >= 3
      /\ Len(t2) = Len(t) - 1 /\ \A k \in 1 .. Len(t) - 1 : t2[k] = t[k + 1]
    BY TailIs DEF Holds
<1>2. t2[Len(t2)] = t[Len(t)]
    BY <1>1
<1>3. pc' = pc /\ work' = work /\ newest' = newest
    BY DEF ShowsHand, mainVars
<1>4. Chained(t2)'
    <2>1. ASSUME NEW k \in 1 .. Len(t2)
          PROVE  WellMade(t2[k]) /\ (k < Len(t2) \/ pc # "frame" =>
                    t2[k].mask = Remaining(t2[k].frame.color, t2[k].b))
        <3>1. k + 1 \in 1 .. Len(t) /\ t2[k] = t[k + 1] /\ (k < Len(t2) => k + 1 < Len(t))
            BY <1>1, <2>1
        <3> QED BY <3>1 DEF Chained
    <2>2. ASSUME NEW k \in 1 .. Len(t2) - 1
          PROVE  Follows(t2[k], t2[k + 1])
        <3>1. k + 1 \in 1 .. Len(t) - 1 /\ t2[k] = t[k + 1] /\ t2[k + 1] = t[(k + 1) + 1]
            BY <1>1, <2>2
        <3> QED BY <3>1 DEF Chained
    <2> QED BY <1>3, <2>1, <2>2 DEF Chained
<1>5. Working(t2)'
    BY <1>2, <1>3 DEF Working, LastEntered, AtMiddle, Sorting, ThisBrightness, ThisChannel
<1>6. Counted(t2, c - 1)'
    <2>1. c - 1 >= 1 => t2[c - 1] = t[c]
        <3> SUFFICES ASSUME c - 1 >= 1 PROVE t2[c - 1] = t[c]
            OBVIOUS
        <3>1. c - 1 \in 1 .. Len(t) - 1 /\ (c - 1) + 1 = c
            BY <1>1 DEF Counted
        <3> QED BY <1>1, <3>1
    <2> QED BY <1>1, <1>3, <2>1 DEF Counted
<1> QED BY <1>4, <1>5, <1>6

\* What a slot that an event shows makes of the time.
LEMMA HandIs ==
    ASSUME Types, NEW t, Holds(t), Chained(t), NEW b, NEW g, Supplied(t, b, g), b \in Int
    PROVE  /\ t[1] \in Items /\ t[2] \in Items /\ WellMade(t[1]) /\ WellMade(t[2])
           /\ Follows(t[1], t[2])
           /\ Hand.top = t[2].top /\ Hand.mask = t[2].mask /\ Hand.frame = t[2].frame
           /\ t[2].role = "end" => Hand.top = TimeOf(t[2]) /\ Hand.top < HALF - COST /\ 1 <= Hand.top
           /\ t[2].role # "end" => Hand.top = NEVER /\ TimeOf(t[2]) = 0
           /\ Len(t) >= 3 => Follows(t[2], t[3]) /\ WellMade(t[3])
<1>1. t \in Seq(Items) /\ Len(t) \in Nat /\ Len(t) >= 2 /\ Hand = Bare(t[2])
    BY DEF Holds, Types
<1>2. WellMade(t[1]) /\ WellMade(t[2]) /\ Follows(t[1], t[2])
    BY <1>1 DEF Chained
<1>3. Len(t) >= 3 => Follows(t[2], t[3]) /\ WellMade(t[3])
    BY <1>1 DEF Chained
<1>4. t[1] \in Items /\ t[2] \in Items
    BY <1>2 DEF WellMade
<1>5. t[2].role = "end" => t[2].b \in 1 .. MAX - 1 /\ t[2].top = Top[t[2].b]
    BY <1>2, Sizes DEF WellMade, Items
<1>6. t[2].role = "end" => /\ t[2].top = TimeOf(t[2])
                           /\ t[2].top < HALF - COST /\ 1 <= t[2].top
    BY <1>5, Tops DEF TimeOf
<1>7. t[2].role # "end" => t[2].top = NEVER /\ TimeOf(t[2]) = 0
    BY <1>2, <1>4 DEF WellMade, TimeOf, Items, Roles
<1> QED BY <1>1, <1>2, <1>3, <1>4, <1>6, <1>7, BareIs

\* In a half later slots have later times, and no half has the slots of two.
LEMMA LaterIs ==
    ASSUME NEW e, NEW f, WellMade(e), WellMade(f), Follows(e, f)
    PROVE  /\ f.role = "end" => TimeOf(e) < TimeOf(f) /\ (InSecondHalf(e) <=> InSecondHalf(f))
           /\ f.role = "middle" => ~InSecondHalf(e) /\ InSecondHalf(f)
           /\ f.role = "begin" => InSecondHalf(e) /\ ~InSecondHalf(f)
           /\ TimeOf(e) \in Nat /\ TimeOf(e) < HALF - COST
<1>1. e \in Items /\ f \in Items
    BY DEF WellMade
<1>2. e.role = "end" => e.b \in 1 .. MAX - 1 /\ TimeOf(e) = Top[e.b]
    BY <1>1, Sizes DEF WellMade, Items, TimeOf
<1>3. TimeOf(e) \in Nat /\ TimeOf(e) < HALF - COST
    BY <1>2, Tops, Sizes DEF TimeOf
<1>4. ASSUME f.role = "end"
      PROVE  TimeOf(e) < TimeOf(f) /\ (InSecondHalf(e) <=> InSecondHalf(f))
    <2>1. EndFollows(e, f)
        BY <1>4 DEF Follows, FrameFollows, MiddleFollows
    <2>2. InSecondHalf(e) <=> InSecondHalf(f)
        BY <1>4, <2>1 DEF EndFollows, InSecondHalf
    <2>3. f.b \in 1 .. MAX - 1 /\ TimeOf(f) = Top[f.b] /\ f.top = Top[f.b]
        BY <1>1, <1>4, Sizes DEF WellMade, Items, TimeOf
    <2>4. CASE e.role = "end"
        <3>1. e.b < f.b /\ (f.b < MIDDLE \/ e.b >= MIDDLE)
            BY <1>4, <2>1, <2>4, <2>3, <1>2, Sizes DEF EndFollows, InSecondHalf
        <3> QED BY <1>2, <2>2, <2>3, <2>4, <3>1, TimeslotAssumption
    <2>5. CASE e.role # "end"
        BY <2>2, <2>3, <2>5, Tops DEF TimeOf
    <2> QED BY <2>4, <2>5
<1>5. f.role = "middle" => ~InSecondHalf(e) /\ InSecondHalf(f)
    BY DEF Follows, FrameFollows, MiddleFollows, EndFollows, InSecondHalf
<1>6. f.role = "begin" => InSecondHalf(e) /\ ~InSecondHalf(f)
    BY Sizes DEF Follows, FrameFollows, MiddleFollows, EndFollows, InSecondHalf, WellMade
<1> QED BY <1>3, <1>4, <1>5, <1>6

\* Before the second half of a frame that is complete the ring is not empty.
LEMMA RingHolds ==
    ASSUME Types, NEW t, Holds(t), Chained(t), OnTime(t),
           NEW b \in Int, NEW g \in Int, Supplied(t, b, g),
           b >= 2 \/ polled \/ t[2].role = "end"
    PROVE  Len(t) >= 3
<1>1. Len(t) \in Nat /\ Len(t) >= 2 /\ g \in 2 .. Len(t) /\ b < g
    BY DEF Holds, Types, Supplied
<1>2. CASE b >= 2
    BY <1>1, <1>2
<1>3. CASE ~(b >= 2)
    <2>1. ~polled /\ half = 0 /\ t[2].role = "end"
        BY <1>3 DEF Supplied
    <2>2. ~InSecondHalf(t[1])
        BY <2>1 DEF OnTime
    <2>3. ~InSecondHalf(t[2])
        BY <2>1, <2>2, HandIs, LaterIs
    <2>4. g # 2
        BY <2>3 DEF Supplied
    <2> QED BY <1>1, <2>4
<1> QED BY <1>2, <1>3

\* Of every event: what is left to say is about the time.
LEMMA EventKeeps ==
    ASSUME NEW t, NEW b \in Int, NEW g \in Int, NEW c \in Int, Types, Picture(t, b, g, c),
           Len(t) >= 3, ShowsHand, now' = TimeOf(t[2]), since' \in Nat, ~polled',
           half' = (IF InSecondHalf(t[2]) THEN 1 ELSE 0),
           g >= 3, b >= 3 \/ (half' = 0 /\ since' > now')
    PROVE  IInv'
<1> DEFINE t2 == Tail(t)
<1>1. Holds(t) /\ Chained(t) /\ Working(t) /\ Counted(t, c) /\ OnTime(t) /\ Supplied(t, b, g)
    BY DEF Picture
<1>2. /\ t \in Seq(Items) /\ Len(t) \in Nat /\ Len(t2) = Len(t) - 1
      /\ \A k \in 1 .. Len(t) - 1 : t2[k] = t[k + 1]
    BY <1>1, TailIs DEF Holds
<1>3. Types' /\ Holds(t2)' /\ isr' # NoSlot
    BY <1>1, ShowHolds
<1>4. Chained(t2)' /\ Working(t2)' /\ Counted(t2, c - 1)'
    BY <1>1, ShowKeeps
<1>5. pc' = pc
    BY DEF ShowsHand, mainVars
<1>6. t2[1] = t[2] /\ t2[g - 1] = t[g] /\ (b >= 3 => t2[b - 1] = t[b])
    <2>1. b < g /\ g <= Len(t)
        BY <1>1 DEF Supplied
    <2>2. 1 \in 1 .. Len(t) - 1 /\ g - 1 \in 1 .. Len(t) - 1 /\ (b >= 3 => b - 1 \in 1 .. Len(t) - 1)
        BY <1>2, <2>1
    <2> QED BY <1>2, <2>2
<1> HIDE DEF t2
<1>7. OnTime(t2)'
    <2>1. TimeOf(t[2]) \in Nat /\ TimeOf(t[2]) < HALF
        <3>1. t[2].role = "end" => TimeOf(t[2]) \in Nat /\ TimeOf(t[2]) < HALF
            <4>1. WellMade(t[2]) /\ WellMade(t[3]) /\ Follows(t[2], t[3])
                BY <1>1, HandIs
            <4> QED BY <4>1, LaterIs, Sizes
        <3> QED BY <1>1, <3>1, HandIs, Sizes
    <2> QED BY <1>3, <1>6, <2>1 DEF OnTime
<1>8. Supplied(t2, b - 1, g - 1)'
    <2>1. /\ since \in Nat /\ b < g /\ g \in 2 .. Len(t) /\ InSecondHalf(t[g])
          /\ (pc = "frame" => g < Len(t)) /\ (b >= 2 => t[b].role = "begin")
        BY <1>1 DEF Supplied
    <2> QED BY <1>2, <1>5, <1>6, <2>1 DEF Supplied
<1>9. Picture(t2, b - 1, g - 1, c - 1)'
    BY <1>3, <1>4, <1>7, <1>8 DEF Picture
<1>10. b - 1 \in Int /\ g - 1 \in Int /\ c - 1 \in Int
    OBVIOUS
<1> QED BY <1>3, <1>9, <1>10 DEF IInv

LEMMA CompareAKeeps ==
    ASSUME IInv, CompareA
    PROVE  IInv'
<1>1. PICK t : \E b, g, c \in Int : Picture(t, b, g, c)
    BY DEF IInv
<1>2. PICK b \in Int, g \in Int, c \in Int : Picture(t, b, g, c)
    BY <1>1
<1>3. Types /\ Holds(t) /\ Chained(t) /\ Working(t) /\ Counted(t, c) /\ OnTime(t) /\ Supplied(t, b, g)
    BY <1>2 DEF Picture, IInv
<1>4. /\ isr = NoSlot /\ Hand = next /\ ShowsHand /\ now' = 0 /\ half' = 1 - half /\ ~polled'
      /\ since' = (IF polled THEN 0 ELSE since + (HALF - now)) /\ since' <= GAP
      /\ ~(now < Hand.top /\ Hand.top < HALF)
    BY DEF CompareA, Interrupt, Passes, Hand, ShowsHand
<1>5. now \in Nat /\ now < HALF /\ since \in Nat /\ HALF \in Nat /\ GAP <= HALF /\ GAP \in Nat
    BY <1>3, Sizes DEF OnTime, Supplied
<1>6. t[2].role # "end" /\ TimeOf(t[2]) = 0
    <2>1. /\ t[2].role = "end" => Hand.top = TimeOf(t[2]) /\ Hand.top < HALF - COST
          /\ t[2].role # "end" => TimeOf(t[2]) = 0
        BY <1>3, HandIs
    <2>2. t[2].role = "end" => now < TimeOf(t[2])
        BY <1>3, <1>4 DEF OnTime
    <2>3. t[2].role = "end" => Hand.top \in Nat
        BY <1>3, HandIs DEF Items
    <2> QED BY <1>4, <1>5, <2>1, <2>2, <2>3, Sizes
<1>7. half' = (IF InSecondHalf(t[2]) THEN 1 ELSE 0)
    <2>1. WellMade(t[1]) /\ WellMade(t[2]) /\ Follows(t[1], t[2]) /\ t[2] \in Items
        BY <1>3, HandIs
    <2>2. t[2].role \in {"begin", "middle"}
        BY <1>6, <2>1 DEF Items, Roles
    <2>3. InSecondHalf(t[1]) <=> ~InSecondHalf(t[2])
        BY <2>1, <2>2, LaterIs
    <2> QED BY <1>3, <1>4, <2>3 DEF OnTime
\* With the first half over pwm_poll must have been complete in the meantime.
<1>8. b >= 2
    <2>1. ~polled /\ ~(b >= 2) => since > now /\ half = 0
        BY <1>3 DEF Supplied
    <2>2. ~polled => since + (HALF - now) <= HALF
        BY <1>4, <1>5
    <2>3. polled => b >= 3
        BY <1>3 DEF Supplied
    <2> QED BY <1>5, <2>1, <2>2, <2>3
<1>9. Len(t) >= 3
    BY <1>3, <1>8, RingHolds
<1>10. g >= 3 /\ since' \in Nat
    BY <1>3, <1>4, <1>5, <1>8 DEF Supplied
<1>11. b >= 3 \/ (half' = 0 /\ since' > now')
    <2> SUFFICES ASSUME b = 2 PROVE half' = 0 /\ since' > now'
        BY <1>8
    <2>1. ~polled /\ t[2].role = "begin"
        BY <1>3 DEF Supplied
    <2>2. ~InSecondHalf(t[2])
        <3>1. WellMade(t[2])
            BY <1>3, HandIs
        <3> QED BY <2>1, <3>1, Sizes DEF WellMade, InSecondHalf
    <2> QED BY <1>4, <1>5, <1>7, <2>1, <2>2
<1> QED BY <1>2, <1>3, <1>4, <1>6, <1>7, <1>9, <1>10, <1>11, EventKeeps

\* Within a half it is the slot of a brightness that is shown.
LEMMA WithinHalf ==
    ASSUME NEW t, NEW b \in Int, NEW g \in Int, NEW c \in Int, Types, Picture(t, b, g, c),
           t[2].role = "end", ShowsHand, now' = TimeOf(t[2]), since' \in Nat, ~polled',
           half' = half, polled \/ since' - now' = since - now
    PROVE  IInv'
<1>1. Holds(t) /\ Chained(t) /\ OnTime(t) /\ Supplied(t, b, g)
    BY DEF Picture
<1>2. Len(t) >= 3
    BY <1>1, RingHolds
<1>3. half' = (IF InSecondHalf(t[2]) THEN 1 ELSE 0)
    BY <1>1, HandIs, LaterIs DEF OnTime
<1>4. g >= 3
    <2>1. CASE b >= 2
        BY <1>1, <2>1 DEF Supplied
    <2>2. CASE ~(b >= 2)
        <3>1. half = 0
            BY <1>1, <2>2 DEF Supplied
        <3>2. ~InSecondHalf(t[2])
            <4> SUFFICES ASSUME InSecondHalf(t[2]) PROVE FALSE
                OBVIOUS
            <4>1. half' = 1
                BY <1>3
            <4> QED BY <3>1, <4>1
        <3> QED BY <1>1, <3>2 DEF Supplied
    <2> QED BY <2>1, <2>2
<1>5. b >= 3 \/ (half' = 0 /\ since' > now')
    <2>1. b # 2
        BY <1>1 DEF Supplied
    <2>2. now \in Nat /\ since \in Nat /\ now' \in Nat
        <3>1. WellMade(t[2]) /\ WellMade(t[3]) /\ Follows(t[2], t[3])
            BY <1>1, <1>2, HandIs
        <3> QED BY <1>1, <3>1, LaterIs DEF OnTime, Supplied
    <2> QED BY <1>1, <2>1, <2>2 DEF Supplied
<1> QED BY <1>2, <1>3, <1>4, <1>5, EventKeeps

LEMMA CompareBKeeps ==
    ASSUME IInv, CompareB
    PROVE  IInv'
<1>1. PICK t : \E b, g, c \in Int : Picture(t, b, g, c)
    BY DEF IInv
<1>2. PICK b \in Int, g \in Int, c \in Int : Picture(t, b, g, c)
    BY <1>1
<1>3. Types /\ Holds(t) /\ Chained(t) /\ OnTime(t) /\ Supplied(t, b, g)
    BY <1>2 DEF Picture, IInv
<1>4. /\ isr = NoSlot /\ Hand = next /\ ShowsHand /\ now' = Hand.top /\ half' = half /\ ~polled'
      /\ since' = (IF polled THEN 0 ELSE since + (Hand.top - now))
      /\ now < Hand.top /\ Hand.top < HALF
    BY DEF CompareB, Interrupt, Passes, Hand, ShowsHand
<1>5. t[2].role = "end" /\ now' = TimeOf(t[2])
    BY <1>3, <1>4, HandIs, Sizes
<1>6. since' \in Nat /\ (polled \/ since' - now' = since - now)
    <2>1. now \in Nat /\ since \in Nat /\ Hand.top \in Nat
        BY <1>3, HandIs DEF OnTime, Supplied, Items
    <2> QED BY <1>4, <2>1
<1> QED BY <1>2, <1>3, <1>4, <1>5, <1>6, WithinHalf

LEMMA SpinKeeps ==
    ASSUME IInv, Spin
    PROVE  IInv'
<1>1. PICK t : \E b, g, c \in Int : Picture(t, b, g, c)
    BY DEF IInv
<1>2. PICK b \in Int, g \in Int, c \in Int : Picture(t, b, g, c)
    BY <1>1
<1>3. Types /\ Holds(t) /\ Chained(t) /\ OnTime(t) /\ Supplied(t, b, g)
    BY <1>2 DEF Picture, IInv
<1>4. /\ isr # NoSlot /\ Hand = isr /\ half' = half /\ polled' = polled
      /\ now' = (IF Hand.top > now THEN Hand.top ELSE now)
      /\ since' = since + now' - now /\ now + NEAR > Hand.top
    BY DEF Spin, TooClose, Hand
<1>5. now = TimeOf(t[1]) /\ ~polled /\ now \in Nat /\ now < HALF /\ since \in Nat
    BY <1>3, <1>4 DEF OnTime, Supplied
<1>6. t[2].role = "end"
    BY <1>3, <1>4, <1>5, HandIs, Sizes
<1>7. now' = TimeOf(t[2]) /\ TimeOf(t[2]) = Hand.top /\ Hand.top \in Nat /\ now < Hand.top
    BY <1>3, <1>4, <1>5, <1>6, HandIs, LaterIs DEF Items
<1>8. ShowsHand
    BY <1>3, <1>4, <1>5 DEF Spin, ShowsHand, Hand, Types
<1>9. since' \in Nat /\ since' - now' = since - now
    BY <1>4, <1>5, <1>7
<1> QED BY <1>2, <1>3, <1>4, <1>5, <1>6, <1>7, <1>8, <1>9, WithinHalf

LEMMA ReturnKeeps ==
    ASSUME IInv, Return
    PROVE  IInv'
<1>1. PICK t : \E b, g, c \in Int : Picture(t, b, g, c)
    BY DEF IInv
<1>2. PICK b \in Int, g \in Int, c \in Int : Picture(t, b, g, c)
    BY <1>1
<1>3. Types /\ Holds(t) /\ Chained(t) /\ Working(t) /\ Counted(t, c) /\ OnTime(t) /\ Supplied(t, b, g)
    BY <1>2 DEF Picture, IInv
<1>4. /\ isr # NoSlot /\ Hand = isr /\ isr' = NoSlot /\ Hand' = Hand /\ half' = half
      /\ now' = now + COST /\ since' = since + COST /\ ~(now + NEAR > Hand.top)
    BY DEF Return, TooClose, Hand
<1>5. /\ now = TimeOf(t[1]) /\ now \in Nat /\ since \in Nat /\ COST \in Nat /\ COST < NEAR
      /\ NEAR \in Nat /\ HALF \in Nat /\ NEVER = HALF + NEAR
    BY <1>3, <1>4, Sizes DEF OnTime, Supplied
<1>6. TimeOf(t[1]) < HALF - COST
    BY <1>3, HandIs, LaterIs
<1>7. now' \in Nat /\ now' < HALF /\ TimeOf(t[1]) <= now' /\ since' \in Nat
    BY <1>4, <1>5, <1>6
<1>8. t[2].role = "end" => now' < TimeOf(t[2])
    <2>1. t[2].role = "end" => Hand.top = TimeOf(t[2]) /\ Hand.top \in Nat
        BY <1>3, HandIs DEF Items
    <2> QED BY <1>4, <1>5, <2>1
<1>9. /\ UNCHANGED <<slot, read, write, unread, current, pc, work, newest, changes>>
      /\ UNCHANGED <<out, half, shown, polled>>
    BY DEF Return, ringVars, mainVars
<1>10. Types' /\ Holds(t)'
    BY <1>3, <1>4, <1>9 DEF Types, Holds
<1>11. Chained(t)' /\ Counted(t, c)'
    BY <1>3, <1>9 DEF Chained, Counted
<1>12. Working(t)'
    BY <1>3, <1>9 DEF Working, LastEntered, AtMiddle, Sorting, ThisBrightness, ThisChannel
<1>13. OnTime(t)' /\ Supplied(t, b, g)'
    BY <1>3, <1>4, <1>5, <1>7, <1>8, <1>9 DEF OnTime, Supplied
<1>14. Picture(t, b, g, c)'
    BY <1>10, <1>11, <1>12, <1>13 DEF Picture
<1> QED BY <1>10, <1>14 DEF IInv

-----------------------------------------------------------------------------
(* The main loop enters a slot *)

\* A step of the main loop that enters slot e.
Enters(e) ==
    /\ Enqueue(e.mask, e.top, e.frame)
    /\ UNCHANGED <<current, changes, timerVars, polled, since>>

LEMMA AppendIs ==
    ASSUME NEW t \in Seq(Items), NEW e \in Items
    PROVE  /\ Append(t, e) \in Seq(Items) /\ Len(Append(t, e)) = Len(t) + 1
           /\ \A k \in 1 .. Len(t) : Append(t, e)[k] = t[k]
           /\ Append(t, e)[Len(t) + 1] = e
OBVIOUS

LEMMA EntersHolds ==
    ASSUME Types, NEW t, Holds(t), NEW e \in Items, Enters(e), unread <= 8
    PROVE  /\ Holds(Append(t, e))'
           /\ slot' \in [Index -> [mask : SUBSET Channel, top : Nat,
                                   frame : [color : Color, id : {0, 1}]]]
           /\ read' \in Index /\ write' \in Index /\ unread' \in 0 .. SLOTS - 1
<1> DEFINE t2 == Append(t, e)
<1>1. /\ t \in Seq(Items) /\ Len(t) = unread + 2 /\ unread \in 0 .. 8 /\ read \in 0 .. 9
      /\ write \in 0 .. 9 /\ SLOTS = 10 /\ Index = 0 .. 9
    BY Sizes DEF Holds, Types
<1>2. /\ t2 \in Seq(Items) /\ Len(t2) = unread + 3 /\ t2[unread + 3] = e
      /\ \A k \in 1 .. unread + 2 : t2[k] = t[k]
    BY <1>1, AppendIs
<1> HIDE DEF t2
<1>3. /\ slot' = [slot EXCEPT ![write] = Bare(e)] /\ write' = Following(write)
      /\ unread' = unread + 1 /\ read' = read
    BY DEF Enters, Enqueue, Bare
<1>4. out' = out /\ shown' = shown /\ next' = next /\ isr' = isr
    BY DEF Enters, timerVars
<1>5. write = InRing(read, unread + 1)
    BY DEF Holds
<1>6. write' = InRing(read, unread + 2) /\ write' \in 0 .. 9
    <2>1. unread + 1 \in 1 .. 10 /\ unread + 2 \in 1 .. 10
        BY <1>1
    <2>2. InRing(read, unread + 1)
            = (IF read + (unread + 1) <= 10 THEN read + (unread + 1) - 1 ELSE read + (unread + 1) - 11)
        BY <1>1, <2>1, Places
    <2>3. InRing(read, unread + 2)
            = (IF read + (unread + 2) <= 10 THEN read + (unread + 2) - 1 ELSE read + (unread + 2) - 11)
        BY <1>1, <2>1, Places
    <2>4. Following(write) = (IF write = 9 THEN 0 ELSE write + 1) /\ Following(write) \in 0 .. 9
        BY <1>1, FollowingIs
    <2> QED BY <1>1, <1>3, <1>5, <2>2, <2>3, <2>4
<1>7. ASSUME NEW k \in 1 .. unread
      PROVE  slot'[InRing(read, k)] = Bare(t2[k + 2])
    <2>1. k \in 1 .. 10 /\ unread + 1 \in 1 .. 10
        BY <1>1, <1>7
    <2>2. InRing(read, k) = (IF read + k <= 10 THEN read + k - 1 ELSE read + k - 11)
        BY <1>1, <2>1, Places
    <2>3. InRing(read, unread + 1)
            = (IF read + (unread + 1) <= 10 THEN read + (unread + 1) - 1 ELSE read + (unread + 1) - 11)
        BY <1>1, <2>1, Places
    <2>4. InRing(read, k) # write /\ InRing(read, k) \in 0 .. 9
        BY <1>1, <1>5, <1>7, <2>2, <2>3
    <2>5. slot[InRing(read, k)] = Bare(t[k + 2])
        BY DEF Holds
    <2>6. t2[k + 2] = t[k + 2]
        BY <1>1, <1>2, <1>7
    <2> QED BY <1>1, <1>3, <2>4, <2>5, <2>6 DEF Types
<1>8. slot'[InRing(read, unread + 1)] = Bare(t2[(unread + 1) + 2])
    BY <1>1, <1>2, <1>3, <1>5 DEF Types
<1>9. \A k \in 1 .. unread' : slot'[InRing(read', k)] = Bare(t2[k + 2])
    <2> SUFFICES ASSUME NEW k \in 1 .. unread + 1
                 PROVE  slot'[InRing(read, k)] = Bare(t2[k + 2])
        BY <1>3
    <2> QED BY <1>1, <1>7, <1>8
<1>10. out' = t2[1].mask /\ shown' = t2[1].frame /\ Hand' = Bare(t2[2])
    <2>1. t2[1] = t[1] /\ t2[2] = t[2]
        BY <1>1, <1>2
    <2> QED BY <1>4, <2>1 DEF Holds, Hand
<1>11. Holds(t2)'
    <2>1. Len(t2) = unread' + 2 /\ write' = InRing(read', unread' + 1)
        BY <1>1, <1>2, <1>3, <1>6
    <2> QED BY <1>2, <1>9, <1>10, <2>1 DEF Holds
<1>12. slot' \in [Index -> [mask : SUBSET Channel, top : Nat,
                            frame : [color : Color, id : {0, 1}]]]
    <2>1. Bare(e) \in [mask : SUBSET Channel, top : Nat, frame : [color : Color, id : {0, 1}]]
        BY DEF Items, Bare, Slot
    <2> QED BY <1>3, <2>1 DEF Types
<1>13. read' \in Index /\ write' \in Index /\ unread' \in 0 .. SLOTS - 1
    BY <1>1, <1>3, <1>6
<1> QED BY <1>11, <1>12, <1>13 DEF t2

LEMMA EntersKeeps ==
    ASSUME Types, NEW t, NEW b \in Int, NEW g \in Int, Holds(t), Chained(t), OnTime(t),
           Supplied(t, b, g), NEW e, WellMade(e), Follows(t[Len(t)], e),
           t[Len(t)].mask = Remaining(t[Len(t)].frame.color, t[Len(t)].b),
           Enters(e), unread <= 8, pc' = "frame" \/ e.mask = Remaining(e.frame.color, e.b)
    PROVE  /\ Holds(Append(t, e))' /\ Chained(Append(t, e))' /\ OnTime(Append(t, e))'
           /\ Supplied(Append(t, e), b, g)'
<1> DEFINE t2 == Append(t, e)
<1>1. e \in Items /\ t \in Seq(Items) /\ Len(t) \in Nat /\ Len(t) >= 2
    BY DEF WellMade, Holds, Types
<1>2. /\ Len(t2) = Len(t) + 1 /\ t2[Len(t) + 1] = e /\ \A k \in 1 .. Len(t) : t2[k] = t[k]
    BY <1>1, AppendIs
<1>3. Holds(t2)'
    BY <1>1, EntersHolds
<1> HIDE DEF t2
<1>4. Chained(t2)'
    <2>1. ASSUME NEW k \in 1 .. Len(t2)
          PROVE  WellMade(t2[k]) /\ (k < Len(t2) \/ pc' # "frame" =>
                    t2[k].mask = Remaining(t2[k].frame.color, t2[k].b))
        <3>1. CASE k = Len(t) + 1
            BY <1>1, <1>2, <3>1
        <3>2. CASE k = Len(t)
            BY <1>1, <1>2, <3>2 DEF Chained
        <3>3. CASE k < Len(t)
            <4>1. k \in 1 .. Len(t) /\ t2[k] = t[k]
                BY <1>1, <1>2, <2>1, <3>3
            <4> QED BY <3>3, <4>1 DEF Chained
        <3> QED BY <1>1, <1>2, <2>1, <3>1, <3>2, <3>3
    <2>2. ASSUME NEW k \in 1 .. Len(t2) - 1
          PROVE  Follows(t2[k], t2[k + 1])
        <3>1. CASE k = Len(t)
            BY <1>1, <1>2, <3>1
        <3>2. CASE k # Len(t)
            <4>1. k \in 1 .. Len(t) - 1 /\ t2[k] = t[k] /\ t2[k + 1] = t[k + 1]
                BY <1>1, <1>2, <2>2, <3>2
            <4> QED BY <4>1 DEF Chained
        <3> QED BY <3>1, <3>2
    <2> QED BY <2>1, <2>2 DEF Chained
<1>5. t2[1] = t[1] /\ t2[2] = t[2]
    BY <1>1, <1>2
<1>6. UNCHANGED <<out, next, isr, now, half, shown, polled, since>>
    BY DEF Enters, timerVars
<1>7. OnTime(t2)'
    BY <1>5, <1>6 DEF OnTime
<1>8. Supplied(t2, b, g)'
    <2>1. /\ since \in Nat /\ b < g /\ g \in 2 .. Len(t) /\ InSecondHalf(t[g])
          /\ (b >= 2 => t[b].role = "begin")
          /\ IF polled THEN b >= 3 ELSE b >= 2 \/ (half = 0 /\ since > now)
        BY DEF Supplied
    <2>2. t2[g] = t[g] /\ g \in 2 .. Len(t2) /\ g < Len(t2)
        BY <1>1, <1>2, <2>1
    <2>3. b >= 2 => t2[b] = t[b]
        BY <1>1, <1>2, <2>1
    <2> QED BY <1>6, <2>1, <2>2, <2>3 DEF Supplied
<1> QED BY <1>3, <1>4, <1>7, <1>8 DEF t2

-----------------------------------------------------------------------------
(* The brightnesses in order *)

LEMMA EveryChannel ==
    ASSUME Types, \A i \in 1 .. 3, j \in 1 .. 3 : i # j => work.order[i] # work.order[j],
           NEW d \in Channel
    PROVE  \E i \in 1 .. 3 : work.order[i] = d
<1>1. work.order[1] \in {1, 2, 3} /\ work.order[2] \in {1, 2, 3} /\ work.order[3] \in {1, 2, 3}
    BY Sizes DEF Types
<1>2. /\ work.order[1] # work.order[2] /\ work.order[1] # work.order[3]
      /\ work.order[2] # work.order[3]
    OBVIOUS
<1>3. d \in {1, 2, 3}
    BY Sizes
<1>4. work.order[1] = d \/ work.order[2] = d \/ work.order[3] = d
    BY <1>1, <1>2, <1>3
<1> QED BY <1>4

\* When those to come are at least as bright as hi, all up to hi have ended.
LEMMA Done ==
    ASSUME Types, Sorting, NEW x \in Nat, NEW hi \in Nat, work.last <= x, x < hi,
           \A i \in work.n .. 3 : Skipped(newest.color[work.order[i]])
                                  \/ newest.color[work.order[i]] >= hi
    PROVE  work.mask = Remaining(newest.color, x) /\ ~EndsBetween(newest.color, x, hi)
<1>1. /\ work.n \in 1 .. 4 /\ work.last \in Nat /\ newest.color \in [Channel -> 0 .. MAX]
      /\ work.order \in [1 .. 3 -> Channel] /\ MIN \in Nat /\ MAX \in Nat /\ MIN < MAX
    BY Sizes DEF Types, Color
<1>2. ASSUME NEW d \in Channel, ~Skipped(newest.color[d])
      PROVE  /\ newest.color[d] <= work.last \/ newest.color[d] >= hi
             /\ newest.color[d] > work.last => \E i \in work.n .. 3 : work.order[i] = d
    <2>1. PICK i \in 1 .. 3 : work.order[i] = d
        BY EveryChannel DEF Sorting
    <2>2. CASE i < work.n
        <3>1. i \in 1 .. work.n - 1 /\ newest.color[d] \in Nat
            BY <1>1, <2>2
        <3>2. newest.color[d] <= work.last
            BY <1>2, <2>1, <3>1 DEF Sorting
        <3> QED BY <1>1, <3>1, <3>2
    <2>3. CASE i >= work.n
        <3>1. i \in work.n .. 3
            BY <1>1, <2>3
        <3> QED BY <1>2, <2>1, <3>1
    <2> QED BY <1>1, <2>2, <2>3
<1>3. ~EndsBetween(newest.color, x, hi)
    <2> SUFFICES ASSUME NEW d \in Channel, ~Skipped(newest.color[d]),
                        x < newest.color[d], newest.color[d] < hi
                 PROVE  FALSE
        BY DEF EndsBetween
    <2>1. newest.color[d] \in Nat
        BY <1>1
    <2> QED BY <1>1, <1>2, <2>1
<1>4. ASSUME NEW d \in Channel
      PROVE  d \in work.mask <=> d \in Remaining(newest.color, x)
    <2>1. newest.color[d] \in 0 .. MAX
        BY <1>1
    <2>2. d \in work.mask <=>
            newest.color[d] > MIN /\ (newest.color[d] = MAX \/ \E i \in work.n .. 3 : work.order[i] = d)
        BY DEF Sorting, Lit
    <2>3. d \in Remaining(newest.color, x) <=>
            newest.color[d] = MAX \/ (newest.color[d] > MIN /\ newest.color[d] > x)
        BY DEF Remaining
    <2>4. CASE Skipped(newest.color[d])
        BY <1>1, <2>1, <2>2, <2>3, <2>4 DEF Skipped
    <2>5. CASE ~Skipped(newest.color[d])
        <3>1. newest.color[d] > MIN /\ newest.color[d] # MAX
            BY <1>1, <2>1, <2>5 DEF Skipped
        <3>2. newest.color[d] > x => \E i \in work.n .. 3 : work.order[i] = d
            BY <1>1, <1>2, <2>1, <2>5
        <3>3. (\E i \in work.n .. 3 : work.order[i] = d) => newest.color[d] > x
            <4> SUFFICES ASSUME NEW i \in work.n .. 3, work.order[i] = d
                         PROVE  newest.color[d] > x
                OBVIOUS
            <4> QED BY <1>1, <2>1, <2>5
        <3> QED BY <2>2, <2>3, <3>1, <3>2, <3>3
    <2> QED BY <2>4, <2>5
<1>5. work.mask \subseteq Channel /\ Remaining(newest.color, x) \subseteq Channel
    BY DEF Sorting, Lit, Remaining
<1>6. work.mask = Remaining(newest.color, x)
    BY <1>4, <1>5, Zenon
<1> QED BY <1>3, <1>6

-----------------------------------------------------------------------------
(* The steps of the main loop *)

\* A step that neither enters a slot nor touches the timer.
LEMMA QuietKeeps ==
    ASSUME NEW t, NEW b \in Int, NEW g \in Int, NEW c \in Int, Types, Picture(t, b, g, c),
           UNCHANGED <<ringVars, timerVars, polled, since, newest>>, current' \in Color,
           pc' = pc, work' \in [order : [1 .. 3 -> Channel], n : 1 .. 4, mask : SUBSET Channel,
                                last : 0 .. MAX - 1, middle : BOOLEAN],
           Working(t)', Counted(t, c)'
    PROVE  IInv'
<1>1. Holds(t) /\ Chained(t) /\ OnTime(t) /\ Supplied(t, b, g)
    BY DEF Picture
<1>2. /\ UNCHANGED <<slot, read, write, unread, out, next, isr, now, half, shown>>
      /\ UNCHANGED <<polled, since, newest, pc>>
    BY DEF ringVars, timerVars
<1>3. Types' /\ Holds(t)'
    BY <1>1, <1>2 DEF Types, Holds, Hand
<1>4. Chained(t)' /\ OnTime(t)' /\ Supplied(t, b, g)'
    BY <1>1, <1>2 DEF Chained, OnTime, Supplied
<1>5. Picture(t, b, g, c)'
    BY <1>3, <1>4 DEF Picture
<1> QED BY <1>3, <1>5 DEF IInv

LEMMA ColorChangesKeeps ==
    ASSUME IInv, ColorChanges
    PROVE  IInv'
<1>1. PICK t : \E b, g, c \in Int : Picture(t, b, g, c)
    BY DEF IInv
<1>2. PICK b \in Int, g \in Int, c \in Int : Picture(t, b, g, c)
    BY <1>1
<1>3. UNCHANGED <<pc, work, newest>> /\ UNCHANGED <<ringVars, timerVars, polled, since>>
    BY DEF ColorChanges
<1>4. current' \in Color
    BY TimeslotAssumption DEF ColorChanges
<1>5. Types /\ Working(t) /\ Counted(t, c)
    BY <1>2 DEF Picture, IInv
<1>6. Working(t)'
    BY <1>3, <1>5 DEF Working, LastEntered, AtMiddle, Sorting, ThisBrightness, ThisChannel
<1>7. Counted(t, c)'
    BY <1>3, <1>5 DEF Counted
<1>8. work' \in [order : [1 .. 3 -> Channel], n : 1 .. 4, mask : SUBSET Channel,
                 last : 0 .. MAX - 1, middle : BOOLEAN]
    BY <1>3, <1>5 DEF Types
<1> QED BY <1>2, <1>3, <1>4, <1>5, <1>6, <1>7, <1>8, QuietKeeps

\* A complete pwm_poll has a whole frame in the ring that has not begun.
LEMMA PollDoneKeeps ==
    ASSUME IInv, PollDone, isr = NoSlot
    PROVE  IInv'
<1>1. PICK t : \E b, g, c \in Int : Picture(t, b, g, c)
    BY DEF IInv
<1>2. PICK b \in Int, g \in Int, c \in Int : Picture(t, b, g, c)
    BY <1>1
<1>3. Types /\ Holds(t) /\ Chained(t) /\ Working(t) /\ Counted(t, c) /\ OnTime(t) /\ Supplied(t, b, g)
    BY <1>2 DEF Picture, IInv
<1>4. /\ UNCHANGED <<slot, read, write, unread, current, work, newest, changes>>
      /\ UNCHANGED <<out, next, isr, now, half, shown, since>>
    BY DEF PollDone, ringVars, timerVars
<1>5. pc # "frame" /\ pc' = "loop" /\ polled' = TRUE
    BY DEF PollDone
<1>6. unread >= 5 /\ unread \in Nat /\ Len(t) = unread + 2
    <2>1. Fill = unread
        BY <1>3, FillIs
    <2>2. Fill >= 5
        BY Sizes DEF PollDone
    <2> QED BY <1>3, <2>1, <2>2 DEF Holds, Types
<1>7. c >= 3 /\ t[c].role = "begin" /\ c <= Len(t)
    BY <1>3, <1>6 DEF Counted
<1>8. InSecondHalf(t[Len(t)])
    BY <1>3, <1>5 DEF Working
<1>9. WellMade(t[Len(t)])
    BY <1>3, <1>6 DEF Chained
<1>10. c # Len(t)
    BY <1>7, <1>8, <1>9, Sizes DEF WellMade, InSecondHalf
<1>11. Types' /\ Holds(t)'
    BY <1>3, <1>4, <1>5 DEF Types, Holds, Hand
<1>12. Chained(t)' /\ Counted(t, c)' /\ OnTime(t)' /\ Working(t)'
    BY <1>3, <1>4, <1>5 DEF Chained, Counted, OnTime, Working
<1>13. Supplied(t, c, Len(t))'
    BY <1>3, <1>4, <1>5, <1>6, <1>7, <1>8, <1>10 DEF Supplied
<1>14. Picture(t, c, Len(t), c)' /\ Len(t) \in Int
    BY <1>6, <1>11, <1>12, <1>13 DEF Picture
<1> QED BY <1>11, <1>14 DEF IInv

\* What the loop of update_pwm_timeslots has at hand.
LEMMA ThisIs ==
    ASSUME Types, NEW t, Working(t), pc = "frame", work.n <= 3
    PROVE  /\ work.n \in 1 .. 3 /\ ThisChannel = work.order[work.n] /\ ThisChannel \in Channel
           /\ ThisBrightness = newest.color[ThisChannel] /\ ThisBrightness \in 0 .. MAX
           /\ ~Skipped(ThisBrightness) => ThisBrightness \in MIN + 1 .. MAX - 1
           /\ work.last <= ThisBrightness /\ work.last \in 0 .. MAX - 1
           /\ \A i \in work.n .. 3 : newest.color[work.order[i]] >= ThisBrightness
           /\ \A i \in work.n + 1 .. 3 : work.order[i] # ThisChannel
<1>1. /\ work.n \in 1 .. 3 /\ newest.color \in [Channel -> 0 .. MAX]
      /\ work.order \in [1 .. 3 -> Channel] /\ work.last \in 0 .. MAX - 1 /\ Sorting
    <2>1. Sorting
        BY DEF Working
    <2> QED BY <2>1 DEF Types, Color
<1>2. ThisChannel = work.order[work.n] /\ ThisChannel \in Channel
    BY <1>1 DEF ThisChannel
<1>3. ThisBrightness = newest.color[ThisChannel] /\ ThisBrightness \in 0 .. MAX
    BY <1>1, <1>2 DEF ThisBrightness
<1>4. ~Skipped(ThisBrightness) => ThisBrightness \in MIN + 1 .. MAX - 1
    BY <1>3, Sizes DEF Skipped
<1>5. work.n \in work.n .. 3
    BY <1>1
<1>6. work.last <= ThisBrightness
    BY <1>1, <1>2, <1>3, <1>5 DEF Sorting
<1>7. ASSUME NEW i \in work.n .. 3
      PROVE  newest.color[work.order[i]] >= ThisBrightness
    <2>1. i \in 1 .. 3 /\ (i = work.n \/ work.n < i)
        BY <1>1, <1>7
    <2>2. newest.color[work.order[i]] \in 0 .. MAX
        BY <1>1, <2>1
    <2>3. CASE i = work.n
        BY <1>2, <1>3, <2>2, <2>3
    <2>4. CASE work.n < i
        BY <1>1, <1>2, <1>3, <2>1, <2>2, <2>4 DEF Sorting
    <2> QED BY <2>1, <2>3, <2>4
<1>8. \A i \in work.n + 1 .. 3 : work.order[i] # ThisChannel
    BY <1>1, <1>2 DEF Sorting
<1> QED BY <1>1, <1>2, <1>3, <1>4, <1>6, <1>7, <1>8

\* After one more channel, which has ended or has no end, the loop goes on.
LEMMA OneMore ==
    ASSUME Types, NEW t, Working(t), pc = "frame", work.n <= 3, NEW last \in 0 .. MAX - 1,
           newest' = newest, work'.order = work.order, work'.n = work.n + 1, work'.last = last,
           last = IF Skipped(ThisBrightness) THEN work.last ELSE ThisBrightness,
           work'.mask = IF Skipped(ThisBrightness) THEN work.mask ELSE work.mask \ {ThisChannel}
    PROVE  Sorting'
<1>1. /\ work.n \in 1 .. 3 /\ newest.color \in [Channel -> 0 .. MAX]
      /\ work.order \in [1 .. 3 -> Channel] /\ work.last \in 0 .. MAX - 1 /\ Sorting
    <2>1. Sorting
        BY DEF Working
    <2> QED BY <2>1 DEF Types, Color
<1>2. /\ ThisChannel = work.order[work.n] /\ ThisChannel \in Channel
      /\ ThisBrightness = newest.color[ThisChannel] /\ ThisBrightness \in 0 .. MAX
      /\ work.last <= ThisBrightness /\ work.last <= last
      /\ \A i \in work.n .. 3 : newest.color[work.order[i]] >= ThisBrightness
      /\ \A i \in work.n + 1 .. 3 : work.order[i] # ThisChannel
    BY ThisIs
<1>3. ASSUME NEW i \in 1 .. work.n
      PROVE  Skipped(newest.color[work.order[i]]) \/ newest.color[work.order[i]] <= last
    <2>1. i \in 1 .. 3 /\ newest.color[work.order[i]] \in 0 .. MAX
        BY <1>1, <1>3
    <2>2. CASE i = work.n
        BY <1>2, <2>1, <2>2
    <2>3. CASE i # work.n
        <3>1. i \in 1 .. work.n - 1
            BY <1>1, <1>3, <2>3
        <3>2. Skipped(newest.color[work.order[i]]) \/ newest.color[work.order[i]] <= work.last
            BY <1>1, <3>1 DEF Sorting
        <3> QED BY <1>1, <1>2, <2>1, <3>2
    <2> QED BY <2>2, <2>3
<1>4. ASSUME NEW i \in work.n + 1 .. 3
      PROVE  newest.color[work.order[i]] >= last
    <2>1. i \in work.n .. 3 /\ newest.color[work.order[i]] \in 0 .. MAX
        BY <1>1, <1>4
    <2>2. newest.color[work.order[i]] >= ThisBrightness /\ newest.color[work.order[i]] >= work.last
        BY <1>1, <1>2, <2>1 DEF Sorting
    <2> QED BY <2>2
<1>5. ASSUME NEW d \in Lit(newest.color)
      PROVE  d \in work'.mask <=>
                newest.color[d] = MAX \/ \E i \in work.n + 1 .. 3 : work.order[i] = d
    <2>1. d \in work.mask <=> newest.color[d] = MAX \/ \E i \in work.n .. 3 : work.order[i] = d
        BY <1>1, <1>5 DEF Sorting
    <2>2. \A i \in work.n .. 3 : i = work.n \/ i \in work.n + 1 .. 3
        BY <1>1
    <2>3. \A i \in work.n + 1 .. 3 : i \in work.n .. 3
        BY <1>1
    <2>4. work.n \in work.n .. 3
        BY <1>1
    <2>5. CASE d = ThisChannel
        <3>1. ~\E i \in work.n + 1 .. 3 : work.order[i] = d
            BY <1>2, <2>5
        <3>2. CASE Skipped(ThisBrightness)
            <4>1. newest.color[d] = MAX
                BY <1>2, <1>5, <2>5, <3>2, Sizes DEF Skipped, Lit
            <4> QED BY <2>1, <3>2, <4>1
        <3>3. CASE ~Skipped(ThisBrightness)
            <4>1. newest.color[d] # MAX /\ d \notin work'.mask
                BY <1>2, <2>5, <3>3 DEF Skipped
            <4> QED BY <3>1, <4>1
        <3> QED BY <3>2, <3>3
    <2>6. CASE d # ThisChannel
        <3>1. d \in work'.mask <=> d \in work.mask
            BY <2>6
        <3>2. (\E i \in work.n .. 3 : work.order[i] = d)
                <=> (\E i \in work.n + 1 .. 3 : work.order[i] = d)
            BY <1>2, <2>2, <2>3, <2>6
        <3> QED BY <2>1, <3>1, <3>2
    <2> QED BY <2>5, <2>6
<1>6. work'.mask = {d \in Lit(newest.color) :
                      newest.color[d] = MAX \/ \E i \in work.n + 1 .. 3 : work.order[i] = d}
    <2>1. work'.mask \subseteq Lit(newest.color)
        BY <1>1 DEF Sorting
    <2> QED BY <1>5, <2>1, Zenon
<1>7. work'.n - 1 = work.n
    BY <1>1
<1> QED BY <1>1, <1>3, <1>4, <1>6, <1>7 DEF Sorting

LEMMA SkipChannelKeeps ==
    ASSUME IInv, SkipChannel
    PROVE  IInv'
<1>1. PICK t : \E b, g, c \in Int : Picture(t, b, g, c)
    BY DEF IInv
<1>2. PICK b \in Int, g \in Int, c \in Int : Picture(t, b, g, c)
    BY <1>1
<1>3. Types /\ Working(t) /\ Counted(t, c) /\ Holds(t)
    BY <1>2 DEF Picture, IInv
<1>4. /\ pc = "frame" /\ work.n <= 3 /\ Skipped(ThisBrightness) /\ pc' = pc
      /\ work' = [work EXCEPT !.n = work.n + 1]
      /\ UNCHANGED <<ringVars, timerVars, polled, since, newest, current>>
    BY DEF SkipChannel, InFrame
<1>5. /\ work'.order = work.order /\ work'.n = work.n + 1 /\ work'.mask = work.mask
      /\ work'.last = work.last /\ work'.middle = work.middle
      /\ work' \in [order : [1 .. 3 -> Channel], n : 1 .. 4, mask : SUBSET Channel,
                    last : 0 .. MAX - 1, middle : BOOLEAN]
      /\ work.n \in 1 .. 3 /\ work.last \in 0 .. MAX - 1
    BY <1>3, <1>4 DEF Types
<1>6. Sorting'
    BY <1>3, <1>4, <1>5, OneMore
<1>7. ~AtMiddle /\ ~AtMiddle'
    BY <1>3, <1>4, <1>5 DEF Working, AtMiddle
<1>8. Working(t)'
    BY <1>3, <1>4, <1>5, <1>6, <1>7 DEF Working, LastEntered
<1>9. Counted(t, c)'
    BY <1>3, <1>4, <1>5 DEF Counted, Holds, Types
<1>10. current' \in Color
    BY <1>3, <1>4 DEF Types
<1> QED BY <1>2, <1>3, <1>4, <1>5, <1>8, <1>9, <1>10, QuietKeeps

LEMMA EntersGives ==
    ASSUME NEW t, NEW b \in Int, NEW g \in Int, NEW c \in Int, Types, Picture(t, b, g, c),
           NEW e, WellMade(e), Follows(t[Len(t)], e), Enters(e),
           t[Len(t)].mask = Remaining(t[Len(t)].frame.color, t[Len(t)].b),
           pc' = "frame" \/ (pc' = "again" /\ e.mask = Remaining(e.frame.color, e.b)),
           newest' \in [color : Color, id : {0, 1}],
           work' \in [order : [1 .. 3 -> Channel], n : 1 .. 4, mask : SUBSET Channel,
                      last : 0 .. MAX - 1, middle : BOOLEAN],
           NEW d \in Int, Counted(Append(t, e), d)', Working(Append(t, e))'
    PROVE  IInv'
<1>1. Holds(t) /\ Chained(t) /\ OnTime(t) /\ Supplied(t, b, g)
    BY DEF Picture
<1>2. e \in Items /\ t \in Seq(Items) /\ Len(t) = unread + 2 /\ unread \in Nat
    BY <1>1 DEF WellMade, Holds, Types
<1>3. unread <= 8
    <2>1. Len(Append(t, e)) = Len(t) + 1
        BY <1>2, AppendIs
    <2>2. d <= 7 /\ Len(Append(t, e)) - d <= 4
        BY DEF Counted
    <2> QED BY <1>2, <2>1, <2>2
<1>4. /\ Holds(Append(t, e))' /\ Chained(Append(t, e))' /\ OnTime(Append(t, e))'
      /\ Supplied(Append(t, e), b, g)'
    BY <1>1, <1>3, EntersKeeps
<1>5. Picture(Append(t, e), b, g, d)'
    BY <1>4 DEF Picture
<1>6. Types'
    <2>1. /\ slot' \in [Index -> [mask : SUBSET Channel, top : Nat,
                                  frame : [color : Color, id : {0, 1}]]]
          /\ read' \in Index /\ write' \in Index /\ unread' \in 0 .. SLOTS - 1
        BY <1>1, <1>2, <1>3, EntersHolds
    <2>2. current' = current /\ polled' = polled
        BY DEF Enters
    <2> QED BY <2>1, <2>2 DEF Types
<1> QED BY <1>5, <1>6 DEF IInv

\* The last slot, while the frame is computed.
LEMMA LastIs ==
    ASSUME Types, NEW t, Holds(t), Chained(t), Working(t), pc = "frame", NEW e, e = t[Len(t)]
    PROVE  /\ WellMade(e) /\ e \in Items /\ e.frame = newest /\ e.mask = work.mask
           /\ work.last <= e.b /\ e.b \in 0 .. MAX - 1 /\ Len(t) \in Nat /\ Len(t) >= 2
           /\ ~AtMiddle => e.b = work.last /\ e.role # "middle"
                           /\ e.role = (IF work.last = 0 THEN "begin" ELSE "end")
           /\ AtMiddle => /\ e.b = MIDDLE - 1 /\ e.role = "middle"
                          /\ work.n <= 3 /\ ~Skipped(ThisBrightness) /\ ThisBrightness >= MIDDLE
           /\ InSecondHalf(e) <=> (AtMiddle \/ work.last >= MIDDLE)
<1>1. Len(t) \in Nat /\ Len(t) >= 2 /\ WellMade(e)
    BY DEF Holds, Types, Chained
<1>2. e \in Items /\ e.b \in 0 .. MAX - 1
    BY <1>1 DEF WellMade, Items
<1>3. e.frame = newest /\ LastEntered(e) /\ e.mask = work.mask
    BY DEF Working, LastEntered
<1>4. ~AtMiddle => e.b = work.last /\ e.role # "middle"
                   /\ e.role = (IF work.last = 0 THEN "begin" ELSE "end")
    BY <1>3 DEF LastEntered
<1>5. AtMiddle => /\ e.b = MIDDLE - 1 /\ e.role = "middle"
                  /\ work.n <= 3 /\ ~Skipped(ThisBrightness) /\ ThisBrightness >= MIDDLE
    BY <1>1, <1>3 DEF LastEntered, WellMade, Working
<1>6. work.last \in 0 .. MAX - 1 /\ MIDDLE \in Nat /\ MAX \in Nat
    BY Sizes DEF Types
<1>7. AtMiddle => work.last < MIDDLE
    BY DEF AtMiddle
<1>8. work.last <= e.b
    BY <1>2, <1>4, <1>5, <1>6, <1>7
<1>9. InSecondHalf(e) <=> (AtMiddle \/ work.last >= MIDDLE)
    BY <1>2, <1>4, <1>5, <1>6, <1>7 DEF InSecondHalf
<1> QED BY <1>1, <1>2, <1>3, <1>4, <1>5, <1>8, <1>9

LEMMA InsertMiddleKeeps ==
    ASSUME IInv, InsertMiddle
    PROVE  IInv'
<1>1. PICK t : \E b, g, c \in Int : Picture(t, b, g, c)
    BY DEF IInv
<1>2. PICK b \in Int, g \in Int, c \in Int : Picture(t, b, g, c)
    BY <1>1
<1>3. Types /\ Holds(t) /\ Chained(t) /\ Working(t) /\ Counted(t, c)
    BY <1>2 DEF Picture, IInv
<1> DEFINE e == t[Len(t)]
<1> PICK f : f = Item(work.mask, NEVER, newest, "middle", MIDDLE - 1)
    OBVIOUS
<1>4. /\ pc = "frame" /\ work.n <= 3 /\ ~Skipped(ThisBrightness) /\ pc' = pc
      /\ work.last < MIDDLE /\ ThisBrightness >= MIDDLE /\ ~work.middle
      /\ work' = [work EXCEPT !.middle = TRUE] /\ newest' = newest
      /\ Enqueue(work.mask, NEVER, newest)
      /\ UNCHANGED <<current, changes, timerVars, polled, since>>
    BY DEF InsertMiddle, InFrame, NeedsMiddle
<1>5. /\ work'.order = work.order /\ work'.n = work.n /\ work'.mask = work.mask
      /\ work'.last = work.last /\ work'.middle = TRUE
      /\ work' \in [order : [1 .. 3 -> Channel], n : 1 .. 4, mask : SUBSET Channel,
                    last : 0 .. MAX - 1, middle : BOOLEAN]
      /\ work.n \in 1 .. 3 /\ work.last \in 0 .. MAX - 1 /\ work.mask \in SUBSET Channel
      /\ newest \in [color : Color, id : {0, 1}] /\ newest.color \in [Channel -> 0 .. MAX]
      /\ work.order \in [1 .. 3 -> Channel]
    <2>1. work \in [order : [1 .. 3 -> Channel], n : 1 .. 4, mask : SUBSET Channel,
                    last : 0 .. MAX - 1, middle : BOOLEAN]
        BY <1>3 DEF Types
    <2>2. newest \in [color : Color, id : {0, 1}]
        BY <1>3 DEF Types
    <2>3. newest.color \in [Channel -> 0 .. MAX]
        BY <2>2 DEF Color
    <2>4. work.n <= 3 /\ work' = [work EXCEPT !.middle = TRUE]
        BY <1>4
    <2>5. /\ work'.order = work.order /\ work'.n = work.n /\ work'.mask = work.mask
          /\ work'.last = work.last /\ work'.middle = TRUE
        BY <2>1, <2>4
    <2>6. work' \in [order : [1 .. 3 -> Channel], n : 1 .. 4, mask : SUBSET Channel,
                     last : 0 .. MAX - 1, middle : BOOLEAN]
        BY <2>1, <2>4
    <2> QED BY <2>1, <2>2, <2>3, <2>4, <2>5, <2>6
<1>6. ~AtMiddle /\ AtMiddle'
    BY <1>4, <1>5 DEF AtMiddle
<1>7. WellMade(f) /\ f \in Items
    BY <1>5, Sizes DEF WellMade, Item, Items, Roles
<1>8. /\ f.mask = work.mask /\ f.top = NEVER /\ f.frame = newest /\ f.role = "middle"
      /\ f.b = MIDDLE - 1
    BY DEF Item
<1>9. WellMade(e) /\ e.b = work.last /\ e.frame = newest /\ e.mask = work.mask /\ ~InSecondHalf(e)
    <2>1. WellMade(e) /\ e.frame = newest /\ e.mask = work.mask /\ e.b = work.last
        BY <1>3, <1>4, <1>6, LastIs
    <2>2. InSecondHalf(e) <=> (AtMiddle \/ work.last >= MIDDLE)
        BY <1>3, <1>4, LastIs
    <2>3. ~(work.last >= MIDDLE)
        BY <1>4, <1>5, Sizes
    <2> QED BY <1>6, <2>1, <2>2, <2>3
<1>10. work.mask = Remaining(newest.color, work.last) /\ ~EndsBetween(newest.color, work.last, MIDDLE)
    <2>1. \A i \in work.n .. 3 : Skipped(newest.color[work.order[i]])
                                 \/ newest.color[work.order[i]] >= MIDDLE
        <3> SUFFICES ASSUME NEW i \in work.n .. 3 PROVE newest.color[work.order[i]] >= MIDDLE
            OBVIOUS
        <3>1. newest.color[work.order[i]] \in 0 .. MAX
            BY <1>5
        <3>2. newest.color[work.order[i]] >= ThisBrightness /\ ThisBrightness \in 0 .. MAX
            BY <1>3, <1>4, ThisIs
        <3> QED BY <1>4, <3>1, <3>2, Sizes
    <2>2. Sorting
        BY <1>3, <1>4 DEF Working
    <2> QED BY <1>3, <1>4, <1>5, <2>1, <2>2, Done, Sizes
<1>11. Follows(e, f)
    BY <1>8, <1>9, <1>10 DEF Follows, MiddleFollows
<1>12. Enters(f)
    BY <1>4, <1>8 DEF Enters
<1> HIDE DEF e
<1>13. t \in Seq(Items) /\ Len(t) \in Nat /\ Len(Append(t, f)) = Len(t) + 1
       /\ Append(t, f)[Len(t) + 1] = f /\ \A k \in 1 .. Len(t) : Append(t, f)[k] = t[k]
    BY <1>3, <1>7, AppendIs DEF Holds, Types
<1>14. Counted(Append(t, f), c)'
    <2>1. /\ c <= 7 /\ c <= Len(t) /\ (c >= 1 => t[c].role = "begin")
          /\ Len(t) - c <= (work.n - 1) + 0
        BY <1>3, <1>4 DEF Counted
    <2>2. c >= 1 => Append(t, f)[c] = t[c]
        BY <1>13, <2>1
    <2> QED BY <1>5, <1>13, <2>1, <2>2 DEF Counted
<1>15. Working(Append(t, f))'
    <2>1. Sorting'
        BY <1>3, <1>4, <1>5 DEF Working, Sorting
    <2>2. LastEntered(f)'
        BY <1>5, <1>6, <1>8 DEF LastEntered
    <2>3. ThisBrightness' = ThisBrightness
        BY <1>4, <1>5 DEF ThisBrightness, ThisChannel
    <2> QED BY <1>3, <1>4, <1>5, <1>8, <1>13, <2>1, <2>2, <2>3 DEF Working
<1> QED BY <1>2, <1>3, <1>4, <1>5, <1>7, <1>9, <1>10, <1>11, <1>12, <1>14, <1>15, EntersGives DEF e

\* A channel with a brightness that had no slot yet.
LEMMA NewSlotKeeps ==
    ASSUME IInv, AddChannel, ThisBrightness > work.last
    PROVE  IInv'
<1>1. PICK t : \E b, g, c \in Int : Picture(t, b, g, c)
    BY DEF IInv
<1>2. PICK b \in Int, g \in Int, c \in Int : Picture(t, b, g, c)
    BY <1>1
<1>3. Types /\ Holds(t) /\ Chained(t) /\ Working(t) /\ Counted(t, c)
    BY <1>2 DEF Picture, IInv
<1> DEFINE e == t[Len(t)]
           x == ThisBrightness
<1>4. /\ pc = "frame" /\ work.n <= 3 /\ ~Skipped(x) /\ pc' = pc /\ newest' = newest
      /\ work.last < MIDDLE /\ x >= MIDDLE => work.middle
      /\ work' = [work EXCEPT !.n = work.n + 1, !.mask = work.mask \ {ThisChannel}, !.last = x]
      /\ Enqueue(work'.mask, Top[x], newest)
      /\ UNCHANGED <<current, changes, timerVars, polled, since>>
    BY DEF AddChannel, InFrame, NeedsMiddle
<1>5. /\ work.n \in 1 .. 3 /\ x \in 0 .. MAX /\ x \in MIN + 1 .. MAX - 1
      /\ work.last <= x /\ work.last \in 0 .. MAX - 1
      /\ x > work.last /\ \A i \in work.n .. 3 : newest.color[work.order[i]] >= x
    BY <1>3, <1>4, ThisIs
<1>6. /\ MIN \in Nat /\ MAX \in Nat /\ MIDDLE \in Nat /\ MIDDLE < MAX
      /\ newest \in [color : Color, id : {0, 1}]
      /\ work \in [order : [1 .. 3 -> Channel], n : 1 .. 4, mask : SUBSET Channel,
                   last : 0 .. MAX - 1, middle : BOOLEAN]
    BY <1>3, Sizes DEF Types
<1>7. /\ work'.order = work.order /\ work'.n = work.n + 1 /\ work'.last = x
      /\ work'.mask = work.mask \ {ThisChannel} /\ work'.middle = work.middle
      /\ work' \in [order : [1 .. 3 -> Channel], n : 1 .. 4, mask : SUBSET Channel,
                    last : 0 .. MAX - 1, middle : BOOLEAN]
    <2>1. work' = [work EXCEPT !.n = work.n + 1, !.mask = work.mask \ {ThisChannel}, !.last = x]
        BY <1>4
    <2>2. work.n + 1 \in 1 .. 4 /\ x \in 0 .. MAX - 1 /\ work.mask \ {ThisChannel} \in SUBSET Channel
        BY <1>5, <1>6
    <2> HIDE DEF x
    <2> QED BY <1>6, <2>1, <2>2
<1> PICK f : f = Item(work'.mask, Top[x], newest, "end", x)
    OBVIOUS
<1>8. /\ f.mask = work'.mask /\ f.top = Top[x] /\ f.frame = newest /\ f.role = "end" /\ f.b = x
    BY DEF Item
<1>9. WellMade(f)
    <2>1. Top[x] \in Nat /\ work'.mask \in SUBSET Channel /\ x \in 0 .. MAX - 1 /\ x > MIN
        BY <1>5, <1>6, <1>7, Tops
    <2>2. f \in Items
        BY <1>6, <2>1 DEF Item, Items, Roles
    <2> QED BY <1>8, <2>1, <2>2 DEF WellMade
<1>10. /\ e.frame = newest /\ e.mask = work.mask /\ work.last <= e.b /\ e.b \in 0 .. MAX - 1
       /\ ~AtMiddle => e.b = work.last
       /\ AtMiddle => e.b = MIDDLE - 1 /\ x >= MIDDLE
       /\ InSecondHalf(e) <=> (AtMiddle \/ work.last >= MIDDLE)
    BY <1>3, <1>4, LastIs
<1> HIDE DEF e, x
<1>11. e.b < x /\ (InSecondHalf(e) <=> x >= MIDDLE) /\ (x < MIDDLE => ~work.middle)
    <2>1. x < MIDDLE => ~AtMiddle /\ work.last < MIDDLE
        BY <1>5, <1>6, <1>10
    <2>2. x >= MIDDLE => AtMiddle \/ work.last >= MIDDLE
        BY <1>4, <1>5, <1>6 DEF AtMiddle
    <2>3. e.b < x
        BY <1>5, <1>6, <1>10
    <2>4. x < MIDDLE => ~work.middle
        BY <2>1 DEF AtMiddle
    <2>5. x < MIDDLE \/ x >= MIDDLE
        BY <1>5, <1>6
    <2>6. x < MIDDLE => ~(x >= MIDDLE) /\ ~(work.last >= MIDDLE)
        BY <1>5, <1>6, <2>1
    <2> QED BY <1>10, <2>1, <2>2, <2>3, <2>4, <2>5, <2>6
<1>12. work.mask = Remaining(newest.color, e.b) /\ ~EndsBetween(newest.color, e.b, x)
    <2>1. Sorting
        BY <1>3, <1>4 DEF Working
    <2>2. x \in Nat /\ e.b \in Nat
        BY <1>5, <1>6, <1>10
    <2> QED BY <1>3, <1>5, <1>10, <1>11, <2>1, <2>2, Done
<1>13. Follows(e, f)
    BY <1>8, <1>10, <1>11, <1>12 DEF Follows, EndFollows
<1>14. Enters(f)
    BY <1>4, <1>8 DEF Enters
<1>15. f \in Items /\ t \in Seq(Items) /\ Len(t) \in Nat /\ Len(t) >= 2
    BY <1>3, <1>9 DEF WellMade, Holds, Types
<1>16. /\ Len(Append(t, f)) = Len(t) + 1
       /\ Append(t, f)[Len(t) + 1] = f /\ \A k \in 1 .. Len(t) : Append(t, f)[k] = t[k]
    BY <1>15, AppendIs
<1>17. Counted(Append(t, f), c)'
    <2>1. /\ c <= 7 /\ c <= Len(t) /\ (c >= 1 => t[c].role = "begin")
          /\ Len(t) - c <= (work.n - 1) + (IF work.middle THEN 1 ELSE 0)
        BY <1>3, <1>4 DEF Counted
    <2>2. c >= 1 => Append(t, f)[c] = t[c]
        BY <1>15, <1>16, <2>1
    <2> QED BY <1>5, <1>7, <1>15, <1>16, <2>1, <2>2 DEF Counted
<1>18. Working(Append(t, f))'
    <2>1. Sorting'
        BY <1>3, <1>4, <1>5, <1>6, <1>7, OneMore DEF x
    <2>2. ~AtMiddle'
        BY <1>5, <1>6, <1>7, <1>11 DEF AtMiddle
    <2>3. LastEntered(f)'
        <3>1. x # 0 /\ work'.last = x
            BY <1>5, <1>6, <1>7
        <3> QED BY <1>8, <2>2, <3>1 DEF LastEntered
    <2>4. x >= MIDDLE => work.middle
        <3>1. work.last >= MIDDLE => work.middle
            BY <1>3, <1>4 DEF Working
        <3> QED BY <1>4, <1>5, <1>6, <3>1
    <2>5. x = 0 \/ x > MIN
        BY <1>5, <1>6
    <2>6. pc' = "frame" /\ newest' = newest
        BY <1>4
    <2> QED BY <1>7, <1>8, <1>16, <2>1, <2>2, <2>3, <2>4, <2>5, <2>6 DEF Working
<1>19. newest' = newest /\ pc' = "frame"
    BY <1>4
<1> QED BY <1>2, <1>3, <1>6, <1>7, <1>9, <1>10, <1>12, <1>13, <1>14, <1>17, <1>18, <1>19, EntersGives DEF e

\* The last slot serves one more channel: it is still in the ring.
LEMMA SameSlotKeeps ==
    ASSUME IInv, AddChannel, ~(ThisBrightness > work.last)
    PROVE  IInv'
<1>1. PICK t : \E b, g, c \in Int : Picture(t, b, g, c)
    BY DEF IInv
<1>2. PICK b \in Int, g \in Int, c \in Int : Picture(t, b, g, c)
    BY <1>1
<1>3. Types /\ Holds(t) /\ Chained(t) /\ Working(t) /\ Counted(t, c) /\ OnTime(t) /\ Supplied(t, b, g)
    BY <1>2 DEF Picture, IInv
<1> DEFINE e == t[Len(t)]
           x == ThisBrightness
           s == InRing(read, unread)
<1>4. /\ pc = "frame" /\ work.n <= 3 /\ ~Skipped(x) /\ pc' = pc /\ newest' = newest
      /\ work' = [work EXCEPT !.n = work.n + 1, !.mask = work.mask \ {ThisChannel}, !.last = x]
      /\ UNCHANGED <<current, changes, timerVars, polled, since>>
    BY DEF AddChannel, InFrame
<1>5. /\ work.n \in 1 .. 3 /\ x \in 0 .. MAX /\ x \in MIN + 1 .. MAX - 1
      /\ work.last = x /\ work.last \in 0 .. MAX - 1
    <2>1. /\ work.n \in 1 .. 3 /\ x \in 0 .. MAX /\ x \in MIN + 1 .. MAX - 1
          /\ work.last <= x /\ work.last \in 0 .. MAX - 1
        BY <1>3, <1>4, ThisIs
    <2> QED BY <2>1
<1>6. /\ MIN \in Nat /\ MAX \in Nat /\ MIDDLE \in Nat /\ MIDDLE < MAX
      /\ newest \in [color : Color, id : {0, 1}]
      /\ work \in [order : [1 .. 3 -> Channel], n : 1 .. 4, mask : SUBSET Channel,
                   last : 0 .. MAX - 1, middle : BOOLEAN]
    BY <1>3, Sizes DEF Types
<1>7. /\ work'.order = work.order /\ work'.n = work.n + 1 /\ work'.last = x
      /\ work'.mask = work.mask \ {ThisChannel} /\ work'.middle = work.middle
      /\ work' \in [order : [1 .. 3 -> Channel], n : 1 .. 4, mask : SUBSET Channel,
                    last : 0 .. MAX - 1, middle : BOOLEAN]
    <2>1. work' = [work EXCEPT !.n = work.n + 1, !.mask = work.mask \ {ThisChannel}, !.last = x]
        BY <1>4
    <2>2. work.n + 1 \in 1 .. 4 /\ x \in 0 .. MAX - 1 /\ work.mask \ {ThisChannel} \in SUBSET Channel
        BY <1>5, <1>6
    <2> HIDE DEF x
    <2> QED BY <1>6, <2>1, <2>2
<1>8. ~AtMiddle /\ ~AtMiddle'
    <2>1. AtMiddle => x >= MIDDLE
        BY <1>3, <1>4, LastIs
    <2> QED BY <1>5, <1>6, <1>7, <2>1 DEF AtMiddle
<1>9. /\ WellMade(e) /\ e \in Items /\ e.frame = newest /\ e.mask = work.mask /\ e.b = x
      /\ e.role = "end"
    <2>1. work.last # 0
        BY <1>5, <1>6
    <2> QED BY <1>3, <1>4, <1>5, <1>8, <2>1, LastIs
<1>10. /\ t \in Seq(Items) /\ Len(t) = unread + 2 /\ unread \in 1 .. 9 /\ g < Len(t) /\ g >= 2
       /\ read \in 0 .. 9 /\ write \in 0 .. 9 /\ Index = 0 .. 9 /\ SLOTS = 10
    <2>1. t \in Seq(Items) /\ Len(t) = unread + 2
        BY <1>3 DEF Holds
    <2>2. g < Len(t) /\ g >= 2
        BY <1>3, <1>4 DEF Supplied
    <2>3. read \in Index /\ write \in Index /\ unread \in 0 .. SLOTS - 1
        BY <1>3 DEF Types
    <2>4. unread \in 1 .. 9
        BY <2>1, <2>2, <2>3, Sizes
    <2> QED BY <2>1, <2>2, <2>3, <2>4, Sizes
<1>11. s = (IF write > 0 THEN write - 1 ELSE SLOTS - 1) /\ s \in 0 .. 9
    <2>1. unread \in 1 .. 10 /\ unread + 1 \in 1 .. 10
        BY <1>10
    <2>2. s = (IF read + unread <= 10 THEN read + unread - 1 ELSE read + unread - 11)
        BY <1>10, <2>1, Places
    <2>3. InRing(read, unread + 1)
            = (IF read + (unread + 1) <= 10 THEN read + (unread + 1) - 1 ELSE read + (unread + 1) - 11)
        BY <1>10, <2>1, Places
    <2>4. write = InRing(read, unread + 1)
        BY <1>3 DEF Holds
    <2> HIDE DEF s
    <2> QED BY <1>10, <2>2, <2>3, <2>4
<1>12. slot' = [slot EXCEPT ![s].mask = work'.mask] /\ UNCHANGED <<read, write, unread>>
    <2>1. UpdateLast(work'.mask)
        BY DEF AddChannel
    <2> HIDE DEF s
    <2> QED BY <1>11, <2>1 DEF UpdateLast
<1> PICK f : f = [e EXCEPT !.mask = work'.mask]
    OBVIOUS
<1>13. /\ f \in Items /\ f.mask = work'.mask /\ f.top = e.top /\ f.frame = e.frame
       /\ f.role = e.role /\ f.b = e.b
    BY <1>7, <1>9 DEF Items
<1>14. WellMade(f)
    BY <1>9, <1>13 DEF WellMade
<1> PICK t2 : t2 = [t EXCEPT ![Len(t)] = f]
    OBVIOUS
<1>15. /\ t2 \in Seq(Items) /\ Len(t2) = Len(t) /\ t2[Len(t)] = f
       /\ \A k \in 1 .. Len(t) - 1 : t2[k] = t[k]
    BY <1>10, <1>13
<1> HIDE DEF e, x, s
<1>16. UNCHANGED <<out, next, isr, now, half, shown, polled, since>>
    BY <1>4 DEF timerVars
<1>17. Holds(t2)'
    <2>1. ASSUME NEW k \in 1 .. unread
          PROVE  slot'[InRing(read, k)] = Bare(t2[k + 2])
        <3>1. slot[InRing(read, k)] = Bare(t[k + 2])
            BY <1>3, <2>1 DEF Holds
        <3>2. CASE k = unread
            <4>1. t2[k + 2] = f /\ t[k + 2] = e /\ InRing(read, k) = s
                BY <1>10, <1>15, <3>2 DEF e, s
            <4>2. slot[s] = Bare(e) /\ slot'[s] = [slot[s] EXCEPT !.mask = work'.mask]
                BY <1>3, <1>10, <1>11, <1>12, <3>1, <4>1 DEF Types
            <4>3. slot'[s] = Bare(f)
                BY <1>13, <4>2 DEF Bare, Slot
            <4> QED BY <4>1, <4>3
        <3>3. CASE k # unread
            <4>1. t2[k + 2] = t[k + 2]
                BY <1>10, <1>15, <2>1, <3>3
            <4>2. k \in 1 .. 9 /\ unread \in 1 .. 9 /\ read \in 0 .. 9
                <5>1. unread \in 1 .. 9 /\ read \in 0 .. 9
                    BY <1>10
                <5> QED BY <2>1, <5>1
            <4>3. InRing(read, k) # InRing(read, unread) /\ InRing(read, k) \in 0 .. 9
                BY <3>3, <4>2, Apart
            <4>4. InRing(read, k) # s /\ InRing(read, k) \in 0 .. 9
                BY <4>3 DEF s
            <4>5. slot'[InRing(read, k)] = slot[InRing(read, k)]
                BY <1>3, <1>10, <1>11, <1>12, <4>4 DEF Types
            <4> QED BY <3>1, <4>1, <4>5
        <3> QED BY <3>2, <3>3
    <2>2. t2[1] = t[1] /\ t2[2] = t[2]
        BY <1>10, <1>15
    <2>3. out' = t2[1].mask /\ shown' = t2[1].frame /\ Hand' = Bare(t2[2])
        BY <1>3, <1>16, <2>2 DEF Holds, Hand
    <2>4. Len(t2) = unread' + 2 /\ write' = InRing(read', unread' + 1)
        BY <1>3, <1>10, <1>12, <1>15 DEF Holds
    <2> QED BY <1>12, <1>15, <2>1, <2>3, <2>4 DEF Holds
<1>18. Types'
    <2>1. slot' \in [Index -> [mask : SUBSET Channel, top : Nat, frame : [color : Color, id : {0, 1}]]]
        <3>1. slot \in [Index -> [mask : SUBSET Channel, top : Nat, frame : [color : Color, id : {0, 1}]]]
            BY <1>3 DEF Types
        <3>2. work'.mask \in SUBSET Channel /\ s \in Index
            BY <1>7, <1>10, <1>11
        <3> QED BY <1>12, <3>1, <3>2
    <2> QED BY <1>3, <1>4, <1>7, <1>12, <1>16, <2>1 DEF Types
<1>19. Chained(t2)'
    <2>1. ASSUME NEW k \in 1 .. Len(t2)
          PROVE  WellMade(t2[k]) /\ (k < Len(t2) => t2[k].mask = Remaining(t2[k].frame.color, t2[k].b))
        <3>1. CASE k = Len(t)
            BY <1>10, <1>14, <1>15, <3>1
        <3>2. CASE k # Len(t)
            <4>1. k \in 1 .. Len(t) /\ k < Len(t) /\ t2[k] = t[k]
                BY <1>10, <1>15, <2>1, <3>2
            <4> QED BY <1>3, <4>1 DEF Chained
        <3> QED BY <3>1, <3>2
    <2>2. ASSUME NEW k \in 1 .. Len(t2) - 1
          PROVE  Follows(t2[k], t2[k + 1])
        <3>1. k \in 1 .. Len(t) - 1 /\ t2[k] = t[k] /\ Follows(t[k], t[k + 1])
            BY <1>3, <1>10, <1>15, <2>2 DEF Chained
        <3>2. CASE k = Len(t) - 1
            <4>1. t2[k + 1] = f /\ t[k + 1] = e
                BY <1>10, <1>15, <3>2 DEF e
            <4>2. Follows(t[k], f)
                BY <1>13, <3>1, <4>1 DEF Follows, FrameFollows, MiddleFollows, EndFollows
            <4> QED BY <3>1, <4>1, <4>2
        <3>3. CASE k # Len(t) - 1
            <4>1. t2[k + 1] = t[k + 1]
                BY <1>10, <1>15, <3>1, <3>3
            <4> QED BY <3>1, <4>1
        <3> QED BY <3>2, <3>3
    <2> QED BY <1>4, <2>1, <2>2 DEF Chained
<1>20. Working(t2)'
    <2>1. Sorting'
        BY <1>3, <1>4, <1>5, <1>6, <1>7, OneMore DEF x
    <2>2. x # 0 /\ work'.last = x
        BY <1>5, <1>6, <1>7
    <2>3. LastEntered(f)'
        BY <1>8, <1>9, <1>13, <2>2 DEF LastEntered
    <2>4. x >= MIDDLE => work.middle
        BY <1>3, <1>4, <1>5 DEF Working
    <2>5. x = 0 \/ x > MIN
        BY <1>5, <1>6
    <2>6. pc' = "frame" /\ newest' = newest
        BY <1>4
    <2> QED BY <1>7, <1>8, <1>9, <1>13, <1>15, <2>1, <2>2, <2>3, <2>4, <2>5, <2>6 DEF Working
<1>21. Counted(t2, c)'
    <2>1. /\ c <= 7 /\ c <= Len(t) /\ Len(t) - c <= 4 /\ (c >= 1 => t[c].role = "begin")
          /\ Len(t) - c <= (work.n - 1) + (IF work.middle THEN 1 ELSE 0)
        BY <1>3, <1>4 DEF Counted
    <2>2. c >= 1 => t2[c].role = "begin"
        <3>1. c # Len(t)
            BY <1>9, <1>10, <2>1 DEF e
        <3> QED BY <1>10, <1>15, <2>1, <3>1
    <2> QED BY <1>5, <1>7, <1>10, <1>15, <2>1, <2>2 DEF Counted
<1>22. OnTime(t2)'
    <2>1. t2[1] = t[1] /\ t2[2] = t[2]
        BY <1>10, <1>15
    <2> QED BY <1>3, <1>16, <2>1 DEF OnTime
<1>23. Supplied(t2, b, g)'
    <2>1. b < g /\ g \in 1 .. Len(t) - 1 /\ (b >= 2 => b \in 1 .. Len(t) - 1)
        BY <1>3, <1>10 DEF Supplied
    <2>2. t2[g] = t[g] /\ (b >= 2 => t2[b] = t[b])
        BY <1>15, <2>1
    <2> QED BY <1>3, <1>4, <1>10, <1>15, <1>16, <2>2 DEF Supplied
<1>24. Picture(t2, b, g, c)'
    BY <1>17, <1>19, <1>20, <1>21, <1>22, <1>23 DEF Picture
<1> QED BY <1>18, <1>24 DEF IInv

\* All channels have been looked at: all but those that do not end have ended.
LEMMA AllEnded ==
    ASSUME Types, NEW t, Working(t), pc = "frame", ~(work.n <= 3), NEW x \in Nat,
           work.last <= x, x < MAX
    PROVE  work.mask = Remaining(newest.color, x) /\ ~EndsBetween(newest.color, x, MAX)
<1>1. Sorting
    BY DEF Working
<1>2. \A i \in work.n .. 3 : FALSE
    BY DEF Types
<1> QED BY <1>1, <1>2, Done, Sizes

\* No brightness of the frame has been in its second half.
LEMMA EndInMiddleKeeps ==
    ASSUME IInv, FrameEnd, work.last < MIDDLE
    PROVE  IInv'
<1>1. PICK t : \E b, g, c \in Int : Picture(t, b, g, c)
    BY DEF IInv
<1>2. PICK b \in Int, g \in Int, c \in Int : Picture(t, b, g, c)
    BY <1>1
<1>3. Types /\ Holds(t) /\ Chained(t) /\ Working(t) /\ Counted(t, c)
    BY <1>2 DEF Picture, IInv
<1> DEFINE e == t[Len(t)]
<1> PICK f : f = Item(work.mask, NEVER, newest, "middle", MIDDLE - 1)
    OBVIOUS
<1>4. /\ pc = "frame" /\ ~(work.n <= 3) /\ pc' = "again" /\ newest' = newest /\ work' = work
      /\ Enqueue(work.mask, NEVER, newest)
      /\ UNCHANGED <<current, changes, timerVars, polled, since>>
    BY DEF FrameEnd, InFrame
<1>5. /\ MIN \in Nat /\ MAX \in Nat /\ MIDDLE \in Nat /\ MIDDLE < MAX /\ MIN + 1 < MIDDLE
      /\ newest \in [color : Color, id : {0, 1}]
      /\ work \in [order : [1 .. 3 -> Channel], n : 1 .. 4, mask : SUBSET Channel,
                   last : 0 .. MAX - 1, middle : BOOLEAN]
    BY <1>3, Sizes DEF Types
<1>6. ~AtMiddle /\ ~work.middle
    <2>1. ~AtMiddle
        BY <1>3, <1>4 DEF Working
    <2> QED BY <2>1 DEF AtMiddle
<1>7. WellMade(f) /\ f \in Items
    BY <1>5, Sizes DEF WellMade, Item, Items, Roles
<1>8. /\ f.mask = work.mask /\ f.top = NEVER /\ f.frame = newest /\ f.role = "middle"
      /\ f.b = MIDDLE - 1
    BY DEF Item
<1>9. /\ e.frame = newest /\ e.mask = work.mask /\ e.b = work.last /\ ~InSecondHalf(e)
    <2>1. e.frame = newest /\ e.mask = work.mask /\ e.b = work.last
        BY <1>3, <1>4, <1>6, LastIs
    <2>2. InSecondHalf(e) <=> (AtMiddle \/ work.last >= MIDDLE)
        BY <1>3, <1>4, LastIs
    <2>3. ~(work.last >= MIDDLE)
        BY <1>5
    <2> QED BY <1>6, <2>1, <2>2, <2>3
<1>10. work.mask = Remaining(newest.color, work.last) /\ ~EndsBetween(newest.color, work.last, MAX)
    <2>1. work.last \in Nat /\ work.last <= work.last /\ work.last < MAX
        BY <1>5
    <2> QED BY <1>3, <1>4, <2>1, AllEnded
<1>11. work.mask = Remaining(newest.color, MIDDLE - 1) /\ ~EndsBetween(newest.color, MIDDLE - 1, MAX)
    <2>1. MIDDLE - 1 \in Nat /\ work.last <= MIDDLE - 1 /\ MIDDLE - 1 < MAX
        BY <1>5
    <2> QED BY <1>3, <1>4, <2>1, AllEnded
<1>12. Follows(e, f)
    <2>1. ~EndsBetween(newest.color, work.last, MIDDLE)
        <3>1. newest.color \in [Channel -> 0 .. MAX]
            BY <1>5 DEF Color
        <3>2. \A d \in Channel : newest.color[d] < MIDDLE => newest.color[d] < MAX
            BY <1>5, <3>1
        <3> QED BY <1>10, <3>2 DEF EndsBetween
    <2> QED BY <1>8, <1>9, <2>1 DEF Follows, MiddleFollows
<1>13. Enters(f)
    BY <1>4, <1>8 DEF Enters
<1> HIDE DEF e
<1>14. t \in Seq(Items) /\ Len(t) \in Nat /\ Len(Append(t, f)) = Len(t) + 1
       /\ Append(t, f)[Len(t) + 1] = f /\ \A k \in 1 .. Len(t) : Append(t, f)[k] = t[k]
    BY <1>3, <1>7, AppendIs DEF Holds, Types
<1>15. Counted(Append(t, f), c)'
    <2>1. /\ c <= 7 /\ c <= Len(t) /\ (c >= 1 => t[c].role = "begin")
          /\ Len(t) - c <= (work.n - 1) + 0
        BY <1>3, <1>4, <1>6 DEF Counted
    <2>2. c >= 1 => Append(t, f)[c] = t[c]
        BY <1>14, <2>1
    <2>3. Len(t) - c <= 3
        <3>1. work.n \in 1 .. 4
            BY <1>5
        <3> QED BY <1>14, <2>1, <3>1
    <2>4. pc' # "frame"
        BY <1>4
    <2> QED BY <1>14, <2>1, <2>2, <2>3, <2>4 DEF Counted
<1>16. Working(Append(t, f))'
    <2>1. InSecondHalf(f)
        BY <1>8 DEF InSecondHalf
    <2> QED BY <1>4, <1>8, <1>11, <1>14, <2>1 DEF Working
<1>17. /\ e.mask = Remaining(e.frame.color, e.b) /\ f.mask = Remaining(f.frame.color, f.b)
       /\ pc' = "again" /\ newest' \in [color : Color, id : {0, 1}]
       /\ work' \in [order : [1 .. 3 -> Channel], n : 1 .. 4, mask : SUBSET Channel,
                     last : 0 .. MAX - 1, middle : BOOLEAN]
    BY <1>4, <1>5, <1>8, <1>9, <1>10, <1>11
<1> QED BY <1>2, <1>3, <1>7, <1>12, <1>13, <1>15, <1>16, <1>17, EntersGives DEF e

LEMMA EndKeeps ==
    ASSUME IInv, FrameEnd, ~(work.last < MIDDLE)
    PROVE  IInv'
<1>1. PICK t : \E b, g, c \in Int : Picture(t, b, g, c)
    BY DEF IInv
<1>2. PICK b \in Int, g \in Int, c \in Int : Picture(t, b, g, c)
    BY <1>1
<1>3. Types /\ Holds(t) /\ Chained(t) /\ Working(t) /\ Counted(t, c) /\ OnTime(t) /\ Supplied(t, b, g)
    BY <1>2 DEF Picture, IInv
<1> DEFINE e == t[Len(t)]
<1>4. /\ pc = "frame" /\ ~(work.n <= 3) /\ pc' = "again"
      /\ UNCHANGED <<slot, read, write, unread, current, changes, newest, work>>
      /\ UNCHANGED <<out, next, isr, now, half, shown, polled, since>>
    BY DEF FrameEnd, InFrame, ringVars, timerVars
<1>5. /\ MAX \in Nat /\ MIDDLE \in Nat
      /\ work \in [order : [1 .. 3 -> Channel], n : 1 .. 4, mask : SUBSET Channel,
                   last : 0 .. MAX - 1, middle : BOOLEAN]
    BY <1>3, Sizes DEF Types
<1>6. work.last >= MIDDLE /\ work.last \in Nat /\ work.last < MAX
    BY <1>5
<1>7. work.mask = Remaining(newest.color, work.last) /\ ~EndsBetween(newest.color, work.last, MAX)
    BY <1>3, <1>4, <1>6, AllEnded
<1>8. e.frame = newest /\ e.mask = work.mask /\ e.b = work.last /\ InSecondHalf(e)
    <2>1. ~AtMiddle
        BY <1>3, <1>4 DEF Working
    <2> QED BY <1>3, <1>4, <1>6, <2>1, LastIs
<1>9. Types' /\ Holds(t)'
    BY <1>3, <1>4 DEF Types, Holds, Hand
<1>10. Chained(t)'
    <2> HIDE DEF e
    <2>1. ASSUME NEW k \in 1 .. Len(t)
          PROVE  t[k].mask = Remaining(t[k].frame.color, t[k].b)
        <3>1. CASE k = Len(t)
            BY <1>7, <1>8, <3>1 DEF e
        <3>2. CASE k # Len(t)
            <4>1. k < Len(t)
                BY <1>3, <2>1, <3>2 DEF Holds, Types
            <4> QED BY <1>3, <4>1 DEF Chained
        <3> QED BY <3>1, <3>2
    <2> QED BY <1>3, <2>1 DEF Chained
<1>11. Working(t)'
    BY <1>4, <1>7, <1>8 DEF Working
<1>12. Counted(t, c)'
    BY <1>3, <1>4 DEF Counted
<1>13. OnTime(t)' /\ Supplied(t, b, g)'
    BY <1>3, <1>4 DEF OnTime, Supplied
<1>14. Picture(t, b, g, c)'
    BY <1>9, <1>10, <1>11, <1>12, <1>13 DEF Picture
<1> QED BY <1>9, <1>14 DEF IInv

\* The next frame begins behind a complete one.
LEMMA FrameBeginKeeps ==
    ASSUME IInv, FrameBegin
    PROVE  IInv'
<1>1. PICK t : \E b, g, c \in Int : Picture(t, b, g, c)
    BY DEF IInv
<1>2. PICK b \in Int, g \in Int, c \in Int : Picture(t, b, g, c)
    BY <1>1
<1>3. Types /\ Holds(t) /\ Chained(t) /\ Working(t) /\ Counted(t, c)
    BY <1>2 DEF Picture, IInv
<1> DEFINE e == t[Len(t)]
<1>4. PICK order \in SortedOrders(current) :
          /\ newest' = [color |-> current, id |-> 1 - newest.id]
          /\ work' = [order |-> order, n |-> 1, mask |-> Lit(current), last |-> 0, middle |-> FALSE]
    BY DEF FrameBegin, ColorOfFrame
<1>5. /\ pc # "frame" /\ pc' = "frame" /\ Fill < RefillBelow
      /\ Enqueue(work'.mask, NEVER, newest')
      /\ UNCHANGED <<current, changes, timerVars, polled, since>>
    BY DEF FrameBegin
<1>6. /\ order \in [1 .. 3 -> Channel] /\ current \in Color
      /\ \A i \in 1 .. 3, j \in 1 .. 3 : i # j => order[i] # order[j]
      /\ \A i \in 1 .. 3, j \in 1 .. 3 : i < j => current[order[i]] <= current[order[j]]
    BY <1>3 DEF SortedOrders, Types
<1>7. Lit(current) \in SUBSET Channel
    BY DEF Lit
<1>8. /\ newest' \in [color : Color, id : {0, 1}] /\ newest'.id # newest.id
      /\ newest'.color = current
    BY <1>3, <1>4, <1>6 DEF Types
<1>9. /\ work' \in [order : [1 .. 3 -> Channel], n : 1 .. 4, mask : SUBSET Channel,
                    last : 0 .. MAX - 1, middle : BOOLEAN]
      /\ work'.order = order /\ work'.n = 1 /\ work'.mask = Lit(current) /\ work'.last = 0
      /\ work'.middle = FALSE
    BY <1>4, <1>6, <1>7, Sizes
<1> PICK f : f = Item(work'.mask, NEVER, newest', "begin", 0)
    OBVIOUS
<1>10. /\ f.mask = work'.mask /\ f.top = NEVER /\ f.frame = newest' /\ f.role = "begin" /\ f.b = 0
    BY DEF Item
<1>11. WellMade(f) /\ f \in Items
    BY <1>8, <1>9, Sizes DEF WellMade, Item, Items, Roles
<1>12. t \in Seq(Items) /\ Len(t) \in Nat /\ Len(t) >= 2 /\ Len(Append(t, f)) = Len(t) + 1
       /\ Append(t, f)[Len(t) + 1] = f /\ \A k \in 1 .. Len(t) : Append(t, f)[k] = t[k]
    BY <1>3, <1>11, AppendIs DEF Holds, Types
<1>13. /\ e.frame = newest /\ InSecondHalf(e) /\ ~EndsBetween(newest.color, e.b, MAX)
       /\ e.mask = Remaining(e.frame.color, e.b)
    BY <1>3, <1>5, <1>12 DEF Working, Chained
<1>14. Follows(e, f)
    BY <1>8, <1>10, <1>13 DEF Follows, FrameFollows
<1>15. Enters(f)
    BY <1>5, <1>10 DEF Enters
<1> HIDE DEF e
<1>16. Len(t) <= 6
    <2>1. Fill = unread /\ unread \in Nat /\ Len(t) = unread + 2
        <3>1. Fill = unread
            BY <1>3, FillIs
        <3> QED BY <1>3, <3>1 DEF Holds, Types
    <2> QED BY <1>5, <2>1, Sizes
<1>17. Counted(Append(t, f), Len(t) + 1)'
    BY <1>9, <1>10, <1>12, <1>16 DEF Counted
<1>18. Sorting'
    <2>1. ASSUME NEW d \in Channel
          PROVE  \E i \in 1 .. 3 : order[i] = d
        <3>1. order[1] \in {1, 2, 3} /\ order[2] \in {1, 2, 3} /\ order[3] \in {1, 2, 3}
            BY <1>6, Sizes
        <3>2. order[1] # order[2] /\ order[1] # order[3] /\ order[2] # order[3]
            BY <1>6
        <3>3. d \in {1, 2, 3}
            BY <2>1, Sizes
        <3>4. order[1] = d \/ order[2] = d \/ order[3] = d
            BY <3>1, <3>2, <3>3
        <3> QED BY <3>4
    <2>2. Lit(current) = {d \in Lit(current) : current[d] = MAX \/ \E i \in 1 .. 3 : order[i] = d}
        BY <2>1 DEF Lit
    <2>3. \A i \in 1 .. 3 : current[order[i]] >= 0
        BY <1>6 DEF Color
    <2>4. 1 .. 1 - 1 = {}
        OBVIOUS
    <2> QED BY <1>6, <1>8, <1>9, <2>2, <2>3, <2>4 DEF Sorting
<1>19. Working(Append(t, f))'
    <2>1. ~AtMiddle'
        BY <1>9 DEF AtMiddle
    <2>2. LastEntered(f)'
        BY <1>9, <1>10, <2>1 DEF LastEntered
    <2>3. ~(work'.last >= MIDDLE)
        BY <1>9, Sizes
    <2> QED BY <1>5, <1>9, <1>10, <1>12, <1>18, <2>1, <2>2, <2>3 DEF Working
<1>20. Len(t) + 1 \in Int
    BY <1>12
<1> QED BY <1>2, <1>3, <1>5, <1>8, <1>9, <1>11, <1>13, <1>14, <1>15, <1>17, <1>19, <1>20, EntersGives DEF e

-----------------------------------------------------------------------------
(* The invariant *)

LEMMA InitIsSupplied ==
    ASSUME Init
    PROVE  IInv
<1> DEFINE B(id) == Item({}, NEVER, Frame(id), "begin", 0)
           M(id) == Item({}, NEVER, Frame(id), "middle", MIDDLE - 1)
           t == <<M(1), B(0), M(0), B(1), M(1)>>
<1>1. Frame(0) \in [color : Color, id : {0, 1}] /\ Frame(1) \in [color : Color, id : {0, 1}]
    BY Sizes DEF Frame, Black, Color
<1>2. WellMade(B(0)) /\ WellMade(B(1)) /\ WellMade(M(0)) /\ WellMade(M(1))
    BY <1>1, Sizes DEF WellMade, Item, Items, Roles
<1>3. Len(t) = 5 /\ t[1] = M(1) /\ t[2] = B(0) /\ t[3] = M(0) /\ t[4] = B(1) /\ t[5] = M(1)
    OBVIOUS
<1>4. t \in Seq(Items)
    <2>1. B(0) \in Items /\ B(1) \in Items /\ M(0) \in Items /\ M(1) \in Items
        BY <1>2 DEF WellMade
    <2> HIDE DEF B, M
    <2> QED BY <2>1
<1>5. /\ \A a \in Int, z \in Int : ~EndsBetween(Frame(0).color, a, z)
      /\ \A a \in Int, z \in Int : ~EndsBetween(Frame(1).color, a, z)
    BY Sizes DEF EndsBetween, Frame, Black, Skipped
<1>6. /\ \A a \in Nat : Remaining(Frame(0).color, a) = {}
      /\ \A a \in Nat : Remaining(Frame(1).color, a) = {}
    BY Sizes DEF Remaining, Frame, Black
<1>7. /\ Frame(0).id = 0 /\ Frame(1).id = 1
      /\ B(0).frame = Frame(0) /\ M(0).frame = Frame(0) /\ B(1).frame = Frame(1) /\ M(1).frame = Frame(1)
      /\ B(0).role = "begin" /\ B(1).role = "begin" /\ M(0).role = "middle" /\ M(1).role = "middle"
      /\ B(0).b = 0 /\ B(1).b = 0 /\ M(0).b = MIDDLE - 1 /\ M(1).b = MIDDLE - 1
      /\ B(0).mask = {} /\ B(1).mask = {} /\ M(0).mask = {} /\ M(1).mask = {}
    BY DEF Item, Frame
<1>8. /\ InSecondHalf(M(0)) /\ InSecondHalf(M(1)) /\ ~InSecondHalf(B(0)) /\ ~InSecondHalf(B(1))
    BY <1>7, Sizes DEF InSecondHalf
<1>9. /\ Bare(B(0)) = Slot({}, NEVER, Frame(0)) /\ Bare(B(1)) = Slot({}, NEVER, Frame(1))
      /\ Bare(M(0)) = Slot({}, NEVER, Frame(0)) /\ Bare(M(1)) = Slot({}, NEVER, Frame(1))
    BY DEF Bare, Item
<1>10. /\ Follows(M(1), B(0)) /\ Follows(B(0), M(0)) /\ Follows(M(0), B(1)) /\ Follows(B(1), M(1))
    BY <1>5, <1>7, <1>8, Sizes DEF Follows, FrameFollows, MiddleFollows
<1> HIDE DEF B, M
<1>11. /\ slot \in [Index -> [mask : SUBSET Channel, top : Nat, frame : [color : Color, id : {0, 1}]]]
       /\ slot[0] = Slot({}, NEVER, Frame(0)) /\ slot[1] = Slot({}, NEVER, Frame(0))
       /\ slot[2] = Slot({}, NEVER, Frame(1)) /\ slot[3] = Slot({}, NEVER, Frame(1))
    BY <1>1, Sizes DEF Init, Slot
<1>12. Types
    <2>1. Black \in Color
        BY Sizes DEF Black, Color
    <2>2. work \in [order : [1 .. 3 -> Channel], n : 1 .. 4, mask : SUBSET Channel,
                    last : 0 .. MAX - 1, middle : BOOLEAN]
        BY Sizes DEF Init
    <2>3. read \in Index /\ write \in Index /\ unread \in 0 .. SLOTS - 1
        BY Sizes DEF Init
    <2> QED BY <1>1, <1>11, <2>1, <2>2, <2>3 DEF Types, Init
<1>13. Holds(t)
    <2>1. InRing(1, 1) = 1 /\ InRing(1, 2) = 2 /\ InRing(1, 3) = 3 /\ InRing(1, 4) = 4
        <3>1. 1 \in 0 .. 9 /\ 1 \in 1 .. 10 /\ 2 \in 1 .. 10 /\ 3 \in 1 .. 10 /\ 4 \in 1 .. 10
            OBVIOUS
        <3>2. InRing(1, 1) = (IF 1 + 1 <= 10 THEN 1 + 1 - 1 ELSE 1 + 1 - 11)
            BY <3>1, Places
        <3>3. InRing(1, 2) = (IF 1 + 2 <= 10 THEN 1 + 2 - 1 ELSE 1 + 2 - 11)
            BY <3>1, Places
        <3>4. InRing(1, 3) = (IF 1 + 3 <= 10 THEN 1 + 3 - 1 ELSE 1 + 3 - 11)
            BY <3>1, Places
        <3>5. InRing(1, 4) = (IF 1 + 4 <= 10 THEN 1 + 4 - 1 ELSE 1 + 4 - 11)
            BY <3>1, Places
        <3> QED BY <3>2, <3>3, <3>4, <3>5
    <2>2. unread = 3 /\ read = 1 /\ write = 4
        BY DEF Init
    <2>3. ASSUME NEW k \in 1 .. unread
          PROVE  slot[InRing(read, k)] = Bare(t[k + 2])
        <3>1. k = 1 \/ k = 2 \/ k = 3
            BY <2>2, <2>3
        <3>2. slot[1] = Bare(t[1 + 2]) /\ slot[2] = Bare(t[2 + 2]) /\ slot[3] = Bare(t[3 + 2])
            BY <1>3, <1>9, <1>11
        <3> QED BY <2>1, <2>2, <3>1, <3>2
    <2>4. out = t[1].mask /\ shown = t[1].frame /\ Hand = Bare(t[2])
        BY <1>3, <1>7, <1>9, <1>11 DEF Init, Hand
    <2> HIDE DEF t
    <2>5. Len(t) = unread + 2 /\ write = InRing(read, unread + 1)
        BY <1>3, <2>1, <2>2
    <2> QED BY <1>4, <2>3, <2>4, <2>5 DEF Holds
<1> HIDE DEF t
<1>14. Chained(t)
    <2>1. ASSUME NEW k \in 1 .. Len(t)
          PROVE  WellMade(t[k]) /\ t[k].mask = Remaining(t[k].frame.color, t[k].b)
        <3>1. k = 1 \/ k = 2 \/ k = 3 \/ k = 4 \/ k = 5
            BY <1>3, <2>1
        <3>2. MIDDLE - 1 \in Nat /\ 0 \in Nat
            BY Sizes
        <3>3. ASSUME NEW e, e \in {B(0), M(0), B(1), M(1)}
              PROVE  WellMade(e) /\ e.mask = Remaining(e.frame.color, e.b)
            <4>1. CASE e = B(0)
                BY <1>2, <1>6, <1>7, <3>2, <4>1
            <4>2. CASE e = M(0)
                BY <1>2, <1>6, <1>7, <3>2, <4>2
            <4>3. CASE e = B(1)
                BY <1>2, <1>6, <1>7, <3>2, <4>3
            <4>4. CASE e = M(1)
                BY <1>2, <1>6, <1>7, <3>2, <4>4
            <4> QED BY <3>3, <4>1, <4>2, <4>3, <4>4
        <3>4. t[k] \in {B(0), M(0), B(1), M(1)}
            BY <1>3, <3>1
        <3> QED BY <3>3, <3>4
    <2>2. ASSUME NEW k \in 1 .. Len(t) - 1
          PROVE  Follows(t[k], t[k + 1])
        <3>1. k = 1 \/ k = 2 \/ k = 3 \/ k = 4
            BY <1>3, <2>2
        <3>2. t[1 + 1] = B(0) /\ t[2 + 1] = M(0) /\ t[3 + 1] = B(1) /\ t[4 + 1] = M(1)
            BY <1>3
        <3> QED BY <1>3, <1>10, <3>1, <3>2
    <2> QED BY <2>1, <2>2 DEF Chained
<1>15. Working(t)
    <2>1. ~EndsBetween(Frame(1).color, MIDDLE - 1, MAX)
        BY <1>5, Sizes
    <2> QED BY <1>3, <1>7, <1>8, <2>1 DEF Working, Init
<1>16. Counted(t, 4)
    BY <1>3, <1>7 DEF Counted, Init
<1>17. OnTime(t)
    <2>1. TimeOf(t[1]) = 0 /\ t[2].role # "end" /\ InSecondHalf(t[1])
        BY <1>3, <1>7, <1>8 DEF TimeOf
    <2> QED BY <2>1, Sizes DEF OnTime, Init
<1>18. Supplied(t, 4, 5)
    BY <1>3, <1>7, <1>8 DEF Supplied, Init
<1>19. Picture(t, 4, 5, 4)
    BY <1>13, <1>14, <1>15, <1>16, <1>17, <1>18 DEF Picture
<1> QED BY <1>12, <1>19 DEF IInv

LEMMA StutterKeeps ==
    ASSUME IInv, UNCHANGED vars
    PROVE  IInv'
<1>1. PICK t : \E b, g, c \in Int : Picture(t, b, g, c)
    BY DEF IInv
<1>2. PICK b \in Int, g \in Int, c \in Int : Picture(t, b, g, c)
    BY <1>1
<1>3. Types /\ Working(t) /\ Counted(t, c)
    BY <1>2 DEF Picture, IInv
<1>4. /\ UNCHANGED <<ringVars, timerVars, polled, since, newest>> /\ UNCHANGED <<current, pc, work>>
    BY DEF vars, mainVars
<1>5. Working(t)'
    BY <1>3, <1>4 DEF Working, LastEntered, AtMiddle, Sorting, ThisBrightness, ThisChannel
<1>6. Counted(t, c)'
    BY <1>3, <1>4 DEF Counted
<1>7. current' \in Color /\ work' \in [order : [1 .. 3 -> Channel], n : 1 .. 4, mask : SUBSET Channel,
                                       last : 0 .. MAX - 1, middle : BOOLEAN]
    BY <1>3, <1>4 DEF Types
<1> QED BY <1>2, <1>3, <1>4, <1>5, <1>6, <1>7, QuietKeeps

LEMMA Invariance == Spec => []IInv
<1>1. Init => IInv
    BY InitIsSupplied
<1>2. IInv /\ [Next]_vars => IInv'
    <2> SUFFICES ASSUME IInv, [Next]_vars PROVE IInv'
        OBVIOUS
    <2>1. CASE MainLoop
        <3>1. CASE FrameBegin
            BY <3>1, FrameBeginKeeps
        <3>2. CASE SkipChannel
            BY <3>2, SkipChannelKeeps
        <3>3. CASE InsertMiddle
            BY <3>3, InsertMiddleKeeps
        <3>4. CASE AddChannel
            BY <3>4, NewSlotKeeps, SameSlotKeeps
        <3>5. CASE FrameEnd
            BY <3>5, EndInMiddleKeeps, EndKeeps
        <3>6. CASE PollDone
            BY <2>1, <3>6, PollDoneKeeps DEF MainLoop
        <3>7. CASE ColorChanges
            BY <3>7, ColorChangesKeeps
        <3> QED BY <2>1, <3>1, <3>2, <3>3, <3>4, <3>5, <3>6, <3>7 DEF MainLoop, PwmPoll
    <2>2. CASE Timer
        BY <2>2, CompareAKeeps, CompareBKeeps, SpinKeeps, ReturnKeeps DEF Timer
    <2>3. CASE UNCHANGED vars
        BY <2>3, StutterKeeps
    <2> QED BY <2>1, <2>2, <2>3 DEF Next
<1> QED BY <1>1, <1>2, PTL DEF Spec

-----------------------------------------------------------------------------
(* The theorems *)

\* A main loop that completes a pwm_poll within every half of a period keeps the
\* ring supplied, whatever the colors: the interrupt takes no slot that is not
\* there, and none is overwritten before it was taken.
THEOREM KeepsUp == Spec => []RingKeepsUp
<1>1. IInv => RingKeepsUp
    <2> SUFFICES ASSUME IInv PROVE unread = Fill
        BY DEF RingKeepsUp
    <2>1. PICK t : \E b, g, c \in Int : Picture(t, b, g, c)
        BY DEF IInv
    <2> QED BY <2>1, FillIs DEF IInv, Picture
<1> QED BY <1>1, Invariance, PTL

\* Between two slots the time has gone past those that have ended and not past
\* those that have not.
LEMMA LitIs ==
    ASSUME NEW e, NEW f, WellMade(e), WellMade(f), Follows(e, f), NEW h, NEW time \in Nat,
           h = (IF InSecondHalf(e) THEN 1 ELSE 0), TimeOf(e) <= time,
           f.role = "end" => time < TimeOf(f)
    PROVE  Remaining(e.frame.color, e.b) = LitAt(e.frame.color, h, time)
<1> DEFINE color == e.frame.color
<1>1. e \in Items /\ f \in Items /\ color \in [Channel -> 0 .. MAX]
    BY DEF WellMade, Items, Color
<1>2. MIN \in Nat /\ MIDDLE \in Nat /\ MAX \in Nat /\ MIN < MIDDLE /\ MIDDLE < MAX
    BY Sizes
<1>3. e.b \in 0 .. MAX - 1 /\ f.b \in 0 .. MAX - 1 /\ e.role \in Roles
    BY <1>1 DEF Items
<1>4. /\ e.role = "end" => e.b \in 1 .. MAX - 1 /\ Top[e.b] <= time
      /\ e.role = "begin" => e.b = 0
      /\ e.role = "middle" => e.b = MIDDLE - 1
    BY <1>2, <1>3 DEF WellMade, TimeOf
<1>5. f.role = "end" => f.b \in 1 .. MAX - 1 /\ time < Top[f.b]
    BY <1>2, <1>3 DEF WellMade, TimeOf
<1>6. ASSUME NEW d \in Channel, color[d] > MIN, color[d] # MAX
      PROVE  color[d] > e.b <=>
                IF color[d] < MIDDLE THEN h = 0 /\ time < Top[color[d]]
                ELSE h = 0 \/ time < Top[color[d]]
    <2> DEFINE v == color[d]
    <2>1. v \in 1 .. MAX - 1 /\ v > MIN
        BY <1>1, <1>2, <1>6
    <2>2. ~Skipped(v)
        BY <1>2, <1>6, <2>1 DEF Skipped
    <2>3. Top[v] \in Nat /\ \A w \in 1 .. MAX - 1 :
             /\ Top[w] \in Nat
             /\ w <= v /\ (v < MIDDLE \/ w >= MIDDLE) => Top[w] <= Top[v]
             /\ v <= w /\ (w < MIDDLE \/ v >= MIDDLE) => Top[v] <= Top[w]
        <3> HIDE DEF v
        <3>1. \A w \in 1 .. MAX - 1 : Top[w] \in Nat
            BY Tops
        <3>2. ASSUME NEW w \in 1 .. MAX - 1
              PROVE  /\ w <= v /\ (v < MIDDLE \/ w >= MIDDLE) => Top[w] <= Top[v]
                     /\ v <= w /\ (w < MIDDLE \/ v >= MIDDLE) => Top[v] <= Top[w]
            <4>1. w = v \/ w < v \/ v < w
                BY <2>1, <3>2
            <4>2. w < v /\ (v < MIDDLE \/ w >= MIDDLE) => Top[w] < Top[v]
                BY <2>1, <3>2, TimeslotAssumption
            <4>3. v < w /\ (w < MIDDLE \/ v >= MIDDLE) => Top[v] < Top[w]
                BY <2>1, <3>2, TimeslotAssumption
            <4>4. Top[v] \in Nat /\ Top[w] \in Nat
                BY <2>1, <3>1, <3>2
            <4> QED BY <2>1, <3>2, <4>1, <4>2, <4>3, <4>4
        <3> QED BY <2>1, <3>1, <3>2
    <2>4. /\ f.role = "begin" => InSecondHalf(e) /\ v <= e.b
          /\ f.role = "middle" => ~InSecondHalf(e) /\ (v <= e.b \/ v >= MIDDLE)
          /\ f.role = "end" => (v <= e.b \/ v >= f.b) /\ (InSecondHalf(e) <=> f.b >= MIDDLE)
        <3>1. f.role = "begin" => FrameFollows(e, f)
            BY DEF Follows, MiddleFollows, EndFollows
        <3>2. f.role = "middle" => MiddleFollows(e, f)
            BY DEF Follows, FrameFollows, EndFollows
        <3>3. f.role = "end" => EndFollows(e, f)
            BY DEF Follows, FrameFollows, MiddleFollows
        <3>4. FrameFollows(e, f) => InSecondHalf(e) /\ ~(e.b < v /\ v < MAX)
            BY <2>2 DEF FrameFollows, EndsBetween
        <3>5. MiddleFollows(e, f) => ~InSecondHalf(e) /\ ~(e.b < v /\ v < MIDDLE)
            BY <2>2 DEF MiddleFollows, EndsBetween
        <3>6. EndFollows(e, f) => ~(e.b < v /\ v < f.b) /\ (InSecondHalf(e) <=> f.b >= MIDDLE)
            BY <2>2 DEF EndFollows, EndsBetween
        <3> HIDE DEF v
        <3>7. FrameFollows(e, f) => v <= e.b
            BY <1>2, <1>3, <2>1, <3>4
        <3>8. MiddleFollows(e, f) => v <= e.b \/ v >= MIDDLE
            BY <1>2, <1>3, <2>1, <3>5
        <3>9. EndFollows(e, f) => v <= e.b \/ v >= f.b
            BY <1>3, <2>1, <3>6
        <3> QED BY <3>1, <3>2, <3>3, <3>4, <3>5, <3>6, <3>7, <3>8, <3>9
    <2>5. f.role \in {"begin", "middle", "end"}
        BY <1>1 DEF Items, Roles
    <2> HIDE DEF v, color
    <2>6. CASE InSecondHalf(e)
        <3>1. h = 1
            BY <2>6
        <3>2. v < MIDDLE => v <= e.b
            BY <1>2, <1>3, <1>4, <2>1, <2>6 DEF InSecondHalf
        <3>3. v >= MIDDLE /\ v <= e.b => e.role = "end" /\ Top[e.b] <= time /\ Top[v] <= Top[e.b]
            BY <1>2, <1>3, <1>4, <2>1, <2>3 DEF Roles
        <3>4. v > e.b => f.role = "end" /\ v >= f.b /\ f.b >= MIDDLE
            BY <1>3, <2>1, <2>4, <2>5, <2>6
        <3>5. v > e.b => time < Top[f.b] /\ Top[f.b] <= Top[v] /\ Top[f.b] \in Nat
            BY <1>2, <1>5, <2>1, <2>3, <3>4
        <3>6. v > e.b => time < Top[v]
            BY <2>3, <3>5
        <3>7. v >= MIDDLE /\ v <= e.b => ~(time < Top[v])
            <4>1. e.role = "end" => Top[e.b] \in Nat
                BY <1>4, <2>3
            <4> QED BY <2>3, <3>3, <4>1
        <3> QED BY <1>2, <1>3, <2>1, <3>1, <3>2, <3>6, <3>7 DEF v
    <2>7. CASE ~InSecondHalf(e)
        <3>1. h = 0 /\ e.b < MIDDLE /\ e.role # "middle"
            BY <1>2, <1>3, <2>7 DEF InSecondHalf
        <3>2. v >= MIDDLE => v > e.b
            BY <1>2, <1>3, <2>1, <3>1
        <3>3. v <= e.b => e.role = "end" /\ Top[e.b] <= time /\ Top[v] <= Top[e.b] /\ Top[e.b] \in Nat
            BY <1>2, <1>3, <1>4, <2>1, <2>3, <3>1 DEF Roles
        <3>4. v <= e.b => ~(time < Top[v])
            BY <2>3, <3>3
        <3>5. v > e.b /\ v < MIDDLE => f.role = "end" /\ v >= f.b
            BY <1>2, <1>3, <2>1, <2>4, <2>5, <2>7
        <3>6. v > e.b /\ v < MIDDLE => time < Top[f.b] /\ Top[f.b] <= Top[v] /\ Top[f.b] \in Nat
            BY <1>2, <1>5, <2>1, <2>3, <3>5
        <3>7. v > e.b /\ v < MIDDLE => time < Top[v]
            BY <2>3, <3>6
        <3> QED BY <1>2, <1>3, <2>1, <3>1, <3>2, <3>4, <3>7 DEF v
    <2> QED BY <2>6, <2>7
<1>7. ASSUME NEW d \in Channel
      PROVE  d \in Remaining(color, e.b) <=> d \in LitAt(color, h, time)
    <2>1. d \in Remaining(color, e.b) <=> color[d] = MAX \/ (color[d] > MIN /\ color[d] > e.b)
        BY DEF Remaining
    <2>2. d \in LitAt(color, h, time) <=>
            \/ color[d] = MAX
            \/ /\ color[d] > MIN
               /\ IF color[d] < MIDDLE THEN h = 0 /\ time < Top[color[d]]
                  ELSE h = 0 \/ time < Top[color[d]]
        BY DEF LitAt
    <2> HIDE DEF color
    <2> QED BY <1>6, <2>1, <2>2
<1>8. Remaining(color, e.b) \subseteq Channel /\ LitAt(color, h, time) \subseteq Channel
    BY DEF Remaining, LitAt
<1> HIDE DEF color
<1>9. Remaining(color, e.b) = LitAt(color, h, time)
    BY <1>7, <1>8, Zenon
<1> QED BY <1>9 DEF color

\* What is lit is at any time what the color of the period asks for.
THEOREM ShownAsAsked == Spec => []ShowsColor
<1>1. IInv => ShowsColor
    <2> SUFFICES ASSUME IInv PROVE out = LitAt(shown.color, half, now)
        BY DEF ShowsColor
    <2>1. PICK t : \E b, g, c \in Int : Picture(t, b, g, c)
        BY DEF IInv
    <2>2. PICK b \in Int, g \in Int, c \in Int : Picture(t, b, g, c)
        BY <2>1
    <2>3. Types /\ Holds(t) /\ Chained(t) /\ OnTime(t) /\ Supplied(t, b, g)
        BY <2>2 DEF Picture, IInv
    <2>4. WellMade(t[1]) /\ WellMade(t[2]) /\ Follows(t[1], t[2])
        BY <2>3, HandIs
    <2>5. /\ now \in Nat /\ TimeOf(t[1]) <= now /\ half = (IF InSecondHalf(t[1]) THEN 1 ELSE 0)
          /\ t[2].role = "end" => now < TimeOf(t[2])
        BY <2>3, <2>4, LaterIs DEF OnTime
    <2>6. Remaining(t[1].frame.color, t[1].b) = LitAt(t[1].frame.color, half, now)
        BY <2>4, <2>5, LitIs
    <2>7. t[1].mask = Remaining(t[1].frame.color, t[1].b)
        BY <2>3 DEF Chained, Holds, Types
    <2> QED BY <2>3, <2>6, <2>7 DEF Holds
<1> QED BY <1>1, Invariance, PTL

\* A frame is shown from the beginning of a period to its end.
THEOREM FramesAreWhole == Spec => PeriodShowsFrame
<1>1. IInv /\ [Next]_vars => [shown'.id # shown.id <=> PeriodStarts]_vars
    <2> SUFFICES ASSUME IInv, Next PROVE shown'.id # shown.id <=> PeriodStarts
        OBVIOUS
    <2>1. PICK t : \E b, g, c \in Int : Picture(t, b, g, c)
        BY DEF IInv
    <2>2. PICK b \in Int, g \in Int, c \in Int : Picture(t, b, g, c)
        BY <2>1
    <2>3. Types /\ Holds(t) /\ Chained(t) /\ OnTime(t) /\ Supplied(t, b, g)
        BY <2>2 DEF Picture, IInv
    <2>4. /\ WellMade(t[1]) /\ WellMade(t[2]) /\ Follows(t[1], t[2])
          /\ Hand.frame = t[2].frame /\ shown = t[1].frame
          /\ t[2].role = "end" => Hand.top = TimeOf(t[2]) /\ Hand.top < HALF - COST /\ 1 <= Hand.top
          /\ t[2].role # "end" => Hand.top = NEVER
        BY <2>3, HandIs DEF Holds
    <2>5. shown.id # t[2].frame.id <=> t[2].role = "begin"
        BY <2>4 DEF Follows, FrameFollows, MiddleFollows, EndFollows
    <2>6. half = (IF InSecondHalf(t[1]) THEN 1 ELSE 0) /\ now \in Nat /\ now < HALF
        BY <2>3 DEF OnTime
    <2>7. t[2].role = "begin" => InSecondHalf(t[1])
        BY <2>4, LaterIs
    <2>8. t[2].role = "middle" => ~InSecondHalf(t[1])
        BY <2>4, LaterIs
    <2>9. t[2].role \in {"begin", "middle", "end"}
        BY <2>4 DEF WellMade, Items, Roles
    <2>10. CASE MainLoop \/ Return
        BY <2>10 DEF MainLoop, PwmPoll, FrameBegin, SkipChannel, InsertMiddle, AddChannel,
           FrameEnd, InFrame, PollDone, ColorChanges, Return, timerVars, PeriodStarts
    <2>11. CASE CompareA
        <3>1. Hand = next /\ isr = NoSlot /\ shown' = Hand.frame /\ half' = 1 - half
              /\ ~(now < Hand.top /\ Hand.top < HALF)
            BY <2>11 DEF CompareA, Interrupt, Hand
        <3>2. t[2].role # "end"
            <4>1. t[2].role = "end" => now < TimeOf(t[2])
                BY <2>3, <3>1 DEF OnTime
            <4>2. t[2].role = "end" => Hand.top \in Nat
                BY <2>3, HandIs DEF Items
            <4> QED BY <2>4, <2>6, <3>1, <4>1, <4>2, Sizes
        <3>3. CASE t[2].role = "begin"
            BY <2>4, <2>5, <2>6, <2>7, <3>1, <3>3 DEF PeriodStarts
        <3>4. CASE t[2].role = "middle"
            BY <2>4, <2>5, <2>6, <2>8, <3>1, <3>4 DEF PeriodStarts
        <3> QED BY <2>9, <3>2, <3>3, <3>4
    <2>12. CASE CompareB
        <3>1. Hand = next /\ shown' = Hand.frame /\ half' = half /\ Hand.top < HALF
            BY <2>12 DEF CompareB, Interrupt, Hand
        <3>2. t[2].role = "end"
            BY <2>4, <3>1, Sizes
        <3> QED BY <2>4, <2>5, <3>1, <3>2 DEF PeriodStarts
    <2>13. CASE Spin
        <3>1. Hand = isr /\ shown' = Hand.frame /\ half' = half /\ now + NEAR > Hand.top
            BY <2>13 DEF Spin, TooClose, Hand
        <3>2. t[2].role = "end"
            BY <2>4, <2>6, <3>1, Sizes
        <3> QED BY <2>4, <2>5, <3>1, <3>2 DEF PeriodStarts
    <2> QED BY <2>10, <2>11, <2>12, <2>13 DEF Next, Timer
<1> QED BY <1>1, Invariance, PTL DEF Spec, PeriodShowsFrame
=============================================================================
