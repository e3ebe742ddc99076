------------------------------ MODULE Timeslots ------------------------------
(***************************************************************************)
(* The software PWM of fnordlicht-firmware/pwm.c.  A period has two halves *)
(* of the timer.  For each period pwm_poll computes a frame of timeslots,  *)
(* points of time at which channels are switched off, and puts them one    *)
(* after the other into a ring; the timer interrupt takes them out, one    *)
(* ahead of the one it shows, and waits inside the interrupt for those     *)
(* that follow too closely.  The interrupt never asks whether the ring     *)
(* holds a slot, and the last slot of the ring may still be changed after  *)
(* it was entered, when two channels have the same brightness.             *)
(*                                                                         *)
(* Abstractions: time passes from event to event of the timer, in its      *)
(* counts; an interrupt takes COST of them, counted at its end.  The order *)
(* of channels of the same brightness is any one (in the code it depends   *)
(* on the colors before).  The interrupt does not look at the write index, *)
(* so an enqueue is one step.                                              *)
(***************************************************************************)
EXTENDS Integers, FiniteSets

CONSTANTS
    MIN,           \* PWM_MIN_BRIGHTNESS: not lit up to this one (10)
    MIDDLE,        \* the first brightness that ends in the second half (181)
    MAX,           \* the brightness that does not end (255)
    Top,           \* timeslot_table: when a brightness ends in its half
    HALF,          \* timer counts in half a period (64000)
    NEAR,          \* counts that are too few for another interrupt (100)
    COST,          \* counts until an interrupt has loaded the next slot
    GAP,           \* longest time between two complete pwm_polls
    Colors,        \* the colors explored
    MaxChanges     \* bound on the changes of the color

Channel == 1 .. 3
SLOTS == 2 * (3 + 2)                       \* PWM_MAX_TIMESLOTS
Color == [Channel -> 0 .. MAX]

\* A top value the timer never reaches: the slot begins with the next half.
NEVER == HALF + NEAR

ASSUME TimeslotAssumption ==
    /\ MIN \in Nat /\ MIDDLE \in Nat /\ MAX \in Nat /\ MIN + 1 < MIDDLE /\ MIDDLE < MAX
    /\ HALF \in Nat /\ NEAR \in Nat /\ GAP \in Nat /\ COST \in Nat
    /\ COST < NEAR /\ COST < HALF
    \* The main loop comes round to pwm_poll within half a period (4 ms).
    /\ GAP <= HALF
    /\ Top \in [1 .. MAX - 1 -> 1 .. HALF - COST - 1]
    \* Later in the same half for a higher brightness.
    /\ \A a, b \in 1 .. MAX - 1 :
         a < b /\ (b < MIDDLE \/ a >= MIDDLE) => Top[a] < Top[b]
    /\ Colors \subseteq Color /\ Colors # {}
    /\ MaxChanges \in Nat

VARIABLES
    current,       \* global_pwm.current
    slot, read, write,           \* timeslots
    pc, work,      \* where the main loop is, and the locals of update_pwm_timeslots
    out,           \* the channels that are lit
    next,          \* pwm_next_bitmask and OCR1B
    isr,           \* the slot the interrupt has in its hands, or NoSlot
    now,           \* TCNT1
    \* history
    half,          \* the half of the period, 0 or 1
    shown,         \* the frame of the slot shown last
    newest,        \* the frame computed last
    unread,        \* slots entered and not taken out
    polled, since, \* how long ago the last pwm_poll was complete
    changes

ringVars == <<slot, read, write, unread>>
mainVars == <<current, pc, work, newest, changes>>
timerVars == <<out, next, isr, now, half, shown>>
vars == <<ringVars, mainVars, timerVars, polled, since>>

-----------------------------------------------------------------------------
(* The ring *)

Index == 0 .. SLOTS - 1
Slot(mask, top, frame) == [mask |-> mask, top |-> top, frame |-> frame]
NoSlot == [none |-> TRUE]

\* timeslots_fill
Fill == IF write >= read THEN write - read ELSE SLOTS - (read - write)

Following(i) == (i + 1) % SLOTS

\* enqueue_timeslot
Enqueue(mask, top, frame) ==
    /\ slot' = [slot EXCEPT ![write] = Slot(mask, top, frame)]
    /\ write' = Following(write)
    /\ unread' = unread + 1
    /\ read' = read

\* Faulty variant: the slot is left as it is.
UpdateNothing(mask) == UNCHANGED ringVars
\* update_last_timeslot
UpdateLast(mask) ==
    /\ slot' = [slot EXCEPT ![IF write > 0 THEN write - 1 ELSE SLOTS - 1].mask = mask]
    /\ UNCHANGED <<read, write, unread>>

\* dequeue_timeslot, into the hands of the interrupt
Dequeue ==
    /\ isr' = slot[read]
    /\ read' = Following(read)
    /\ unread' = unread - 1
    /\ UNCHANGED <<slot, write>>

-----------------------------------------------------------------------------
(* pwm_poll and update_pwm_timeslots *)

\* The orders that the sorting of the channels may end with.
SortedOrders(color) ==
    {order \in [1 .. 3 -> Channel] :
        /\ \A i, j \in 1 .. 3 : i # j => order[i] # order[j]
        /\ \A i, j \in 1 .. 3 : i < j => color[order[i]] <= color[order[j]]}

Lit(color) == {c \in Channel : color[c] > MIN}

\* Faulty variant: one slot more than there is room for.
RefillOneMore == 3 + 2 + 1
\* pwm_poll fills the ring up while it holds less than this.
RefillBelow == SLOTS - 3 - 2

\* Faulty variant: the color at power-up.
ColorAtStart == newest.color
\* The color a frame is computed for.
ColorOfFrame == current

\* One more frame: the slot that begins it.
FrameBegin ==
    /\ pc \in {"loop", "again"} /\ Fill < RefillBelow
    /\ \E order \in SortedOrders(ColorOfFrame) :
         /\ newest' = [color |-> ColorOfFrame, id |-> 1 - newest.id]
         /\ work' = [order |-> order, n |-> 1, mask |-> Lit(ColorOfFrame),
                     last |-> 0, middle |-> FALSE]
    /\ Enqueue(work'.mask, NEVER, newest')
    /\ pc' = "frame"
    /\ UNCHANGED <<current, changes, timerVars, polled, since>>

\* The channel the loop has come to, and its brightness.
ThisChannel == work.order[work.n]
ThisBrightness == newest.color[ThisChannel]
Skipped(b) == b <= MIN \/ b = MAX

InFrame(more) ==
    /\ pc = "frame" /\ (work.n <= 3) = more
    /\ UNCHANGED <<current, newest, changes, timerVars, polled, since>>

SkipChannel ==
    /\ InFrame(TRUE) /\ Skipped(ThisBrightness)
    /\ work' = [work EXCEPT !.n = @ + 1]
    /\ UNCHANGED <<ringVars, pc>>

\* Faulty variant: a brightness that ends right after the middle.
MiddleTooLate(b) == work.last < MIDDLE /\ b > MIDDLE
NeedsMiddle(b) == work.last < MIDDLE /\ b >= MIDDLE

\* The slot that only begins the second half.
InsertMiddle ==
    /\ InFrame(TRUE) /\ ~Skipped(ThisBrightness)
    /\ NeedsMiddle(ThisBrightness) /\ ~work.middle
    /\ Enqueue(work.mask, NEVER, newest)
    /\ work' = [work EXCEPT !.middle = TRUE]
    /\ pc' = pc

\* A slot for a new brightness; the last slot serves one more channel if not.
AddChannel ==
    /\ InFrame(TRUE) /\ ~Skipped(ThisBrightness)
    /\ NeedsMiddle(ThisBrightness) => work.middle
    /\ work' = [work EXCEPT !.n = @ + 1, !.mask = @ \ {ThisChannel},
                            !.last = ThisBrightness]
    /\ IF ThisBrightness > work.last
       THEN Enqueue(work'.mask, Top[ThisBrightness], newest)
       ELSE UpdateLast(work'.mask)
    /\ pc' = pc

\* The frame is complete; all channels may have ended before the middle.
FrameEnd ==
    /\ InFrame(FALSE)
    /\ IF work.last < MIDDLE THEN Enqueue(work.mask, NEVER, newest)
       ELSE UNCHANGED ringVars
    /\ pc' = "again" /\ work' = work

PollDone ==
    /\ pc \in {"loop", "again"} /\ Fill >= RefillBelow
    /\ pc' = "loop" /\ polled' = TRUE
    /\ UNCHANGED <<ringVars, current, work, newest, changes, timerVars, since>>

\* Something else in the main loop changes the color (pwm_poll_fading).
ColorChanges ==
    /\ pc = "loop" /\ changes < MaxChanges
    /\ changes' = changes + 1
    /\ current' \in Colors \ {current}
    /\ UNCHANGED <<ringVars, pc, work, newest, timerVars, polled, since>>

PwmPoll == FrameBegin \/ SkipChannel \/ InsertMiddle \/ AddChannel \/ FrameEnd \/ PollDone

-----------------------------------------------------------------------------
(* The timer and its interrupts *)

\* The main loop is never longer than GAP away from a complete pwm_poll.
Passes(time) ==
    /\ since' = IF polled THEN 0 ELSE since + time
    /\ polled' = FALSE
    /\ since' <= GAP

\* The interrupt shows the slot it was loaded with and takes the next one.
Interrupt ==
    /\ isr = NoSlot
    /\ out' = next.mask /\ shown' = next.frame
    /\ Dequeue
    /\ UNCHANGED <<mainVars, next>>

\* Output compare B: the top value of the slot is reached.
CompareB ==
    /\ now < next.top /\ next.top < HALF
    /\ now' = next.top /\ half' = half
    /\ Passes(next.top - now)
    /\ Interrupt

\* Output compare A: the half is over.
CompareA ==
    /\ ~(now < next.top /\ next.top < HALF)
    /\ now' = 0 /\ half' = 1 - half
    /\ Passes(HALF - now)
    /\ Interrupt

\* Faulty variant: no slot is too close.
NeverClose(top) == FALSE
TooClose(top) == now + NEAR > top

\* It waits for a slot that is too close, shows it, and takes the next one.
Spin ==
    /\ isr # NoSlot /\ TooClose(isr.top)
    /\ now' = IF isr.top > now THEN isr.top ELSE now
    /\ since' = since + now' - now
    /\ out' = isr.mask /\ shown' = isr.frame
    /\ Dequeue
    /\ UNCHANGED <<mainVars, next, half, polled>>

\* It loads the timer with the next slot and returns.
Return ==
    /\ isr # NoSlot /\ ~TooClose(isr.top)
    /\ next' = isr /\ isr' = NoSlot
    /\ now' = now + COST /\ since' = since + COST
    /\ UNCHANGED <<ringVars, mainVars, out, half, shown, polled>>

\* The main loop stands still while the interrupt runs.
MainLoop == isr = NoSlot /\ (PwmPoll \/ ColorChanges)
Timer == CompareA \/ CompareB \/ Spin \/ Return

\* pwm_init: two frames of the black color, the first slot loaded.
Black == [c \in Channel |-> 0]
Frame(id) == [color |-> Black, id |-> id]
Init ==
    /\ current = Black
    /\ slot = [i \in Index |->
                 Slot({}, NEVER, Frame(IF i \in {2, 3} THEN 1 ELSE 0))]
    /\ read = 1 /\ write = 4 /\ unread = 3
    /\ pc = "loop"
    /\ work = [order |-> <<1, 2, 3>>, n |-> 1, mask |-> {}, last |-> 0, middle |-> FALSE]
    /\ newest = Frame(1) /\ shown = Frame(1)
    /\ out = {} /\ next = slot[0] /\ isr = NoSlot
    /\ now = 0 /\ half = 1
    /\ polled = TRUE /\ since = 0 /\ changes = 0

Next == MainLoop \/ Timer

\* The main loop and the timer run on.
Spec == Init /\ [][Next]_vars /\ WF_vars(isr = NoSlot /\ PwmPoll) /\ WF_vars(Timer)

-----------------------------------------------------------------------------
(* Properties *)

\* The ring is never fuller than its indexes can tell, so that no unread slot
\* is overwritten, and never empty when the interrupt takes a slot, so that it
\* shows none of ten slots ago: a main loop that comes round to pwm_poll within
\* GAP keeps up with any colors.
RingKeepsUp == unread = Fill

\* What a period shows of a color at some time in one of its halves.
LitAt(color, h, time) ==
    {c \in Channel :
        \/ color[c] = MAX
        \/ /\ color[c] > MIN
           /\ IF color[c] < MIDDLE THEN h = 0 /\ time < Top[color[c]]
              ELSE h = 0 \/ time < Top[color[c]]}

\* Every channel is lit from the beginning of the period for as long as its
\* brightness says, although slots are entered, changed and taken out at any
\* interleaving of main loop and interrupt.
ShowsColor == out = LitAt(shown.color, half, now)

\* A period shows one frame from its beginning to its end: a new color takes
\* effect between two periods and no frame is shown twice.
PeriodStarts == half = 1 /\ half' = 0
PeriodShowsFrame == [][shown'.id # shown.id <=> PeriodStarts]_vars

\* A color that stays is shown in the end.
ColorIsShown == \A color \in Colors : <>[](current = color) => <>[](shown.color = color)
==============================================================================
