-------------------------------- MODULE Timer --------------------------------
(***************************************************************************)
(* The software timers of fnordlicht-firmware/timer.c, as operators.       *)
(*                                                                         *)
(* A hardware interrupt advances an 8 bit counter every 10 ms.  A timer_t  *)
(* remembers the counter value it saw last and how many CHANGES of the     *)
(* counter are still to be observed; the code admits (timer.c:59) that two *)
(* ticks between two polls count once.  So a timer is never early, and it  *)
(* is late by the ticks its caller slept through.                          *)
(***************************************************************************)
EXTENDS Naturals

CONSTANT COUNTER    \* values of internal_counter (256 in the code)
ASSUME CounterAssumption == COUNTER \in Nat /\ COUNTER > 1

Counter == 0 .. COUNTER - 1

\* A timer_t with timeouts up to m.
Timers(m) == [current : Counter, timeout : 0 .. m]

\* The timer_t of the .bss section.
ZeroTimer == [current |-> 0, timeout |-> 0]

\* The timer interrupt: internal_counter++ on a uint8_t.
NextTick(counter) == (counter + 1) % COUNTER

\* timer_set
TimerSet(counter, timeout) == [current |-> counter, timeout |-> timeout]

\* The return value of timer_expired.
TimerExpired(t) == t.timeout = 0

\* What timer_expired leaves in its argument.
TimerObserve(t, counter) ==
    IF t.timeout # 0 /\ t.current # counter
    THEN [current |-> counter, timeout |-> t.timeout - 1]
    ELSE t
==============================================================================
