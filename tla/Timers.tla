------------------------------- MODULE Timers -------------------------------
(***************************************************************************)
(* One root counter (timers.c).  The runtime advances a counter by many    *)
(* cycles at a time, stepping from event to event; the hardware counts     *)
(* cycle by cycle.  The ghost counter x does the latter, with              *)
(* timer_tick_one, and the two must agree whenever the guest can look.     *)
(* timers_cycles_to_irq predicts the distance to the next interrupt, which *)
(* the deadline of the device clock (DeviceClock) rests on.                *)
(*                                                                         *)
(* The three counters are independent and differ in their divisors only.   *)
(***************************************************************************)
EXTENDS Integers

CONSTANTS
    M,          \* 2^16 in the code: a counter wraps at M
    Divs,       \* divisors the clock sources select (1, 5, 8 or 2146)
    Cycles      \* cycles of one timers_advance call

ASSUME TimerAssumption ==
    /\ M \in Nat \ {0}
    /\ Divs \subseteq Nat \ {0}
    /\ Cycles \subseteq Nat \ {0}

VARIABLES
    tm,         \* the counter
    ticks,      \* counts timer_advance_counts has still to apply
    x           \* ghost: the counter advanced one cycle at a time

vars == <<tm, ticks, x>>

(***************************************************************************)
(* rst, irqT, irqO, rep, tog: the bits of the mode the guest writes; req,  *)
(* tflag, oflag: the ones the counter sets; line: the toggled interrupt    *)
(* line; irq: the counter's bit of I_STAT; fires: g_timer_irq_fired, from  *)
(* the last advance on.                                                    *)
(***************************************************************************)
Mode == [div : Divs, rst : BOOLEAN, irqT : BOOLEAN, irqO : BOOLEAN,
         rep : BOOLEAN, tog : BOOLEAN]

Timer == [counter : 0..(M - 1), target : 0..(M - 1), frac : Nat, mode : Mode,
          req : BOOLEAN, tflag : BOOLEAN, oflag : BOOLEAN,
          line : BOOLEAN, irq : BOOLEAN, fires : Nat]

TypeOK == tm \in Timer /\ ticks \in Nat

\* timers_init, and the first mode write: a counter nobody has set up runs from
\* the system clock with no interrupt armed.
Init ==
    /\ \E d \in Divs :
         tm = [counter |-> 0, target |-> 0, frac |-> 0,
               mode |-> [div |-> d, rst |-> FALSE, irqT |-> FALSE, irqO |-> FALSE,
                         rep |-> FALSE, tog |-> FALSE],
               req |-> FALSE, tflag |-> FALSE, oflag |-> FALSE,
               line |-> FALSE, irq |-> FALSE, fires |-> 0]
    /\ ticks = 0
    /\ x = tm

----------------------------------------------------------------------------
(* Counting. *)

\* timer_fire_irq: a pulse, or a toggle of the line that raises on one edge; a
\* one-shot mode disarms both events.
Fired(t) ==
    LET up == ~ t.mode.tog \/ ~ t.line
    IN [t EXCEPT !.fires = t.fires + 1,
                 !.line = IF t.mode.tog THEN ~ t.line ELSE t.line,
                 !.req = ~ (t.mode.tog /\ up),
                 !.irq = t.irq \/ up,
                 !.mode.irqT = t.mode.irqT /\ t.mode.rep,
                 !.mode.irqO = t.mode.irqO /\ t.mode.rep]

\* Mutant: the reset happens before the event is raised only when it is armed.
AtTargetResetOnlyIfArmed(t) ==
    LET f == IF t.mode.irqT THEN Fired([t EXCEPT !.tflag = TRUE])
                            ELSE [t EXCEPT !.tflag = TRUE]
    IN [f EXCEPT !.counter = IF t.mode.rst /\ t.mode.irqT THEN 0 ELSE f.counter]

\* What happens when the counter reaches its target.
AtTarget(t) ==
    LET f == IF t.mode.irqT THEN Fired([t EXCEPT !.tflag = TRUE])
                            ELSE [t EXCEPT !.tflag = TRUE]
    IN [f EXCEPT !.counter = IF t.mode.rst THEN 0 ELSE f.counter]

\* What happens when it wraps.
AtOverflow(t) ==
    IF t.mode.irqO THEN Fired([t EXCEPT !.oflag = TRUE]) ELSE [t EXCEPT !.oflag = TRUE]

\* timer_tick_one: one count, the reference.
TickOne(t) ==
    LET u == [t EXCEPT !.counter = (t.counter + 1) % M]
        v == IF u.counter = u.target THEN AtTarget(u) ELSE u
    IN IF t.counter = M - 1 THEN AtOverflow(v) ELSE v

\* One cycle of the clock source.
CycleOne(t) ==
    IF t.frac + 1 < t.mode.div THEN [t EXCEPT !.frac = t.frac + 1]
    ELSE TickOne([t EXCEPT !.frac = 0])

AfterCycles(t, n) ==
    LET run[i \in 0..n] == IF i = 0 THEN t ELSE CycleOne(run[i - 1])
    IN run[n]

\* The distances of timer_advance_counts and timers_cycles_to_irq: a counter at
\* its target has a whole turn to go.
TargetDist(t) ==
    IF t.target = t.counter THEN M ELSE (t.target - t.counter) % M

OverflowDist(t) == M - t.counter

Smaller(a, b) == IF a < b THEN a ELSE b

\* The counts one turn of the loop applies.
Step(t, n) == Smaller(n, Smaller(TargetDist(t), OverflowDist(t)))

\* Mutant: the two events exclude each other.
LoopTurnExclusive ==
    /\ ticks > 0
    /\ LET s == Step(tm, ticks)
           u == [tm EXCEPT !.counter = (tm.counter + s) % M]
       IN tm' = IF s = TargetDist(tm) THEN AtTarget(u)
                ELSE IF s = OverflowDist(tm) THEN AtOverflow(u) ELSE u
    /\ ticks' = ticks - Step(tm, ticks)
    /\ UNCHANGED x

\* One turn of the loop of timer_advance_counts.
LoopTurn ==
    /\ ticks > 0
    /\ LET s == Step(tm, ticks)
           u == [tm EXCEPT !.counter = (tm.counter + s) % M]
           v == IF s = TargetDist(tm) THEN AtTarget(u) ELSE u
       IN tm' = IF s = OverflowDist(tm) THEN AtOverflow(v) ELSE v
    /\ ticks' = ticks - Step(tm, ticks)
    /\ UNCHANGED x

\* timers_advance, up to the loop: the fraction of a count is carried over.
AdvanceBegin(c) ==
    /\ ticks = 0
    /\ ticks' = (tm.frac + c) \div tm.mode.div
    /\ tm' = [tm EXCEPT !.frac = (tm.frac + c) % tm.mode.div, !.fires = 0]
    /\ x' = AfterCycles([x EXCEPT !.fires = 0], c)

----------------------------------------------------------------------------
(* Registers: every access happens between two advances. *)

\* timers_write, mode: the flags are cleared and the count restarts.
WithMode(t, m) ==
    [t EXCEPT !.mode = m, !.req = TRUE, !.tflag = FALSE, !.oflag = FALSE,
              !.counter = 0, !.line = FALSE, !.frac = 0]

WriteMode(m) ==
    /\ ticks = 0
    /\ tm' = WithMode(tm, m) /\ x' = WithMode(x, m)
    /\ UNCHANGED ticks

\* timers_write, counter.
WriteCounter(v) ==
    /\ ticks = 0
    /\ tm' = [tm EXCEPT !.counter = v] /\ x' = [x EXCEPT !.counter = v]
    /\ UNCHANGED ticks

\* timers_write, target.
WriteTarget(v) ==
    /\ ticks = 0
    /\ tm' = [tm EXCEPT !.target = v] /\ x' = [x EXCEPT !.target = v]
    /\ UNCHANGED ticks

\* timers_read, mode: reading clears the reached flags.
ReadMode ==
    /\ ticks = 0
    /\ tm' = [tm EXCEPT !.tflag = FALSE, !.oflag = FALSE]
    /\ x' = [x EXCEPT !.tflag = FALSE, !.oflag = FALSE]
    /\ UNCHANGED ticks

\* The guest acknowledges the interrupt in I_STAT.
AckIrq ==
    /\ ticks = 0
    /\ tm' = [tm EXCEPT !.irq = FALSE] /\ x' = [x EXCEPT !.irq = FALSE]
    /\ UNCHANGED ticks

Next ==
    \/ \E c \in Cycles : AdvanceBegin(c)
    \/ LoopTurn
    \/ \E m \in Mode : WriteMode(m)
    \/ \E v \in 0..(M - 1) : WriteCounter(v) \/ WriteTarget(v)
    \/ ReadMode \/ AckIrq

Spec == Init /\ [][Next]_vars

----------------------------------------------------------------------------
(* timers_cycles_to_irq. *)

Armed(t) == t.mode.irqT \/ t.mode.irqO

\* Mutant: the distance to the target is used when only the wrap is armed.
TicksToIrqTargetOnly(t) == TargetDist(t)

TicksToIrq(t) ==
    CASE t.mode.irqT /\ t.mode.irqO -> Smaller(TargetDist(t), OverflowDist(t))
      [] t.mode.irqT /\ ~ t.mode.irqO -> TargetDist(t)
      [] OTHER -> OverflowDist(t)

CyclesToIrq(t) == TicksToIrq(t) * t.mode.div - t.frac

----------------------------------------------------------------------------
(* Properties. *)

\* Stepping from event to event is counting cycle by cycle: whenever the guest
\* can look, the counter, its flags, the armed events, the toggled line and the
\* interrupt are the reference's, whatever the cycles were split into.
BulkIsCounting == ticks = 0 => tm = x

\* The carried fraction is below the divisor, also after the guest changes the
\* clock source: the prediction's subtraction never goes below one cycle.
FracBelowDivisor == tm.frac < tm.mode.div

\* One turn of the loop never jumps over an event: strictly inside it the counter
\* neither meets its target nor wraps.
NoEventSkipped ==
    ticks > 0 =>
        \A j \in 1..(Step(tm, ticks) - 1) :
            /\ (tm.counter + j) % M # tm.target
            /\ tm.counter + j < M

\* The loop ends: every turn applies at least one count.  The code's guard
\* against an empty step is never needed.
LoopProgresses == [][ticks > 0 => ticks' < ticks]_vars

\* The prediction is a safe bound and, unless the counter is reset before it gets
\* there, a tight one: with an event armed, nothing fires before the predicted
\* cycle, and something does at it.
PredictionIsExact ==
    ticks = 0 /\ Armed(tm) =>
        LET c == CyclesToIrq(tm)
            now == [x EXCEPT !.fires = 0]
            resetFirst == tm.mode.rst /\ TargetDist(tm) < TicksToIrq(tm)
        IN /\ c >= 1
           /\ AfterCycles(now, c - 1).fires = 0
           /\ ~ resetFirst => AfterCycles(now, c).fires > 0
=============================================================================
