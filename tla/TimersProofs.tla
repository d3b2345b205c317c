---------------------------- MODULE TimersProofs ----------------------------
(***************************************************************************)
(* Theorems about the root counter, for every width M, every set of        *)
(* divisors and every split of the cycles.  The first inductive invariant  *)
(* is the type of the counter together with the bound on the carried       *)
(* fraction; that a turn of the loop is neither empty nor skips an event   *)
(* then follows from the arithmetic of the two distances.  The second one  *)
(* relates the counter to the ghost that counts one by one: the bulk loop  *)
(* counts exactly, and the predicted interrupt is the next one.            *)
(***************************************************************************)
EXTENDS Timers, WellFoundedInduction, TLAPS

\* A count below a turn does not wrap.
LEMMA WrapSmall ==
    ASSUME NEW m \in Nat \ {0}, NEW c \in Nat, NEW j \in Nat, c + j < m
    PROVE  (c + j) % m = c + j
  OBVIOUS

\* A difference of two counts, as the unsigned subtraction wraps it.
LEMMA WrapDifference ==
    ASSUME NEW m \in Nat \ {0}, NEW g \in 0..(m - 1), NEW c \in 0..(m - 1)
    PROVE  (g - c) % m = IF g - c < 0 THEN g - c + m ELSE g - c
  OBVIOUS

\* The carried fraction and the whole counts of timer_advance_divided.
LEMMA DivModFacts ==
    ASSUME NEW d \in Nat \ {0}, NEW a \in Nat
    PROVE  /\ a \div d \in Nat
           /\ a % d \in Nat
           /\ a % d < d
  <1>1. a % d \in 0..(d - 1)
    OBVIOUS
  <1>2. a \div d \in Nat
    OBVIOUS
  <1> QED BY <1>1, <1>2

USE TimerAssumption

\* Both distances of timer_advance_counts lie between one count and a turn, and
\* the counter meets its target at the first of them and not before.
LEMMA DistFacts ==
    ASSUME NEW t \in Timer
    PROVE  /\ TargetDist(t) \in 1..M
           /\ OverflowDist(t) \in 1..M
           /\ \A j \in 1..(TargetDist(t) - 1) :
                t.counter + j < M => (t.counter + j) % M # t.target
  <1> DEFINE c == t.counter
             g == t.target
  <1>1. c \in 0..(M - 1) /\ g \in 0..(M - 1) /\ M \in Nat \ {0}
    BY DEF Timer
  <1>2. OverflowDist(t) \in 1..M
    BY <1>1 DEF OverflowDist
  <1>3. TargetDist(t) = IF g = c THEN M ELSE IF g - c < 0 THEN g - c + M ELSE g - c
    <2>1. (g - c) % M = IF g - c < 0 THEN g - c + M ELSE g - c
      <3> HIDE DEF c, g
      <3> QED BY <1>1, WrapDifference
    <2> QED BY <2>1 DEF TargetDist
  <1>4. TargetDist(t) \in 1..M
    BY <1>1, <1>3
  <1>5. ASSUME NEW j \in 1..(TargetDist(t) - 1), c + j < M
        PROVE  (c + j) % M # g
    <2>1. (c + j) % M = c + j
      <3>1. c \in Nat /\ j \in Nat /\ M \in Nat \ {0}
        BY <1>1, <1>4
      <3> HIDE DEF c
      <3> QED BY <1>5, <3>1, WrapSmall
    <2> QED BY <2>1, <1>1, <1>3, <1>5
  <1> QED BY <1>2, <1>4, <1>5

\* A turn of the loop applies at least one count and at most what is left, and
\* stays within both distances.
LEMMA StepFacts ==
    ASSUME NEW t \in Timer, NEW n \in Nat \ {0}
    PROVE  /\ Step(t, n) \in 1..n
           /\ Step(t, n) <= TargetDist(t)
           /\ Step(t, n) <= OverflowDist(t)
  <1>1. TargetDist(t) \in 1..M /\ OverflowDist(t) \in 1..M
    BY DistFacts
  <1> QED BY <1>1 DEF Step, Smaller

\* Firing changes no count, no divisor and no fraction.
LEMMA FiredTyped ==
    ASSUME NEW t \in Timer
    PROVE  /\ Fired(t) \in Timer
           /\ Fired(t).frac = t.frac
           /\ Fired(t).mode.div = t.mode.div
  <1> DEFINE up == ~ t.mode.tog \/ ~ t.line
             line == IF t.mode.tog THEN ~ t.line ELSE t.line
             req == ~ (t.mode.tog /\ up)
             irq == t.irq \/ up
             mode == [t.mode EXCEPT !.irqT = t.mode.irqT /\ t.mode.rep,
                                    !.irqO = t.mode.irqO /\ t.mode.rep]
  <1>1. /\ t.line \in BOOLEAN /\ t.irq \in BOOLEAN /\ t.mode \in Mode
        /\ t.mode.tog \in BOOLEAN /\ t.fires + 1 \in Nat
    BY DEF Timer, Mode
  <1>2. line \in BOOLEAN /\ req \in BOOLEAN /\ irq \in BOOLEAN
    BY <1>1
  <1>3. mode \in Mode /\ mode.div = t.mode.div
    BY <1>1 DEF Mode
  <1>4. Fired(t) = [t EXCEPT !.fires = t.fires + 1, !.line = line, !.req = req,
                             !.irq = irq, !.mode = mode]
    BY DEF Fired, Timer
  <1> HIDE DEF line, req, irq, mode
  <1> QED BY <1>1, <1>2, <1>3, <1>4 DEF Timer

\* Neither do the two events, but for the reset of the count.
LEMMA EventsTyped ==
    ASSUME NEW t \in Timer
    PROVE  /\ AtTarget(t) \in Timer
           /\ AtTarget(t).frac = t.frac
           /\ AtTarget(t).mode.div = t.mode.div
           /\ AtOverflow(t) \in Timer
           /\ AtOverflow(t).frac = t.frac
           /\ AtOverflow(t).mode.div = t.mode.div
  <1> DEFINE u == [t EXCEPT !.tflag = TRUE]
             w == [t EXCEPT !.oflag = TRUE]
  <1>1. u \in Timer /\ u.frac = t.frac /\ u.mode = t.mode
    BY DEF Timer
  <1>2. w \in Timer /\ w.frac = t.frac /\ w.mode = t.mode
    BY DEF Timer
  <1>3. /\ Fired(u) \in Timer /\ Fired(u).frac = t.frac
        /\ Fired(u).mode.div = t.mode.div
    BY <1>1, FiredTyped
  <1>4. /\ Fired(w) \in Timer /\ Fired(w).frac = t.frac
        /\ Fired(w).mode.div = t.mode.div
    BY <1>2, FiredTyped
  <1> DEFINE f == IF t.mode.irqT THEN Fired(u) ELSE u
  <1>5. f \in Timer /\ f.frac = t.frac /\ f.mode.div = t.mode.div
    BY <1>1, <1>3
  <1>6. AtTarget(t) = [f EXCEPT !.counter = IF t.mode.rst THEN 0 ELSE f.counter]
    BY DEF AtTarget
  <1> HIDE DEF f
  <1>7. /\ AtTarget(t) \in Timer /\ AtTarget(t).frac = t.frac
        /\ AtTarget(t).mode.div = t.mode.div
    BY <1>5, <1>6 DEF Timer
  <1>8. AtOverflow(t) = IF t.mode.irqO THEN Fired(w) ELSE w
    BY DEF AtOverflow
  <1> QED BY <1>2, <1>4, <1>7, <1>8

----------------------------------------------------------------------------
(* The reference, cycle by cycle, is a recursive function: its equations. *)

\* A non-empty set of naturals has a least element.
LEMMA LeastOfNat ==
    ASSUME NEW S, S \subseteq Nat, S # {}
    PROVE  \E i \in S : \A j \in S : i <= j
  <1> DEFINE R == OpToRel(<, Nat)
  <1>1. IsWellFoundedOn(R, Nat)
    BY NatLessThanWellFounded
  <1>2. \A i, j \in Nat : i < j => <<i, j>> \in R
    BY Zenon DEF OpToRel
  <1> HIDE DEF R
  <1>3. PICK i \in S : \A j \in S : ~ (<<j, i>> \in R)
    BY <1>1, WFMin
  <1>4. \A j \in S : ~ (j < i)
    BY <1>2, <1>3, Zenon
  <1> QED
    BY <1>4

\* Induction, with the property as the set of the numbers that have it.
LEMMA NatInduct ==
    ASSUME NEW S, 0 \in S, \A n \in Nat : n \in S => n + 1 \in S
    PROVE  \A n \in Nat : n \in S
  <1> DEFINE D == {n \in Nat : n \notin S}
  <1> SUFFICES ASSUME D # {} PROVE FALSE
    OBVIOUS
  <1>1. PICK m \in D : \A j \in D : m <= j
    BY LeastOfNat
  <1>2. m \in Nat /\ m # 0 /\ m \notin S
    OBVIOUS
  <1>3. m - 1 \in Nat
    BY <1>2
  <1>4. m - 1 \in S
    BY <1>1, <1>3
  <1>5. (m - 1) + 1 \in S
    BY <1>3, <1>4
  <1> QED BY <1>2, <1>5

\* g counts n cycles from t on.
IsRun(g, t, n) ==
    g \in [0..n -> Timer] /\ g[0] = t /\ \A i \in 1..n : g[i] = CycleOne(g[i - 1])

\* One count, and one cycle, keep the counter's type.
LEMMA TickTyped ==
    ASSUME NEW t \in Timer
    PROVE  /\ TickOne(t) \in Timer /\ TickOne(t).frac = t.frac
           /\ TickOne(t).mode.div = t.mode.div
  <1> DEFINE u == [t EXCEPT !.counter = (t.counter + 1) % M]
             v == IF u.counter = u.target THEN AtTarget(u) ELSE u
  <1>1. u \in Timer /\ u.frac = t.frac /\ u.mode.div = t.mode.div
    <2>1. t.counter + 1 \in Nat
      BY DEF Timer
    <2>2. (t.counter + 1) % M \in 0..(M - 1)
      BY <2>1, DivModFacts
    <2> QED BY <2>2 DEF Timer
  <1>2. v \in Timer /\ v.frac = t.frac /\ v.mode.div = t.mode.div
    <2> HIDE DEF u
    <2> QED BY <1>1, EventsTyped
  <1>3. TickOne(t) = IF t.counter = M - 1 THEN AtOverflow(v) ELSE v
    BY DEF TickOne
  <1> HIDE DEF v
  <1> QED BY <1>2, <1>3, EventsTyped

LEMMA CycleTyped ==
    ASSUME NEW t \in Timer
    PROVE  CycleOne(t) \in Timer
  <1>1. [t EXCEPT !.frac = t.frac + 1] \in Timer /\ [t EXCEPT !.frac = 0] \in Timer
    BY DEF Timer
  <1>2. TickOne([t EXCEPT !.frac = 0]) \in Timer
    BY <1>1, TickTyped
  <1> QED BY <1>1, <1>2 DEF CycleOne

LEMMA RunExists ==
    ASSUME NEW t \in Timer
    PROVE  \A n \in Nat : \E g : IsRun(g, t, n)
  <1> DEFINE S == {n \in Nat : \E g : IsRun(g, t, n)}
  <1>1. 0 \in S
    <2>1. IsRun([i \in 0..0 |-> t], t, 0)
      BY DEF IsRun
    <2> QED BY <2>1
  <1>2. ASSUME NEW n \in Nat, n \in S PROVE n + 1 \in S
    <2>1. PICK g : IsRun(g, t, n)
      BY <1>2
    <2> DEFINE h == [i \in 0..(n + 1) |-> IF i = n + 1 THEN CycleOne(g[n]) ELSE g[i]]
    <2>2. /\ g \in [0..n -> Timer] /\ g[0] = t /\ \A i \in 1..n : g[i] = CycleOne(g[i - 1])
      BY <2>1 DEF IsRun
    <2>3. CycleOne(g[n]) \in Timer
      BY <2>2, CycleTyped
    <2>4. h \in [0..(n + 1) -> Timer] /\ h[0] = t
      BY <2>2, <2>3
    <2>5. ASSUME NEW i \in 1..(n + 1) PROVE h[i] = CycleOne(h[i - 1])
      <3>1. CASE i = n + 1
        BY <3>1, <2>2
      <3>2. CASE i # n + 1
        BY <3>2, <2>2
      <3> QED BY <3>1, <3>2
    <2>6. IsRun(h, t, n + 1)
      <3> HIDE DEF h
      <3> QED BY <2>4, <2>5 DEF IsRun
    <2> QED BY <2>6
  <1> HIDE DEF S
  <1>3. \A n \in Nat : n \in S
    BY <1>1, <1>2, NatInduct
  <1> QED BY <1>3 DEF S

\* Two counts of the same cycles agree as far as both go.
LEMMA RunUnique ==
    ASSUME NEW t, NEW g, NEW h, NEW n \in Nat, g[0] = t, h[0] = t,
           \A i \in 1..n : g[i] = CycleOne(g[i - 1]),
           \A i \in 1..n : h[i] = CycleOne(h[i - 1])
    PROVE  \A i \in 0..n : g[i] = h[i]
  <1> DEFINE S == {i \in Nat : i <= n => g[i] = h[i]}
  <1>1. 0 \in S
    OBVIOUS
  <1>2. ASSUME NEW i \in Nat, i \in S PROVE i + 1 \in S
    <2> SUFFICES ASSUME i + 1 <= n PROVE g[i + 1] = h[i + 1]
      OBVIOUS
    <2>1. i + 1 \in 1..n /\ (i + 1) - 1 = i /\ g[i] = h[i]
      BY <1>2
    <2> QED BY <2>1
  <1> HIDE DEF S
  <1>3. \A i \in Nat : i \in S
    BY <1>1, <1>2, NatInduct
  <1> QED BY <1>3 DEF S

\* The recursion of AfterCycles is well founded: it has a value.
LEMMA AfterRun ==
    ASSUME NEW t \in Timer, NEW n \in Nat
    PROVE  \E g : IsRun(g, t, n) /\ AfterCycles(t, n) = g[n]
  <1> DEFINE Rec(g) == [i \in 0..n |-> IF i = 0 THEN t ELSE CycleOne(g[i - 1])]
             r == CHOOSE g : g = Rec(g)
  <1>1. PICK g : IsRun(g, t, n)
    BY RunExists
  <1>2. g \in [0..n -> Timer] /\ g[0] = t /\ \A i \in 1..n : g[i] = CycleOne(g[i - 1])
    BY <1>1 DEF IsRun
  <1>3. \A i \in 0..n : g[i] = Rec(g)[i]
    <2>1. ASSUME NEW i \in 0..n PROVE g[i] = Rec(g)[i]
      <3>1. CASE i = 0 BY <3>1, <1>2
      <3>2. CASE i # 0
        <4>1. i \in 1..n BY <3>2
        <4> QED BY <4>1, <3>2, <1>2
      <3> QED BY <3>1, <3>2
    <2> QED BY <2>1
  <1>4. g = Rec(g)
    <2>1. g = [i \in 0..n |-> g[i]]
      BY <1>2
    <2> QED BY <1>3, <2>1, Zenon
  <1>5. r = Rec(r)
    BY <1>4, Zenon
  <1>6. AfterCycles(t, n) = r[n]
    BY Zenon DEF AfterCycles
  <1> HIDE DEF r
  <1>7. r[0] = t /\ \A i \in 1..n : r[i] = CycleOne(r[i - 1])
    <2> DEFINE q == Rec(r)
    <2>1. q[0] = t /\ \A i \in 1..n : q[i] = CycleOne(r[i - 1])
      OBVIOUS
    <2> QED BY <2>1, <1>5, Zenon
  <1>8. \A i \in 0..n : g[i] = r[i]
    <2>1. g[0] = t /\ \A i \in 1..n : g[i] = CycleOne(g[i - 1])
      BY <1>2
    <2> QED BY <1>7, <2>1, RunUnique
  <1>9. g[n] = r[n]
    BY <1>8
  <1> QED BY <1>1, <1>6, <1>9

LEMMA AfterZero ==
    ASSUME NEW t \in Timer
    PROVE  AfterCycles(t, 0) = t
  <1>1. 0 \in Nat OBVIOUS
  <1> QED BY <1>1, AfterRun DEF IsRun

LEMMA AfterSucc ==
    ASSUME NEW t \in Timer, NEW n \in Nat
    PROVE  /\ AfterCycles(t, n) \in Timer
           /\ AfterCycles(t, n + 1) = CycleOne(AfterCycles(t, n))
  <1>0. n + 1 \in Nat
    OBVIOUS
  <1>1. PICK g : IsRun(g, t, n) /\ AfterCycles(t, n) = g[n]
    BY AfterRun
  <1>2. PICK h : IsRun(h, t, n + 1) /\ AfterCycles(t, n + 1) = h[n + 1]
    BY <1>0, AfterRun
  <1>3. /\ g[n] \in Timer /\ g[0] = t /\ \A i \in 1..n : g[i] = CycleOne(g[i - 1])
    BY <1>1 DEF IsRun
  <1>4. /\ h[0] = t /\ \A i \in 1..(n + 1) : h[i] = CycleOne(h[i - 1])
    BY <1>2 DEF IsRun
  <1>5. \A i \in 1..n : h[i] = CycleOne(h[i - 1])
    BY <1>4
  <1>6. g[n] = h[n]
    <2>1. \A i \in 0..n : g[i] = h[i]
      BY <1>3, <1>4, <1>5, RunUnique
    <2> QED BY <2>1
  <1>7. h[n + 1] = CycleOne(h[n])
    <2>1. n + 1 \in 1..(n + 1) /\ (n + 1) - 1 = n
      OBVIOUS
    <2> QED BY <2>1, <1>4
  <1> QED BY <1>1, <1>2, <1>3, <1>6, <1>7

\* m + n cycles are m cycles and then n.
LEMMA AfterSplit ==
    ASSUME NEW t \in Timer, NEW m \in Nat, NEW n \in Nat
    PROVE  AfterCycles(AfterCycles(t, m), n) = AfterCycles(t, m + n)
  <1> DEFINE y == AfterCycles(t, m)
             S == {k \in Nat : AfterCycles(y, k) = AfterCycles(t, m + k)}
  <1>1. y \in Timer
    BY AfterSucc
  <1>2. 0 \in S
    <2>1. AfterCycles(y, 0) = y
      <3> HIDE DEF y
      <3> QED BY <1>1, AfterZero
    <2>2. m + 0 = m
      OBVIOUS
    <2> QED BY <2>1, <2>2
  <1>3. ASSUME NEW k \in Nat, k \in S PROVE k + 1 \in S
    <2>1. AfterCycles(y, k) = AfterCycles(t, m + k)
      BY <1>3
    <2> HIDE DEF y
    <2>2. m + k \in Nat /\ k + 1 \in Nat /\ m + (k + 1) = (m + k) + 1
      OBVIOUS
    <2>3. AfterCycles(y, k + 1) = CycleOne(AfterCycles(y, k))
      BY <1>1, AfterSucc
    <2>4. AfterCycles(t, (m + k) + 1) = CycleOne(AfterCycles(t, m + k))
      BY <2>2, AfterSucc
    <2> QED BY <2>1, <2>2, <2>3, <2>4
  <1> HIDE DEF S
  <1>4. \A k \in Nat : k \in S
    BY <1>2, <1>3, NatInduct
  <1> QED BY <1>4 DEF S

----------------------------------------------------------------------------
(* A turn of the loop is as many cycles. *)

\* The counter with another fraction.
WithFrac(t, q) == [t EXCEPT !.frac = q]

\* What one turn of the loop makes of the counter, as in LoopTurn.
Turned(t, s) ==
    LET u == [t EXCEPT !.counter = (t.counter + s) % M]
        v == IF s = TargetDist(t) THEN AtTarget(u) ELSE u
    IN IF s = OverflowDist(t) THEN AtOverflow(v) ELSE v

LEMMA FracFacts ==
    ASSUME NEW t \in Timer, NEW q \in Nat
    PROVE  /\ WithFrac(t, q) \in Timer /\ WithFrac(t, q).frac = q
           /\ WithFrac(t, q).mode = t.mode /\ WithFrac(t, q).counter = t.counter
           /\ WithFrac(t, q).target = t.target /\ WithFrac(t, q).fires = t.fires
           /\ WithFrac(t, t.frac) = t
           /\ \A p \in Nat : WithFrac(WithFrac(t, p), q) = WithFrac(t, q)
  BY DEF WithFrac, Timer

\* The fields timer_fire_irq writes.
FiredTo(t, fires, line, req, irq, mode) ==
    [t EXCEPT !.fires = fires, !.line = line, !.req = req, !.irq = irq, !.mode = mode]

\* No event looks at the fraction.
LEMMA FiredFrame ==
    ASSUME NEW t \in Timer, NEW q \in Nat
    PROVE  Fired(WithFrac(t, q)) = WithFrac(Fired(t), q)
  <1> DEFINE up == ~ t.mode.tog \/ ~ t.line
             line == IF t.mode.tog THEN ~ t.line ELSE t.line
             req == ~ (t.mode.tog /\ up)
             irq == t.irq \/ up
             mode == [t.mode EXCEPT !.irqT = t.mode.irqT /\ t.mode.rep,
                                    !.irqO = t.mode.irqO /\ t.mode.rep]
             f == WithFrac(t, q)
             n == t.fires + 1
  <1>1. /\ f \in Timer /\ f.mode = t.mode /\ f.line = t.line /\ f.irq = t.irq /\ f.fires = t.fires
    BY DEF WithFrac, Timer
  <1>2. Fired(t) = FiredTo(t, n, line, req, irq, mode)
    BY DEF Fired, FiredTo, Timer
  <1>3. Fired(f) = FiredTo(f, n, line, req, irq, mode)
    <2> HIDE DEF f
    <2> QED BY <1>1 DEF Fired, FiredTo, Timer
  <1>4. ASSUME NEW a, NEW b, NEW c, NEW d, NEW e
        PROVE  FiredTo(f, a, b, c, d, e) = WithFrac(FiredTo(t, a, b, c, d, e), q)
    BY DEF WithFrac, FiredTo, Timer
  <1> HIDE DEF line, req, irq, mode, f, n
  <1> QED BY <1>2, <1>3, <1>4, Zenon DEF f

LEMMA EventsFrame ==
    ASSUME NEW t \in Timer, NEW q \in Nat
    PROVE  /\ AtTarget(WithFrac(t, q)) = WithFrac(AtTarget(t), q)
           /\ AtOverflow(WithFrac(t, q)) = WithFrac(AtOverflow(t), q)
  <1> DEFINE f == WithFrac(t, q)
             u == [t EXCEPT !.tflag = TRUE]
             w == [t EXCEPT !.oflag = TRUE]
  <1>1. f \in Timer /\ f.mode = t.mode
    BY FracFacts
  <1>2. [f EXCEPT !.tflag = TRUE] = WithFrac(u, q) /\ [f EXCEPT !.oflag = TRUE] = WithFrac(w, q)
    BY DEF WithFrac, Timer
  <1>3. u \in Timer /\ w \in Timer
    BY DEF Timer
  <1>4. Fired(WithFrac(u, q)) = WithFrac(Fired(u), q) /\ Fired(WithFrac(w, q)) = WithFrac(Fired(w), q)
    <2> HIDE DEF u, w
    <2> QED BY <1>3, FiredFrame
  <1> DEFINE a == IF t.mode.irqT THEN Fired(u) ELSE u
  <1>5. a \in Timer
    <2> HIDE DEF u
    <2> QED BY <1>3, FiredTyped
  <1>6. AtTarget(t) = [a EXCEPT !.counter = IF t.mode.rst THEN 0 ELSE a.counter]
    BY DEF AtTarget
  <1>7. AtTarget(f) = [WithFrac(a, q) EXCEPT !.counter = IF t.mode.rst THEN 0 ELSE WithFrac(a, q).counter]
    <2> HIDE DEF f, u
    <2>1. WithFrac(a, q) = IF f.mode.irqT THEN Fired([f EXCEPT !.tflag = TRUE])
                           ELSE [f EXCEPT !.tflag = TRUE]
      BY <1>1, <1>2, <1>4
    <2> HIDE DEF a
    <2> QED BY <2>1, <1>1, Zenon DEF AtTarget
  <1>8. AtTarget(f) = WithFrac(AtTarget(t), q)
    <2> HIDE DEF a, f
    <2>1. WithFrac(a, q).counter = a.counter
      BY <1>5, FracFacts
    <2>2. ASSUME NEW k
          PROVE  [WithFrac(a, q) EXCEPT !.counter = k] = WithFrac([a EXCEPT !.counter = k], q)
      BY <1>5 DEF WithFrac, Timer
    <2> QED BY <2>1, <2>2, <1>6, <1>7
  <1>9. AtOverflow(f) = WithFrac(AtOverflow(t), q)
    <2> HIDE DEF f, w
    <2> QED BY <1>1, <1>2, <1>4, Zenon DEF AtOverflow, w
  <1> QED BY <1>8, <1>9

LEMMA TurnedFrame ==
    ASSUME NEW t \in Timer, NEW q \in Nat, NEW s \in Nat
    PROVE  /\ Turned(t, s) \in Timer
           /\ Turned(t, s).mode.div = t.mode.div /\ Turned(t, s).frac = t.frac
           /\ Turned(WithFrac(t, q), s) = WithFrac(Turned(t, s), q)
  <1> DEFINE f == WithFrac(t, q)
             k == (t.counter + s) % M
             u == [t EXCEPT !.counter = k]
             v == IF s = TargetDist(t) THEN AtTarget(u) ELSE u
             uf == [f EXCEPT !.counter = k]
             vf == IF s = TargetDist(t) THEN AtTarget(uf) ELSE uf
  <1>1. f \in Timer /\ f.counter = t.counter /\ f.target = t.target
    BY FracFacts
  <1>2. k \in 0..(M - 1)
    <2>1. t.counter + s \in Nat
      BY DEF Timer
    <2> QED BY <2>1, DivModFacts
  <1>3. TargetDist(f) = TargetDist(t) /\ OverflowDist(f) = OverflowDist(t)
    BY <1>1 DEF TargetDist, OverflowDist
  <1>4. Turned(t, s) = IF s = OverflowDist(t) THEN AtOverflow(v) ELSE v
    BY DEF Turned
  <1>5. Turned(f, s) = IF s = OverflowDist(t) THEN AtOverflow(vf) ELSE vf
    <2> HIDE DEF f
    <2> QED BY <1>1, <1>3 DEF Turned
  <1> HIDE DEF k
  <1>6. u \in Timer /\ uf = WithFrac(u, q) /\ u.mode.div = t.mode.div /\ u.frac = t.frac
    BY <1>2 DEF Timer, WithFrac
  <1> HIDE DEF u, uf, f
  <1>7. v \in Timer /\ vf = WithFrac(v, q) /\ v.mode.div = t.mode.div /\ v.frac = t.frac
    BY <1>6, EventsTyped, EventsFrame
  <1> HIDE DEF v, vf
  <1>8. /\ AtOverflow(v) \in Timer /\ AtOverflow(v).mode.div = t.mode.div
        /\ AtOverflow(v).frac = t.frac /\ AtOverflow(vf) = WithFrac(AtOverflow(v), q)
    BY <1>7, EventsTyped, EventsFrame
  <1> QED BY <1>4, <1>5, <1>7, <1>8 DEF f

\* Less than a count only moves the fraction.
LEMMA FracRun ==
    ASSUME NEW t \in Timer, t.frac = 0, NEW i \in Nat, i < t.mode.div
    PROVE  AfterCycles(t, i) = WithFrac(t, i)
  <1> DEFINE S == {k \in Nat : k < t.mode.div => AfterCycles(t, k) = WithFrac(t, k)}
  <1>0. t.mode.div \in Nat
    BY DEF Timer, Mode
  <1>1. 0 \in S
    <2>1. AfterCycles(t, 0) = t
      BY AfterZero
    <2>2. WithFrac(t, 0) = t
      BY FracFacts
    <2> QED BY <2>1, <2>2
  <1>2. ASSUME NEW k \in Nat, k \in S PROVE k + 1 \in S
    <2> SUFFICES ASSUME k + 1 < t.mode.div
                 PROVE  AfterCycles(t, k + 1) = WithFrac(t, k + 1)
      OBVIOUS
    <2>1. AfterCycles(t, k) = WithFrac(t, k)
      BY <1>0, <1>2
    <2>2. AfterCycles(t, k + 1) = CycleOne(WithFrac(t, k))
      BY <2>1, AfterSucc
    <2> DEFINE f == WithFrac(t, k)
    <2>3. f \in Timer /\ f.frac = k /\ f.mode = t.mode
      BY FracFacts
    <2>4. CycleOne(f) = WithFrac(f, k + 1)
      <3> HIDE DEF f
      <3> QED BY <2>3 DEF CycleOne, WithFrac
    <2>5. WithFrac(f, k + 1) = WithFrac(t, k + 1)
      <3>1. k + 1 \in Nat
        OBVIOUS
      <3> QED BY <3>1, FracFacts
    <2> QED BY <2>2, <2>4, <2>5
  <1> HIDE DEF S
  <1>3. \A k \in Nat : k \in S
    BY <1>1, <1>2, NatInduct
  <1> QED BY <1>3 DEF S

\* A count takes the cycles of the divisor.
LEMMA OneTick ==
    ASSUME NEW t \in Timer, t.frac = 0
    PROVE  AfterCycles(t, t.mode.div) = TickOne(t)
  <1> DEFINE d == t.mode.div
             k == d - 1
             f == WithFrac(t, k)
  <1>0. d \in Nat \ {0}
    BY DEF Timer, Mode
  <1> HIDE DEF d
  <1>1. k \in Nat /\ k + 1 = d /\ k < d
    BY <1>0
  <1>2. AfterCycles(t, k) = f
    BY <1>1, FracRun DEF d
  <1>3. AfterCycles(t, k + 1) = CycleOne(f)
    <2> HIDE DEF k
    <2> QED BY <1>1, <1>2, AfterSucc
  <1>4. f \in Timer /\ f.frac = k /\ f.mode = t.mode /\ WithFrac(f, 0) = t
    <2>1. 0 \in Nat /\ WithFrac(t, 0) = t
      BY FracFacts
    <2> QED BY <1>1, <2>1, FracFacts
  <1> HIDE DEF f
  <1>5. CycleOne(f) = TickOne(WithFrac(f, 0))
    BY <1>0, <1>1, <1>4 DEF CycleOne, WithFrac, d
  <1> QED BY <1>1, <1>3, <1>4, <1>5 DEF d

\* The counter with another count.
WithCount(t, k) == [t EXCEPT !.counter = k]

LEMMA CountFacts ==
    ASSUME NEW t \in Timer, NEW k \in 0..(M - 1)
    PROVE  /\ WithCount(t, k) \in Timer /\ WithCount(t, k).counter = k
           /\ WithCount(t, k).mode = t.mode /\ WithCount(t, k).frac = t.frac
           /\ WithCount(t, k).target = t.target /\ WithCount(t, k).fires = t.fires
           /\ WithCount(t, t.counter) = t
           /\ \A l : WithCount(WithCount(t, k), l) = WithCount(t, l)
  BY DEF WithCount, Timer

\* A sum of less than two turns.
LEMMA WrapSum ==
    ASSUME NEW m \in Nat \ {0}, NEW a \in Nat, a < m + m
    PROVE  a % m = IF a < m THEN a ELSE a - m
  <1>1. CASE a < m
    BY <1>1
  <1>2. CASE a >= m
    <2>1. (a - m) + m = a /\ a - m \in 0..(m - 1)
      BY <1>2
    <2> QED BY <1>2, <2>1
  <1> QED BY <1>1, <1>2

\* The counter meets its target after the target's distance, and not before.
LEMMA MeetsTarget ==
    ASSUME NEW t \in Timer, NEW s \in 1..TargetDist(t)
    PROVE  (t.counter + s) % M = t.target <=> s = TargetDist(t)
  <1> DEFINE c == t.counter
             g == t.target
  <1>1. c \in 0..(M - 1) /\ g \in 0..(M - 1) /\ M \in Nat \ {0}
    BY DEF Timer
  <1>2. TargetDist(t) \in 1..M
    BY DistFacts
  <1>3. TargetDist(t) = IF g = c THEN M ELSE IF g - c < 0 THEN g - c + M ELSE g - c
    <2>1. (g - c) % M = IF g - c < 0 THEN g - c + M ELSE g - c
      <3> HIDE DEF c, g
      <3> QED BY <1>1, WrapDifference
    <2> QED BY <2>1 DEF TargetDist
  <1>4. (c + s) % M = IF c + s < M THEN c + s ELSE c + s - M
    <2>1. c + s \in Nat /\ c + s < M + M
      BY <1>1, <1>2
    <2> QED BY <1>1, <2>1, WrapSum
  <1> HIDE DEF c, g
  <1>5. (c + s) % M = g <=> s = TargetDist(t)
    BY <1>1, <1>2, <1>3, <1>4
  <1> QED BY <1>5 DEF c, g

\* The last count of a turn is the turn: the comparisons of timer_tick_one with
\* the target and the top are those of the loop with the two distances.
LEMMA TickIsTurn ==
    ASSUME NEW t \in Timer, NEW j \in Nat, j + 1 <= TargetDist(t), j + 1 <= OverflowDist(t)
    PROVE  TickOne(WithCount(t, t.counter + j)) = Turned(t, j + 1)
  <1> DEFINE c == t.counter
             y == WithCount(t, c + j)
             k == (c + (j + 1)) % M
             u == WithCount(t, k)
             v == IF k = t.target THEN AtTarget(u) ELSE u
  <1>1. c \in 0..(M - 1) /\ c + j \in 0..(M - 1) /\ (c + j) + 1 = c + (j + 1) /\ c + (j + 1) \in Nat
    BY DEF OverflowDist, Timer
  <1>2. y \in Timer /\ y.counter = c + j /\ \A l : WithCount(y, l) = WithCount(t, l)
    <2> HIDE DEF c
    <2> QED BY <1>1, CountFacts
  <1>3. k \in 0..(M - 1)
    <2> HIDE DEF c
    <2> QED BY <1>1, DivModFacts
  <1>4. (y.counter + 1) % M = k
    <2> HIDE DEF y, c
    <2> QED BY <1>1, <1>2
  <1> HIDE DEF k
  <1>5. u \in Timer /\ u.counter = k /\ u.target = t.target
    BY <1>3, CountFacts
  <1>6. TickOne(y) = IF y.counter = M - 1 THEN AtOverflow(v) ELSE v
    <2>1. u = [y EXCEPT !.counter = (y.counter + 1) % M]
      <3>1. u = WithCount(y, k)
        BY <1>2
      <3> HIDE DEF u, y
      <3> QED BY <3>1, <1>4 DEF WithCount
    <2> HIDE DEF u, y
    <2> QED BY <2>1, <1>5 DEF TickOne
  <1>7. y.counter = M - 1 <=> j + 1 = OverflowDist(t)
    <2> HIDE DEF y
    <2> QED BY <1>1, <1>2 DEF OverflowDist
  <1>8. k = t.target <=> j + 1 = TargetDist(t)
    <2>1. j + 1 \in 1..TargetDist(t)
      BY DistFacts
    <2> QED BY <2>1, MeetsTarget DEF k
  <1>9. Turned(t, j + 1) = IF j + 1 = OverflowDist(t) THEN AtOverflow(v) ELSE v
    <2>1. v = IF j + 1 = TargetDist(t) THEN AtTarget(u) ELSE u
      <3> HIDE DEF u
      <3> QED BY <1>8
    <2> HIDE DEF v
    <2> QED BY <2>1 DEF Turned, WithCount, k
  <1> HIDE DEF v, y
  <1> QED BY <1>6, <1>7, <1>9 DEF y

\* One more count is the cycles of the divisor more.
LEMMA TickAfter ==
    ASSUME NEW t \in Timer, NEW j \in Nat, NEW z, AfterCycles(t, j * t.mode.div) = z,
           z.frac = 0, z.mode.div = t.mode.div
    PROVE  z \in Timer /\ AfterCycles(t, (j + 1) * t.mode.div) = TickOne(z)
  <1> DEFINE d == t.mode.div
  <1>1. d \in Nat
    BY DEF Timer, Mode
  <1> HIDE DEF d
  <1>2. j * d \in Nat /\ (j + 1) * d = (j * d) + d
    BY <1>1
  <1>3. z \in Timer
    BY <1>2, AfterSucc DEF d
  <1>4. AfterCycles(z, d) = TickOne(z)
    BY <1>3, OneTick DEF d
  <1>5. AfterCycles(AfterCycles(t, j * d), d) = AfterCycles(t, (j * d) + d)
    BY <1>1, <1>2, AfterSplit
  <1> QED BY <1>2, <1>3, <1>4, <1>5 DEF d

\* Short of both distances nothing but the count changes.
LEMMA QuietTicks ==
    ASSUME NEW t \in Timer, t.frac = 0
    PROVE  \A j \in Nat : j < TargetDist(t) /\ j < OverflowDist(t)
                => AfterCycles(t, j * t.mode.div) = WithCount(t, t.counter + j)
  <1> DEFINE S == {j \in Nat : j < TargetDist(t) /\ j < OverflowDist(t)
                     => AfterCycles(t, j * t.mode.div) = WithCount(t, t.counter + j)}
  <1>0. /\ TargetDist(t) \in 1..M /\ OverflowDist(t) \in 1..M
        /\ t.counter \in 0..(M - 1) /\ t.mode.div \in Nat
    BY DistFacts DEF Timer, Mode
  <1>1. 0 \in S
    <2>1. 0 * t.mode.div = 0 /\ t.counter + 0 = t.counter
      BY <1>0
    <2>2. AfterCycles(t, 0) = t /\ WithCount(t, t.counter) = t
      BY <1>0, AfterZero, CountFacts
    <2> QED BY <2>1, <2>2
  <1>2. ASSUME NEW j \in Nat, j \in S PROVE j + 1 \in S
    <2> SUFFICES ASSUME j + 1 < TargetDist(t), j + 1 < OverflowDist(t)
                 PROVE  AfterCycles(t, (j + 1) * t.mode.div) = WithCount(t, t.counter + (j + 1))
      OBVIOUS
    <2> DEFINE z == WithCount(t, t.counter + j)
    <2>1. AfterCycles(t, j * t.mode.div) = z
      BY <1>0, <1>2
    <2>2. z.frac = 0 /\ z.mode.div = t.mode.div
      <3>1. t.counter + j \in 0..(M - 1)
        BY <1>0 DEF OverflowDist
      <3> QED BY <3>1, CountFacts
    <2>3. AfterCycles(t, (j + 1) * t.mode.div) = TickOne(z)
      <3> HIDE DEF z
      <3> QED BY <2>1, <2>2, TickAfter
    <2>4. TickOne(z) = Turned(t, j + 1)
      <3>1. j + 1 <= TargetDist(t) /\ j + 1 <= OverflowDist(t)
        BY <1>0
      <3> QED BY <3>1, TickIsTurn
    <2>5. Turned(t, j + 1) = WithCount(t, (t.counter + (j + 1)) % M)
      <3>1. j + 1 # TargetDist(t) /\ j + 1 # OverflowDist(t)
        BY <1>0
      <3> QED BY <3>1 DEF Turned, WithCount
    <2>6. (t.counter + (j + 1)) % M = t.counter + (j + 1)
      <3>1. t.counter + (j + 1) < M /\ j + 1 \in Nat /\ t.counter \in Nat
        BY <1>0 DEF OverflowDist
      <3> QED BY <3>1, WrapSmall
    <2> QED BY <2>3, <2>4, <2>5, <2>6
  <1> HIDE DEF S
  <1>3. \A j \in Nat : j \in S
    BY <1>1, <1>2, NatInduct
  <1> QED BY <1>3 DEF S

\* One turn of the loop of timer_advance_counts is its counts, each of as many
\* cycles as the divisor, counted one by one.
LEMMA TurnIsCycles ==
    ASSUME NEW t \in Timer, t.frac = 0, NEW s \in Nat \ {0},
           s <= TargetDist(t), s <= OverflowDist(t)
    PROVE  AfterCycles(t, s * t.mode.div) = Turned(t, s)
  <1> DEFINE j == s - 1
             z == WithCount(t, t.counter + j)
  <1>1. j \in Nat /\ j + 1 = s
    OBVIOUS
  <1> HIDE DEF j
  <1>2. TargetDist(t) \in 1..M /\ OverflowDist(t) \in 1..M /\ t.counter \in 0..(M - 1)
    BY DistFacts DEF Timer
  <1>3. j < TargetDist(t) /\ j < OverflowDist(t) /\ t.counter + j \in 0..(M - 1)
    BY <1>1, <1>2 DEF OverflowDist
  <1>4. AfterCycles(t, j * t.mode.div) = z
    BY <1>1, <1>3, QuietTicks
  <1>5. z.frac = 0 /\ z.mode.div = t.mode.div
    BY <1>3, CountFacts
  <1>6. AfterCycles(t, (j + 1) * t.mode.div) = TickOne(z)
    <2> HIDE DEF z
    <2> QED BY <1>1, <1>4, <1>5, TickAfter
  <1>7. TickOne(z) = Turned(t, j + 1)
    BY <1>1, TickIsTurn
  <1> QED BY <1>1, <1>6, <1>7

----------------------------------------------------------------------------

\* The inductive invariant.
TimerInv == TypeOK /\ FracBelowDivisor

LEMMA InitInv == Init => TimerInv
  BY DEF Init, TimerInv, TypeOK, FracBelowDivisor, Timer, Mode

\* One turn of the loop keeps the counter within its width.
LEMMA LoopTurnInv == TimerInv /\ LoopTurn => TimerInv'
  <1> SUFFICES ASSUME TimerInv, LoopTurn PROVE TimerInv'
    OBVIOUS
  <1> DEFINE s == Step(tm, ticks)
             u == [tm EXCEPT !.counter = (tm.counter + s) % M]
             v == IF s = TargetDist(tm) THEN AtTarget(u) ELSE u
  <1>1. tm \in Timer /\ ticks \in Nat \ {0} /\ tm.frac < tm.mode.div
    BY DEF TimerInv, TypeOK, FracBelowDivisor, LoopTurn
  <1>2. s \in 1..ticks /\ s \in Nat
    BY <1>1, StepFacts
  <1>3. (tm.counter + s) % M \in 0..(M - 1)
    <2>1. tm.counter + s \in Nat
      BY <1>1, <1>2 DEF Timer
    <2> HIDE DEF s
    <2> QED BY <2>1, DivModFacts
  <1>4. u \in Timer /\ u.frac = tm.frac /\ u.mode.div = tm.mode.div
    <2> HIDE DEF s
    <2> QED BY <1>1, <1>3 DEF Timer
  <1>5. v \in Timer /\ v.frac = tm.frac /\ v.mode.div = tm.mode.div
    <2> HIDE DEF u, s
    <2> QED BY <1>4, EventsTyped
  <1>6. tm' = IF s = OverflowDist(tm) THEN AtOverflow(v) ELSE v
    BY DEF LoopTurn
  <1>7. ticks' = ticks - s
    BY DEF LoopTurn
  <1> HIDE DEF s, u, v
  <1>8. tm' \in Timer /\ tm'.frac = tm.frac /\ tm'.mode.div = tm.mode.div
    BY <1>5, <1>6, EventsTyped
  <1>9. ticks' \in Nat
    BY <1>1, <1>2, <1>7
  <1> QED BY <1>1, <1>8, <1>9 DEF TimerInv, TypeOK, FracBelowDivisor

\* The fraction is carried below the divisor.
LEMMA AdvanceInv ==
    ASSUME TimerInv, NEW c \in Cycles, AdvanceBegin(c)
    PROVE  TimerInv'
  <1>1. tm \in Timer /\ tm.frac \in Nat /\ tm.mode.div \in Nat \ {0} /\ c \in Nat
    BY DEF TimerInv, TypeOK, Timer, Mode
  <1> DEFINE a == tm.frac + c
             d == tm.mode.div
  <1>2. a \div d \in Nat /\ a % d \in Nat /\ a % d < d
    <2>1. a \in Nat /\ d \in Nat \ {0}
      BY <1>1
    <2> HIDE DEF a, d
    <2> QED BY <2>1, DivModFacts
  <1>3. ticks' = a \div d /\ tm' = [tm EXCEPT !.frac = a % d, !.fires = 0]
    BY DEF AdvanceBegin
  <1> HIDE DEF a, d
  <1>4. tm' \in Timer /\ tm'.frac = a % d /\ tm'.mode = tm.mode
    BY <1>1, <1>2, <1>3 DEF Timer
  <1>5. tm'.frac < tm'.mode.div
    BY <1>2, <1>4 DEF d
  <1> QED BY <1>2, <1>3, <1>4, <1>5 DEF TimerInv, TypeOK, FracBelowDivisor

LEMMA StepInv == TimerInv /\ [Next]_vars => TimerInv'
  <1> SUFFICES ASSUME TimerInv, [Next]_vars PROVE TimerInv'
    OBVIOUS
  <1>0. tm \in Timer /\ ticks \in Nat /\ tm.frac < tm.mode.div
    BY DEF TimerInv, TypeOK, FracBelowDivisor
  <1>1. ASSUME NEW c \in Cycles, AdvanceBegin(c) PROVE TimerInv'
    BY <1>1, AdvanceInv
  <1>2. CASE LoopTurn
    BY <1>2, LoopTurnInv
  <1>3. ASSUME NEW m \in Mode, WriteMode(m) PROVE TimerInv'
    <2>0. 0 \in 0..(M - 1)
      OBVIOUS
    <2>1. /\ tm' = [tm EXCEPT !.mode = m, !.req = TRUE, !.tflag = FALSE, !.oflag = FALSE,
                              !.counter = 0, !.line = FALSE, !.frac = 0]
          /\ tm' \in Timer /\ tm'.frac = 0 /\ tm'.mode = m
      BY <1>0, <1>3, <2>0 DEF WriteMode, WithMode, Timer
    <2>2. m.div \in Nat \ {0}
      BY DEF Mode
    <2> QED BY <2>1, <2>2, <1>0, <1>3 DEF WriteMode, TimerInv, TypeOK, FracBelowDivisor
  <1>4. ASSUME NEW v \in 0..(M - 1), WriteCounter(v) \/ WriteTarget(v) PROVE TimerInv'
    <2>1. tm' \in Timer /\ tm'.frac = tm.frac /\ tm'.mode = tm.mode /\ ticks' = ticks
      BY <1>0, <1>4 DEF WriteCounter, WriteTarget, Timer
    <2> QED BY <2>1, <1>0 DEF TimerInv, TypeOK, FracBelowDivisor
  <1>5. CASE ReadMode \/ AckIrq
    <2>1. tm' \in Timer /\ tm'.frac = tm.frac /\ tm'.mode = tm.mode /\ ticks' = ticks
      BY <1>0, <1>5 DEF ReadMode, AckIrq, Timer
    <2> QED BY <2>1, <1>0 DEF TimerInv, TypeOK, FracBelowDivisor
  <1>6. CASE UNCHANGED vars
    BY <1>6 DEF vars, TimerInv, TypeOK, FracBelowDivisor
  <1> QED BY <1>1, <1>2, <1>3, <1>4, <1>5, <1>6 DEF Next

\* timers.c keeps every counter within its width and every fraction a natural.
THEOREM TimerTyped == Spec => []TypeOK
  <1>1. TimerInv => TypeOK
    BY DEF TimerInv
  <1> QED BY <1>1, InitInv, StepInv, PTL DEF Spec

\* The fraction timer_advance_divided carries stays below the divisor of the
\* source in force, so timers_cycles_to_irq never has to clamp its result to zero.
THEOREM FractionBounded == Spec => []FracBelowDivisor
  <1>1. TimerInv => FracBelowDivisor
    BY DEF TimerInv
  <1> QED BY <1>1, InitInv, StepInv, PTL DEF Spec

\* A turn of the loop of timer_advance_counts never jumps over a target match or
\* a wrap, for any width of the counter.
THEOREM BulkSkipsNothing == Spec => []NoEventSkipped
  <1>1. TimerInv => NoEventSkipped
    <2> SUFFICES ASSUME TimerInv, ticks > 0,
                        NEW j \in 1..(Step(tm, ticks) - 1)
                 PROVE  (tm.counter + j) % M # tm.target /\ tm.counter + j < M
      BY DEF NoEventSkipped
    <2>1. tm \in Timer /\ ticks \in Nat \ {0}
      BY DEF TimerInv, TypeOK
    <2>2. /\ Step(tm, ticks) \in 1..ticks
          /\ Step(tm, ticks) <= TargetDist(tm)
          /\ Step(tm, ticks) <= OverflowDist(tm)
      BY <2>1, StepFacts
    <2>3. TargetDist(tm) \in 1..M
      BY <2>1, DistFacts
    <2>4. j \in 1..(TargetDist(tm) - 1) /\ j < M - tm.counter
      BY <2>1, <2>2, <2>3 DEF OverflowDist, Timer
    <2>5. tm.counter + j < M
      BY <2>1, <2>4 DEF Timer
    <2> QED BY <2>1, <2>4, <2>5, DistFacts
  <1> QED BY <1>1, InitInv, StepInv, PTL DEF Spec

\* Every turn of the loop applies at least one count: the loop ends, and the
\* code's "if (step == 0) step = 1" is never taken.
THEOREM LoopMakesProgress == Spec => LoopProgresses
  <1>1. TimerInv /\ [Next]_vars => [ticks > 0 => ticks' < ticks]_vars
    <2> SUFFICES ASSUME TimerInv, Next, ticks > 0 PROVE ticks' < ticks
      OBVIOUS
    <2>1. tm \in Timer /\ ticks \in Nat \ {0}
      BY DEF TimerInv, TypeOK
    <2>2. LoopTurn
      <3>1. ticks # 0
        BY <2>1
      <3> QED BY <3>1 DEF Next, AdvanceBegin, WriteMode, WriteCounter, WriteTarget,
                          ReadMode, AckIrq
    <2>3. Step(tm, ticks) \in 1..ticks /\ ticks' = ticks - Step(tm, ticks)
      BY <2>1, <2>2, StepFacts DEF LoopTurn
    <2> QED BY <2>1, <2>3
  <1> QED BY <1>1, InitInv, StepInv, PTL DEF Spec, LoopProgresses

----------------------------------------------------------------------------
(* The loop against the reference. *)

\* Counting the counts the loop has left, and the fraction it carries, from the
\* counter as it is gives the reference.
Owed == (ticks * tm.mode.div) + tm.frac

CountInv == x = AfterCycles(WithFrac(tm, 0), Owed)

\* With nothing left the two counters are the same.
LEMMA NothingOwed ==
    ASSUME tm \in Timer, tm.frac < tm.mode.div, CountInv, ticks = 0
    PROVE  x = tm
  <1> DEFINE t == WithFrac(tm, 0)
             f == tm.frac
  <1>1. t \in Timer /\ t.frac = 0 /\ t.mode = tm.mode /\ f \in Nat /\ WithFrac(t, f) = tm
    <2>1. f \in Nat
      BY DEF Timer
    <2>2. WithFrac(WithFrac(tm, 0), f) = WithFrac(tm, f) /\ WithFrac(tm, f) = tm
      BY <2>1, FracFacts
    <2> QED BY <2>1, <2>2, FracFacts
  <1>2. Owed = f
    <2>1. tm.mode.div \in Nat
      BY DEF Timer, Mode
    <2> QED BY <1>1, <2>1 DEF Owed
  <1>3. AfterCycles(t, f) = WithFrac(t, f)
    <2> HIDE DEF t
    <2> QED BY <1>1, FracRun
  <1> QED BY <1>1, <1>2, <1>3 DEF CountInv

\* The reverse, for any counter: so an advance may start from any fraction.
LEMMA FromFraction ==
    ASSUME NEW t \in Timer, t.frac < t.mode.div, NEW n \in Nat
    PROVE  AfterCycles(t, n) = AfterCycles(WithFrac(t, 0), t.frac + n)
  <1> DEFINE z == WithFrac(t, 0)
             f == t.frac
  <1>1. f \in Nat
    BY DEF Timer
  <1>2. z \in Timer /\ z.frac = 0 /\ z.mode = t.mode /\ WithFrac(z, f) = t
    <2>1. WithFrac(WithFrac(t, 0), f) = WithFrac(t, f) /\ WithFrac(t, f) = t
      BY <1>1, FracFacts
    <2> QED BY <2>1, FracFacts
  <1> HIDE DEF z
  <1>3. AfterCycles(z, f) = WithFrac(z, f)
    BY <1>1, <1>2, FracRun
  <1>4. AfterCycles(AfterCycles(z, f), n) = AfterCycles(z, f + n)
    BY <1>1, <1>2, AfterSplit
  <1> QED BY <1>2, <1>3, <1>4 DEF z

LEMMA LoopTurnCounts ==
    ASSUME TimerInv, CountInv, LoopTurn
    PROVE  CountInv'
  <1> DEFINE s == Step(tm, ticks)
             d == tm.mode.div
             f == tm.frac
             z == WithFrac(tm, 0)
  <1>1. tm \in Timer /\ ticks \in Nat \ {0} /\ d \in Nat /\ f \in Nat
    <2>1. tm \in Timer /\ ticks \in Nat \ {0}
      BY DEF TimerInv, TypeOK, LoopTurn
    <2> QED BY <2>1 DEF Timer, Mode
  <1>2. s \in 1..ticks /\ s <= TargetDist(tm) /\ s <= OverflowDist(tm)
    BY <1>1, StepFacts
  <1>3. tm' = Turned(tm, s) /\ ticks' = ticks - s /\ x' = x
    BY DEF LoopTurn, Turned
  <1> HIDE DEF s
  <1>4. z \in Timer /\ z.frac = 0 /\ z.mode = tm.mode
        /\ z.counter = tm.counter /\ z.target = tm.target
    BY <1>1, FracFacts
  <1>5. TargetDist(z) = TargetDist(tm) /\ OverflowDist(z) = OverflowDist(tm)
    <2> HIDE DEF z
    <2> QED BY <1>4 DEF TargetDist, OverflowDist
  <1>6. AfterCycles(z, s * d) = Turned(z, s)
    <2>1. s \in Nat \ {0} /\ s <= TargetDist(z) /\ s <= OverflowDist(z) /\ d = z.mode.div
      BY <1>1, <1>2, <1>4, <1>5
    <2> HIDE DEF z, d
    <2> QED BY <1>4, <2>1, TurnIsCycles
  <1>7. /\ Turned(z, s) = WithFrac(tm', 0) /\ tm'.mode.div = d /\ tm'.frac = f
    <2>1. s \in Nat
      BY <1>1, <1>2
    <2> QED BY <1>1, <1>3, <2>1, TurnedFrame
  <1> HIDE DEF d, f, z
  <1>8. /\ s * d \in Nat /\ ((ticks - s) * d) + f \in Nat
        /\ (s * d) + (((ticks - s) * d) + f) = (ticks * d) + f
    <2>1. ASSUME NEW r \in Nat, NEW a \in Nat
          PROVE  /\ a * d \in Nat /\ (r * d) + f \in Nat
                 /\ (a * d) + ((r * d) + f) = ((a + r) * d) + f
      BY <1>1
    <2>2. ticks - s \in Nat /\ s \in Nat /\ s + (ticks - s) = ticks
      BY <1>1, <1>2
    <2> HIDE <1>1
    <2> QED BY <2>1, <2>2
  <1>9. AfterCycles(AfterCycles(z, s * d), ((ticks - s) * d) + f) = AfterCycles(z, (ticks * d) + f)
    BY <1>4, <1>8, AfterSplit
  <1>10. x = AfterCycles(z, (ticks * d) + f)
    BY DEF CountInv, Owed, z, d, f
  <1>11. Owed' = ((ticks - s) * d) + f
    BY <1>3, <1>7 DEF Owed
  <1> QED BY <1>3, <1>6, <1>7, <1>9, <1>10, <1>11 DEF CountInv

\* The division of timer_advance_divided loses nothing.
LEMMA DivModSum ==
    ASSUME NEW d \in Nat \ {0}, NEW a \in Nat
    PROVE  ((a \div d) * d) + (a % d) = a
  OBVIOUS

LEMMA AdvanceCounts ==
    ASSUME TimerInv, CountInv, NEW c \in Cycles, AdvanceBegin(c)
    PROVE  CountInv'
  <1> DEFINE d == tm.mode.div
             f == tm.frac
             y == [tm EXCEPT !.fires = 0]
             a == f + c
  <1>1. /\ tm \in Timer /\ d \in Nat \ {0} /\ f \in Nat /\ f < d /\ c \in Nat /\ a \in Nat
    <2>1. tm \in Timer /\ f < d /\ c \in Nat
      BY DEF TimerInv, TypeOK, FracBelowDivisor
    <2>2. d \in Nat \ {0} /\ f \in Nat
      BY <2>1 DEF Timer, Mode
    <2> HIDE DEF d, f
    <2> QED BY <2>1, <2>2
  <1>2. x = tm
    BY <1>1, NothingOwed DEF AdvanceBegin
  <1>3. x' = AfterCycles(y, c) /\ ticks' = a \div d
        /\ tm' = [tm EXCEPT !.frac = a % d, !.fires = 0]
    BY <1>2 DEF AdvanceBegin
  <1>4. y \in Timer /\ y.frac = f /\ y.mode = tm.mode
    BY <1>1 DEF Timer
  <1>5. AfterCycles(y, c) = AfterCycles(WithFrac(y, 0), a)
    <2>1. y.frac < y.mode.div
      BY <1>1, <1>4
    <2>2. AfterCycles(y, c) = AfterCycles(WithFrac(y, 0), y.frac + c)
      <3> HIDE DEF y
      <3> QED BY <1>1, <1>4, <2>1, FromFraction
    <2> QED BY <1>4, <2>2
  <1>6. a % d \in Nat /\ ((a \div d) * d) + (a % d) = a
    <2> HIDE DEF a, d
    <2> QED BY <1>1, DivModFacts, DivModSum
  <1> HIDE DEF a
  <1>7. WithFrac(tm', 0) = WithFrac(y, 0) /\ tm'.frac = a % d /\ tm'.mode.div = d
    <2> HIDE DEF d
    <2>1. ASSUME NEW k \in Nat
          PROVE  /\ WithFrac([tm EXCEPT !.frac = k, !.fires = 0], 0) = WithFrac(y, 0)
                 /\ [tm EXCEPT !.frac = k, !.fires = 0].frac = k
                 /\ [tm EXCEPT !.frac = k, !.fires = 0].mode = tm.mode
      BY <1>1 DEF WithFrac, Timer
    <2> QED BY <1>3, <1>6, <2>1 DEF d
  <1>8. Owed' = a
    <2> HIDE DEF d
    <2> QED BY <1>3, <1>6, <1>7 DEF Owed
  <1> QED BY <1>3, <1>5, <1>7, <1>8 DEF CountInv

\* An access between two advances does the same to both counters.
LEMMA SameStart ==
    ASSUME tm' \in Timer, tm'.frac < tm'.mode.div, ticks' = 0, x' = tm'
    PROVE  CountInv'
  <1> DEFINE t == tm'
             z == WithFrac(t, 0)
             f == t.frac
  <1>1. f \in Nat /\ t.mode.div \in Nat
    BY DEF Timer, Mode
  <1>2. Owed' = f
    BY <1>1 DEF Owed
  <1>3. AfterCycles(t, 0) = AfterCycles(WithFrac(t, 0), t.frac + 0)
    <2> HIDE DEF t
    <2> QED BY FromFraction DEF t
  <1>4. AfterCycles(t, 0) = t
    BY AfterZero
  <1>5. t.frac + 0 = f
    BY <1>1
  <1> QED BY <1>2, <1>3, <1>4, <1>5 DEF CountInv

LEMMA CountStep ==
    ASSUME TimerInv, CountInv, [Next]_vars
    PROVE  CountInv'
  <1>0. tm \in Timer /\ tm.frac < tm.mode.div /\ ticks \in Nat
    BY DEF TimerInv, TypeOK, FracBelowDivisor
  <1>1. ASSUME NEW c \in Cycles, AdvanceBegin(c) PROVE CountInv'
    BY <1>1, AdvanceCounts
  <1>2. CASE LoopTurn
    BY <1>2, LoopTurnCounts
  <1>3. CASE \/ \E m \in Mode : WriteMode(m)
             \/ \E v \in 0..(M - 1) : WriteCounter(v) \/ WriteTarget(v)
             \/ ReadMode \/ AckIrq
    <2>1. ticks = 0 /\ ticks' = 0
      BY <1>3 DEF WriteMode, WriteCounter, WriteTarget, ReadMode, AckIrq
    <2>2. x = tm
      BY <1>0, <2>1, NothingOwed
    <2>3. x' = tm'
      <3>1. CASE \E m \in Mode : WriteMode(m)
        BY <3>1, <2>2, Zenon DEF WriteMode
      <3>2. CASE \E v \in 0..(M - 1) : WriteCounter(v) \/ WriteTarget(v)
        BY <3>2, <2>2, Zenon DEF WriteCounter, WriteTarget
      <3>3. CASE ReadMode \/ AckIrq
        BY <3>3, <2>2, Zenon DEF ReadMode, AckIrq
      <3> QED BY <1>3, <3>1, <3>2, <3>3
    <2>4. TimerInv'
      BY StepInv
    <2> QED BY <2>1, <2>3, <2>4, SameStart DEF TimerInv, TypeOK, FracBelowDivisor
  <1>4. CASE UNCHANGED vars
    BY <1>4 DEF vars, CountInv, Owed
  <1> QED BY <1>1, <1>2, <1>3, <1>4 DEF Next

LEMMA CountInit == Init => CountInv
  <1> SUFFICES ASSUME Init PROVE CountInv
    OBVIOUS
  <1>1. tm \in Timer /\ tm.frac = 0 /\ ticks = 0 /\ x = tm /\ tm.mode.div \in Nat \ {0}
    BY InitInv DEF Init, TimerInv, TypeOK, Timer, Mode
  <1>2. WithFrac(tm, 0) = tm /\ AfterCycles(tm, 0) = tm
    BY <1>1, FracFacts, AfterZero
  <1>3. Owed = 0
    BY <1>1 DEF Owed
  <1> QED BY <1>1, <1>2, <1>3 DEF CountInv

\* timer_advance_counts, stepping from event to event, leaves the counter, its flags
\* and its interrupt exactly as timer_tick_one called for every count does, for every
\* width, divisor and split of the cycles.
THEOREM BulkCountsExactly == Spec => []BulkIsCounting
  <1>1. TimerInv /\ CountInv => BulkIsCounting
    BY NothingOwed DEF TimerInv, TypeOK, FracBelowDivisor, BulkIsCounting
  <1>2. TimerInv /\ CountInv /\ [Next]_vars => TimerInv' /\ CountInv'
    BY StepInv, CountStep
  <1> QED BY <1>1, <1>2, InitInv, CountInit, PTL DEF Spec

----------------------------------------------------------------------------
(* The prediction. *)

\* What an event does to the fields the prediction depends on.
LEMMA EventFields ==
    ASSUME NEW t \in Timer
    PROVE  /\ AtTarget(t).target = t.target
           /\ AtTarget(t).counter = IF t.mode.rst THEN 0 ELSE t.counter
           /\ t.mode.irqT => AtTarget(t).fires = t.fires + 1
           /\ ~ t.mode.irqT => AtTarget(t).fires = t.fires /\ AtTarget(t).mode = t.mode
           /\ AtOverflow(t).target = t.target
           /\ AtOverflow(t).counter = t.counter
           /\ t.mode.irqO => AtOverflow(t).fires = t.fires + 1
           /\ ~ t.mode.irqO => AtOverflow(t).fires = t.fires /\ AtOverflow(t).mode = t.mode
  <1> DEFINE u == [t EXCEPT !.tflag = TRUE]
             w == [t EXCEPT !.oflag = TRUE]
             a == IF t.mode.irqT THEN Fired(u) ELSE u
  <1>1. /\ u \in Timer /\ u.target = t.target /\ u.counter = t.counter
        /\ u.fires = t.fires /\ u.mode = t.mode
    BY DEF Timer
  <1>2. /\ w \in Timer /\ w.target = t.target /\ w.counter = t.counter
        /\ w.fires = t.fires /\ w.mode = t.mode
    BY DEF Timer
  <1>3. ASSUME NEW y \in Timer
        PROVE  /\ Fired(y) \in Timer /\ Fired(y).target = y.target
               /\ Fired(y).counter = y.counter /\ Fired(y).fires = y.fires + 1
    <2>1. Fired(y) \in Timer
      BY FiredTyped
    <2> QED BY <2>1 DEF Fired, Timer
  <1>4. /\ a \in Timer /\ a.target = t.target /\ a.counter = t.counter
        /\ t.mode.irqT => a.fires = t.fires + 1
        /\ ~ t.mode.irqT => a.fires = t.fires /\ a.mode = t.mode
    <2> HIDE DEF u
    <2> QED BY <1>1, <1>3
  <1>5. AtTarget(t) = [a EXCEPT !.counter = IF t.mode.rst THEN 0 ELSE a.counter]
    BY DEF AtTarget
  <1> HIDE DEF a
  <1>6. /\ AtTarget(t).target = a.target /\ AtTarget(t).fires = a.fires
        /\ AtTarget(t).mode = a.mode
        /\ AtTarget(t).counter = IF t.mode.rst THEN 0 ELSE a.counter
    BY <1>4, <1>5 DEF Timer
  <1>7. AtOverflow(t) = IF t.mode.irqO THEN Fired(w) ELSE w
    BY DEF AtOverflow
  <1> HIDE DEF w
  <1> QED BY <1>2, <1>3, <1>4, <1>6, <1>7

\* What one count does to them: it fires at an armed event and at no other.
LEMMA TickFields ==
    ASSUME NEW t \in Timer
    PROVE  LET k    == (t.counter + 1) % M
               hit  == k = t.target
               wrap == t.counter = M - 1
               r    == TickOne(t)
           IN /\ ~ (hit /\ t.mode.irqT) /\ ~ (wrap /\ t.mode.irqO) =>
                   /\ r.fires = t.fires /\ r.mode = t.mode /\ r.target = t.target
                   /\ r.counter = IF hit /\ t.mode.rst THEN 0 ELSE k
              /\ (hit /\ t.mode.irqT) \/ (wrap /\ t.mode.irqO) => r.fires > t.fires
  <1> DEFINE k    == (t.counter + 1) % M
             hit  == k = t.target
             wrap == t.counter = M - 1
             r    == TickOne(t)
             u    == [t EXCEPT !.counter = k]
             v    == IF hit THEN AtTarget(u) ELSE u
  <1> SUFFICES /\ ~ (hit /\ t.mode.irqT) /\ ~ (wrap /\ t.mode.irqO) =>
                    /\ r.fires = t.fires /\ r.mode = t.mode /\ r.target = t.target
                    /\ r.counter = IF hit /\ t.mode.rst THEN 0 ELSE k
               /\ (hit /\ t.mode.irqT) \/ (wrap /\ t.mode.irqO) => r.fires > t.fires
    OBVIOUS
  <1>1. k \in 0..(M - 1)
    <2>1. t.counter + 1 \in Nat
      BY DEF Timer
    <2> QED BY <2>1, DivModFacts
  <1>2. r = IF wrap THEN AtOverflow(v) ELSE v
    <2>1. u.counter = k /\ u.target = t.target
      BY <1>1 DEF Timer
    <2> QED BY <2>1 DEF TickOne
  <1> HIDE DEF k
  <1>3. /\ u \in Timer /\ u.target = t.target /\ u.counter = k
        /\ u.fires = t.fires /\ u.mode = t.mode
    BY <1>1 DEF Timer
  <1> HIDE DEF u, r
  <1>4. /\ v \in Timer /\ v.target = t.target /\ v.fires \in Nat
        /\ hit /\ t.mode.irqT => v.fires = t.fires + 1
        /\ ~ (hit /\ t.mode.irqT) => v.fires = t.fires /\ v.mode = t.mode
        /\ v.counter = IF hit /\ t.mode.rst THEN 0 ELSE k
    <2>1. CASE hit
      <3>1. AtTarget(u) \in Timer
        BY <1>3, EventsTyped
      <3>2. AtTarget(u).fires \in Nat
        BY <3>1 DEF Timer
      <3> QED BY <1>3, <2>1, <3>1, <3>2, EventFields
    <2>2. CASE ~ hit
      <3>1. u.fires \in Nat
        BY <1>3 DEF Timer
      <3> QED BY <1>3, <2>2, <3>1
    <2> QED BY <2>1, <2>2
  <1>5. t.fires \in Nat
    BY DEF Timer
  <1> HIDE DEF v, hit
  <1>6. CASE ~ wrap
    BY <1>2, <1>4, <1>5, <1>6
  <1>7. CASE wrap
    <2>1. r = AtOverflow(v)
      BY <1>2, <1>7
    <2>2. /\ AtOverflow(v).target = v.target /\ AtOverflow(v).counter = v.counter
          /\ v.mode.irqO => AtOverflow(v).fires = v.fires + 1
          /\ ~ v.mode.irqO => AtOverflow(v).fires = v.fires /\ AtOverflow(v).mode = v.mode
      BY <1>4, EventFields
    <2>3. AtOverflow(v).fires >= v.fires
      BY <1>4, <2>2
    <2> QED BY <1>4, <1>5, <1>7, <2>1, <2>2, <2>3
  <1> QED BY <1>6, <1>7

\* The counter z, j counts after t with no interrupt between.
QuietAt(t, z, j) ==
    /\ z \in Timer /\ z.frac = 0 /\ z.fires = 0
    /\ z.mode = t.mode /\ z.target = t.target
    /\ t.mode.irqT => z.counter = (t.counter + j) % M
    /\ ~ t.mode.irqT => /\ z.counter <= t.counter + j
                        /\ ~ t.mode.rst \/ j < TargetDist(t) => z.counter = t.counter + j

\* The distance in counts is that of an armed event, the nearer one of two.
LEMMA IrqDistFacts ==
    ASSUME NEW t \in Timer, Armed(t)
    PROVE  /\ TicksToIrq(t) \in 1..M
           /\ t.mode.irqT => TicksToIrq(t) <= TargetDist(t)
           /\ t.mode.irqO => TicksToIrq(t) <= OverflowDist(t)
           /\ \/ t.mode.irqT /\ TicksToIrq(t) = TargetDist(t)
              \/ t.mode.irqO /\ TicksToIrq(t) = OverflowDist(t)
           /\ t.mode.irqT /\ ~ t.mode.irqO => TicksToIrq(t) = TargetDist(t)
           /\ ~ t.mode.irqT => TicksToIrq(t) = OverflowDist(t) /\ t.mode.irqO
  <1>1. TargetDist(t) \in 1..M /\ OverflowDist(t) \in 1..M
    BY DistFacts
  <1>2. CASE t.mode.irqT /\ t.mode.irqO
    <2>1. TicksToIrq(t) = Smaller(TargetDist(t), OverflowDist(t))
      BY <1>2 DEF TicksToIrq
    <2> QED BY <1>1, <1>2, <2>1 DEF Smaller
  <1>3. CASE t.mode.irqT /\ ~ t.mode.irqO
    <2>1. TicksToIrq(t) = TargetDist(t)
      BY <1>3 DEF TicksToIrq
    <2> QED BY <1>1, <1>3, <2>1
  <1>4. CASE ~ t.mode.irqT
    <2>1. TicksToIrq(t) = OverflowDist(t) /\ t.mode.irqO
      BY <1>4 DEF TicksToIrq, Armed
    <2> QED BY <1>1, <1>4, <2>1
  <1> QED BY <1>2, <1>3, <1>4

\* One count short of the distance keeps quiet.
LEMMA QuietStep ==
    ASSUME NEW t \in Timer, Armed(t), NEW j \in Nat, j + 1 < TicksToIrq(t),
           NEW z, QuietAt(t, z, j)
    PROVE  QuietAt(t, TickOne(z), j + 1)
  <1> DEFINE c == t.counter
             k == (z.counter + 1) % M
             hit == k = z.target
             wrap == z.counter = M - 1
             r == TickOne(z)
  <1>1. /\ TicksToIrq(t) \in 1..M
        /\ t.mode.irqT => TicksToIrq(t) <= TargetDist(t)
        /\ t.mode.irqO => TicksToIrq(t) <= OverflowDist(t)
        /\ ~ t.mode.irqT => t.mode.irqO
        /\ TargetDist(t) \in 1..M
    BY IrqDistFacts, DistFacts
  <1>2. c \in 0..(M - 1) /\ z \in Timer /\ z.counter \in 0..(M - 1) /\ z.mode = t.mode /\ z.target = t.target
    BY DEF QuietAt, Timer
  <1>3. t.mode.irqO => c + (j + 1) < M
    BY <1>1, <1>2 DEF OverflowDist
  <1>4. t.mode.irqT => k = (c + (j + 1)) % M
    <2> SUFFICES ASSUME t.mode.irqT PROVE k = (c + (j + 1)) % M
      OBVIOUS
    <2>1. z.counter = (c + j) % M
      BY DEF QuietAt
    <2>2. c + j \in Nat /\ c + j < M + M - 1
      BY <1>1, <1>2
    <2>3. (c + j) % M = IF c + j < M THEN c + j ELSE c + j - M
      <3> DEFINE a == c + j
      <3>1. a \in Nat /\ a < M + M
        BY <2>2
      <3> HIDE DEF a
      <3>2. a % M = IF a < M THEN a ELSE a - M
        BY <3>1, WrapSum
      <3> QED BY <3>2, <1>1, <1>2 DEF a
    <2>4. (c + (j + 1)) % M = IF c + (j + 1) < M THEN c + (j + 1) ELSE c + (j + 1) - M
      <3> DEFINE a == c + (j + 1)
      <3>1. a \in Nat /\ a < M + M
        BY <1>2, <2>2
      <3> HIDE DEF a
      <3>2. a % M = IF a < M THEN a ELSE a - M
        BY <3>1, WrapSum
      <3> QED BY <3>2, <1>1, <1>2 DEF a
    <2>5. k = IF z.counter + 1 < M THEN z.counter + 1 ELSE z.counter + 1 - M
      <3> DEFINE a == z.counter + 1
      <3>1. a \in Nat /\ a < M + M
        BY <1>2
      <3> HIDE DEF a
      <3>2. a % M = IF a < M THEN a ELSE a - M
        BY <3>1, WrapSum
      <3> QED BY <3>2, <1>1, <1>2 DEF a
    <2> HIDE DEF k, c
    <2> QED BY <1>2, <2>1, <2>2, <2>3, <2>4, <2>5
  <1>5. t.mode.irqT => ~ hit
    <2> SUFFICES ASSUME t.mode.irqT PROVE ~ hit
      OBVIOUS
    <2>1. j + 1 \in 1..TargetDist(t) /\ j + 1 # TargetDist(t)
      BY <1>1
    <2>2. (c + (j + 1)) % M # t.target
      BY <2>1, MeetsTarget
    <2> HIDE DEF k, c
    <2> QED BY <1>2, <1>4, <2>2
  <1>6. t.mode.irqO => ~ wrap /\ k = z.counter + 1
    <2> SUFFICES ASSUME t.mode.irqO PROVE ~ wrap /\ k = z.counter + 1
      OBVIOUS
    <2>1. z.counter <= c + j
      <3>1. CASE t.mode.irqT
        <4>1. z.counter = (c + j) % M
          BY <3>1 DEF QuietAt
        <4>2. (c + j) % M = c + j
          <5>1. c \in Nat /\ c + j < M
            BY <1>2, <1>3
          <5> HIDE DEF c
          <5> QED BY <5>1, WrapSmall
        <4> QED BY <1>2, <4>1, <4>2
      <3>2. CASE ~ t.mode.irqT
        BY <3>2 DEF QuietAt
      <3> QED BY <3>1, <3>2
    <2>2. z.counter + 1 < M
      BY <1>2, <1>3, <2>1
    <2>3. z.counter \in Nat /\ 1 \in Nat
      BY <1>2
    <2>4. k = z.counter + 1
      BY <2>2, <2>3, WrapSmall
    <2> QED BY <1>2, <2>2, <2>4
  <1>7. /\ r.fires = z.fires /\ r.mode = z.mode /\ r.target = z.target
        /\ r.counter = IF hit /\ z.mode.rst THEN 0 ELSE k
    <2>1. ~ (hit /\ z.mode.irqT) /\ ~ (wrap /\ z.mode.irqO)
      BY <1>2, <1>5, <1>6
    <2> QED BY <1>2, <2>1, TickFields
  <1>8. r \in Timer /\ r.frac = 0 /\ r.fires = 0
    BY <1>2, <1>7, TickTyped DEF QuietAt
  <1>9. t.mode.irqT => r.counter = (c + (j + 1)) % M
    BY <1>4, <1>5, <1>7
  <1> HIDE DEF r
  <1>10. ASSUME ~ t.mode.irqT
         PROVE  /\ r.counter <= c + (j + 1)
                /\ ~ t.mode.rst \/ j + 1 < TargetDist(t) => r.counter = c + (j + 1)
    <2>1. /\ z.counter <= c + j /\ k = z.counter + 1
          /\ ~ t.mode.rst \/ j < TargetDist(t) => z.counter = c + j
      BY <1>1, <1>6, <1>10 DEF QuietAt
    <2>2. k <= c + (j + 1)
      BY <1>2, <2>1
    <2>3. r.counter <= c + (j + 1)
      BY <1>2, <1>7, <2>2
    <2>4. CASE ~ t.mode.rst
      BY <1>2, <1>7, <2>1, <2>4
    <2>5. CASE j + 1 < TargetDist(t)
      <3>1. j < TargetDist(t)
        BY <1>1, <2>5
      <3>2. k = c + (j + 1)
        BY <1>2, <2>1, <3>1
      <3>3. (c + (j + 1)) % M # t.target
        <4>1. j + 1 \in 1..TargetDist(t) /\ j + 1 # TargetDist(t)
          BY <1>1, <2>5
        <4> QED BY <4>1, MeetsTarget
      <3>4. (c + (j + 1)) % M = c + (j + 1)
        <4>1. c + (j + 1) < M /\ j + 1 \in Nat /\ c \in Nat
          BY <1>1, <1>2, <1>3, <1>10
        <4> HIDE DEF c
        <4> QED BY <4>1, WrapSmall
      <3>5. ~ hit
        BY <1>2, <3>2, <3>3, <3>4
      <3> QED BY <1>7, <2>3, <3>2, <3>5
    <2> QED BY <2>3, <2>4, <2>5
  <1> HIDE DEF hit, k
  <1> QED BY <1>2, <1>7, <1>8, <1>9, <1>10 DEF QuietAt, r

\* Before the predicted count nothing fires.
LEMMA QuietBefore ==
    ASSUME NEW t \in Timer, t.frac = 0, t.fires = 0, Armed(t)
    PROVE  \A j \in Nat : j < TicksToIrq(t) => QuietAt(t, AfterCycles(t, j * t.mode.div), j)
  <1> DEFINE S == {j \in Nat : j < TicksToIrq(t) => QuietAt(t, AfterCycles(t, j * t.mode.div), j)}
  <1>0. TicksToIrq(t) \in 1..M /\ t.mode.div \in Nat /\ t.counter \in 0..(M - 1)
    BY IrqDistFacts DEF Timer, Mode
  <1>1. 0 \in S
    <2>1. 0 * t.mode.div = 0 /\ t.counter + 0 = t.counter /\ t.counter % M = t.counter
      BY <1>0
    <2>2. AfterCycles(t, 0) = t
      BY AfterZero
    <2>3. QuietAt(t, t, 0)
      BY <1>0, <2>1 DEF QuietAt
    <2> QED BY <2>1, <2>2, <2>3
  <1>2. ASSUME NEW j \in Nat, j \in S PROVE j + 1 \in S
    <2> SUFFICES ASSUME j + 1 < TicksToIrq(t)
                 PROVE  QuietAt(t, AfterCycles(t, (j + 1) * t.mode.div), j + 1)
      OBVIOUS
    <2> DEFINE z == AfterCycles(t, j * t.mode.div)
    <2>1. QuietAt(t, z, j)
      BY <1>0, <1>2
    <2>2. z.frac = 0 /\ z.mode.div = t.mode.div
      BY <2>1 DEF QuietAt
    <2>3. AfterCycles(t, (j + 1) * t.mode.div) = TickOne(z)
      <3>1. AfterCycles(t, j * t.mode.div) = z
        OBVIOUS
      <3> HIDE DEF z
      <3> QED BY <2>2, <3>1, TickAfter
    <2>4. QuietAt(t, TickOne(z), j + 1)
      <3> HIDE DEF z
      <3> QED BY <2>1, QuietStep
    <2> QED BY <2>3, <2>4
  <1> HIDE DEF S
  <1>3. \A j \in Nat : j \in S
    BY <1>1, <1>2, NatInduct
  <1> QED BY <1>3 DEF S

\* At the predicted count something does, unless the target resets the counter first.
LEMMA FiresThen ==
    ASSUME NEW t \in Timer, Armed(t), NEW z, QuietAt(t, z, TicksToIrq(t) - 1),
           ~ (t.mode.rst /\ TargetDist(t) < TicksToIrq(t))
    PROVE  TickOne(z).fires > 0
  <1> DEFINE c == t.counter
             n == TicksToIrq(t)
             k == (z.counter + 1) % M
             hit == k = z.target
             wrap == z.counter = M - 1
  <1>1. /\ n \in 1..M
        /\ t.mode.irqO => n <= OverflowDist(t)
        /\ \/ t.mode.irqT /\ n = TargetDist(t)
           \/ t.mode.irqO /\ n = OverflowDist(t)
        /\ TargetDist(t) \in 1..M
    BY IrqDistFacts, DistFacts
  <1>2. /\ c \in 0..(M - 1) /\ z \in Timer /\ z.counter \in 0..(M - 1)
        /\ z.mode = t.mode /\ z.target = t.target /\ z.fires = 0
    BY DEF QuietAt, Timer
  <1>3. CASE t.mode.irqT /\ n = TargetDist(t)
    <2>1. z.counter = (c + (n - 1)) % M
      BY <1>3 DEF QuietAt
    <2>2. (c + (n - 1)) % M = IF c + (n - 1) < M THEN c + (n - 1) ELSE c + (n - 1) - M
      <3> DEFINE a == c + (n - 1)
      <3>1. a \in Nat /\ a < M + M
        BY <1>1, <1>2
      <3> HIDE DEF a
      <3>2. a % M = IF a < M THEN a ELSE a - M
        BY <3>1, WrapSum
      <3> QED BY <3>2, <1>1, <1>2 DEF a
    <2>3. k = IF z.counter + 1 < M THEN z.counter + 1 ELSE z.counter + 1 - M
      <3> DEFINE a == z.counter + 1
      <3>1. a \in Nat /\ a < M + M
        BY <1>2
      <3> HIDE DEF a
      <3>2. a % M = IF a < M THEN a ELSE a - M
        BY <3>1, WrapSum
      <3> QED BY <3>2, <1>1, <1>2 DEF a
    <2>4. (c + n) % M = IF c + n < M THEN c + n ELSE c + n - M
      <3> DEFINE a == c + n
      <3>1. a \in Nat /\ a < M + M
        BY <1>1, <1>2
      <3> HIDE DEF a
      <3>2. a % M = IF a < M THEN a ELSE a - M
        BY <3>1, WrapSum
      <3> QED BY <3>2, <1>1, <1>2 DEF a
    <2>5. (c + n) % M = t.target
      <3>1. n \in 1..TargetDist(t)
        BY <1>1, <1>3
      <3> QED BY <1>3, <3>1, MeetsTarget
    <2>6. hit
      <3>1. k = (c + n) % M
        <4> HIDE DEF k, c, n
        <4> QED BY <1>1, <1>2, <2>1, <2>2, <2>3, <2>4
      <3> QED BY <1>2, <2>5, <3>1
    <2>7. TickOne(z).fires > z.fires
      BY <1>2, <1>3, <2>6, TickFields
    <2> QED BY <1>2, <2>7
  <1>4. CASE t.mode.irqO /\ n = OverflowDist(t)
    <2>1. n = M - c /\ c + (n - 1) = M - 1 /\ c + (n - 1) < M
      BY <1>1, <1>2, <1>4 DEF OverflowDist
    <2>2. z.counter = c + (n - 1)
      <3>1. CASE t.mode.irqT
        <4>1. z.counter = (c + (n - 1)) % M
          BY <3>1 DEF QuietAt
        <4>2. (c + (n - 1)) % M = c + (n - 1)
          <5>1. c \in Nat /\ n - 1 \in Nat
            BY <1>1, <1>2
          <5> HIDE DEF c, n
          <5> QED BY <2>1, <5>1, WrapSmall
        <4> QED BY <4>1, <4>2
      <3>2. CASE ~ t.mode.irqT
        <4>1. ~ t.mode.rst \/ n - 1 < TargetDist(t)
          BY <1>1
        <4> QED BY <3>2, <4>1 DEF QuietAt
      <3> QED BY <3>1, <3>2
    <2>3. wrap
      BY <2>1, <2>2
    <2>4. TickOne(z).fires > z.fires
      BY <1>2, <1>4, <2>3, TickFields
    <2> QED BY <1>2, <2>4
  <1> QED BY <1>1, <1>3, <1>4

\* The prediction, for any counter whose fraction is below its divisor.
LEMMA Predicted ==
    ASSUME NEW t \in Timer, t.frac < t.mode.div, t.fires = 0, Armed(t)
    PROVE  /\ CyclesToIrq(t) \in Nat \ {0}
           /\ AfterCycles(t, CyclesToIrq(t) - 1).fires = 0
           /\ ~ (t.mode.rst /\ TargetDist(t) < TicksToIrq(t))
                => AfterCycles(t, CyclesToIrq(t)).fires > 0
  <1> DEFINE d == t.mode.div
             f == t.frac
             n == TicksToIrq(t)
             j == n - 1
             c == CyclesToIrq(t)
             z == WithFrac(t, 0)
             y == AfterCycles(z, j * d)
  <1>1. d \in Nat \ {0} /\ f \in Nat /\ f < d
    <2>1. d \in Nat \ {0} /\ f \in Nat
      BY DEF Timer, Mode
    <2> QED BY <2>1
  <1>2. n \in Nat \ {0} /\ j \in Nat /\ j + 1 = n
    BY IrqDistFacts
  <1>3. c = (n * d) - f
    BY DEF CyclesToIrq
  <1>4. /\ z \in Timer /\ z.frac = 0 /\ z.mode = t.mode /\ z.counter = t.counter
        /\ z.target = t.target /\ z.fires = 0
    BY FracFacts
  <1>5. Armed(z) /\ TicksToIrq(z) = n /\ TargetDist(z) = TargetDist(t)
    <2>1. TargetDist(z) = TargetDist(t) /\ OverflowDist(z) = OverflowDist(t)
      <3> HIDE DEF z
      <3> QED BY <1>4 DEF TargetDist, OverflowDist
    <2> HIDE DEF z
    <2> QED BY <1>4, <2>1 DEF Armed, TicksToIrq
  <1> HIDE DEF d, f, n, j, c, z
  <1>6. /\ j * d \in Nat /\ n * d = (j * d) + d
        /\ c \in Nat \ {0} /\ f + (c - 1) = (j * d) + (d - 1) /\ f + c = n * d
        /\ d - 1 \in Nat /\ c - 1 \in Nat
    <2>1. j * d \in Nat /\ (j + 1) * d = (j * d) + d
      BY <1>1, <1>2
    <2> DEFINE p == j * d
    <2>2. n * d = p + d /\ p \in Nat
      BY <1>2, <2>1
    <2> HIDE DEF p
    <2>3. c = (p + d) - f
      BY <1>3, <2>2
    <2>4. c \in Nat \ {0} /\ f + (c - 1) = p + (d - 1) /\ f + c = p + d
      BY <1>1, <2>2, <2>3
    <2>5. d - 1 \in Nat /\ c - 1 \in Nat
      BY <1>1, <2>4
    <2> QED BY <2>1, <2>2, <2>4, <2>5 DEF p
  <1>7. QuietAt(z, y, j)
    <2>1. j < TicksToIrq(z) /\ z.mode.div = d
      BY <1>2, <1>4, <1>5 DEF d
    <2> QED BY <1>2, <1>4, <1>5, <2>1, QuietBefore
  <1>8. AfterCycles(t, c - 1).fires = 0
    <2>1. AfterCycles(t, c - 1) = AfterCycles(z, f + (c - 1))
      BY <1>6, FromFraction DEF z, f
    <2>2. AfterCycles(AfterCycles(z, j * d), d - 1) = AfterCycles(z, (j * d) + (d - 1))
      BY <1>4, <1>6, AfterSplit
    <2>3. y \in Timer /\ y.frac = 0 /\ y.mode.div = d /\ y.fires = 0
      BY <1>4, <1>7 DEF QuietAt, d
    <2>4. AfterCycles(y, d - 1) = WithFrac(y, d - 1) /\ WithFrac(y, d - 1).fires = 0
      <3> HIDE DEF y
      <3>1. d - 1 < y.mode.div
        BY <1>1, <2>3
      <3> QED BY <1>6, <2>3, <3>1, FracRun, FracFacts
    <2> QED BY <1>6, <2>1, <2>2, <2>4
  <1>9. ASSUME ~ (t.mode.rst /\ TargetDist(t) < n) PROVE AfterCycles(t, c).fires > 0
    <2>1. AfterCycles(t, c) = AfterCycles(z, f + c)
      BY <1>6, FromFraction DEF z, f
    <2>2. AfterCycles(z, n * d) = TickOne(y)
      <3>1. y.frac = 0 /\ y.mode.div = z.mode.div /\ z.mode.div = d
        BY <1>4, <1>7 DEF QuietAt, d
      <3>2. AfterCycles(z, j * z.mode.div) = y
        BY <3>1
      <3> HIDE DEF y
      <3>3. AfterCycles(z, (j + 1) * z.mode.div) = TickOne(y)
        BY <1>2, <1>4, <3>1, <3>2, TickAfter
      <3> QED BY <1>2, <3>1, <3>3
    <2>3. TickOne(y).fires > 0
      <3>1. j = TicksToIrq(z) - 1 /\ ~ (z.mode.rst /\ TargetDist(z) < TicksToIrq(z))
        BY <1>4, <1>5, <1>9 DEF j
      <3> HIDE DEF y
      <3> QED BY <1>4, <1>5, <1>7, <3>1, FiresThen
    <2> QED BY <1>6, <2>1, <2>2, <2>3
  <1> QED BY <1>6, <1>8, <1>9 DEF c, n

\* The deadline timers_cycles_to_irq reports to the device clock: no interrupt comes
\* before it, and one comes at it unless the target resets the counter first.
THEOREM PredictionHolds == Spec => []PredictionIsExact
  <1>1. TimerInv /\ CountInv => PredictionIsExact
    <2> SUFFICES ASSUME TimerInv, CountInv, ticks = 0, Armed(tm)
                 PROVE  LET c == CyclesToIrq(tm)
                            now == [x EXCEPT !.fires = 0]
                            resetFirst == tm.mode.rst /\ TargetDist(tm) < TicksToIrq(tm)
                        IN /\ c >= 1
                           /\ AfterCycles(now, c - 1).fires = 0
                           /\ ~ resetFirst => AfterCycles(now, c).fires > 0
      BY DEF PredictionIsExact
    <2> DEFINE t == [tm EXCEPT !.fires = 0]
    <2>1. tm \in Timer /\ tm.frac < tm.mode.div /\ x = tm
      <3>1. tm \in Timer /\ tm.frac < tm.mode.div
        BY DEF TimerInv, TypeOK, FracBelowDivisor
      <3> QED BY <3>1, NothingOwed
    <2>2. /\ t \in Timer /\ t.frac = tm.frac /\ t.mode = tm.mode /\ t.fires = 0
          /\ t.counter = tm.counter /\ t.target = tm.target
      BY <2>1 DEF Timer
    <2>3. [x EXCEPT !.fires = 0] = t
      BY <2>1
    <2> HIDE DEF t
    <2>4. TargetDist(t) = TargetDist(tm) /\ OverflowDist(t) = OverflowDist(tm)
      BY <2>2 DEF TargetDist, OverflowDist
    <2>5. Armed(t) /\ TicksToIrq(t) = TicksToIrq(tm)
      BY <2>2, <2>4 DEF Armed, TicksToIrq
    <2>6. CyclesToIrq(t) = CyclesToIrq(tm)
      BY <2>2, <2>5 DEF CyclesToIrq
    <2>7. t.frac < t.mode.div
      BY <2>1, <2>2
    <2>8. /\ CyclesToIrq(t) \in Nat \ {0}
          /\ AfterCycles(t, CyclesToIrq(t) - 1).fires = 0
          /\ ~ (t.mode.rst /\ TargetDist(t) < TicksToIrq(t))
                => AfterCycles(t, CyclesToIrq(t)).fires > 0
      BY <2>2, <2>5, <2>7, Predicted
    <2>9. CyclesToIrq(tm) >= 1
      BY <2>6, <2>8
    <2> QED BY <2>2, <2>3, <2>4, <2>5, <2>6, <2>8, <2>9
  <1>2. TimerInv /\ CountInv /\ [Next]_vars => TimerInv' /\ CountInv'
    BY StepInv, CountStep
  <1> QED BY <1>1, <1>2, InitInv, CountInit, PTL DEF Spec

=============================================================================
