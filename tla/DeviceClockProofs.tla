------------------------- MODULE DeviceClockProofs -------------------------
(***************************************************************************)
(* Servicing the devices at deadlines is advancing them on every cycle,    *)
(* for any periods, delays, charges and caps.  The first part gives the    *)
(* exact path, a recursive function, its two equations; the second shows   *)
(* that one chunk of the replay is as many single cycles; the third is the *)
(* inductive invariant.                                                    *)
(***************************************************************************)
EXTENDS DeviceClock, WellFoundedInduction, TLAPS

\* A non-empty set of naturals has a least element.
LEMMA LeastOfNat ==
    ASSUME NEW S, S \subseteq Nat, S # {}
    PROVE  \E i \in S : \A j \in S : i <= j
<1> DEFINE R == OpToRel(<, Nat)
<1>1. IsWellFoundedOn(R, Nat)
  BY NatLessThanWellFounded
<1>2. \A i, j \in Nat : i < j => <<i, j>> \in R
  BY Zenon DEF OpToRel
<1> HIDE DEF R
<1>3. PICK i \in S : \A j \in S : ~ (<<j, i>> \in R)
  BY <1>1, WFMin
<1>4. \A j \in S : ~ (j < i)
  BY <1>2, <1>3, Zenon
<1> QED
  BY <1>4

\* Induction, with the property as the set of the numbers that have it.
LEMMA NatInduct ==
    ASSUME NEW S, 0 \in S, \A n \in Nat : n \in S => n + 1 \in S
    PROVE  \A n \in Nat : n \in S
<1> DEFINE D == {n \in Nat : n \notin S}
<1> SUFFICES ASSUME D # {} PROVE FALSE
  OBVIOUS
<1>1. PICK m \in D : \A j \in D : m <= j
  BY LeastOfNat
<1>2. m \in Nat /\ m # 0 /\ m \notin S
  OBVIOUS
<1>3. m - 1 \in Nat
  BY <1>2
<1>4. m - 1 \in S
  BY <1>1, <1>3
<1>5. (m - 1) + 1 \in S
  BY <1>3, <1>4
<1> QED BY <1>2, <1>5

\* g is what the recursion with the step F makes of b in n steps.
IsRun(g, D, F, b, n) ==
    g \in [0..n -> D] /\ g[0] = b /\ \A i \in 1..n : g[i] = F[g[i - 1]]

\* A recursion has runs of every length.
LEMMA RunExists ==
    ASSUME NEW D, NEW F \in [D -> D], NEW b \in D
    PROVE  \A n \in Nat : \E g : IsRun(g, D, F, b, n)
<1> DEFINE S == {n \in Nat : \E g : IsRun(g, D, F, b, n)}
<1>1. 0 \in S
  <2>1. IsRun([i \in 0..0 |-> b], D, F, b, 0)
    BY DEF IsRun
  <2> QED BY <2>1
<1>2. ASSUME NEW n \in Nat, n \in S PROVE n + 1 \in S
  <2>1. PICK g : IsRun(g, D, F, b, n)
    BY <1>2
  <2> DEFINE h == [i \in 0..(n + 1) |-> IF i = n + 1 THEN F[g[n]] ELSE g[i]]
  <2>2. /\ g \in [0..n -> D] /\ g[0] = b /\ \A i \in 1..n : g[i] = F[g[i - 1]]
    BY <2>1 DEF IsRun
  <2>3. h \in [0..(n + 1) -> D]
    BY <2>2
  <2>4. h[0] = b
    BY <2>2
  <2>5. ASSUME NEW i \in 1..(n + 1) PROVE h[i] = F[h[i - 1]]
    <3>1. CASE i = n + 1
      BY <3>1, <2>2
    <3>2. CASE i # n + 1
      BY <3>2, <2>2
    <3> QED BY <3>1, <3>2
  <2>6. IsRun(h, D, F, b, n + 1)
    <3> HIDE DEF h
    <3> QED BY <2>3, <2>4, <2>5 DEF IsRun
  <2> QED BY <2>6
<1> HIDE DEF S
<1>3. \A n \in Nat : n \in S
  BY <1>1, <1>2, NatInduct
<1> QED BY <1>3 DEF S

\* A longer run begins with a shorter one.
LEMMA RunUnique ==
    ASSUME NEW D, NEW F, NEW b, NEW g, NEW h, NEW n \in Nat, NEW m \in Nat, n <= m,
           IsRun(g, D, F, b, n), IsRun(h, D, F, b, m)
    PROVE  g[n] = h[n]
<1> DEFINE S == {i \in Nat : i <= n => g[i] = h[i]}
<1>0. /\ g[0] = b /\ \A i \in 1..n : g[i] = F[g[i - 1]]
      /\ h[0] = b /\ \A i \in 1..m : h[i] = F[h[i - 1]]
  BY DEF IsRun
<1>1. 0 \in S
  BY <1>0
<1>2. ASSUME NEW i \in Nat, i \in S PROVE i + 1 \in S
  <2> SUFFICES ASSUME i + 1 <= n PROVE g[i + 1] = h[i + 1]
    OBVIOUS
  <2>1. i + 1 \in 1..n /\ i + 1 \in 1..m /\ (i + 1) - 1 = i /\ g[i] = h[i]
    BY <1>2
  <2> QED BY <2>1, <1>0
<1> HIDE DEF S
<1>3. \A i \in Nat : i \in S
  BY <1>1, <1>2, NatInduct
<1> QED BY <1>3 DEF S

----------------------------------------------------------------------------
(* The devices. *)

USE ClockAssumption

LEMMA ModFacts ==
    ASSUME NEW m \in Nat \ {0}, NEW a \in Nat
    PROVE  a % m \in Nat /\ a % m < m
<1>1. a % m \in 0..(m - 1)
  OBVIOUS
<1> QED BY <1>1

\* Each device keeps to its type, and touches its own fields only.
LEMMA TimerFacts ==
    ASSUME NEW d \in Devices, NEW c \in Nat
    PROVE  LET t == TimerAdvance(d, c)
           IN t \in Devices /\ t.vbl = d.vbl /\ t.pend = d.pend /\ t.ack = d.ack /\ t.per = d.per
<1>1. d.tmr \in Nat /\ d.per \in Nat /\ d.irq \cup {"TIMER"} \in SUBSET IRQs
  BY DEF Devices, IRQs
<1>2. CASE d.tmr = 0
  BY <1>2 DEF TimerAdvance
<1>3. CASE d.tmr # 0 /\ d.tmr > c
  <2>1. TimerAdvance(d, c) = [d EXCEPT !.tmr = d.tmr - c]
    BY <1>3, <1>1 DEF TimerAdvance
  <2>2. d.tmr - c \in Nat
    BY <1>1, <1>3
  <2> QED BY <2>1, <2>2 DEF Devices
<1>4. CASE d.tmr # 0 /\ ~ (d.tmr > c)
  <2> DEFINE n == IF d.per = 0 THEN 0 ELSE d.per - ((c - d.tmr) % d.per)
  <2>1. TimerAdvance(d, c) = [d EXCEPT !.tmr = n, !.irq = d.irq \cup {"TIMER"}]
    BY <1>4 DEF TimerAdvance
  <2>2. n \in Nat
    <3>1. CASE d.per = 0 BY <3>1
    <3>2. CASE d.per # 0
      <4>1. d.per \in Nat \ {0} /\ c - d.tmr \in Nat
        BY <1>1, <1>4, <3>2
      <4> DEFINE r == (c - d.tmr) % d.per
      <4>2. r \in Nat /\ r < d.per
        BY <4>1, ModFacts
      <4>3. n = d.per - r
        BY <3>2
      <4> HIDE DEF r, n
      <4> QED BY <4>1, <4>2, <4>3
    <3> QED BY <3>1, <3>2
  <2> HIDE DEF n
  <2> QED BY <2>1, <2>2, <1>1 DEF Devices
<1> QED BY <1>2, <1>3, <1>4

LEMMA SioFacts ==
    ASSUME NEW d \in Devices, NEW c \in Nat
    PROVE  LET s == SioAdvance(d, c)
           IN /\ s \in Devices /\ s.vbl = d.vbl /\ s.tmr = d.tmr /\ s.per = d.per
              /\ s.irq = d.irq \/ s.irq = d.irq \cup {"SIO"}
<1>1. d.ack \in Nat /\ d.pend \in BOOLEAN /\ d.irq \cup {"SIO"} \in SUBSET IRQs
  BY DEF Devices, IRQs
<1>2. CASE ~ d.pend
  BY <1>2 DEF SioAdvance
<1>3. CASE d.pend /\ d.ack < c
  <2>1. SioAdvance(d, c) = [d EXCEPT !.pend = FALSE, !.ack = 0, !.irq = d.irq \cup {"SIO"}]
    BY <1>3 DEF SioAdvance
  <2>2. ASSUME NEW b \in BOOLEAN, NEW q \in SUBSET IRQs
        PROVE  LET s == [d EXCEPT !.pend = b, !.ack = 0, !.irq = q]
               IN /\ s \in Devices /\ s.vbl = d.vbl /\ s.tmr = d.tmr /\ s.per = d.per
                  /\ s.irq = q
    BY DEF Devices
  <2>3. FALSE \in BOOLEAN
    OBVIOUS
  <2> DEFINE s == [d EXCEPT !.pend = FALSE, !.ack = 0, !.irq = d.irq \cup {"SIO"}]
  <2>4. /\ s \in Devices /\ s.vbl = d.vbl /\ s.tmr = d.tmr /\ s.per = d.per
        /\ s.irq = d.irq \cup {"SIO"}
    BY <2>2, <2>3, <1>1, Zenon
  <2> HIDE DEF s
  <2> QED BY <2>1, <2>4, Zenon DEF s
<1>4. CASE d.pend /\ ~ (d.ack < c)
  <2>1. SioAdvance(d, c) = [d EXCEPT !.ack = d.ack - c]
    BY <1>4 DEF SioAdvance
  <2>2. d.ack - c \in Nat
    BY <1>1, <1>4
  <2> QED BY <2>1, <2>2 DEF Devices
<1> QED BY <1>1, <1>2, <1>3, <1>4

LEMMA EventsFacts ==
    ASSUME NEW d \in Devices, NEW e \in BOOLEAN
    PROVE  /\ Events(d, e) \in Devices
           /\ Events(Events(d, e), e) = Events(d, e)
           /\ Events(d, e).tmr = d.tmr /\ Events(d, e).pend = d.pend
           /\ Events(d, e).ack = d.ack
           /\ d.vbl < VBLANK => Events(d, e) = d
           /\ e \/ Events(d, e).vbl < VBLANK
<1>1. d.vbl \in Nat /\ d.irq \cup {"VBLANK"} \in SUBSET IRQs
  BY DEF Devices, IRQs
<1>2. CASE e \/ d.vbl < VBLANK
  BY <1>2 DEF Events
<1>3. CASE ~ (e \/ d.vbl < VBLANK)
  <2> DEFINE v == d.vbl % VBLANK
             f == [d EXCEPT !.vbl = v, !.irq = d.irq \cup {"VBLANK"}]
  <2>1. Events(d, e) = f
    BY <1>3 DEF Events
  <2>2. v \in Nat /\ v < VBLANK
    BY <1>1, ModFacts
  <2> HIDE DEF v
  <2>3. f \in Devices /\ f.vbl = v /\ f.tmr = d.tmr /\ f.pend = d.pend /\ f.ack = d.ack
    BY <2>2, <1>1 DEF Devices
  <2> HIDE DEF f
  <2>4. Events(f, e) = f
    BY <2>2, <2>3 DEF Events
  <2> QED BY <1>3, <2>1, <2>2, <2>3, <2>4
<1> QED BY <1>2, <1>3

\* advance_devices without its last call.
Ran(d, c) ==
    LET t == TimerAdvance(SioAdvance(d, c), c) IN [t EXCEPT !.vbl = t.vbl + c]

LEMMA RanFacts ==
    ASSUME NEW d \in Devices, NEW c \in Nat
    PROVE  /\ Ran(d, c) \in Devices /\ Ran(d, c).vbl = d.vbl + c
           /\ \A e : Advance(d, c, e) = Events(Ran(d, c), e)
<1> DEFINE s == SioAdvance(d, c)
           t == TimerAdvance(s, c)
<1>1. s \in Devices /\ s.vbl = d.vbl
  BY SioFacts
<1>2. t \in Devices /\ t.vbl = d.vbl
  <2> HIDE DEF s
  <2> QED BY <1>1, TimerFacts
<1>3. Ran(d, c) = [t EXCEPT !.vbl = t.vbl + c]
  BY DEF Ran
<1>4. \A e : Advance(d, c, e) = Events(Ran(d, c), e)
  BY DEF Ran, Advance
<1> HIDE DEF t
<1>5. d.vbl + c \in Nat
  BY DEF Devices
<1> QED BY <1>2, <1>3, <1>4, <1>5 DEF Devices

LEMMA AdvanceFacts ==
    ASSUME NEW d \in Devices, NEW c \in Nat, NEW e \in BOOLEAN
    PROVE  /\ Advance(d, c, e) \in Devices
           /\ Events(Advance(d, c, e), e) = Advance(d, c, e)
BY RanFacts, EventsFacts

----------------------------------------------------------------------------
(* The exact path. *)

\* The recursion of Exact is well founded: it has a value, given by its equations.
LEMMA ExactRun ==
    ASSUME NEW d \in Devices, NEW e \in BOOLEAN, NEW n \in Nat
    PROVE  LET F == [y \in Devices |-> Advance(y, 1, e)]
           IN \E g : IsRun(g, Devices, F, Events(d, e), n) /\ Exact(d, n, e) = g[n]
<1> DEFINE F == [y \in Devices |-> Advance(y, 1, e)]
           b == Events(d, e)
           Rec(g) == [i \in 0..n |-> IF i = 0 THEN b ELSE Advance(g[i - 1], 1, e)]
           r == CHOOSE g : g = Rec(g)
<1>1. b \in Devices /\ F \in [Devices -> Devices]
  BY EventsFacts, AdvanceFacts
<1>2. PICK g : IsRun(g, Devices, F, b, n)
  <2> HIDE DEF F, b
  <2> QED BY <1>1, RunExists
<1>3. g \in [0..n -> Devices] /\ g[0] = b /\ \A i \in 1..n : g[i] = F[g[i - 1]]
  BY <1>2 DEF IsRun
<1>4. \A i \in 0..n : g[i] = Rec(g)[i]
  <2> HIDE DEF b
  <2>1. ASSUME NEW i \in 0..n PROVE g[i] = Rec(g)[i]
    <3>1. CASE i = 0 BY <3>1, <1>3
    <3>2. CASE i # 0
      <4>1. i \in 1..n /\ i - 1 \in 0..n BY <3>2
      <4>2. g[i - 1] \in Devices BY <4>1, <1>3
      <4> QED BY <4>1, <4>2, <3>2, <1>3
    <3> QED BY <3>1, <3>2
  <2> QED BY <2>1
<1>5. g = Rec(g)
  <2> HIDE DEF b, F
  <2>1. g = [i \in 0..n |-> g[i]]
    BY <1>3
  <2> QED BY <1>4, <2>1, Zenon
<1>6. r = Rec(r)
  BY <1>5, Zenon
<1>7. Exact(d, n, e) = r[n]
  BY Zenon DEF Exact
<1> HIDE DEF r
<1>8. r[0] = b /\ \A i \in 1..n : r[i] = Advance(r[i - 1], 1, e)
  <2> DEFINE q == Rec(r)
  <2>1. q[0] = b /\ \A i \in 1..n : q[i] = Advance(r[i - 1], 1, e)
    <3> HIDE DEF b
    <3> QED OBVIOUS
  <2> QED BY <2>1, <1>6, Zenon
<1>9. \A i \in 0..n : g[i] = r[i]
  <2> DEFINE S == {i \in Nat : i <= n => g[i] = r[i]}
  <2>1. 0 \in S
    BY <1>3, <1>8
  <2>2. ASSUME NEW i \in Nat, i \in S PROVE i + 1 \in S
    <3> SUFFICES ASSUME i + 1 <= n PROVE g[i + 1] = r[i + 1]
      OBVIOUS
    <3>1. i + 1 \in 1..n /\ (i + 1) - 1 = i /\ g[i] = r[i] /\ i \in 0..n
      BY <2>2
    <3>2. g[i] \in Devices
      BY <3>1, <1>3
    <3>3. g[i + 1] = Advance(g[i], 1, e)
      BY <3>1, <3>2, <1>3
    <3> HIDE DEF b, F
    <3> QED BY <3>1, <3>3, <1>8
  <2> HIDE DEF S
  <2>3. \A i \in Nat : i \in S
    BY <2>1, <2>2, NatInduct
  <2> QED BY <2>3 DEF S
<1> QED BY <1>2, <1>7, <1>9

\* The equations of the exact path.
LEMMA ExactZero ==
    ASSUME NEW d \in Devices, NEW e \in BOOLEAN
    PROVE  Exact(d, 0, e) = Events(d, e)
<1>1. 0 \in Nat OBVIOUS
<1> QED BY <1>1, ExactRun DEF IsRun

LEMMA ExactSucc ==
    ASSUME NEW d \in Devices, NEW e \in BOOLEAN, NEW n \in Nat
    PROVE  /\ Exact(d, n, e) \in Devices
           /\ Exact(d, n + 1, e) = Advance(Exact(d, n, e), 1, e)
<1> DEFINE F == [y \in Devices |-> Advance(y, 1, e)]
           b == Events(d, e)
<1>1. PICK g : IsRun(g, Devices, F, b, n) /\ Exact(d, n, e) = g[n]
  BY ExactRun
<1>2. PICK h : IsRun(h, Devices, F, b, n + 1) /\ Exact(d, n + 1, e) = h[n + 1]
  <2>1. n + 1 \in Nat OBVIOUS
  <2> QED BY <2>1, ExactRun
<1>3. IsRun(g, Devices, F, b, n) /\ IsRun(h, Devices, F, b, n + 1)
  BY <1>1, <1>2
<1>4. g[n] \in Devices /\ g[n] = h[n] /\ h[n + 1] = F[h[n]]
  <2>1. ASSUME NEW G, NEW c, IsRun(g, Devices, G, c, n), IsRun(h, Devices, G, c, n + 1)
        PROVE  g[n] \in Devices /\ g[n] = h[n] /\ h[n + 1] = G[h[n]]
    <3>1. n + 1 \in Nat /\ n <= n + 1 /\ n + 1 \in 1..(n + 1) /\ (n + 1) - 1 = n /\ n \in 0..n
      OBVIOUS
    <3>2. g[n] = h[n]
      BY <2>1, <3>1, RunUnique
    <3> QED BY <2>1, <3>1, <3>2 DEF IsRun
  <2> HIDE DEF F, b
  <2> QED BY <1>3, <2>1
<1>5. F[g[n]] = Advance(g[n], 1, e)
  BY <1>4
<1> QED BY <1>1, <1>2, <1>4, <1>5, Zenon

\* Nothing is due after a step of the exact path.
LEMMA ExactSettled ==
    ASSUME NEW d \in Devices, NEW e \in BOOLEAN, NEW n \in Nat
    PROVE  Exact(d, n, e) \in Devices /\ Events(Exact(d, n, e), e) = Exact(d, n, e)
<1>1. Exact(d, n, e) \in Devices
  BY ExactSucc
<1>2. CASE n = 0
  <2>1. Exact(d, 0, e) = Events(d, e)
    BY ExactZero
  <2>2. Events(Events(d, e), e) = Events(d, e)
    BY EventsFacts
  <2> QED BY <1>1, <1>2, <2>1, <2>2, Zenon
<1>3. CASE n # 0
  <2> DEFINE m == n - 1
  <2>1. m \in Nat /\ m + 1 = n
    BY <1>3
  <2> HIDE DEF m
  <2>2. Exact(d, m, e) \in Devices /\ Exact(d, m + 1, e) = Advance(Exact(d, m, e), 1, e)
    BY <2>1, ExactSucc
  <2>3. 1 \in Nat
    OBVIOUS
  <2>4. Events(Advance(Exact(d, m, e), 1, e), e) = Advance(Exact(d, m, e), 1, e)
    BY <2>2, <2>3, AdvanceFacts
  <2> QED BY <1>1, <2>1, <2>2, <2>4, Zenon
<1> QED BY <1>2, <1>3

\* The exact path of m + n cycles is that of m followed by that of n.
LEMMA ExactSplit ==
    ASSUME NEW d \in Devices, NEW e \in BOOLEAN, NEW m \in Nat, NEW n \in Nat
    PROVE  Exact(Exact(d, m, e), n, e) = Exact(d, m + n, e)
<1> DEFINE y == Exact(d, m, e)
           S == {k \in Nat : Exact(y, k, e) = Exact(d, m + k, e)}
<1>1. y \in Devices /\ Events(y, e) = y
  BY ExactSettled
<1>2. 0 \in S
  <2>1. Exact(y, 0, e) = y
    <3> HIDE DEF y
    <3>1. Exact(y, 0, e) = Events(y, e)
      BY <1>1, ExactZero
    <3> QED BY <3>1, <1>1, Zenon
  <2>2. m + 0 = m
    OBVIOUS
  <2> QED BY <2>1, <2>2
<1>3. ASSUME NEW k \in Nat, k \in S PROVE k + 1 \in S
  <2>1. Exact(y, k, e) = Exact(d, m + k, e)
    BY <1>3
  <2> HIDE DEF y
  <2>2. m + k \in Nat /\ k + 1 \in Nat /\ m + (k + 1) = (m + k) + 1
    OBVIOUS
  <2>3. Exact(y, k + 1, e) = Advance(Exact(y, k, e), 1, e)
    BY <1>1, ExactSucc
  <2>4. Exact(d, (m + k) + 1, e) = Advance(Exact(d, m + k, e), 1, e)
    BY <2>2, ExactSucc
  <2> QED BY <2>1, <2>2, <2>3, <2>4, Zenon
<1> HIDE DEF S
<1>4. \A k \in Nat : k \in S
  BY <1>2, <1>3, NatInduct
<1> QED BY <1>4 DEF S

----------------------------------------------------------------------------
(* One chunk. *)

\* devices_cycles_to_next_internal_event is at least one cycle and not beyond any
\* event it knows of.
LEMMA ToEventFacts ==
    ASSUME NEW d \in Devices
    PROVE  /\ ToEvent(d) \in Nat \ {0}
           /\ d.tmr # 0 => ToEvent(d) <= d.tmr
           /\ d.vbl < VBLANK => ToEvent(d) <= VBLANK - d.vbl
           /\ d.vbl >= VBLANK => ToEvent(d) = 1
<1> DEFINE D == Distances(d)
           v == IF d.vbl >= VBLANK THEN 0 ELSE VBLANK - d.vbl
<1>1. d.vbl \in Nat /\ d.tmr \in Nat /\ d.ack \in Nat
  BY DEF Devices
<1>2. v \in Nat
  BY <1>1
<1>3. D \subseteq Nat /\ v \in D /\ (d.tmr # 0 => d.tmr \in D)
  BY <1>1, <1>2 DEF Distances
<1>4. Min(D) \in D /\ \A y \in D : Min(D) <= y
  <2> HIDE DEF D
  <2>1. \E m \in D : \A y \in D : m <= y
    BY <1>3, LeastOfNat
  <2> QED BY <2>1 DEF Min
<1> DEFINE m == Min(D)
<1>5. m \in Nat /\ m <= v /\ (d.tmr # 0 => m <= d.tmr)
  BY <1>3, <1>4
<1> HIDE DEF D
<1>6. ToEvent(d) = Max({1, m})
  BY DEF ToEvent, D
<1> HIDE DEF m
<1>7. Max({1, m}) = IF m > 1 THEN m ELSE 1
  <2> DEFINE w == IF m > 1 THEN m ELSE 1
             Q == {1, m}
  <2>1. w \in Q /\ \A y \in Q : w >= y
    BY <1>5
  <2>2. \A z \in Q : (\A y \in Q : z >= y) => z = w
    BY <1>5
  <2> HIDE DEF w, Q
  <2>3. Max(Q) = w
    BY <2>1, <2>2 DEF Max
  <2> QED BY <2>3 DEF w, Q
<1> QED BY <1>1, <1>5, <1>6, <1>7

\* No time changes nothing.
LEMMA RanZero ==
    ASSUME NEW d \in Devices
    PROVE  Ran(d, 0) = d
<1>1. d.tmr \in Nat /\ d.ack \in Nat /\ d.vbl \in Nat /\ d.pend \in BOOLEAN
  BY DEF Devices
<1>2. SioAdvance(d, 0) = d
  BY <1>1 DEF SioAdvance, Devices
<1>3. TimerAdvance(d, 0) = d
  BY <1>1 DEF TimerAdvance, Devices
<1>4. Ran(d, 0) = [d EXCEPT !.vbl = d.vbl + 0]
  BY <1>2, <1>3 DEF Ran
<1> QED BY <1>1, <1>4 DEF Devices

\* The serial port may be advanced in pieces of any size.
LEMMA SioPlus ==
    ASSUME NEW d \in Devices, NEW i \in Nat
    PROVE  SioAdvance(SioAdvance(d, i), 1) = SioAdvance(d, i + 1)
<1>1. d.ack \in Nat /\ d.pend \in BOOLEAN
  BY DEF Devices
<1>2. CASE ~ d.pend
  BY <1>2 DEF SioAdvance
<1>a. \A f, c : ~ f.pend => SioAdvance(f, c) = f
  BY DEF SioAdvance
<1>b. \A f, c : f.pend /\ f.ack < c
        => SioAdvance(f, c) = [f EXCEPT !.pend = FALSE, !.ack = 0, !.irq = f.irq \cup {"SIO"}]
  BY DEF SioAdvance
<1>c. \A f, c : f.pend /\ ~ (f.ack < c) => SioAdvance(f, c) = [f EXCEPT !.ack = f.ack - c]
  BY DEF SioAdvance
<1>3. CASE d.pend /\ d.ack < i
  <2> DEFINE s == [d EXCEPT !.pend = FALSE, !.ack = 0, !.irq = d.irq \cup {"SIO"}]
  <2>1. SioAdvance(d, i) = s /\ SioAdvance(d, i + 1) = s
    <3>1. d.ack < i + 1
      BY <1>1, <1>3
    <3> QED BY <1>3, <1>b, <3>1, Zenon
  <2>2. ~ s.pend
    BY DEF Devices
  <2>3. SioAdvance(s, 1) = s
    BY <2>2, <1>a, Zenon
  <2> QED BY <2>1, <2>3, Zenon
<1>4. CASE d.pend /\ d.ack >= i
  <2> DEFINE s == [d EXCEPT !.ack = d.ack - i]
  <2>1. SioAdvance(d, i) = s
    <3>1. ~ (d.ack < i)
      BY <1>1, <1>4
    <3> QED BY <1>4, <1>c, <3>1, Zenon
  <2>2. s.pend = d.pend /\ s.ack = d.ack - i /\ s.irq = d.irq
    BY DEF Devices
  <2>3. CASE d.ack = i
    <3>1. s.ack < 1 /\ d.ack < i + 1
      BY <2>2, <2>3, <1>1
    <3>2. SioAdvance(s, 1) = [s EXCEPT !.pend = FALSE, !.ack = 0, !.irq = d.irq \cup {"SIO"}]
      BY <3>1, <2>2, <1>4, <1>b, Zenon
    <3>3. SioAdvance(d, i + 1) = [d EXCEPT !.pend = FALSE, !.ack = 0, !.irq = d.irq \cup {"SIO"}]
      BY <3>1, <1>4, <1>b, Zenon
    <3>4. ASSUME NEW b, NEW q
          PROVE  [s EXCEPT !.pend = b, !.ack = 0, !.irq = q]
                   = [d EXCEPT !.pend = b, !.ack = 0, !.irq = q]
      BY DEF Devices
    <3> HIDE DEF s
    <3> QED BY <2>1, <3>2, <3>3, <3>4, Zenon
  <2>4. CASE d.ack > i
    <3>1. ~ (s.ack < 1) /\ ~ (d.ack < i + 1) /\ s.ack - 1 = d.ack - (i + 1)
      BY <2>2, <2>4, <1>1
    <3>2. SioAdvance(s, 1) = [s EXCEPT !.ack = s.ack - 1]
      BY <3>1, <2>2, <1>4, <1>c, Zenon
    <3>3. SioAdvance(d, i + 1) = [d EXCEPT !.ack = d.ack - (i + 1)]
      BY <3>1, <1>4, <1>c, Zenon
    <3>4. [s EXCEPT !.ack = s.ack - 1] = [d EXCEPT !.ack = d.ack - (i + 1)]
      BY <3>1 DEF Devices
    <3> HIDE DEF s
    <3> QED BY <2>1, <3>2, <3>3, <3>4, Zenon
  <2> QED BY <2>3, <2>4, <1>1, <1>4
<1> QED BY <1>1, <1>2, <1>3, <1>4

\* So may a counter, up to the cycle where it fires.
LEMMA TimerPlus ==
    ASSUME NEW d \in Devices, NEW i \in Nat, d.tmr # 0 => i + 1 <= d.tmr
    PROVE  TimerAdvance(TimerAdvance(d, i), 1) = TimerAdvance(d, i + 1)
<1>1. d.tmr \in Nat
  BY DEF Devices
<1>2. CASE d.tmr = 0
  BY <1>2 DEF TimerAdvance
<1>3. CASE d.tmr # 0
  <2> DEFINE u == [d EXCEPT !.tmr = d.tmr - i]
  <2>1. TimerAdvance(d, i) = u
    BY <1>1, <1>3 DEF TimerAdvance
  <2>2. u.tmr = d.tmr - i /\ u.per = d.per /\ u.irq = d.irq /\ u.tmr # 0
    BY <1>1, <1>3 DEF Devices
  <2>3. CASE d.tmr = i + 1
    <3>1. 1 - u.tmr = 0 /\ (i + 1) - d.tmr = 0 /\ ~ (u.tmr > 1) /\ ~ (d.tmr > i + 1)
      BY <2>2, <2>3, <1>1
    <3> DEFINE w == IF d.per = 0 THEN 0 ELSE d.per - (0 % d.per)
    <3>2. TimerAdvance(u, 1) = [u EXCEPT !.tmr = w, !.irq = d.irq \cup {"TIMER"}]
      <4> HIDE DEF u
      <4>1. TimerAdvance(u, 1)
              = [u EXCEPT !.tmr = IF u.per = 0 THEN 0 ELSE u.per - ((1 - u.tmr) % u.per),
                          !.irq = u.irq \cup {"TIMER"}]
        BY <3>1, <2>2 DEF TimerAdvance
      <4> QED BY <4>1, <3>1, <2>2
    <3>3. TimerAdvance(d, i + 1) = [d EXCEPT !.tmr = w, !.irq = d.irq \cup {"TIMER"}]
      BY <3>1, <1>3 DEF TimerAdvance
    <3> HIDE DEF w
    <3>4. [u EXCEPT !.tmr = w, !.irq = d.irq \cup {"TIMER"}]
            = [d EXCEPT !.tmr = w, !.irq = d.irq \cup {"TIMER"}]
      BY DEF Devices
    <3> QED BY <2>1, <3>2, <3>3, <3>4
  <2>4. CASE d.tmr > i + 1
    <3>1. TimerAdvance(u, 1) = [u EXCEPT !.tmr = u.tmr - 1]
      BY <2>2, <2>4, <1>1 DEF TimerAdvance
    <3>2. TimerAdvance(d, i + 1) = [d EXCEPT !.tmr = d.tmr - (i + 1)]
      BY <1>3, <2>4, <1>1 DEF TimerAdvance
    <3>3. u.tmr - 1 = d.tmr - (i + 1)
      BY <2>2, <1>1
    <3>4. [u EXCEPT !.tmr = u.tmr - 1] = [d EXCEPT !.tmr = d.tmr - (i + 1)]
      BY <3>3 DEF Devices
    <3> QED BY <2>1, <3>1, <3>2, <3>4
  <2> QED BY <2>3, <2>4, <1>1, <1>3
<1> QED BY <1>2, <1>3

\* The devices with the counter and the blank set.
Put(d, k, v) == [d EXCEPT !.tmr = k, !.vbl = v]

\* The serial port does not look at the counter or the blank, nor the counter at
\* the blank.
LEMMA SioFrame ==
    ASSUME NEW d \in Devices, NEW c \in Nat, NEW k \in Nat, NEW v \in Nat
    PROVE  SioAdvance(Put(d, k, v), c) = Put(SioAdvance(d, c), k, v)
<1> DEFINE f == [d EXCEPT !.tmr = k, !.vbl = v]
<1>1. f.pend = d.pend /\ f.ack = d.ack /\ f.irq = d.irq
  BY DEF Devices
<1>2. CASE ~ d.pend
  <2>1. SioAdvance(d, c) = d
    BY <1>2 DEF SioAdvance
  <2>2. SioAdvance(f, c) = f
    <3> HIDE DEF f
    <3> QED BY <1>1, <1>2 DEF SioAdvance
  <2> QED BY <2>1, <2>2, Zenon DEF Put
<1>3. CASE d.pend /\ d.ack < c
  <2>1. SioAdvance(d, c) = [d EXCEPT !.pend = FALSE, !.ack = 0, !.irq = d.irq \cup {"SIO"}]
    BY <1>3 DEF SioAdvance
  <2>2. SioAdvance(f, c) = [f EXCEPT !.pend = FALSE, !.ack = 0, !.irq = d.irq \cup {"SIO"}]
    <3> HIDE DEF f
    <3> QED BY <1>1, <1>3 DEF SioAdvance
  <2>3. ASSUME NEW b, NEW q
        PROVE  [f EXCEPT !.pend = b, !.ack = 0, !.irq = q]
                 = [[d EXCEPT !.pend = b, !.ack = 0, !.irq = q] EXCEPT !.tmr = k, !.vbl = v]
    BY DEF Devices
  <2> HIDE DEF f
  <2> QED BY <2>1, <2>2, <2>3, Zenon DEF f, Put
<1>4. CASE d.pend /\ ~ (d.ack < c)
  <2>1. SioAdvance(d, c) = [d EXCEPT !.ack = d.ack - c]
    BY <1>4 DEF SioAdvance
  <2>2. SioAdvance(f, c) = [f EXCEPT !.ack = d.ack - c]
    <3> HIDE DEF f
    <3> QED BY <1>1, <1>4 DEF SioAdvance
  <2>3. [f EXCEPT !.ack = d.ack - c]
          = [[d EXCEPT !.ack = d.ack - c] EXCEPT !.tmr = k, !.vbl = v]
    BY DEF Devices
  <2> QED BY <2>1, <2>2, <2>3, Zenon DEF Put
<1> QED BY <1>2, <1>3, <1>4 DEF Put

LEMMA TimerFrame ==
    ASSUME NEW d \in Devices, NEW c \in Nat, NEW v \in Nat
    PROVE  TimerAdvance([d EXCEPT !.vbl = v], c) = [TimerAdvance(d, c) EXCEPT !.vbl = v]
<1> DEFINE f == [d EXCEPT !.vbl = v]
           w == IF d.per = 0 THEN 0 ELSE d.per - ((c - d.tmr) % d.per)
           q == d.irq \cup {"TIMER"}
<1>1. f.tmr = d.tmr /\ f.per = d.per /\ f.irq = d.irq
  BY DEF Devices
<1>2. CASE d.tmr = 0
  <2>1. TimerAdvance(d, c) = d
    BY <1>2 DEF TimerAdvance
  <2>2. TimerAdvance(f, c) = f
    <3> HIDE DEF f
    <3> QED BY <1>1, <1>2 DEF TimerAdvance
  <2> QED BY <2>1, <2>2, Zenon
<1>3. CASE d.tmr # 0 /\ d.tmr > c
  <2>1. TimerAdvance(d, c) = [d EXCEPT !.tmr = d.tmr - c]
    BY <1>3 DEF TimerAdvance
  <2>2. TimerAdvance(f, c) = [f EXCEPT !.tmr = d.tmr - c]
    <3> HIDE DEF f
    <3> QED BY <1>1, <1>3 DEF TimerAdvance
  <2>3. [f EXCEPT !.tmr = d.tmr - c] = [[d EXCEPT !.tmr = d.tmr - c] EXCEPT !.vbl = v]
    BY DEF Devices
  <2> QED BY <2>1, <2>2, <2>3, Zenon
<1>4. CASE d.tmr # 0 /\ ~ (d.tmr > c)
  <2>1. TimerAdvance(d, c) = [d EXCEPT !.tmr = w, !.irq = q]
    BY <1>4 DEF TimerAdvance
  <2>2. TimerAdvance(f, c) = [f EXCEPT !.tmr = w, !.irq = q]
    <3> HIDE DEF f
    <3> QED BY <1>1, <1>4 DEF TimerAdvance
  <2> HIDE DEF w, q
  <2>3. [f EXCEPT !.tmr = w, !.irq = q] = [[d EXCEPT !.tmr = w, !.irq = q] EXCEPT !.vbl = v]
    BY DEF Devices
  <2> QED BY <2>1, <2>2, <2>3, Zenon
<1> QED BY <1>2, <1>3, <1>4

\* Until the counter fires, one more cycle is one longer advance.
LEMMA RanPlus ==
    ASSUME NEW d \in Devices, NEW i \in Nat, d.tmr # 0 => i + 1 <= d.tmr
    PROVE  Ran(Ran(d, i), 1) = Ran(d, i + 1)
<1> DEFINE s == SioAdvance(d, i)
           k == IF d.tmr = 0 THEN 0 ELSE d.tmr - i
           v == d.vbl + i
           s2 == SioAdvance(d, i + 1)
           t2 == TimerAdvance(s2, i + 1)
<1>1. d.tmr \in Nat /\ d.vbl \in Nat /\ k \in Nat /\ v \in Nat /\ i + 1 \in Nat /\ v + 1 = d.vbl + (i + 1)
  BY DEF Devices
<1>2. /\ s \in Devices /\ s.tmr = d.tmr /\ s.vbl = d.vbl
      /\ s2 \in Devices /\ s2.tmr = d.tmr /\ s2.vbl = d.vbl
      /\ SioAdvance(s, 1) = s2
  BY <1>1, SioFacts, SioPlus
<1>3. ASSUME NEW a \in Devices, a.tmr = d.tmr
      PROVE  TimerAdvance(a, i) = [a EXCEPT !.tmr = k]
  <2>1. CASE d.tmr = 0
    BY <2>1, <1>3 DEF TimerAdvance, Devices
  <2>2. CASE d.tmr # 0
    BY <2>2, <1>3, <1>1 DEF TimerAdvance
  <2> QED BY <2>1, <2>2
<1> HIDE DEF s, s2, k, v
<1>4. Ran(d, i) = [s EXCEPT !.tmr = k, !.vbl = v]
  <2>1. TimerAdvance(s, i) = [s EXCEPT !.tmr = k]
    BY <1>2, <1>3
  <2>2. [s EXCEPT !.tmr = k].vbl = d.vbl
    BY <1>2 DEF Devices
  <2>3. Ran(d, i) = [[s EXCEPT !.tmr = k] EXCEPT !.vbl = v]
    BY <2>1, <2>2 DEF Ran, s, v
  <2> QED BY <2>3, <1>2 DEF Devices
<1>5. SioAdvance(Ran(d, i), 1) = [s2 EXCEPT !.tmr = k, !.vbl = v]
  <2>1. SioAdvance([s EXCEPT !.tmr = k, !.vbl = v], 1)
          = [SioAdvance(s, 1) EXCEPT !.tmr = k, !.vbl = v]
    <3>1. 1 \in Nat OBVIOUS
    <3>2. s \in Devices /\ k \in Nat /\ v \in Nat
      BY <1>1, <1>2
    <3>3. SioAdvance(Put(s, k, v), 1) = Put(SioAdvance(s, 1), k, v)
      BY <3>1, <3>2, SioFrame
    <3> QED BY <3>3, Zenon DEF Put
  <2> QED BY <2>1, <1>2, <1>4, Zenon
<1>6. [s2 EXCEPT !.tmr = k, !.vbl = v] = [TimerAdvance(s2, i) EXCEPT !.vbl = v]
  <2>1. TimerAdvance(s2, i) = [s2 EXCEPT !.tmr = k]
    BY <1>2, <1>3
  <2> QED BY <2>1, <1>2 DEF Devices
<1>7. TimerAdvance(s2, i) \in Devices
  BY <1>2, TimerFacts
<1>8. TimerAdvance([TimerAdvance(s2, i) EXCEPT !.vbl = v], 1) = [t2 EXCEPT !.vbl = v]
  <2>1. TimerAdvance([TimerAdvance(s2, i) EXCEPT !.vbl = v], 1)
          = [TimerAdvance(TimerAdvance(s2, i), 1) EXCEPT !.vbl = v]
    BY <1>1, <1>7, TimerFrame
  <2>2. TimerAdvance(TimerAdvance(s2, i), 1) = t2
    BY <1>2, TimerPlus
  <2> QED BY <2>1, <2>2
<1>9. t2 \in Devices /\ t2.vbl = d.vbl
  BY <1>1, <1>2, TimerFacts
<1>10. Ran(Ran(d, i), 1) = [[t2 EXCEPT !.vbl = v] EXCEPT !.vbl = v + 1]
  <2>1. [t2 EXCEPT !.vbl = v].vbl = v
    BY <1>9 DEF Devices
  <2>2. TimerAdvance(SioAdvance(Ran(d, i), 1), 1) = [t2 EXCEPT !.vbl = v]
    BY <1>5, <1>6, <1>8, Zenon
  <2> HIDE DEF t2
  <2> QED BY <2>1, <2>2 DEF Ran
<1>11. Ran(d, i + 1) = [t2 EXCEPT !.vbl = t2.vbl + (i + 1)]
  BY DEF Ran, s2
<1> HIDE DEF t2
<1>12. t2.vbl + (i + 1) = v + 1
  BY <1>1, <1>9
<1> QED BY <1>9, <1>10, <1>11, <1>12 DEF Devices

\* One chunk of the replay is as many single cycles: up to the next event, and it
\* included, advance_devices called once does what it does called on every cycle.
LEMMA ChunkIsExact ==
    ASSUME NEW d \in Devices, NEW e \in BOOLEAN, e \/ d.vbl < VBLANK,
           NEW n \in Nat, n <= ToEvent(d)
    PROVE  Exact(d, n, e) = Advance(d, n, e)
<1> DEFINE S == {c \in Nat : c <= ToEvent(d) => Exact(d, c, e) = Advance(d, c, e)}
<1>1. /\ ToEvent(d) \in Nat \ {0} /\ (d.tmr # 0 => ToEvent(d) <= d.tmr)
      /\ d.vbl < VBLANK => ToEvent(d) <= VBLANK - d.vbl
      /\ d.vbl \in Nat /\ d.tmr \in Nat
  BY ToEventFacts DEF Devices
<1>2. 0 \in S
  <2>1. Exact(d, 0, e) = Events(d, e)
    BY ExactZero
  <2>2. Advance(d, 0, e) = Events(Ran(d, 0), e)
    <3>1. 0 \in Nat OBVIOUS
    <3> QED BY <3>1, RanFacts
  <2>3. Ran(d, 0) = d
    BY RanZero
  <2>4. Exact(d, 0, e) = Advance(d, 0, e)
    BY <2>1, <2>2, <2>3, Zenon
  <2> QED BY <2>4
<1>3. ASSUME NEW c \in Nat, c \in S PROVE c + 1 \in S
  <2> SUFFICES ASSUME c + 1 <= ToEvent(d)
               PROVE  Exact(d, c + 1, e) = Advance(d, c + 1, e)
    OBVIOUS
  <2>1. Exact(d, c, e) = Advance(d, c, e)
    <3>1. c <= ToEvent(d)
      BY <1>1
    <3> QED BY <3>1, <1>3
  <2>2. Exact(d, c + 1, e) = Advance(Exact(d, c, e), 1, e)
    BY ExactSucc
  <2> DEFINE y == Ran(d, c)
  <2>3. y \in Devices /\ y.vbl = d.vbl + c /\ Advance(d, c, e) = Events(y, e)
    BY RanFacts
  <2>4. Events(y, e) = y
    <3>1. CASE e
      BY <3>1 DEF Events
    <3>2. CASE ~ e
      <4>1. y.vbl < VBLANK
        BY <3>2, <2>3, <1>1
      <4> HIDE DEF y
      <4> QED BY <4>1, <2>3, EventsFacts
    <3> QED BY <3>1, <3>2
  <2>5. Ran(y, 1) = Ran(d, c + 1)
    <3>1. d.tmr # 0 => c + 1 <= d.tmr
      BY <1>1
    <3> QED BY <3>1, RanPlus
  <2>6. Advance(y, 1, e) = Events(Ran(y, 1), e)
    <3>1. 1 \in Nat OBVIOUS
    <3> HIDE DEF y
    <3> QED BY <3>1, <2>3, RanFacts
  <2>7. Advance(d, c + 1, e) = Events(Ran(d, c + 1), e)
    <3>1. c + 1 \in Nat OBVIOUS
    <3> QED BY <3>1, RanFacts
  <2> HIDE DEF y
  <2> QED BY <2>1, <2>2, <2>3, <2>4, <2>5, <2>6, <2>7, Zenon
<1> HIDE DEF S
<1>4. \A c \in Nat : c \in S
  BY <1>2, <1>3, NatInduct
<1> QED BY <1>4 DEF S

\* Short of the next event only the serial port can have raised anything.
LEMMA QuietRun ==
    ASSUME NEW d \in Devices, NEW n \in Nat, n < ToEvent(d)
    PROVE  Ran(d, n).irq \ {"SIO"} = d.irq \ {"SIO"}
<1> DEFINE s == SioAdvance(d, n)
           t == TimerAdvance(s, n)
<1>1. s \in Devices /\ s.tmr = d.tmr /\ (s.irq = d.irq \/ s.irq = d.irq \cup {"SIO"})
  BY SioFacts
<1>2. d.tmr \in Nat /\ (d.tmr # 0 => d.tmr > n)
  <2>1. ToEvent(d) \in Nat /\ (d.tmr # 0 => ToEvent(d) <= d.tmr)
    BY ToEventFacts
  <2> QED BY <2>1 DEF Devices
<1> HIDE DEF s
<1>3. t.irq = s.irq /\ t \in Devices
  <2>1. t = s \/ t = [s EXCEPT !.tmr = s.tmr - n]
    BY <1>1, <1>2 DEF TimerAdvance
  <2>2. t.irq = s.irq
    <3> HIDE DEF t
    <3> QED BY <1>1, <2>1 DEF Devices
  <2> QED BY <2>2, <1>1, TimerFacts
<1>4. Ran(d, n).irq = t.irq
  <2>1. Ran(d, n) = [t EXCEPT !.vbl = t.vbl + n]
    BY DEF Ran, s
  <2> HIDE DEF t
  <2> QED BY <2>1, <1>3 DEF Devices
<1>5. CASE s.irq = d.irq
  BY <1>5, <1>3, <1>4
<1>6. CASE s.irq = d.irq \cup {"SIO"}
  <2>1. Ran(d, n).irq = d.irq \cup {"SIO"}
    BY <1>6, <1>3, <1>4
  <2> QED BY <2>1
<1> QED BY <1>1, <1>5, <1>6

----------------------------------------------------------------------------
(* The inductive invariant. *)

\* The devices lag behind the exact path by gap cycles in which no event falls;
\* the deadline lies at or before the first event, so reaching it starts a service
\* before one is missed.  left = 0, the dirty mark, only stands when nothing lags.
IdleInv ==
    /\ x = Ran(dev, gap)
    /\ gap + left <= ToEvent(dev)
    /\ left = 0 => gap = 0
    /\ op # NoOp => gap = 0

\* While a service runs, replaying what is left of it lands on the exact path.
ServiceInv ==
    /\ x = Exact(dev, todo, exc)
    /\ Events(dev, exc) = dev
    /\ exc \/ dev.vbl < VBLANK

ClockInv ==
    /\ TypeOK
    /\ ~ svc => IdleInv
    /\ svc => ServiceInv

\* Devices that are settled, or an event in the past, do not change by looking.
LEMMA ServiceBegins ==
    ASSUME NEW d \in Devices, NEW e \in BOOLEAN, NEW g \in Nat, NEW n \in Nat,
           g = 0 \/ g < ToEvent(d)
    PROVE  Exact(Ran(d, g), n, e) = Exact(Events(d, e), g + n, e)
<1> DEFINE b == Events(d, e)
<1>1. b \in Devices /\ Events(b, e) = b
  BY EventsFacts
<1>2. CASE g = 0
  <2>1. Exact(d, 0, e) = b
    BY ExactZero
  <2>2. Exact(b, 0, e) = b
    <3>1. Exact(b, 0, e) = Events(b, e)
      <4> HIDE DEF b
      <4> QED BY <1>1, ExactZero
    <3> QED BY <3>1, <1>1, Zenon
  <2>3. 0 \in Nat /\ 0 + n = n
    OBVIOUS
  <2>4. Exact(Exact(d, 0, e), n, e) = Exact(d, 0 + n, e)
    BY <2>3, ExactSplit
  <2>5. Ran(d, 0) = d
    BY RanZero
  <2> HIDE DEF b
  <2> QED BY <1>2, <2>1, <2>3, <2>4, <2>5, Zenon DEF b
<1>3. CASE g # 0
  <2> DEFINE y == Ran(d, g)
  <2>1. d.vbl < VBLANK /\ d.vbl + g < VBLANK /\ g <= ToEvent(d)
    <3>1. /\ ToEvent(d) \in Nat
          /\ d.vbl < VBLANK => ToEvent(d) <= VBLANK - d.vbl
          /\ d.vbl >= VBLANK => ToEvent(d) = 1
      BY ToEventFacts
    <3>2. d.vbl \in Nat
      BY DEF Devices
    <3> QED BY <3>1, <3>2, <1>3
  <2>2. b = d
    BY <2>1, EventsFacts
  <2>3. y \in Devices /\ y.vbl < VBLANK /\ Advance(d, g, e) = Events(y, e)
    BY <2>1, RanFacts
  <2>4. Events(y, e) = y
    <3> HIDE DEF y
    <3> QED BY <2>3, EventsFacts
  <2>5. Exact(d, g, e) = Advance(d, g, e)
    BY <2>1, ChunkIsExact
  <2>6. Exact(Exact(d, g, e), n, e) = Exact(d, g + n, e)
    BY ExactSplit
  <2> HIDE DEF b, y
  <2> QED BY <2>2, <2>3, <2>4, <2>5, <2>6, Zenon DEF b, y
<1> QED BY <1>2, <1>3

\* Between the deadlines the exact path is the devices run ahead.
LEMMA IdleRuns ==
    ASSUME NEW d \in Devices, NEW e \in BOOLEAN, NEW g \in Nat, NEW n \in Nat,
           g + n < ToEvent(d), g + n # 0
    PROVE  Exact(Ran(d, g), n, e) = Ran(d, g + n)
<1> DEFINE y == Ran(d, g + n)
<1>0. g + n \in Nat /\ ToEvent(d) \in Nat /\ d.vbl \in Nat
  BY ToEventFacts DEF Devices
<1>1. d.vbl + (g + n) < VBLANK /\ d.vbl < VBLANK
  <2>1. /\ d.vbl < VBLANK => ToEvent(d) <= VBLANK - d.vbl
        /\ d.vbl >= VBLANK => ToEvent(d) = 1
    BY ToEventFacts
  <2> QED BY <2>1, <1>0
<1>2. Events(d, e) = d
  BY <1>1, EventsFacts
<1>3. g = 0 \/ g < ToEvent(d)
  BY <1>0
<1>4. Exact(Ran(d, g), n, e) = Exact(Events(d, e), g + n, e)
  BY <1>3, ServiceBegins
<1>5. g + n <= ToEvent(d)
  BY <1>0
<1>6. Exact(d, g + n, e) = Advance(d, g + n, e)
  BY <1>0, <1>1, <1>5, ChunkIsExact
<1>7. y \in Devices /\ y.vbl < VBLANK /\ Advance(d, g + n, e) = Events(y, e)
  BY <1>0, <1>1, RanFacts
<1>8. Events(y, e) = y
  <2> HIDE DEF y
  <2> QED BY <1>7, EventsFacts
<1> HIDE DEF y
<1> QED BY <1>2, <1>4, <1>6, <1>7, <1>8, Zenon DEF y

\* A charge of any size.
LEMMA ChargedInv ==
    ASSUME ClockInv, NEW n \in Nat \ {0}, Charged(n)
    PROVE  ClockInv'
<1>1. /\ dev \in Devices /\ x \in Devices /\ gap \in Nat /\ left \in Nat /\ left <= HARD_CAP
      /\ exc \in BOOLEAN /\ svc = FALSE /\ todo \in 0..gap /\ op = NoOp
      /\ x = Ran(dev, gap) /\ gap + left <= ToEvent(dev) /\ (left = 0 => gap = 0)
  BY DEF ClockInv, TypeOK, IdleInv, Charged
<1>2. x' = Exact(x, n, exc) /\ gap' = gap + n /\ op' = op /\ exc' = exc
  BY DEF Charged
<1>3. x' \in Devices /\ gap' \in Nat
  <2>1. Exact(x, n, exc) \in Devices
    BY <1>1, ExactSucc
  <2> QED BY <1>1, <1>2, <2>1
<1>4. ToEvent(dev) \in Nat /\ (gap = 0 \/ gap < ToEvent(dev))
  <2>1. ToEvent(dev) \in Nat
    BY <1>1, ToEventFacts
  <2> QED BY <2>1, <1>1
<1>5. CASE left <= n
  <2>1. svc' = TRUE /\ todo' = gap + n /\ dev' = Events(dev, exc) /\ left' = 0
    BY <1>5 DEF Charged, DeadlineReached
  <2>2. /\ Events(dev, exc) \in Devices /\ Events(Events(dev, exc), exc) = Events(dev, exc)
        /\ exc \/ Events(dev, exc).vbl < VBLANK
    BY <1>1, EventsFacts
  <2>3. Exact(Ran(dev, gap), n, exc) = Exact(Events(dev, exc), gap + n, exc)
    BY <1>1, <1>4, ServiceBegins
  <2>4. x' = Exact(dev', todo', exc') /\ Events(dev', exc') = dev'
    BY <1>1, <1>2, <2>1, <2>2, <2>3, Zenon
  <2>5. exc' \/ dev'.vbl < VBLANK
    BY <1>2, <2>1, <2>2, Zenon
  <2>6. TypeOK'
    <3>1. left' \in 0..HARD_CAP /\ todo' \in 0..gap'
      BY <1>2, <1>3, <2>1
    <3>2. dev' \in Devices /\ svc' \in BOOLEAN /\ exc' \in BOOLEAN /\ op' \in Ops \cup {NoOp}
      BY <1>1, <1>2, <2>1, <2>2, Zenon
    <3> QED BY <1>3, <3>1, <3>2, Zenon DEF TypeOK
  <2> QED BY <2>1, <2>4, <2>5, <2>6, Zenon DEF ClockInv, ServiceInv
<1>6. CASE ~ (left <= n)
  <2>1. svc' = svc /\ todo' = todo /\ dev' = dev /\ left' = left - n
    BY <1>6, <1>1 DEF Charged, DeadlineReached
  <2>2. gap + n < ToEvent(dev) /\ left' \in 0..HARD_CAP /\ left' # 0 /\ gap' + left' <= ToEvent(dev)
    BY <1>1, <1>2, <1>4, <1>6, <2>1
  <2>3. x' = Ran(dev, gap + n)
    <3>1. gap + n # 0
      BY <1>1
    <3>2. Exact(Ran(dev, gap), n, exc) = Ran(dev, gap + n)
      BY <3>1, <2>2, <1>1, IdleRuns
    <3> QED BY <3>2, <1>1, <1>2, Zenon
  <2>4. TypeOK'
    <3>1. left' \in 0..HARD_CAP /\ todo' \in 0..gap'
      BY <1>1, <1>2, <2>1, <2>2
    <3>2. dev' \in Devices /\ svc' \in BOOLEAN /\ exc' \in BOOLEAN /\ op' \in Ops \cup {NoOp}
      BY <1>1, <1>2, <2>1, Zenon
    <3> QED BY <1>3, <3>1, <3>2, Zenon DEF TypeOK
  <2>5. IdleInv'
    BY <1>1, <1>2, <2>1, <2>2, <2>3 DEF IdleInv
  <2> QED BY <2>1, <2>4, <2>5, <1>1 DEF ClockInv
<1> QED BY <1>5, <1>6

\* One turn of the replay loop.
LEMMA ChunkInv ==
    ASSUME ClockInv, ServiceChunk
    PROVE  ClockInv'
<1> DEFINE step == Smaller(todo, ToEvent(dev))
<1>1. /\ dev \in Devices /\ x \in Devices /\ gap \in Nat /\ left \in 0..HARD_CAP
      /\ exc \in BOOLEAN /\ svc = TRUE /\ todo \in 0..gap /\ todo > 0
      /\ op \in Ops \cup {NoOp}
  BY DEF ClockInv, TypeOK, ServiceChunk
<1>2. /\ x = Exact(dev, todo, exc) /\ Events(dev, exc) = dev
      /\ exc \/ dev.vbl < VBLANK
  BY Zenon DEF ClockInv, ServiceInv, ServiceChunk
<1>3. dev' = Advance(dev, step, exc) /\ todo' = todo - step
      /\ UNCHANGED <<x, gap, left, svc, op, exc>>
  BY Zenon DEF ServiceChunk
<1>4. ToEvent(dev) \in Nat
  BY <1>1, ToEventFacts
<1>5. /\ step \in Nat /\ step <= ToEvent(dev) /\ todo - step \in Nat /\ todo - step \in 0..gap
      /\ step + (todo - step) = todo
  BY <1>1, <1>4 DEF Smaller
<1> HIDE DEF step
<1>6. Exact(dev, step, exc) = Advance(dev, step, exc)
  BY <1>1, <1>2, <1>5, ChunkIsExact
<1>7. Exact(Exact(dev, step, exc), todo - step, exc) = Exact(dev, step + (todo - step), exc)
  BY <1>1, <1>5, ExactSplit
<1>8. x' = Exact(dev', todo', exc')
  BY <1>2, <1>3, <1>5, <1>6, <1>7, Zenon
<1>9. Advance(dev, step, exc) \in Devices /\ Events(Advance(dev, step, exc), exc) = Advance(dev, step, exc)
  BY <1>1, <1>5, AdvanceFacts
<1>10. exc \/ Advance(dev, step, exc).vbl < VBLANK
  <2>1. Ran(dev, step) \in Devices /\ Advance(dev, step, exc) = Events(Ran(dev, step), exc)
    BY <1>1, <1>5, RanFacts
  <2>2. exc \/ Events(Ran(dev, step), exc).vbl < VBLANK
    BY <1>1, <2>1, EventsFacts
  <2> QED BY <2>1, <2>2, Zenon
<1>11. TypeOK'
  BY <1>1, <1>3, <1>5, <1>9 DEF TypeOK
<1>12. ServiceInv'
  BY <1>3, <1>8, <1>9, <1>10, Zenon DEF ServiceInv
<1> QED BY <1>1, <1>3, <1>11, <1>12 DEF ClockInv

\* The end of a service: the devices are on the exact path.
LEMMA EndInv ==
    ASSUME ClockInv, ServiceEnd
    PROVE  ClockInv'
<1>1. /\ dev \in Devices /\ x \in Devices /\ exc \in BOOLEAN /\ svc = TRUE /\ todo = 0
      /\ op \in Ops \cup {NoOp}
  BY DEF ClockInv, TypeOK, ServiceEnd
<1>2. x = Exact(dev, 0, exc) /\ Events(dev, exc) = dev
  BY Zenon DEF ClockInv, ServiceInv, ServiceEnd
<1>3. svc' = FALSE /\ gap' = 0 /\ left' = Deadline(dev) /\ UNCHANGED <<dev, x, todo, op, exc>>
  BY Zenon DEF ServiceEnd
<1>4. Exact(dev, 0, exc) = Events(dev, exc) /\ Ran(dev, 0) = dev
  BY <1>1, ExactZero, RanZero
<1>5. x' = Ran(dev', gap')
  BY <1>2, <1>3, <1>4, Zenon
<1>6. ToEvent(dev) \in Nat \ {0}
  BY <1>1, ToEventFacts
<1>7. left' \in 0..HARD_CAP /\ left' <= ToEvent(dev)
  BY <1>3, <1>6 DEF Deadline, Smaller
<1>8. TypeOK'
  <2>1. gap' \in Nat /\ todo' \in 0..gap'
    BY <1>1, <1>3
  <2>2. /\ dev' \in Devices /\ x' \in Devices /\ svc' \in BOOLEAN /\ exc' \in BOOLEAN
        /\ op' \in Ops \cup {NoOp}
    BY <1>1, <1>3, Zenon
  <2> QED BY <1>7, <2>1, <2>2, Zenon DEF TypeOK
<1>9. IdleInv'
  BY <1>3, <1>5, <1>7 DEF IdleInv
<1> QED BY <1>3, <1>8, <1>9 DEF ClockInv

\* A device access catches up first.
LEMMA BeginInv ==
    ASSUME ClockInv, NEW o \in Ops, MmioBegin(o)
    PROVE  ClockInv'
<1>1. /\ dev \in Devices /\ x \in Devices /\ gap \in Nat /\ left \in 0..HARD_CAP
      /\ exc \in BOOLEAN /\ svc = FALSE /\ todo \in 0..gap /\ op = NoOp
      /\ x = Ran(dev, gap) /\ gap + left <= ToEvent(dev) /\ (left = 0 => gap = 0)
  BY DEF ClockInv, TypeOK, IdleInv, MmioBegin
<1>2. op' = o /\ UNCHANGED <<x, gap, left, exc>>
  BY Zenon DEF MmioBegin
<1>3. CASE gap > 0
  <2>1. svc' = TRUE /\ todo' = gap /\ dev' = Events(dev, exc)
    BY <1>3 DEF MmioBegin, Behind
  <2>2. /\ Events(dev, exc) \in Devices /\ Events(Events(dev, exc), exc) = Events(dev, exc)
        /\ exc \/ Events(dev, exc).vbl < VBLANK
    BY <1>1, EventsFacts
  <2>3. Ran(dev, gap) = Exact(Events(dev, exc), gap, exc)
    <3>1. ToEvent(dev) \in Nat
      BY <1>1, ToEventFacts
    <3>2. gap < ToEvent(dev) /\ 0 \in Nat /\ gap + 0 = gap /\ gap + 0 < ToEvent(dev) /\ gap + 0 # 0
      BY <1>1, <1>3, <3>1
    <3>3. Exact(Ran(dev, gap), 0, exc) = Ran(dev, gap + 0)
      BY <1>1, <3>2, IdleRuns
    <3>4. Exact(Ran(dev, gap), 0, exc) = Exact(Events(dev, exc), gap + 0, exc)
      BY <1>1, <3>2, ServiceBegins
    <3> QED BY <3>2, <3>3, <3>4, Zenon
  <2>4. x' = Exact(dev', todo', exc') /\ Events(dev', exc') = dev'
    BY <1>1, <1>2, <2>1, <2>2, <2>3, Zenon
  <2>5. exc' \/ dev'.vbl < VBLANK
    BY <1>2, <2>1, <2>2, Zenon
  <2>6. TypeOK'
    BY <1>1, <1>2, <2>1, <2>2 DEF TypeOK
  <2> QED BY <2>1, <2>4, <2>5, <2>6, Zenon DEF ClockInv, ServiceInv
<1>4. CASE gap = 0
  <2>1. UNCHANGED <<svc, todo, dev>>
    BY <1>4 DEF MmioBegin, Behind
  <2>2. TypeOK'
    BY <1>1, <1>2, <2>1 DEF TypeOK
  <2>3. IdleInv'
    BY <1>1, <1>2, <1>4, <2>1 DEF IdleInv
  <2> QED BY <1>1, <2>1, <2>2, <2>3 DEF ClockInv
<1> QED BY <1>1, <1>3, <1>4

\* The access itself, on devices that are up to date.
LEMMA AccessInv ==
    ASSUME ClockInv, MmioEnd
    PROVE  ClockInv'
<1>1. /\ dev \in Devices /\ exc \in BOOLEAN /\ svc = FALSE /\ todo \in 0..gap
      /\ gap = 0 /\ op \in Ops /\ x = Ran(dev, 0)
  BY DEF ClockInv, TypeOK, IdleInv, MmioEnd
<1>2. dev' = Access(dev, op) /\ x' = Access(x, op) /\ left' = 0 /\ op' = NoOp
      /\ UNCHANGED <<gap, svc, todo, exc>>
  BY Zenon DEF MmioEnd, Dirty
<1>3. Ran(dev, 0) = dev
  BY <1>1, RanZero
<1>4. Access(dev, op) \in Devices
  <2>1. CASE op.kind = "read"
    BY <2>1, <1>1 DEF Access
  <2>2. CASE op.kind = "pad"
    <3>1. Access(dev, op) = [dev EXCEPT !.pend = TRUE, !.ack = ACK]
      BY <2>2 DEF Access
    <3>2. ASSUME NEW b \in BOOLEAN PROVE [dev EXCEPT !.pend = b, !.ack = ACK] \in Devices
      BY <1>1 DEF Devices
    <3> QED BY <3>1, <3>2, Zenon
  <2>3. CASE op.kind = "clear"
    <3>1. Access(dev, op) = [dev EXCEPT !.irq = {}]
      BY <2>3 DEF Access
    <3> QED BY <3>1, <1>1 DEF Devices
  <2>4. CASE op.kind = "timer"
    <3> DEFINE p == IF op.rep THEN op.per ELSE 0
    <3>1. Access(dev, op) = [dev EXCEPT !.tmr = op.per, !.per = p]
      BY <2>4 DEF Access
    <3>2. op.per \in Nat
      BY <1>1, <2>4 DEF Ops
    <3>3. p \in Nat
      BY <3>2
    <3> HIDE DEF p
    <3> QED BY <3>1, <3>2, <3>3, <1>1 DEF Devices
  <2>5. op.kind \in {"read", "pad", "clear", "timer"}
    BY <1>1 DEF Ops
  <2> QED BY <2>1, <2>2, <2>3, <2>4, <2>5
<1>5. dev' \in Devices /\ x' = dev' /\ Ran(dev', 0) = dev'
  <2>1. dev' \in Devices
    BY <1>2, <1>4
  <2>2. x' = dev'
    BY <1>1, <1>2, <1>3, Zenon
  <2> QED BY <2>1, <2>2, RanZero
<1>6. ToEvent(dev') \in Nat
  BY <1>5, ToEventFacts
<1>7. TypeOK'
  <2>1. gap' \in Nat /\ todo' \in 0..gap' /\ left' \in 0..HARD_CAP
    BY <1>1, <1>2
  <2>2. /\ dev' \in Devices /\ x' \in Devices /\ svc' \in BOOLEAN /\ exc' \in BOOLEAN
        /\ op' \in Ops \cup {NoOp}
    BY <1>1, <1>2, <1>5, Zenon
  <2> QED BY <2>1, <2>2, Zenon DEF TypeOK
<1>8. IdleInv'
  <2>1. gap' = 0 /\ gap' + left' = 0
    BY <1>1, <1>2
  <2> QED BY <1>2, <1>5, <1>6, <2>1 DEF IdleInv
<1> QED BY <1>1, <1>2, <1>7, <1>8 DEF ClockInv

\* The interrupt check raises a blank that was held back, on both sides.
LEMMA CheckInv ==
    ASSUME ClockInv, Check
    PROVE  ClockInv'
<1>1. /\ dev \in Devices /\ x \in Devices /\ gap \in Nat /\ left \in 0..HARD_CAP
      /\ exc \in BOOLEAN /\ svc = FALSE /\ todo \in 0..gap /\ op = NoOp
      /\ x = Ran(dev, gap) /\ gap + left <= ToEvent(dev) /\ (left = 0 => gap = 0)
  BY DEF ClockInv, TypeOK, IdleInv, Check
<1>2. dev' = Events(dev, exc) /\ x' = Events(x, exc) /\ exc' \in BOOLEAN
      /\ UNCHANGED <<gap, left, svc, todo, op>>
  BY <1>1 DEF Check
<1>3. Events(dev, exc) \in Devices /\ Events(x, exc) \in Devices
  BY <1>1, EventsFacts
<1>4. /\ ToEvent(dev) \in Nat
      /\ dev.vbl < VBLANK => ToEvent(dev) <= VBLANK - dev.vbl
      /\ dev.vbl >= VBLANK => ToEvent(dev) = 1
      /\ dev.vbl \in Nat
  <2>1. dev.vbl \in Nat
    BY <1>1 DEF Devices
  <2> QED BY <1>1, <2>1, ToEventFacts
<1>5. ToEvent(dev') \in Nat \ {0}
  BY <1>2, <1>3, ToEventFacts
<1>6. TypeOK'
  BY <1>1, <1>2, <1>3 DEF TypeOK
<1>7. x' = Ran(dev', gap') /\ gap' + left' <= ToEvent(dev')
  <2>1. CASE dev.vbl >= VBLANK
    <3>1. gap = 0 /\ left <= 1
      BY <2>1, <1>1, <1>4
    <3>2. Ran(dev, 0) = dev /\ Ran(Events(dev, exc), 0) = Events(dev, exc)
      BY <1>1, <1>3, RanZero
    <3>3. x' = Ran(dev', gap')
      BY <1>1, <1>2, <3>1, <3>2, Zenon
    <3> QED BY <1>1, <1>2, <1>5, <3>1, <3>3
  <2>2. CASE dev.vbl < VBLANK
    <3>1. Events(dev, exc) = dev
      BY <2>2, <1>1, EventsFacts
    <3>2. x.vbl = dev.vbl + gap
      BY <1>1, RanFacts
    <3>3. x.vbl < VBLANK
      BY <3>2, <2>2, <1>1, <1>4
    <3>4. Events(x, exc) = x
      BY <3>3, <1>1, EventsFacts
    <3>5. dev' = dev /\ x' = x
      BY <3>1, <3>4, <1>2, Zenon
    <3> QED BY <1>1, <1>2, <3>5
  <2> QED BY <2>1, <2>2, <1>4
<1>8. IdleInv'
  BY <1>1, <1>2, <1>7 DEF IdleInv
<1> QED BY <1>1, <1>2, <1>6, <1>8 DEF ClockInv

\* A whole number of poll loops, at least one.
LEMMA SkipFacts ==
    ASSUME dev \in Devices, NEW q \in Nat \ {0}, ToEvent(dev) > q
    PROVE  SkipCount(q) * q \in Nat \ {0}
<1>1. ToEvent(dev) \in Nat
  BY ToEventFacts
<1> DEFINE m == ToEvent(dev) + q - 1
           k == m \div q
<1>2. m \in Nat /\ m >= q
  BY <1>1
<1> HIDE DEF m
<1>3. k \in Int /\ m = (q * k) + (m % q) /\ m % q \in 0..(q - 1)
  BY <1>2
<1> HIDE DEF k
<1>4. k >= 1
  <2> SUFFICES ASSUME k <= 0 PROVE FALSE
    BY <1>3
  <2>1. q * k <= 0
    BY <1>3
  <2> QED BY <2>1, <1>2, <1>3
<1>5. k * q \in Nat \ {0}
  BY <1>3, <1>4
<1> QED BY <1>5 DEF SkipCount, m, k

LEMMA ClockInvInductive ==
    ASSUME ClockInv, [Next]_vars
    PROVE  ClockInv'
<1>1. CASE Charge
  <2>1. PICK n \in Charges : Charged(n)
    BY <1>1 DEF Charge
  <2>2. n \in Nat \ {0}
    BY <2>1
  <2> QED BY <2>1, <2>2, ChargedInv
<1>2. CASE ServiceChunk
  BY <1>2, ChunkInv
<1>3. CASE ServiceEnd
  BY <1>3, EndInv
<1>4. ASSUME NEW o \in Ops, MmioBegin(o) PROVE ClockInv'
  BY <1>4, BeginInv
<1>5. CASE MmioEnd
  BY <1>5, AccessInv
<1>6. CASE IdleSkip
  <2>1. PICK q \in Quanta : ToEvent(dev) > q /\ Charged(SkipCount(q) * q)
    BY <1>6 DEF IdleSkip
  <2>2. q \in Nat \ {0} /\ dev \in Devices
    BY <2>1 DEF ClockInv, TypeOK
  <2>3. SkipCount(q) * q \in Nat \ {0}
    BY <2>1, <2>2, SkipFacts
  <2> QED BY <2>1, <2>3, ChargedInv
<1>7. CASE Check
  BY <1>7, CheckInv
<1>8. CASE LeaveException
  <2>1. exc' = FALSE /\ svc = FALSE /\ UNCHANGED <<dev, x, gap, left, svc, todo, op>>
    BY <1>8 DEF LeaveException, ClockInv, TypeOK
  <2> QED BY <2>1 DEF ClockInv, TypeOK, IdleInv
<1>9. CASE UNCHANGED vars
  BY <1>9 DEF vars, ClockInv, TypeOK, IdleInv, ServiceInv
<1> QED BY <1>1, <1>2, <1>3, <1>4, <1>5, <1>6, <1>7, <1>8, <1>9 DEF Next

LEMMA ClockInvInit ==
    ASSUME Init
    PROVE  ClockInv
<1>1. dev \in Devices
  BY DEF Init, Devices
<1>2. Ran(dev, 0) = dev /\ ToEvent(dev) \in Nat
  BY <1>1, RanZero, ToEventFacts
<1>3. TypeOK
  <2>1. gap \in Nat /\ todo \in 0..gap /\ left \in 0..HARD_CAP
    BY DEF Init
  <2>2. x \in Devices /\ svc \in BOOLEAN /\ exc \in BOOLEAN /\ op \in Ops \cup {NoOp}
    BY <1>1, Zenon DEF Init
  <2> QED BY <1>1, <2>1, <2>2, Zenon DEF TypeOK
<1>4. IdleInv
  BY <1>2 DEF Init, IdleInv
<1> QED BY <1>3, <1>4 DEF ClockInv, Init

\* The state keeps its type: the deadline is never beyond the hard cap, and a service
\* never has more to replay than the devices lag behind.
THEOREM ClockTypeCorrect == Spec => []TypeOK
<1>1. Init => ClockInv
  BY ClockInvInit
<1>2. ClockInv /\ [Next]_vars => ClockInv'
  BY ClockInvInductive
<1>3. ClockInv => TypeOK
  BY DEF ClockInv
<1> QED BY <1>1, <1>2, <1>3, PTL DEF Spec

\* Every device access of guest code finds the devices where advancing them on every
\* cycle would have put them (psx_devices_mmio_sync), whatever the deadlines were.
THEOREM DeviceAccessExact == Spec => []AccessSeesExactDevices
<1>1. Init => ClockInv
  BY ClockInvInit
<1>2. ClockInv /\ [Next]_vars => ClockInv'
  BY ClockInvInductive
<1>3. ClockInv => AccessSeesExactDevices
  <2> SUFFICES ASSUME ClockInv, ~ svc, op # NoOp PROVE dev = x
    BY DEF AccessSeesExactDevices
  <2>1. dev \in Devices /\ x = Ran(dev, 0)
    BY DEF ClockInv, TypeOK, IdleInv
  <2> QED BY <2>1, RanZero
<1> QED BY <1>1, <1>2, <1>3, PTL DEF Spec

\* Counter and vertical-blank interrupts are in I_STAT at the cycle they are due, although
\* the interrupt check does not catch the devices up.
THEOREM InterruptsPunctual == Spec => []InterruptsOnTime
<1>1. Init => ClockInv
  BY ClockInvInit
<1>2. ClockInv /\ [Next]_vars => ClockInv'
  BY ClockInvInductive
<1>3. ClockInv => InterruptsOnTime
  <2> SUFFICES ASSUME ClockInv, ~ svc PROVE dev.irq \ {"SIO"} = x.irq \ {"SIO"}
    BY DEF InterruptsOnTime, Settled
  <2>1. /\ dev \in Devices /\ gap \in Nat /\ left \in Nat /\ x = Ran(dev, gap)
        /\ gap + left <= ToEvent(dev) /\ (left = 0 => gap = 0)
    BY DEF ClockInv, TypeOK, IdleInv
  <2>2. ToEvent(dev) \in Nat \ {0}
    BY <2>1, ToEventFacts
  <2>3. gap < ToEvent(dev)
    BY <2>1, <2>2
  <2> QED BY <2>1, <2>3, QuietRun
<1> QED BY <1>1, <1>2, <1>3, PTL DEF Spec

=============================================================================
