------------------------ MODULE CompileWorkerProofs ------------------------
(***************************************************************************)
(* The consistency of the compile worker's queue, dedup map, counters and  *)
(* snapshots, for every key set and every capacity; that the array behind  *)
(* the queue is a bounded FIFO, alone and with the worker (WorkRing); and  *)
(* the pipeline that publishes and registers its shards (OverlayPipeline). *)
(***************************************************************************)
EXTENDS WorkRing, OverlayPipeline, WellFoundedInduction, FiniteSetTheorems, TLAPS

\* Which control points of the two threads go together.
Control ==
    /\ it # NoKey <=> wpc \in {"compile", "finish"}
    /\ s_running <=> (caller = "run" /\ s_thread)
    /\ wpc = "none" <=> ~ s_thread
    /\ caller \in {"boot", "down"} => ~ s_thread
    /\ wpc = "exited" => caller = "join" /\ Len(s_q) = 0

\* The inductive invariant.
WorkerInv ==
    /\ TypeOK
    /\ Control
    /\ UniqueKeys
    /\ QueuedMatchesMap
    /\ InFlightMatchesMap
    /\ NoDuplicateWork
    /\ CountersAddUp
    /\ NoSnapshotLeak

----------------------------------------------------------------------------
(* The dedup map. *)

\* Every nonempty set of natural numbers has a least element.
LEMMA LeastOfNat ==
    ASSUME NEW S, S \subseteq Nat, S # {}
    PROVE  \E i \in S : \A j \in S : i <= j
<1> DEFINE R == OpToRel(<, Nat)
<1>1. IsWellFoundedOn(R, Nat)
  BY NatLessThanWellFounded
<1>2. \A i, j \in Nat : i < j => <<i, j>> \in R
  BY Zenon DEF OpToRel
<1> HIDE DEF R
<1>3. PICK i \in S : \A j \in S : ~ (<<j, i>> \in R)
  BY <1>1, WFMin
<1>4. \A j \in S : ~ (j < i)
  BY <1>2, <1>3, Zenon
<1>5. \A j \in S : i <= j
  BY <1>4
<1> QED
  BY <1>5

\* The eviction keeps every unfinished entry, invents none, and keeps keys unique.
LEMMA EvictedFacts ==
    ASSUME TypeOK, UniqueKeys
    PROVE  /\ Evicted \in Seq(Entry)
           /\ \A a, b \in 1..Len(Evicted) : Evicted[a].key = Evicted[b].key => a = b
           /\ \A a \in 1..Len(Evicted) :
                \E b \in 1..Len(s_state) : s_state[b] = Evicted[a]
           /\ \A b \in 1..Len(s_state) : ~ Finished(s_state[b]) =>
                \E a \in 1..Len(Evicted) : Evicted[a] = s_state[b]
<1> DEFINE n == Len(s_state)
           full == n >= STATE_CAP /\ \E i \in 1..n : Finished(s_state[i])
           first(i) == /\ Finished(s_state[i])
                       /\ \A j \in 1..(i - 1) : ~ Finished(s_state[j])
           v == CHOOSE i \in 1..n : first(i)
           ev == [j \in 1..(n - 1) |-> IF j = v THEN s_state[n] ELSE s_state[j]]
<1>0. n \in Nat /\ s_state \in [1..n -> Entry]
  BY DEF TypeOK
<1>1. CASE ~ full
  <2>1. Evicted = s_state
    BY <1>1 DEF Evicted
  <2> QED
    BY <2>1 DEF TypeOK, UniqueKeys
<1>2. CASE full
  <2>1. \E i \in 1..n : first(i)
    <3>1. PICK k \in 1..n : Finished(s_state[k])
      BY <1>2
    <3> DEFINE S == {i \in 1..n : Finished(s_state[i])}
    <3>2. \E i \in S : \A j \in S : i <= j
      <4>1. S \subseteq Nat /\ S # {}
        BY <3>1, <1>0
      <4> HIDE DEF S
      <4> QED
        BY <4>1, LeastOfNat
    <3> QED
      BY <3>2, <1>0
  <2>2. v \in 1..n /\ Finished(s_state[v])
    BY <2>1
  <2>3. Evicted = ev
    BY <1>2 DEF Evicted
  <2> HIDE DEF v
  <2>4. n - 1 \in Nat
    BY <2>2, <1>0
  <2>5. ev \in [1..(n - 1) -> Entry]
    BY <2>4, <1>0
  <2>6. ev \in Seq(Entry) /\ Len(ev) = n - 1
    BY <2>4, <2>5
  <2>7. \A a, b \in 1..(n - 1) : ev[a].key = ev[b].key => a = b
    BY <2>2, <2>4, <1>0 DEF UniqueKeys
  <2>8. \A a \in 1..(n - 1) : \E b \in 1..n : s_state[b] = ev[a]
    BY <2>2, <2>4, <1>0
  <2>9. \A b \in 1..n : ~ Finished(s_state[b]) => \E a \in 1..(n - 1) : ev[a] = s_state[b]
    <3> SUFFICES ASSUME NEW b \in 1..n, ~ Finished(s_state[b])
                 PROVE  \E a \in 1..(n - 1) : ev[a] = s_state[b]
      OBVIOUS
    <3>1. b # v
      BY <2>2
    <3>2. CASE b = n
      BY <3>1, <3>2, <2>2, <2>4, <1>0
    <3>3. CASE b # n
      <4>1. b \in 1..(n - 1)
        <5>1. n \in Nat /\ b \in 1..n /\ b # n
          BY <3>3, <1>0
        <5> HIDE DEF n
        <5> QED
          BY <5>1
      <4>2. ev[b] = s_state[b]
        BY <4>1, <3>1
      <4> HIDE DEF ev
      <4> QED
        BY <4>1, <4>2
    <3> QED
      BY <3>2, <3>3
  <2> HIDE DEF ev
  <2> QED
    BY <2>3, <2>6, <2>7, <2>8, <2>9
<1> QED
  BY <1>1, <1>2

\* Marking an entry changes its state and nothing else.
LEMMA MarkedFacts ==
    ASSUME TypeOK, NEW k, NEW st \in States
    PROVE  /\ Marked(k, st) \in Seq(Entry)
           /\ Len(Marked(k, st)) = Len(s_state)
           /\ \A i \in 1..Len(s_state) :
                Marked(k, st)[i] =
                  [key |-> s_state[i].key,
                   st  |-> IF s_state[i].key = k THEN st ELSE s_state[i].st]
<1> DEFINE n == Len(s_state)
<1>1. n \in Nat /\ s_state \in [1..n -> Entry]
  BY DEF TypeOK
<1>2. \A i \in 1..n : Marked(k, st)[i] =
         [key |-> s_state[i].key,
          st  |-> IF s_state[i].key = k THEN st ELSE s_state[i].st]
  BY <1>1 DEF Marked, Entry
<1>3. Marked(k, st) \in [1..n -> Entry]
  BY <1>1 DEF Marked, Entry
<1> QED
  BY <1>1, <1>2, <1>3 DEF Marked

LEMMA MarkedKeys ==
    ASSUME TypeOK, NEW k, NEW st \in States
    PROVE  /\ Len(Marked(k, st)) = Len(s_state)
           /\ \A i \in 1..Len(s_state) : Marked(k, st)[i].key = s_state[i].key
<1> DEFINE n == Len(s_state)
           mk == Marked(k, st)
<1>1. /\ mk \in Seq(Entry) /\ Len(mk) = n /\ n \in Nat
      /\ \A i \in 1..n : mk[i] =
            [key |-> s_state[i].key,
             st  |-> IF s_state[i].key = k THEN st ELSE s_state[i].st]
  BY MarkedFacts DEF TypeOK
<1> HIDE DEF mk, n
<1>2. \A i \in 1..n : mk[i].key = s_state[i].key
  BY <1>1
<1> QED
  BY <1>1, <1>2 DEF mk, n

----------------------------------------------------------------------------
LEMMA WorkerInvInit == Init => WorkerInv
<1> SUFFICES ASSUME Init PROVE WorkerInv
  OBVIOUS
<1>1. TypeOK
  <2>1. s_q \in Seq(Keys) /\ s_state \in Seq(Entry)
    BY DEF Init
  <2>2. snaps \in Nat /\ s_enq \in Nat /\ s_done \in Nat /\ s_failed \in Nat
    BY DEF Init
  <2> QED
    BY <2>1, <2>2, Zenon DEF Init, TypeOK, WorkerPoints
<1>a. Control
  BY DEF Init, Control
<1>2. Len(s_q) = 0 /\ Len(s_state) = 0 /\ it = NoKey
  BY DEF Init
<1>3. UniqueKeys /\ QueuedMatchesMap /\ InFlightMatchesMap /\ NoDuplicateWork
  BY <1>2 DEF UniqueKeys, QueuedMatchesMap, InFlightMatchesMap, NoDuplicateWork
<1>4. CountersAddUp /\ NoSnapshotLeak
  BY <1>2 DEF Init, CountersAddUp, InHand, NoSnapshotLeak
<1> QED
  BY <1>1, <1>a, <1>3, <1>4 DEF WorkerInv

\* An enqueue: the eviction and the append.
LEMMA EnqueuePreserves ==
    ASSUME WorkerInv, NEW k \in Keys, Enqueue(k)
    PROVE  WorkerInv'
<1> DEFINE ev == Evicted
           e == [key |-> k, st |-> "QUEUED"]
           m == Len(ev)
<1>1. /\ ev \in Seq(Entry)
      /\ \A a, b \in 1..m : ev[a].key = ev[b].key => a = b
      /\ \A a \in 1..m : \E b \in 1..Len(s_state) : s_state[b] = ev[a]
      /\ \A b \in 1..Len(s_state) : ~ Finished(s_state[b]) => \E a \in 1..m : ev[a] = s_state[b]
  BY EvictedFacts DEF WorkerInv
<1>2. \A a \in 1..m : ev[a].key # k
  BY <1>1 DEF Enqueue, Known
<1>3. /\ s_state' = Append(ev, e)
      /\ s_q' = Append(s_q, k)
      /\ e \in Entry
  BY DEF Enqueue, Entry, States
<1> HIDE DEF ev
<1>4. /\ m \in Nat
      /\ s_state' \in Seq(Entry)
      /\ Len(s_state') = m + 1
      /\ s_state'[m + 1] = e
      /\ \A a \in 1..m : s_state'[a] = ev[a]
  BY <1>1, <1>3
<1>5. /\ s_q' \in Seq(Keys)
      /\ Len(s_q) \in Nat
      /\ Len(s_q') = Len(s_q) + 1
      /\ s_q'[Len(s_q) + 1] = k
      /\ \A i \in 1..Len(s_q) : s_q'[i] = s_q[i]
  BY <1>3 DEF WorkerInv, TypeOK
<1>6. TypeOK'
  BY <1>4, <1>5 DEF Enqueue, WorkerInv, TypeOK, WorkerPoints, Signalled
<1>7. Control'
  BY DEF Enqueue, WorkerInv, Control, Signalled, TypeOK
<1>8. UniqueKeys'
  <2> SUFFICES ASSUME NEW i \in 1..(m + 1), NEW j \in 1..(m + 1),
                      s_state'[i].key = s_state'[j].key
               PROVE  i = j
    BY <1>4 DEF UniqueKeys
  <2>1. e.key = k
    OBVIOUS
  <2> HIDE DEF e, m
  <2> QED
    BY <1>1, <1>2, <1>4, <2>1
<1>9. QueuedMatchesMap'
  <2>1. ASSUME NEW i \in 1..Len(s_q')
        PROVE  \E j \in 1..Len(s_state') : s_state'[j] = [key |-> s_q'[i], st |-> "QUEUED"]
    <3>1. CASE i = Len(s_q) + 1
      BY <3>1, <1>4, <1>5
    <3>2. CASE i # Len(s_q) + 1
      <4>1. i \in 1..Len(s_q)
        BY <3>2, <1>5
      <4>2. PICK b \in 1..Len(s_state) : s_state[b] = [key |-> s_q[i], st |-> "QUEUED"]
        BY <4>1 DEF WorkerInv, QueuedMatchesMap
      <4>3. ~ Finished(s_state[b])
        BY <4>2 DEF Finished
      <4>4. PICK a \in 1..m : ev[a] = s_state[b]
        BY <4>3, <1>1
      <4>5. s_state'[a] = [key |-> s_q'[i], st |-> "QUEUED"]
        BY <4>1, <4>2, <4>4, <1>4, <1>5
      <4>6. a \in 1..Len(s_state')
        BY <1>4
      <4> QED
        BY <4>5, <4>6
    <3> QED
      BY <3>1, <3>2
  <2>2. ASSUME NEW j \in 1..Len(s_state'), s_state'[j].st = "QUEUED"
        PROVE  \E i \in 1..Len(s_q') : s_q'[i] = s_state'[j].key
    <3>1. CASE j = m + 1
      BY <3>1, <1>4, <1>5
    <3>2. CASE j # m + 1
      <4>1. j \in 1..m
        BY <3>2, <1>4
      <4>2. PICK b \in 1..Len(s_state) : s_state[b] = ev[j]
        BY <4>1, <1>1
      <4>3. s_state[b].st = "QUEUED" /\ s_state'[j] = s_state[b]
        BY <2>2, <4>1, <4>2, <1>4
      <4>4. PICK i \in 1..Len(s_q) : s_q[i] = s_state[b].key
        BY <4>3 DEF WorkerInv, QueuedMatchesMap
      <4>5. i \in 1..Len(s_q') /\ s_q'[i] = s_state'[j].key
        BY <4>3, <4>4, <1>5
      <4> QED
        BY <4>5
    <3> QED
      BY <3>1, <3>2
  <2> QED
    BY <2>1, <2>2 DEF QueuedMatchesMap
<1>10. InFlightMatchesMap'
  <2>0. it' = it
    BY DEF Enqueue
  <2>1. ASSUME it # NoKey
        PROVE  \E j \in 1..Len(s_state') : s_state'[j] = [key |-> it, st |-> "COMPILING"]
    <3>1. PICK b \in 1..Len(s_state) : s_state[b] = [key |-> it, st |-> "COMPILING"]
      BY <2>1 DEF WorkerInv, InFlightMatchesMap
    <3>2. ~ Finished(s_state[b])
      BY <3>1 DEF Finished
    <3>3. PICK a \in 1..m : ev[a] = s_state[b]
      BY <3>2, <1>1
    <3>4. a \in 1..Len(s_state') /\ s_state'[a] = s_state[b]
      BY <3>3, <1>4
    <3> QED
      BY <3>1, <3>4
  <2>2. ASSUME NEW j \in 1..Len(s_state'), s_state'[j].st = "COMPILING"
        PROVE  s_state'[j].key = it
    <3>1. j # m + 1
      BY <2>2, <1>4
    <3>2. j \in 1..m
      BY <3>1, <1>4
    <3>3. PICK b \in 1..Len(s_state) : s_state[b] = ev[j]
      BY <3>2, <1>1
    <3> QED
      BY <2>2, <3>2, <3>3, <1>4 DEF WorkerInv, InFlightMatchesMap
  <2> QED
    BY <2>0, <2>1, <2>2 DEF InFlightMatchesMap
<1>11. NoDuplicateWork'
  <2>1. \A i \in 1..Len(s_q) : s_q[i] # k
    BY DEF WorkerInv, QueuedMatchesMap, Enqueue, Known
  <2>2. it # k
    <3>1. k # NoKey
      BY WorkerAssumption
    <3> QED
      BY <3>1 DEF WorkerInv, InFlightMatchesMap, Enqueue, Known
  <2>3. it' = it
    BY DEF Enqueue
  <2>4. \A i \in 1..Len(s_q') : i # Len(s_q) + 1 => i \in 1..Len(s_q)
    BY <1>5
  <2> QED
    BY <2>1, <2>2, <2>3, <2>4, <1>5 DEF WorkerInv, NoDuplicateWork
<1>12. CountersAddUp' /\ NoSnapshotLeak'
  BY <1>5 DEF Enqueue, WorkerInv, TypeOK, CountersAddUp, InHand, NoSnapshotLeak, Signalled
<1> QED
  BY <1>6, <1>7, <1>8, <1>9, <1>10, <1>11, <1>12 DEF WorkerInv

\* A pop: the oldest item moves to the worker's hands and its entry to COMPILING.
LEMMA PopPreserves == ASSUME WorkerInv, WorkerPop PROVE WorkerInv'
<1> DEFINE k == Head(s_q)
           mk == Marked(k, "COMPILING")
           n == Len(s_state)
<1>1. /\ s_q \in Seq(Keys) /\ Len(s_q) \in Nat /\ Len(s_q) > 0
      /\ k = s_q[1] /\ k \in Keys
      /\ s_q' \in Seq(Keys) /\ Len(s_q') = Len(s_q) - 1
      /\ \A i \in 1..Len(s_q') : s_q'[i] = s_q[i + 1]
  BY DEF WorkerInv, TypeOK, WorkerPop
<1>2. /\ mk \in Seq(Entry) /\ Len(mk) = n /\ n \in Nat
      /\ \A i \in 1..n : mk[i] =
            [key |-> s_state[i].key,
             st  |-> IF s_state[i].key = k THEN "COMPILING" ELSE s_state[i].st]
  BY MarkedFacts DEF WorkerInv, TypeOK, States
<1>3. it = NoKey /\ it' = k /\ wpc = "check" /\ wpc' = "compile" /\ s_state' = mk
  BY DEF WorkerPop, WorkerInv, Control
<1>4. k # NoKey
  BY <1>1, WorkerAssumption
<1> HIDE DEF k, mk, n
<1>5. TypeOK'
  BY <1>1, <1>2, <1>3 DEF WorkerPop, WorkerInv, TypeOK, WorkerPoints
<1>6. Control'
  BY <1>3, <1>4 DEF WorkerPop, WorkerInv, Control
<1>7. UniqueKeys'
  <2>1. \A i \in 1..n : s_state'[i].key = s_state[i].key
    BY <1>2, <1>3
  <2>2. \A i, j \in 1..n : s_state[i].key = s_state[j].key => i = j
    BY DEF WorkerInv, UniqueKeys, n
  <2> QED
    BY <2>1, <2>2, <1>2, <1>3 DEF UniqueKeys
<1>8. QueuedMatchesMap'
  <2>1. ASSUME NEW i \in 1..Len(s_q')
        PROVE  \E j \in 1..Len(s_state') : s_state'[j] = [key |-> s_q'[i], st |-> "QUEUED"]
    <3>1. i + 1 \in 1..Len(s_q) /\ s_q'[i] = s_q[i + 1] /\ s_q[i + 1] # k
      <4>1. 1 \in 1..Len(s_q) /\ i + 1 \in 1..Len(s_q) /\ i + 1 # 1
        BY <1>1
      <4> QED
        BY <1>1, <4>1 DEF WorkerInv, NoDuplicateWork
    <3>2. PICK j \in 1..n : s_state[j] = [key |-> s_q[i + 1], st |-> "QUEUED"]
      BY <3>1 DEF WorkerInv, QueuedMatchesMap, n
    <3>3. s_state'[j] = [key |-> s_q'[i], st |-> "QUEUED"]
      BY <3>1, <3>2, <1>2, <1>3
    <3> QED
      BY <3>3, <1>2, <1>3
  <2>2. ASSUME NEW j \in 1..Len(s_state'), s_state'[j].st = "QUEUED"
        PROVE  \E i \in 1..Len(s_q') : s_q'[i] = s_state'[j].key
    <3>1. j \in 1..n /\ s_state[j].key # k /\ s_state[j].st = "QUEUED"
             /\ s_state'[j].key = s_state[j].key
      BY <2>2, <1>2, <1>3
    <3>2. PICK i \in 1..Len(s_q) : s_q[i] = s_state[j].key
      BY <3>1 DEF WorkerInv, QueuedMatchesMap, n
    <3>3. i # 1
      BY <3>1, <3>2, <1>1
    <3>4. i - 1 \in 1..Len(s_q') /\ s_q'[i - 1] = s_q[i]
      BY <3>3, <1>1
    <3> QED
      BY <3>1, <3>2, <3>4
  <2> QED
    BY <2>1, <2>2 DEF QueuedMatchesMap
<1>9. InFlightMatchesMap'
  <2>1. PICK j \in 1..n : s_state[j] = [key |-> k, st |-> "QUEUED"]
    <3>1. 1 \in 1..Len(s_q)
      BY <1>1
    <3> QED
      BY <3>1, <1>1 DEF WorkerInv, QueuedMatchesMap, n
  <2>2. s_state'[j] = [key |-> it', st |-> "COMPILING"]
    BY <2>1, <1>2, <1>3
  <2>3. \A i \in 1..n : s_state[i].st # "COMPILING"
    <3> SUFFICES ASSUME NEW i \in 1..n, s_state[i].st = "COMPILING" PROVE FALSE
      OBVIOUS
    <3>1. s_state[i].key = NoKey
      BY <1>3 DEF WorkerInv, InFlightMatchesMap, n
    <3>2. s_state[i].key \in Keys
      <4>1. s_state \in Seq(Entry) /\ i \in 1..Len(s_state)
        BY DEF WorkerInv, TypeOK, n
      <4>2. s_state[i] \in Entry
        BY <4>1
      <4> QED
        BY <4>2 DEF Entry
    <3> QED
      BY <3>1, <3>2, WorkerAssumption
  <2>4. ASSUME NEW i \in 1..Len(s_state'), s_state'[i].st = "COMPILING"
        PROVE  s_state'[i].key = it'
    BY <2>3, <2>4, <1>2, <1>3
  <2> QED
    BY <2>2, <2>4, <1>2, <1>3 DEF InFlightMatchesMap
<1>10. NoDuplicateWork'
  <2>1. \A i \in 1..Len(s_q') : i + 1 \in 1..Len(s_q) /\ i + 1 # 1
    BY <1>1
  <2>2. 1 \in 1..Len(s_q)
    BY <1>1
  <2>3. \A i \in 1..Len(s_q') : s_q'[i] # k
    BY <2>1, <2>2, <1>1 DEF WorkerInv, NoDuplicateWork
  <2>4. \A i, j \in 1..Len(s_q') : s_q'[i] = s_q'[j] => i + 1 = j + 1
    BY <2>1, <1>1 DEF WorkerInv, NoDuplicateWork
  <2>5. \A i, j \in 1..Len(s_q') : s_q'[i] = s_q'[j] => i = j
    BY <2>4, <1>1
  <2> QED
    BY <2>3, <2>5, <1>3 DEF NoDuplicateWork
<1>11. CountersAddUp' /\ NoSnapshotLeak'
  BY <1>1, <1>3, <1>4 DEF WorkerPop, WorkerInv, TypeOK, CountersAddUp, InHand, NoSnapshotLeak
<1> QED
  BY <1>5, <1>6, <1>7, <1>8, <1>9, <1>10, <1>11 DEF WorkerInv

\* The relock after a compile: the entry, still COMPILING, becomes DONE or FAILED.
LEMMA FinishPreserves == ASSUME WorkerInv, WorkerFinish PROVE WorkerInv'
<1> DEFINE st == IF ok THEN "DONE" ELSE "FAILED"
           mk == Marked(it, st)
           n == Len(s_state)
<1>0. st \in States
  BY DEF States
<1>1. /\ mk \in Seq(Entry) /\ Len(mk) = n /\ n \in Nat
      /\ \A i \in 1..n : mk[i] =
            [key |-> s_state[i].key,
             st  |-> IF s_state[i].key = it THEN st ELSE s_state[i].st]
  <2> HIDE DEF st
  <2> QED
    BY <1>0, MarkedFacts DEF WorkerInv, TypeOK
<1>2. it # NoKey /\ it \in Keys /\ it' = NoKey /\ wpc = "finish" /\ wpc' = "check"
        /\ s_state' = mk /\ s_q' = s_q
  BY DEF WorkerFinish, WorkerInv, Control, TypeOK
<1>3. st # "QUEUED" /\ st # "COMPILING"
  OBVIOUS
<1> HIDE DEF st, mk, n
<1>4. TypeOK'
  BY <1>1, <1>2 DEF WorkerFinish, WorkerInv, TypeOK, WorkerPoints
<1>5. Control'
  BY <1>2 DEF WorkerFinish, WorkerInv, Control
<1>6. UniqueKeys'
  <2>1. \A i \in 1..n : s_state'[i].key = s_state[i].key
    BY <1>1, <1>2
  <2>2. \A i, j \in 1..n : s_state[i].key = s_state[j].key => i = j
    BY DEF WorkerInv, UniqueKeys, n
  <2> QED
    BY <2>1, <2>2, <1>1, <1>2 DEF UniqueKeys
<1>7. QueuedMatchesMap'
  <2>1. ASSUME NEW i \in 1..Len(s_q')
        PROVE  \E j \in 1..Len(s_state') : s_state'[j] = [key |-> s_q'[i], st |-> "QUEUED"]
    <3>1. i \in 1..Len(s_q) /\ s_q[i] # it
      BY <1>2 DEF WorkerInv, NoDuplicateWork
    <3>2. PICK j \in 1..n : s_state[j] = [key |-> s_q[i], st |-> "QUEUED"]
      BY <3>1 DEF WorkerInv, QueuedMatchesMap, n
    <3>3. s_state'[j] = [key |-> s_q'[i], st |-> "QUEUED"]
      BY <3>1, <3>2, <1>1, <1>2
    <3> QED
      BY <3>3, <1>1, <1>2
  <2>2. ASSUME NEW j \in 1..Len(s_state'), s_state'[j].st = "QUEUED"
        PROVE  \E i \in 1..Len(s_q') : s_q'[i] = s_state'[j].key
    <3>1. j \in 1..n /\ s_state[j].st = "QUEUED" /\ s_state'[j].key = s_state[j].key
      BY <2>2, <1>1, <1>2, <1>3
    <3> QED
      BY <3>1, <1>2 DEF WorkerInv, QueuedMatchesMap, n
  <2> QED
    BY <2>1, <2>2 DEF QueuedMatchesMap
<1>8. InFlightMatchesMap'
  <2>1. ASSUME NEW i \in 1..Len(s_state'), s_state'[i].st = "COMPILING"
        PROVE  FALSE
    <3>1. i \in 1..n /\ s_state[i].key # it /\ s_state[i].st = "COMPILING"
      BY <2>1, <1>1, <1>2, <1>3
    <3> QED
      BY <3>1 DEF WorkerInv, InFlightMatchesMap, n
  <2> QED
    BY <2>1, <1>2 DEF InFlightMatchesMap
<1>9. NoDuplicateWork'
  <2>1. \A i \in 1..Len(s_q) : s_q[i] # NoKey
    BY WorkerAssumption DEF WorkerInv, TypeOK
  <2> QED
    BY <2>1, <1>2 DEF WorkerInv, NoDuplicateWork
<1>10. CountersAddUp' /\ NoSnapshotLeak'
  BY <1>2 DEF WorkerFinish, WorkerInv, TypeOK, CountersAddUp, InHand, NoSnapshotLeak
<1> QED
  BY <1>4, <1>5, <1>6, <1>7, <1>8, <1>9, <1>10 DEF WorkerInv

\* The steps that leave the queue, the map and the worker's item alone.
LEMMA OtherStepsPreserve ==
    ASSUME WorkerInv, UNCHANGED <<s_q, s_state, it>>, TypeOK', Control',
           CountersAddUp', NoSnapshotLeak'
    PROVE  WorkerInv'
  BY DEF WorkerInv, UniqueKeys, QueuedMatchesMap, InFlightMatchesMap, NoDuplicateWork

LEMMA WorkerInvStep == WorkerInv /\ [Next]_vars => WorkerInv'
<1> SUFFICES ASSUME WorkerInv, [Next]_vars PROVE WorkerInv'
  OBVIOUS
<1> USE DEF TypeOK, Control, CountersAddUp, InHand, NoSnapshotLeak, WorkerPoints
<1>1. CASE Start
  <2>1. TypeOK' /\ CountersAddUp' /\ NoSnapshotLeak' /\ UNCHANGED <<s_q, s_state, it>>
    BY <1>1 DEF Start, WorkerInv
  <2>2. ~ s_thread /\ it = NoKey /\ wpc = "none"
    BY <1>1 DEF Start, WorkerInv
  <2>3. ASSUME s_thread' = TRUE, s_running' = TRUE, wpc' = "start" PROVE Control'
    BY <1>1, <2>2, <2>3 DEF Start, WorkerInv
  <2>4. ASSUME UNCHANGED <<s_thread, s_running, wpc>> PROVE Control'
    BY <1>1, <2>2, <2>4 DEF Start, WorkerInv
  <2>5. Control'
    BY <1>1, <2>3, <2>4 DEF Start
  <2> QED
    BY <2>1, <2>5, OtherStepsPreserve
<1>2. ASSUME NEW k \in Keys, Enqueue(k) PROVE WorkerInv'
  BY <1>2, EnqueuePreserves
<1>3. CASE StopSignal
  <2>1. TypeOK' /\ CountersAddUp' /\ NoSnapshotLeak' /\ UNCHANGED <<s_q, s_state, it>>
    BY <1>3 DEF StopSignal, Signalled, WorkerInv
  <2>2. Control'
    BY <1>3 DEF StopSignal, Signalled, WorkerInv
  <2> QED
    BY <2>1, <2>2, OtherStepsPreserve
<1>4. CASE StopJoin
  <2>1. s_q = <<>> /\ s_q' = s_q
    BY <1>4 DEF StopJoin, WorkerInv
  <2>2. TypeOK' /\ CountersAddUp' /\ NoSnapshotLeak' /\ UNCHANGED <<s_q, s_state, it>>
    <3>1. Len(s_q) = 0 /\ snaps' = 0 /\ snaps = 0
      BY <1>4, <2>1 DEF StopJoin, WorkerInv
    <3>2. TypeOK'
      BY <1>4, <2>1, <3>1 DEF StopJoin, WorkerInv
    <3> QED
      BY <1>4, <2>1, <3>1, <3>2 DEF StopJoin, WorkerInv
  <2>3. Control'
    BY <1>4, <2>1 DEF StopJoin, WorkerInv
  <2> QED
    BY <2>2, <2>3, OtherStepsPreserve
<1>5. CASE SpuriousWake
  BY <1>5, OtherStepsPreserve DEF SpuriousWake, WorkerInv
<1>6. CASE WorkerLock
  BY <1>6, OtherStepsPreserve DEF WorkerLock, WorkerInv
<1>7. CASE WorkerWait
  BY <1>7, OtherStepsPreserve DEF WorkerWait, WorkerInv
<1>8. CASE WorkerExit
  BY <1>8, OtherStepsPreserve DEF WorkerExit, WorkerInv
<1>9. CASE WorkerPop
  BY <1>9, PopPreserves
<1>10. ASSUME NEW o \in BOOLEAN, WorkerCompile(o) PROVE WorkerInv'
  BY <1>10, OtherStepsPreserve DEF WorkerCompile, Freed, WorkerInv
<1>11. CASE WorkerFinish
  BY <1>11, FinishPreserves
<1>12. CASE UNCHANGED vars
  BY <1>12, OtherStepsPreserve DEF vars, WorkerInv
<1> QED
  BY <1>1, <1>2, <1>3, <1>4, <1>5, <1>6, <1>7, <1>8, <1>9, <1>10, <1>11, <1>12
     DEF Next, WorkerStep

LEMMA WorkerInvAlways == Spec => []WorkerInv
  BY WorkerInvInit, WorkerInvStep, PTL DEF Spec

\* The types of the worker's state, for every key set and capacity.
THEOREM WorkerTyped == Spec => []TypeOK
<1>1. WorkerInv => TypeOK
  BY DEF WorkerInv
<1> QED
  BY <1>1, WorkerInvAlways, PTL

\* Queue, map and the item in the worker's hands describe the same set of items,
\* whatever enqueue evicts while the worker compiles without the mutex.
THEOREM WorkerConsistent ==
    Spec => [](UniqueKeys /\ QueuedMatchesMap /\ InFlightMatchesMap /\ NoDuplicateWork)
<1>1. WorkerInv => UniqueKeys /\ QueuedMatchesMap /\ InFlightMatchesMap /\ NoDuplicateWork
  BY DEF WorkerInv
<1> QED
  BY <1>1, WorkerInvAlways, PTL

\* The entry of the item in the worker's hands survives every eviction that happens
\* while worker_main compiles without the mutex, for any capacities.
THEOREM InFlightKeepsItsEntry == Spec => []InFlightMatchesMap
<1>1. WorkerInv => InFlightMatchesMap
  BY DEF WorkerInv
<1> QED
  BY <1>1, WorkerInvAlways, PTL

\* The counters add up, and no snapshot leaks or is freed twice.
THEOREM WorkerAccounts == Spec => [](CountersAddUp /\ NoSnapshotLeak)
<1>1. WorkerInv => CountersAddUp /\ NoSnapshotLeak
  BY DEF WorkerInv
<1> QED
  BY <1>1, WorkerInvAlways, PTL

\* The queue is empty when the worker has exited: stop compiles the backlog and
\* its own draining loop frees nothing.
THEOREM StopDrainsQueue == Spec => []JoinFindsQueueEmpty
<1>1. WorkerInv => JoinFindsQueueEmpty
  BY DEF WorkerInv, Control, JoinFindsQueueEmpty
<1> QED
  BY <1>1, WorkerInvAlways, PTL

\* What an enqueue evicts has finished: an item in flight keeps its entry.
THEOREM EvictionIsSafe == Spec => EvictsOnlyFinished
<1> DEFINE P == \A i \in 1..Len(s_state) :
                   (\A j \in 1..Len(s_state') : s_state'[j].key # s_state[i].key)
                      => Finished(s_state[i])
<1>1. ASSUME WorkerInv, [Next]_vars PROVE [P]_vars
  <2>1. ASSUME NEW k \in Keys, Enqueue(k) PROVE P
    <3> SUFFICES ASSUME NEW i \in 1..Len(s_state), ~ Finished(s_state[i])
                 PROVE  \E j \in 1..Len(s_state') : s_state'[j].key = s_state[i].key
      OBVIOUS
    <3>1. Evicted \in Seq(Entry) /\ \E a \in 1..Len(Evicted) : Evicted[a] = s_state[i]
      BY <1>1, EvictedFacts DEF WorkerInv
    <3>2. PICK a \in 1..Len(Evicted) : Evicted[a] = s_state[i]
      BY <3>1
    <3>3. s_state' = Append(Evicted, [key |-> k, st |-> "QUEUED"])
      BY <2>1 DEF Enqueue
    <3>4. [key |-> k, st |-> "QUEUED"] \in Entry
      BY DEF Entry, States
    <3>5. a \in 1..Len(s_state') /\ s_state'[a] = Evicted[a]
      BY <3>1, <3>2, <3>3, <3>4
    <3> QED
      BY <3>2, <3>5
  <2>2. CASE WorkerPop
    <3>1. /\ Len(Marked(Head(s_q), "COMPILING")) = Len(s_state)
          /\ \A i \in 1..Len(s_state) :
               Marked(Head(s_q), "COMPILING")[i].key = s_state[i].key
      <4>1. TypeOK /\ "COMPILING" \in States
        BY <1>1 DEF WorkerInv, States
      <4> QED
        BY <4>1, MarkedKeys
    <3>2. Len(s_state') = Len(s_state)
            /\ \A i \in 1..Len(s_state) : s_state'[i].key = s_state[i].key
      BY <2>2, <3>1 DEF WorkerPop
    <3> QED
      BY <3>2
  <2>3. CASE WorkerFinish
    <3> DEFINE st == IF ok THEN "DONE" ELSE "FAILED"
    <3>0. st \in States
      BY DEF States
    <3>1. s_state' = Marked(it, st)
      BY <2>3 DEF WorkerFinish
    <3> HIDE DEF st
    <3>2. /\ Len(Marked(it, st)) = Len(s_state)
          /\ \A i \in 1..Len(s_state) : Marked(it, st)[i].key = s_state[i].key
      <4>1. TypeOK
        BY <1>1 DEF WorkerInv
      <4> QED
        BY <4>1, <3>0, MarkedKeys
    <3>3. Len(s_state') = Len(s_state)
            /\ \A i \in 1..Len(s_state) : s_state'[i].key = s_state[i].key
      BY <3>1, <3>2
    <3> QED
      BY <3>3
  <2>4. CASE UNCHANGED s_state
    BY <2>4
  <2>5. CASE UNCHANGED vars
    BY <2>5
  <2> QED
    BY <1>1, <2>1, <2>2, <2>3, <2>4, <2>5
       DEF Next, WorkerStep, Start, StopSignal, StopJoin, SpuriousWake, WorkerLock,
           WorkerWait, WorkerExit, WorkerCompile
<1>2. WorkerInv /\ [Next]_vars => [P]_vars
  BY <1>1
<1>3. Spec => [][P]_vars
  BY <1>2, WorkerInvAlways, PTL DEF Spec
<1> QED
  BY <1>3 DEF EvictsOnlyFinished

----------------------------------------------------------------------------
(* Room in the dedup map. *)

MapIsBounded == Len(s_state) <= STATE_CAP

LEMMA MapBoundStep ==
    ASSUME WorkerInv, MapIsBounded, [Next]_vars
    PROVE  MapIsBounded'
<1>0. TypeOK /\ UniqueKeys /\ s_state \in Seq(Entry)
  BY DEF WorkerInv, TypeOK
<1>1. ASSUME NEW k \in Keys, Enqueue(k) PROVE MapIsBounded'
  <2>1. /\ Len(Evicted) < STATE_CAP
        /\ s_state' = Append(Evicted, [key |-> k, st |-> "QUEUED"])
    BY <1>1 DEF Enqueue
  <2>2. Evicted \in Seq(Entry)
    BY <1>0, EvictedFacts
  <2>3. Len(s_state') = Len(Evicted) + 1 /\ Len(Evicted) \in Nat
    BY <2>1, <2>2
  <2>. QED BY <2>1, <2>3, WorkerAssumption DEF MapIsBounded
<1>2. ASSUME NEW k, NEW x, s_state' = Marked(k, x) PROVE MapIsBounded'
  <2>1. Len(s_state') = Len(s_state)
    BY <1>0, <1>2 DEF Marked
  <2>. QED BY <2>1 DEF MapIsBounded
<1>3. CASE UNCHANGED s_state
  BY <1>3 DEF MapIsBounded
<1>4. CASE WorkerPop \/ WorkerFinish
  BY <1>2, <1>4 DEF WorkerPop, WorkerFinish
<1>5. CASE Start \/ StopSignal \/ StopJoin \/ SpuriousWake \/ WorkerLock \/ WorkerWait
           \/ WorkerExit \/ (\E o \in BOOLEAN : WorkerCompile(o)) \/ UNCHANGED vars
  BY <1>3, <1>5 DEF Start, StopSignal, StopJoin, SpuriousWake, WorkerLock, WorkerWait,
                    WorkerExit, WorkerCompile, vars
<1>. QED BY <1>1, <1>4, <1>5 DEF Next, WorkerStep

\* The entries in flight are the queued items and the one being compiled, and
\* those are fewer than a full map has entries.
LEMMA FullMapHasFinished ==
    ASSUME WorkerInv, Len(s_state) >= STATE_CAP, STATE_CAP > WQ_CAP, QueueHasRoom
    PROVE  \E i \in 1..Len(s_state) : Finished(s_state[i])
<1>. DEFINE n == Len(s_state)
            q == Len(s_q)
<1>. SUFFICES ASSUME \A i \in 1..n : ~ Finished(s_state[i]) PROVE FALSE
  OBVIOUS
<1>0. /\ n \in Nat /\ q \in Nat /\ n > q + 1
      /\ s_state \in [1..n -> Entry] /\ s_q \in [1..q -> Keys]
  BY WorkerAssumption DEF WorkerInv, TypeOK, QueueHasRoom
<1>1. \A j \in 1..n : s_state[j].st \in {"QUEUED", "COMPILING"}
  BY <1>0 DEF Finished, Entry, States
<1>2. \A j \in 1..n : s_state[j].st = "QUEUED" => \E i \in 1..q : s_q[i] = s_state[j].key
  BY DEF WorkerInv, QueuedMatchesMap
<1>3. \A j \in 1..n : s_state[j].st = "COMPILING" => s_state[j].key = it
  BY DEF WorkerInv, InFlightMatchesMap
<1>. DEFINE place(j) == CHOOSE i \in 1..q : s_q[i] = s_state[j].key
            f == [j \in 1..n |-> IF s_state[j].st = "QUEUED" THEN place(j) ELSE 0]
<1>4. \A j \in 1..n : s_state[j].st = "QUEUED" =>
          place(j) \in 1..q /\ s_q[place(j)] = s_state[j].key
  BY <1>2
<1>. HIDE DEF place
<1>5. f \in [1..n -> 0..q]
  BY <1>0, <1>4
<1>6. /\ IsFiniteSet(1..n) /\ Cardinality(1..n) = n
      /\ IsFiniteSet(0..q) /\ Cardinality(0..q) = q + 1
  <2>. HIDE DEF f, n, q
  <2>0. n \in Int /\ q \in Int /\ 0 \in Int /\ 1 \in Int /\ ~ (1 > n) /\ ~ (0 > q)
    BY <1>0
  <2>1. IsFiniteSet(1..n) /\ Cardinality(1..n) = IF 1 > n THEN 0 ELSE n - 1 + 1
    BY <2>0, FS_Interval, Zenon
  <2>2. IsFiniteSet(0..q) /\ Cardinality(0..q) = IF 0 > q THEN 0 ELSE q - 0 + 1
    BY <2>0, FS_Interval, Zenon
  <2>. QED BY <1>0, <2>1, <2>2
<1>7. \E x, y \in 1..n : x # y /\ f[x] = f[y]
  <2>. HIDE DEF f, n, q
  <2>1. Cardinality(0..q) < Cardinality(1..n)
    BY <1>0, <1>6
  <2>. QED BY <1>5, <1>6, <2>1, FS_PigeonHole
<1>8. PICK x \in 1..n, y \in 1..n : x # y /\ f[x] = f[y]
  BY <1>7
<1>9. s_state[x].key = s_state[y].key
  <2>1. CASE s_state[x].st = "QUEUED"
    <3>1. f[x] = place(x) /\ place(x) \in 1..q
      BY <1>4, <2>1
    <3>2. s_state[y].st = "QUEUED" /\ f[y] = place(y)
      BY <1>0, <1>8, <3>1
    <3>. QED BY <1>4, <1>8, <2>1, <3>1, <3>2
  <2>2. CASE s_state[x].st # "QUEUED"
    <3>1. f[x] = 0 /\ s_state[x].st = "COMPILING"
      BY <1>1, <2>2
    <3>2. s_state[y].st # "QUEUED"
      BY <1>0, <1>4, <1>8, <3>1
    <3>. QED BY <1>1, <1>3, <3>1, <3>2
  <2>. QED BY <2>1, <2>2
<1>. QED BY <1>8, <1>9 DEF WorkerInv, UniqueKeys

\* With a map larger than the queue, state_add always finds room for an item the
\* queue accepts, for any capacities: its NULL return is dead code, and enqueue
\* never frees the copy it has just made.
THEOREM MapAlwaysHasRoom == Spec => []MapHasRoom
<1>. DEFINE I == WorkerInv /\ MapIsBounded
<1>1. Init => I
  BY WorkerInvInit, WorkerAssumption DEF Init, MapIsBounded
<1>2. I /\ [Next]_vars => I'
  BY WorkerInvStep, MapBoundStep
<1>3. I => MapHasRoom
  <2>. SUFFICES ASSUME I, STATE_CAP > WQ_CAP, QueueHasRoom PROVE Len(Evicted) < STATE_CAP
    BY DEF MapHasRoom
  <2>0. Len(s_state) \in Nat /\ STATE_CAP \in Nat /\ Len(s_state) <= STATE_CAP
    BY WorkerAssumption DEF WorkerInv, TypeOK, MapIsBounded
  <2>1. CASE Len(s_state) < STATE_CAP
    <3>1. Evicted = s_state
      BY <2>0, <2>1 DEF Evicted
    <3>. QED BY <2>1, <3>1
  <2>2. CASE Len(s_state) >= STATE_CAP
    <3>1. \E i \in 1..Len(s_state) : Finished(s_state[i])
      BY <2>2, FullMapHasFinished
    <3>. DEFINE v == CHOOSE i \in 1..Len(s_state) :
                        /\ Finished(s_state[i])
                        /\ \A j \in 1..(i - 1) : ~ Finished(s_state[j])
    <3>2. Evicted = [j \in 1..(Len(s_state) - 1) |->
                        IF j = v THEN s_state[Len(s_state)] ELSE s_state[j]]
      BY <2>2, <3>1 DEF Evicted
    <3>3. Len(s_state) - 1 \in Nat
      BY <2>0, <2>2, WorkerAssumption
    <3>. HIDE DEF v
    <3>4. Len(Evicted) = Len(s_state) - 1
      BY <3>2, <3>3
    <3>. QED BY <2>0, <3>4
  <2>. QED BY <2>0, <2>1, <2>2
<1>. HIDE DEF I
<1>. QED BY <1>1, <1>2, <1>3, PTL DEF Spec

----------------------------------------------------------------------------
(* The ring. *)

\* The slot k places after slot h, as a case distinction.
LEMMA WrapMany ==
    \A h \in Slots : \A k \in 0..WQ_CAP :
        (h + k) % WQ_CAP = IF h + k < WQ_CAP THEN h + k ELSE h + k - WQ_CAP
  BY WorkerAssumption DEF Slots

LEMMA WrapOne ==
    \A h \in Slots : (h + 1) % WQ_CAP = IF h + 1 < WQ_CAP THEN h + 1 ELSE 0
  BY WorkerAssumption DEF Slots

\* The inductive invariant: the types, and the tail n places after the head.
RingInv == RingTypeOK /\ TailFollowsHead

LEMMA RingInvInit == RingInit => RingInv
  BY WorkerAssumption, WrapMany DEF RingInit, RingInv, RingTypeOK, TailFollowsHead, Slots

LEMMA RingInvStep == RingInv /\ [RingNext]_ringVars => RingInv'
<1> SUFFICES ASSUME RingInv, [RingNext]_ringVars PROVE RingInv'
  OBVIOUS
<1> USE WorkerAssumption DEF RingInv, RingTypeOK, TailFollowsHead, Slots
<1>1. CASE Take
  <2>1. s_q_head' = IF s_q_head + 1 < WQ_CAP THEN s_q_head + 1 ELSE 0
    BY <1>1, WrapOne DEF Take
  <2>2. s_q_tail = IF s_q_head + s_q_n < WQ_CAP
                   THEN s_q_head + s_q_n ELSE s_q_head + s_q_n - WQ_CAP
    BY WrapMany
  <2>3. s_q_head' \in Slots /\ s_q_n' \in 0..WQ_CAP
    BY <1>1, <2>1 DEF Take
  <2>4. (s_q_head' + s_q_n') % WQ_CAP =
           IF s_q_head' + s_q_n' < WQ_CAP
           THEN s_q_head' + s_q_n' ELSE s_q_head' + s_q_n' - WQ_CAP
    BY <2>3, WrapMany
  <2> QED
    BY <1>1, <2>1, <2>2, <2>3, <2>4 DEF Take
<1>2. ASSUME NEW x \in Keys, Put(x) PROVE RingInv'
  <2>1. s_q_tail' = IF s_q_tail + 1 < WQ_CAP THEN s_q_tail + 1 ELSE 0
    BY <1>2, WrapOne DEF Put
  <2>2. s_q_tail = IF s_q_head + s_q_n < WQ_CAP
                   THEN s_q_head + s_q_n ELSE s_q_head + s_q_n - WQ_CAP
    BY WrapMany
  <2>3. s_q_n' \in 0..WQ_CAP /\ s_q_n' = s_q_n + 1 /\ s_q_head' = s_q_head
    BY <1>2 DEF Put
  <2>4. (s_q_head + s_q_n') % WQ_CAP =
           IF s_q_head + s_q_n' < WQ_CAP
           THEN s_q_head + s_q_n' ELSE s_q_head + s_q_n' - WQ_CAP
    BY <2>3, WrapMany
  <2> QED
    BY <1>2, <2>1, <2>2, <2>3, <2>4 DEF Put
<1>3. CASE UNCHANGED ringVars
  BY <1>3 DEF ringVars
<1> QED
  BY <1>1, <1>2, <1>3 DEF RingNext

\* For every capacity, the tail stays exactly n slots after the head: enqueue
\* never overwrites an item that worker_main has not read.
THEOREM RingInvariant == RingSpec => [](RingTypeOK /\ TailFollowsHead)
<1>1. RingSpec => []RingInv
  BY RingInvInit, RingInvStep, PTL DEF RingSpec
<1> QED
  BY <1>1, PTL DEF RingInv

\* Contents is a sequence of the items in the ring.
LEMMA ContentsType == RingInv => Contents \in Seq(Keys) /\ Len(Contents) = s_q_n
<1> SUFFICES ASSUME RingInv PROVE Contents \in Seq(Keys) /\ Len(Contents) = s_q_n
  OBVIOUS
<1>1. \A i \in 1..s_q_n : (s_q_head + i - 1) % WQ_CAP \in Slots
  <2> SUFFICES ASSUME NEW i \in 1..s_q_n PROVE (s_q_head + (i - 1)) % WQ_CAP \in Slots
    BY WorkerAssumption DEF RingInv, RingTypeOK, Slots
  <2> QED
    BY WorkerAssumption, WrapMany DEF RingInv, RingTypeOK, Slots
<1>2. Contents \in [1..s_q_n -> Keys]
  BY <1>1 DEF Contents, RingInv, RingTypeOK
<1> QED
  BY <1>2, WorkerAssumption DEF RingInv, RingTypeOK, Contents

LEMMA PutAppends ==
    ASSUME RingInv, RingInv', NEW x \in Keys, Put(x)
    PROVE  Fifo!FifoPut(x)
<1> DEFINE s == Append(Contents, x)
<1>1. Contents \in Seq(Keys) /\ Len(Contents) = s_q_n
  BY ContentsType
<1>2. Contents' \in Seq(Keys) /\ Len(Contents') = s_q_n + 1
  <2>1. (RingInv => Contents \in Seq(Keys) /\ Len(Contents) = s_q_n)'
    BY ContentsType, PTL
  <2> QED
    BY <2>1 DEF Put
<1>3. \A i \in 1..(s_q_n + 1) : Contents'[i] = s[i]
  <2> SUFFICES ASSUME NEW i \in 1..(s_q_n + 1) PROVE Contents'[i] = s[i]
    OBVIOUS
  <2>0. s_q_n' = s_q_n + 1 /\ s_q_head' = s_q_head
    BY DEF Put
  <2>1. Contents'[i] = slots'[(s_q_head + (i - 1)) % WQ_CAP]
    BY <2>0 DEF Contents, RingInv, RingTypeOK, Slots
  <2>2. CASE i = s_q_n + 1
    <3>1. (s_q_head + (i - 1)) % WQ_CAP = s_q_tail
      BY <2>2 DEF RingInv, RingTypeOK, TailFollowsHead, Slots
    <3> QED
      BY <2>1, <2>2, <3>1, <1>1 DEF Put, RingInv, RingTypeOK
  <2>3. CASE i \in 1..s_q_n
    <3>0. i - 1 \in 0..WQ_CAP /\ i - 1 < s_q_n
      BY <2>3, WorkerAssumption DEF RingInv, RingTypeOK
    <3>a. (s_q_head + (i - 1)) % WQ_CAP =
            IF s_q_head + (i - 1) < WQ_CAP
            THEN s_q_head + (i - 1) ELSE s_q_head + (i - 1) - WQ_CAP
      BY <3>0, WrapMany DEF RingInv, RingTypeOK
    <3>b. s_q_tail = IF s_q_head + s_q_n < WQ_CAP
                     THEN s_q_head + s_q_n ELSE s_q_head + s_q_n - WQ_CAP
      BY WrapMany DEF RingInv, RingTypeOK, TailFollowsHead
    <3>1. (s_q_head + (i - 1)) % WQ_CAP # s_q_tail
      BY <3>0, <3>a, <3>b, WorkerAssumption DEF Put, RingInv, RingTypeOK, Slots
    <3>2. (s_q_head + (i - 1)) % WQ_CAP \in Slots
      BY <3>0, <3>a, WorkerAssumption DEF RingInv, RingTypeOK, Slots
    <3>3. Contents[i] = slots[(s_q_head + (i - 1)) % WQ_CAP]
      BY <2>3 DEF Contents, RingInv, RingTypeOK, Slots
    <3> QED
      BY <2>1, <2>3, <3>1, <3>2, <3>3, <1>1 DEF Put, RingInv, RingTypeOK
  <2>4. i = s_q_n + 1 \/ i \in 1..s_q_n
    BY WorkerAssumption DEF RingInv, RingTypeOK
  <2> QED
    BY <2>2, <2>3, <2>4
<1>4. s \in Seq(Keys) /\ Len(s) = s_q_n + 1
  BY <1>1 DEF RingInv, RingTypeOK
<1>5. Contents' = s
  <2> HIDE DEF s
  <2> QED
    BY <1>2, <1>3, <1>4 DEF RingInv, RingTypeOK
<1> QED
  BY <1>1, <1>5 DEF Fifo!FifoPut, Put

LEMMA TakeRemoves ==
    ASSUME RingInv, RingInv', Take
    PROVE  Fifo!FifoTake
<1> DEFINE t == Tail(Contents)
<1>1. Contents \in Seq(Keys) /\ Len(Contents) = s_q_n
  BY ContentsType
<1>2. Contents' \in Seq(Keys) /\ Len(Contents') = s_q_n - 1
  <2>1. (RingInv => Contents \in Seq(Keys) /\ Len(Contents) = s_q_n)'
    BY ContentsType, PTL
  <2> QED
    BY <2>1 DEF Take
<1>3. Contents # <<>>
  BY <1>1 DEF Take, RingInv, RingTypeOK
<1>4. \A i \in 1..(s_q_n - 1) : Contents'[i] = t[i]
  <2> SUFFICES ASSUME NEW i \in 1..(s_q_n - 1) PROVE Contents'[i] = t[i]
    OBVIOUS
  <2>1. t[i] = Contents[i + 1]
    BY <1>1, <1>3 DEF RingInv, RingTypeOK
  <2>2. Contents[i + 1] = slots[(s_q_head + i) % WQ_CAP]
    BY DEF Contents, RingInv, RingTypeOK, Slots
  <2>3. Contents'[i] = slots[(s_q_head' + (i - 1)) % WQ_CAP]
    BY DEF Contents, Take, RingInv, RingTypeOK, Slots
  <2>4. (s_q_head' + (i - 1)) % WQ_CAP = (s_q_head + i) % WQ_CAP
    <3>0. i \in 0..WQ_CAP /\ i - 1 \in 0..WQ_CAP
      BY WorkerAssumption DEF RingInv, RingTypeOK
    <3>1. s_q_head' = IF s_q_head + 1 < WQ_CAP THEN s_q_head + 1 ELSE 0
      BY WrapOne DEF Take, RingInv, RingTypeOK
    <3>2. (s_q_head' + (i - 1)) % WQ_CAP =
            IF s_q_head' + (i - 1) < WQ_CAP
            THEN s_q_head' + (i - 1) ELSE s_q_head' + (i - 1) - WQ_CAP
      BY <3>0, WrapMany DEF RingInv, RingTypeOK
    <3>3. (s_q_head + i) % WQ_CAP =
            IF s_q_head + i < WQ_CAP THEN s_q_head + i ELSE s_q_head + i - WQ_CAP
      BY <3>0, WrapMany DEF RingInv, RingTypeOK
    <3> QED
      BY <3>0, <3>1, <3>2, <3>3, WorkerAssumption DEF RingInv, RingTypeOK, Slots
  <2> QED
    BY <2>1, <2>2, <2>3, <2>4
<1>5. t \in Seq(Keys) /\ Len(t) = s_q_n - 1
  BY <1>1, <1>3 DEF RingInv, RingTypeOK
<1>6. Contents' = t
  <2> HIDE DEF t
  <2> QED
    BY <1>2, <1>4, <1>5 DEF RingInv, RingTypeOK
<1> QED
  BY <1>3, <1>6 DEF Fifo!FifoTake

\* The array with its two indices implements the FIFO that CompileWorker's queue
\* is modelled as, for every capacity.
THEOREM RingRefinesFifo == RingSpec => ImplementsFifo
<1>1. RingInit => Fifo!FifoInit
  BY DEF RingInit, Fifo!FifoInit, Contents
<1>2. RingInv /\ RingInv' /\ [RingNext]_ringVars => [Fifo!FifoNext]_Contents
  <2> SUFFICES ASSUME RingInv, RingInv', [RingNext]_ringVars
               PROVE  [Fifo!FifoNext]_Contents
    OBVIOUS
  <2>1. CASE Take
    BY <2>1, TakeRemoves DEF Fifo!FifoNext
  <2>2. ASSUME NEW x \in Keys, Put(x) PROVE Fifo!FifoNext
    BY <2>2, PutAppends DEF Fifo!FifoNext
  <2>3. CASE UNCHANGED ringVars
    BY <2>3 DEF ringVars, Contents
  <2> QED
    BY <2>1, <2>2, <2>3 DEF RingNext
<1>3. RingSpec => []RingInv
  BY RingInvInit, RingInvStep, PTL DEF RingSpec
<1> QED
  BY <1>1, <1>2, <1>3, PTL DEF RingSpec, ImplementsFifo, Fifo!FifoSpec

----------------------------------------------------------------------------
(* The worker with its array. *)

LEMMA WorkerStepIsStep == [WorkerNext]_workerVars => [Next]_vars
  BY DEF WorkerNext, workerVars, EnqueueSlot, PopSlot, JoinAndDrain, OtherStep, Next, WorkerStep

\* A step of the worker is a step of the FIFO, which follows the queue.  The loop
\* of stop is none: it finds the array empty, because the queue is.
LEMMA RingFollowsQueue ==
    ASSUME WorkerInv, RingInv, RingHoldsQueue, [WorkerNext]_workerVars
    PROVE  /\ RingInv' /\ RingHoldsQueue'
           /\ [Fifo!FifoNext]_Contents
<1>0. Contents \in Seq(Keys) /\ Len(Contents) = s_q_n
  BY ContentsType
<1>1. ASSUME NEW k \in Keys, EnqueueSlot(k)
      PROVE  RingInv' /\ RingHoldsQueue' /\ Fifo!FifoNext
  <2>1. Put(k) /\ s_q' = Append(s_q, k)
    BY <1>1 DEF EnqueueSlot, Enqueue
  <2>2. RingInv'
    BY <2>1, RingInvStep DEF RingNext
  <2>3. Fifo!FifoPut(k)
    BY <2>1, <2>2, PutAppends
  <2>. QED BY <2>1, <2>2, <2>3 DEF Fifo!FifoNext, Fifo!FifoPut, RingHoldsQueue
<1>2. CASE PopSlot
  <2>1. Take /\ s_q' = Tail(s_q)
    BY <1>2 DEF PopSlot, WorkerPop
  <2>2. RingInv'
    BY <2>1, RingInvStep DEF RingNext
  <2>3. Fifo!FifoTake
    BY <2>1, <2>2, TakeRemoves
  <2>. QED BY <2>1, <2>2, <2>3 DEF Fifo!FifoNext, Fifo!FifoTake, RingHoldsQueue
<1>3. CASE JoinAndDrain
  <2>1. /\ wpc = "exited" /\ s_q' = <<>> /\ s_q_n' = 0 /\ UNCHANGED <<slots, s_q_tail>>
        /\ s_q_head' = (s_q_head + s_q_n) % WQ_CAP
    BY <1>3 DEF JoinAndDrain, StopJoin, Drain
  <2>2. Len(s_q) = 0
    BY <2>1 DEF WorkerInv, Control
  <2>3. s_q_n = 0 /\ s_q = <<>>
    BY <1>0, <2>2 DEF RingHoldsQueue, WorkerInv, TypeOK
  <2>4. s_q_head' = s_q_head
    <3>1. s_q_head \in Slots /\ 0 \in 0..WQ_CAP
      BY WorkerAssumption DEF RingInv, RingTypeOK
    <3>2. (s_q_head + 0) % WQ_CAP = s_q_head
      BY <3>1, WorkerAssumption DEF Slots
    <3>. QED BY <2>1, <2>3, <3>2
  <2>5. UNCHANGED ringVars /\ UNCHANGED s_q
    BY <2>1, <2>3, <2>4 DEF ringVars
  <2>6. UNCHANGED Contents
    BY <2>5 DEF Contents, ringVars
  <2>. QED BY <2>5, <2>6, RingInvStep DEF RingHoldsQueue
<1>4. CASE OtherStep \/ UNCHANGED workerVars
  <2>1. UNCHANGED ringVars /\ UNCHANGED s_q
    BY <1>4 DEF OtherStep, workerVars, vars, Start, StopSignal, SpuriousWake, WorkerLock,
                WorkerWait, WorkerExit, WorkerCompile, WorkerFinish
  <2>2. UNCHANGED Contents
    BY <2>1 DEF Contents, ringVars
  <2>. QED BY <2>1, <2>2, RingInvStep DEF RingHoldsQueue
<1>. QED BY <1>1, <1>2, <1>3, <1>4 DEF WorkerNext

\* In the composed worker the array always holds the queue CompileWorker speaks of
\* and implements the bounded FIFO, for every capacity: what enqueue wrote first
\* is what worker_main reads next, and stop discards nothing.
THEOREM RingServesWorker == WorkerSpec => []RingHoldsQueue /\ ImplementsFifo
<1>. DEFINE I == WorkerInv /\ RingInv /\ RingHoldsQueue
<1>1. WorkerInit => I /\ Fifo!FifoInit
  <2>. SUFFICES ASSUME WorkerInit PROVE I /\ Fifo!FifoInit
    OBVIOUS
  <2>1. WorkerInv /\ RingInv
    BY WorkerInvInit, RingInvInit DEF WorkerInit
  <2>2. Contents = <<>> /\ s_q = <<>>
    BY DEF WorkerInit, RingInit, Init, Contents
  <2>. QED BY <2>1, <2>2 DEF Fifo!FifoInit, RingHoldsQueue
<1>2. I /\ [WorkerNext]_workerVars => I' /\ [Fifo!FifoNext]_Contents
  BY RingFollowsQueue, WorkerInvStep, WorkerStepIsStep
<1>3. I => RingHoldsQueue
  OBVIOUS
<1>. HIDE DEF I
<1>. QED BY <1>1, <1>2, <1>3, PTL DEF WorkerSpec, ImplementsFifo, Fifo!FifoSpec

----------------------------------------------------------------------------
(***************************************************************************)
(* The pipeline from a dispatch miss to a registered shard forgets no      *)
(* published file, hides none behind the memo of loaded files and          *)
(* registers none twice, for every set of keys and files, every capacity   *)
(* and any number of sessions, kills included.                             *)
(***************************************************************************)

\* Which points of the two threads go together: a publish in progress is the
\* worker's compile, and only a running scan has files to return.
PipelineControl ==
    /\ pub # "none" => wpc = "compile"
    /\ caller = "boot" => wpc = "none"
    /\ dpc # "scan" => todo = {}

PipelineTables ==
    /\ dirty \in BOOLEAN
    /\ cand \in Seq(Files) /\ blobs \subseteq Files

\* What is in the table once is in the memo as well, while the memo has room.
OnceAndKnown ==
    Cardinality(Files) <= BLOB_CAP =>
        /\ \A i \in 1..Len(cand) : cand[i] \in blobs
        /\ \A i, j \in 1..Len(cand) : cand[i] = cand[j] => i = j

PipelineInv ==
    /\ PipelineTables /\ PipelineControl /\ MemoMeansRegistered /\ NoForgottenShard /\ OnceAndKnown

----------------------------------------------------------------------------
(* The initial state, and a restart. *)

LEMMA PipelineInvInit == PipelineInit => PipelineInv
<1> SUFFICES ASSUME PipelineInit PROVE PipelineInv
  OBVIOUS
<1> USE DEF PipelineInit, Init
<1>1. PipelineTables
  <2>1. <<>> \in Seq(Files)
    OBVIOUS
  <2> QED BY <2>1, Zenon DEF PipelineTables
<1>2. PipelineControl
  BY DEF PipelineControl
<1>3. MemoMeansRegistered /\ NoForgottenShard
  BY Zenon DEF MemoMeansRegistered, NoForgottenShard
<1>4. OnceAndKnown
  <2>1. Len(cand) = 0 /\ 1..Len(cand) = {}
    OBVIOUS
  <2> QED BY <2>1, Zenon DEF OnceAndKnown
<1> QED BY <1>1, <1>2, <1>3, <1>4 DEF PipelineInv

LEMMA RestartInv == Restart => PipelineInv'
<1> SUFFICES ASSUME Restart PROVE PipelineInv'
  OBVIOUS
<1> USE DEF Restart
<1>1. PipelineTables'
  <2>1. <<>> \in Seq(Files)
    OBVIOUS
  <2> QED BY <2>1, Zenon DEF PipelineTables
<1>2. PipelineControl'
  BY DEF PipelineControl
<1>3. MemoMeansRegistered' /\ NoForgottenShard'
  BY Zenon DEF MemoMeansRegistered, NoForgottenShard
<1>4. OnceAndKnown'
  <2>1. Len(cand') = 0 /\ 1..Len(cand') = {}
    OBVIOUS
  <2> QED BY <2>1, Zenon DEF OnceAndKnown
<1> QED BY <1>1, <1>2, <1>3, <1>4 DEF PipelineInv

----------------------------------------------------------------------------
(* The scan. *)

\* The memo has room for a file it does not hold, if it has room for all.
LEMMA MemoHasRoom ==
    ASSUME blobs \subseteq Files, NEW f \in Files, f \notin blobs,
           Cardinality(Files) <= BLOB_CAP
    PROVE  Cardinality(blobs) < BLOB_CAP
<1>1. IsFiniteSet(Files) /\ BLOB_CAP \in Nat
  BY PipelineAssumption
<1>2. IsFiniteSet(blobs) /\ Cardinality(blobs) < Cardinality(Files)
  <2>1. IsFiniteSet(blobs) /\ Cardinality(blobs) <= Cardinality(Files)
    BY <1>1, FS_Subset
  <2>2. Cardinality(blobs) # Cardinality(Files)
    BY <1>1, FS_Subset
  <2>3. Cardinality(blobs) \in Nat /\ Cardinality(Files) \in Nat
    BY <1>1, <2>1, FS_CardinalityType
  <2> QED BY <2>1, <2>2, <2>3
<1>3. Cardinality(blobs) \in Nat /\ Cardinality(Files) \in Nat
  BY <1>1, <1>2, FS_CardinalityType
<1> QED BY <1>1, <1>2, <1>3

\* A file the scan returns is registered, remembered as registered, tried in vain,
\* or crowded out; the others keep their place.
LEMMA ScanFileInv ==
    ASSUME PipelineInv, NEW f \in Files, ScanFile(f)
    PROVE  PipelineInv'
<1> USE DEF PipelineInv
<1>1. /\ PipelineTables /\ PipelineControl /\ MemoMeansRegistered /\ NoForgottenShard /\ OnceAndKnown
      /\ dpc = "scan" /\ dpc' = dpc
      /\ todo' = todo \ {f}
      /\ UNCHANGED <<wpc, it, caller, disk, dirty, pub>>
  BY DEF ScanFile, vars
<1>2. CAND_CAP \in Nat /\ BLOB_CAP \in Nat
  BY PipelineAssumption
<1>3. PipelineControl'
  BY <1>1 DEF PipelineControl
<1>4. CASE ~ BlobNew(f) /\ UNCHANGED <<cand, blobs, skipped>>
  <2>1. Registered(f) \/ Len(cand) >= CAND_CAP
    BY <1>1, <1>4 DEF MemoMeansRegistered, BlobNew
  <2>2. PipelineTables' /\ OnceAndKnown'
    BY <1>1, <1>4 DEF PipelineTables, OnceAndKnown
  <2>3. MemoMeansRegistered'
    BY <1>1, <1>4 DEF MemoMeansRegistered, Registered
  <2>4. NoForgottenShard'
    BY <1>1, <1>4, <2>1 DEF NoForgottenShard, Registered
  <2> QED BY <1>3, <2>2, <2>3, <2>4
<1>5. CASE /\ BlobNew(f) /\ skipped' = skipped \cup {f}
           /\ blobs' = Remembered(f, FALSE) /\ UNCHANGED cand
  <2>1. blobs' = blobs
    BY <1>5 DEF Remembered
  <2>2. PipelineTables' /\ OnceAndKnown'
    BY <1>1, <1>5, <2>1 DEF PipelineTables, OnceAndKnown
  <2>3. MemoMeansRegistered'
    BY <1>1, <1>5, <2>1 DEF MemoMeansRegistered, Registered
  <2>4. NoForgottenShard'
    BY <1>1, <1>5 DEF NoForgottenShard, Registered
  <2> QED BY <1>3, <2>2, <2>3, <2>4
<1>6. CASE /\ BlobNew(f)
           /\ cand' = IF Len(cand) < CAND_CAP THEN Append(cand, f) ELSE cand
           /\ blobs' = Remembered(f, TRUE)
           /\ skipped' = skipped \ {f}
  <2>1. blobs \subseteq blobs' /\ blobs' \subseteq blobs \cup {f}
    BY <1>6 DEF Remembered
  <2>2. CASE Len(cand) < CAND_CAP
    <3>1. /\ cand \in Seq(Files) /\ cand' = Append(cand, f)
          /\ cand' \in Seq(Files) /\ Len(cand') = Len(cand) + 1
          /\ \A i \in 1..Len(cand) : cand'[i] = cand[i]
          /\ cand'[Len(cand) + 1] = f
      BY <1>1, <1>6, <2>2 DEF PipelineTables
    <3>2. PipelineTables'
      BY <1>1, <2>1, <3>1 DEF PipelineTables
    <3>3. Registered(f)' /\ \A g : Registered(g) => Registered(g)'
      BY <3>1 DEF Registered
    <3>4. Len(cand) >= CAND_CAP => Len(cand') >= CAND_CAP
      BY <2>2, <3>1, <1>2
    <3>5. MemoMeansRegistered'
      BY <1>1, <2>1, <3>3, <3>4 DEF MemoMeansRegistered
    <3>6. NoForgottenShard'
      BY <1>1, <1>6, <3>3, <3>4 DEF NoForgottenShard
    <3>7. OnceAndKnown'
      <4> SUFFICES ASSUME Cardinality(Files) <= BLOB_CAP
                   PROVE  /\ \A i \in 1..Len(cand') : cand'[i] \in blobs'
                          /\ \A i, j \in 1..Len(cand') : cand'[i] = cand'[j] => i = j
        BY DEF OnceAndKnown
      <4>1. f \notin blobs
        BY <1>6 DEF BlobNew
      <4>2. Cardinality(blobs) < BLOB_CAP
        BY <1>1, <4>1, MemoHasRoom DEF PipelineTables
      <4>3. blobs' = blobs \cup {f}
        BY <1>6, <4>2 DEF Remembered
      <4>4. /\ \A i \in 1..Len(cand) : cand[i] \in blobs
            /\ \A i, j \in 1..Len(cand) : cand[i] = cand[j] => i = j
        BY <1>1 DEF OnceAndKnown
      <4>5. \A i \in 1..Len(cand) : cand[i] # f
        BY <4>1, <4>4
      <4>6. \A i \in 1..Len(cand') : i \in 1..Len(cand) \/ i = Len(cand) + 1
        BY <3>1
      <4>7. \A i \in 1..Len(cand') : cand'[i] \in blobs'
        BY <3>1, <4>3, <4>4, <4>6
      <4>8. \A i, j \in 1..Len(cand') : cand'[i] = cand'[j] => i = j
        BY <3>1, <4>4, <4>5, <4>6
      <4> QED BY <4>7, <4>8
    <3> QED BY <1>3, <3>2, <3>5, <3>6, <3>7
  <2>3. CASE ~ (Len(cand) < CAND_CAP)
    <3>1. cand' = cand /\ Len(cand) \in Nat
      BY <1>1, <1>6, <2>3 DEF PipelineTables
    <3>2. Len(cand') >= CAND_CAP
      BY <1>2, <2>3, <3>1
    <3>3. PipelineTables'
      BY <1>1, <2>1, <3>1 DEF PipelineTables
    <3>4. MemoMeansRegistered' /\ NoForgottenShard'
      BY <3>2 DEF MemoMeansRegistered, NoForgottenShard
    <3>5. OnceAndKnown'
      BY <1>1, <2>1, <3>1 DEF OnceAndKnown
    <3> QED BY <1>3, <3>3, <3>4, <3>5
  <2> QED BY <2>2, <2>3
<1> QED BY <1>4, <1>5, <1>6 DEF ScanFile

----------------------------------------------------------------------------
(* The steps that leave the tables alone. *)

\* The two invariants about the tables only.
LEMMA TablesKept ==
    ASSUME PipelineInv, UNCHANGED <<cand, blobs>>
    PROVE  MemoMeansRegistered' /\ OnceAndKnown'
BY DEF PipelineInv, MemoMeansRegistered, OnceAndKnown, Registered

\* A step that touches neither the tables, the directory, the scan nor the flag,
\* and no item that is being published, forgets nothing.
LEMMA NothingForgotten ==
    ASSUME PipelineInv, UNCHANGED <<cand, skipped, disk, todo, dirty, pub>>,
           dpc # "init", pub = "renamed" => it' = it
    PROVE  NoForgottenShard'
BY DEF PipelineInv, NoForgottenShard, Registered

\* overlay_loader_init's scan, and the exchange of the flag at a miss: both start
\* from the whole directory or leave the flag as it is.
LEMMA ScanBeginsInv ==
    ASSUME PipelineInv, BootScan \/ \E p \in Phys : MissBegin(p)
    PROVE  PipelineInv'
<1>1. CASE BootScan
  <2>1. PipelineTables' /\ PipelineControl' /\ UNCHANGED <<cand, blobs>>
    BY <1>1 DEF PipelineInv, PipelineTables, PipelineControl, BootScan, vars, tableVars
  <2>2. NoForgottenShard'
    BY <1>1 DEF NoForgottenShard, BootScan
  <2> QED BY <2>1, <2>2, TablesKept DEF PipelineInv
<1>2. ASSUME NEW p \in Phys, MissBegin(p) PROVE PipelineInv'
  <2>1. PipelineTables' /\ PipelineControl' /\ UNCHANGED <<cand, blobs>>
    BY <1>2 DEF PipelineInv, PipelineTables, PipelineControl, MissBegin, Cleared, vars, tableVars
  <2>2. CASE dirty
    <3>1. todo' = disk'
      BY <1>2, <2>2 DEF MissBegin
    <3>2. NoForgottenShard'
      BY <3>1 DEF NoForgottenShard
    <3> QED BY <2>1, <3>2, TablesKept DEF PipelineInv
  <2>3. CASE ~ dirty
    <3>1. todo = {} /\ todo' = {} /\ dirty' = dirty /\ dpc # "init"
          /\ UNCHANGED <<cand, skipped, disk, pub, it>>
      BY <1>2, <2>3 DEF PipelineInv, PipelineTables, PipelineControl, MissBegin, Cleared, vars, tableVars
    <3>2. NoForgottenShard'
      BY <3>1, NothingForgotten
    <3> QED BY <2>1, <3>2, TablesKept DEF PipelineInv
  <2> QED BY <2>2, <2>3
<1> QED BY <1>1, <1>2

LEMMA ScanEndInv ==
    ASSUME PipelineInv, ScanEnd
    PROVE  PipelineInv'
<1>1. PipelineTables' /\ PipelineControl' /\ UNCHANGED <<cand, blobs>>
  BY DEF PipelineInv, PipelineTables, PipelineControl, ScanEnd, Cleared, vars, tableVars
<1>2. /\ todo = {} /\ todo' = {} /\ dirty' = dirty /\ dpc # "init"
      /\ UNCHANGED <<cand, skipped, disk, pub, it>>
  BY DEF PipelineInv, PipelineTables, ScanEnd, ScanComplete, Cleared, vars, tableVars
<1>3. NoForgottenShard'
  BY <1>2, NothingForgotten
<1> QED BY <1>1, <1>3, TablesKept DEF PipelineInv

\* The rest of a dispatch that missed.
LEMMA MissInv ==
    ASSUME PipelineInv, MissStep
    PROVE  PipelineInv'
<1>1. /\ dpc = "lookup" /\ dpc' = "idle"
      /\ UNCHANGED <<cand, blobs, skipped, disk, todo, dirty, pub, it, caller>>
      /\ wpc' = wpc \/ (wpc = "waiting" /\ wpc' = "woken" /\ caller = "run")
  BY DEF MissStep, MissHit, MissLoad, MissInterpret, MissEnqueue, MissDone, Enqueue,
         Signalled, vars, tableVars
<1>2. PipelineTables' /\ PipelineControl'
  BY <1>1 DEF PipelineInv, PipelineTables, PipelineControl
<1>3. NoForgottenShard'
  BY <1>1, NothingForgotten
<1> QED BY <1>1, <1>2, <1>3, TablesKept DEF PipelineInv

----------------------------------------------------------------------------
(* The worker, and the start and stop of it. *)

\* The rename comes first, the flag after it.
LEMMA PublishInv ==
    ASSUME PipelineInv, PublishFile \/ PublishFlag
    PROVE  PipelineInv'
<1>1. UNCHANGED <<cand, blobs, skipped, todo, dpc, it, caller>>
  BY DEF PublishFile, PublishFlag, WorkerCompile, vars, scanVars, tableVars
<1>2. CASE PublishFile
  <2>1. PipelineTables' /\ PipelineControl'
    BY <1>1, <1>2 DEF PipelineInv, PipelineTables, PipelineControl, PublishFile, vars
  <2>2. NoForgottenShard'
    BY <1>1, <1>2 DEF PipelineInv, NoForgottenShard, Registered, PublishFile
  <2> QED BY <1>1, <2>1, <2>2, TablesKept DEF PipelineInv
<1>3. CASE PublishFlag
  <2>1. PipelineTables' /\ PipelineControl'
    BY <1>1, <1>3 DEF PipelineInv, PipelineTables, PipelineControl, PublishFlag, WorkerCompile
  <2>2. NoForgottenShard'
    BY <1>1, <1>3 DEF PipelineInv, NoForgottenShard, Registered, PublishFlag
  <2> QED BY <1>1, <2>1, <2>2, TablesKept DEF PipelineInv
<1> QED BY <1>2, <1>3

LEMMA WorkerStepInv ==
    ASSUME PipelineInv, WorkerInternal \/ Boot \/ Shutdown
    PROVE  PipelineInv'
<1>1. UNCHANGED <<cand, blobs, skipped, todo, dpc, disk, dirty, pub>>
  BY DEF WorkerInternal, Boot, Shutdown, scanVars, tableVars
<1>2. PipelineControl' /\ (pub = "renamed" => it' = it)
  BY <1>1 DEF PipelineInv, PipelineControl, WorkerInternal, Boot, Shutdown, WorkerLock, WorkerWait,
     WorkerExit, WorkerPop, WorkerFinish, SpuriousWake, Start, StopSignal, StopJoin, Signalled
<1>3. PipelineTables'
  BY <1>1 DEF PipelineInv, PipelineTables
<1>4. NoForgottenShard'
  <2>1. CASE dpc # "init"
    BY <1>1, <1>2, <2>1, NothingForgotten
  <2>2. CASE dpc = "init"
    BY <1>1, <2>2 DEF NoForgottenShard
  <2> QED BY <2>1, <2>2
<1> QED BY <1>1, <1>2, <1>3, <1>4, TablesKept DEF PipelineInv

----------------------------------------------------------------------------
(* The theorems. *)

LEMMA PipelineStepInv == PipelineInv /\ [PipelineNext]_pvars => PipelineInv'
<1> SUFFICES ASSUME PipelineInv, [PipelineNext]_pvars PROVE PipelineInv'
  OBVIOUS
<1>1. CASE ScanStep
  BY <1>1, ScanEndInv, ScanFileInv DEF ScanStep
<1>2. CASE UNCHANGED pvars
  BY <1>2 DEF pvars, vars, scanVars, tableVars, PipelineInv, PipelineTables, PipelineControl,
     MemoMeansRegistered, NoForgottenShard, OnceAndKnown, Registered
<1> QED
  BY <1>1, <1>2, ScanBeginsInv, MissInv, PublishInv, WorkerStepInv, RestartInv DEF PipelineNext

\* No published shard is forgotten: for any files, capacities and schedules of the
\* two threads, a file of the cache is registered, unreadable, about to be
\* returned by the running scan, announced by the flag or about to be.
THEOREM PublishedIsRemembered == PipelineSpec => []NoForgottenShard
<1>1. PipelineInv => NoForgottenShard
  BY DEF PipelineInv
<1> QED BY <1>1, PipelineInvInit, PipelineStepInv, PTL DEF PipelineSpec

\* The memo of loaded files never hides a file that is not in the table.
THEOREM MemoIsHonest == PipelineSpec => []MemoMeansRegistered
<1>1. PipelineInv => MemoMeansRegistered
  BY DEF PipelineInv
<1> QED BY <1>1, PipelineInvInit, PipelineStepInv, PTL DEF PipelineSpec

\* No file has two candidates while the memo has room for all files, however often
\* the directory is scanned.
THEOREM OneCandidatePerFile == PipelineSpec => []RegisteredOnce
<1>1. PipelineInv => RegisteredOnce
  BY DEF PipelineInv, OnceAndKnown, RegisteredOnce
<1> QED BY <1>1, PipelineInvInit, PipelineStepInv, PTL DEF PipelineSpec
=============================================================================
