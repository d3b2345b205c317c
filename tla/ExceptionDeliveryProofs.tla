---------------------- MODULE ExceptionDeliveryProofs ----------------------
(***************************************************************************)
(* No thread runs or is suspended with another's registers or program      *)
(* counter, for any number of threads and points, as long as the guest has *)
(* none of the habits named in QuirkNames.                                 *)
(***************************************************************************)
EXTENDS ExceptionDelivery, TLAPS

AnyPlace == [t : Threads \cup {Kernel, Host}, k : Nat]
Context == [pc : AnyPlace, gpr : AnyPlace, ready : BOOLEAN]
Frame ==
    [entry : Threads, saved : AnyPlace, point : AnyPlace, epc : AnyPlace,
     low : BOOLEAN, outer : BOOLEAN, dlatch : AnyPlace, after : AnyPlace,
     prev : AnyPlace, pump : BOOLEAN, prevsite : BOOLEAN]

Typed ==
    /\ pcb \in Threads /\ running \in Threads
    /\ tcb \in [Threads -> Context]
    /\ at \in [Threads -> Nat]
    /\ gpr \in AnyPlace /\ real_epc \in AnyPlace /\ clatch \in AnyPlace /\ site \in BOOLEAN
    /\ frames \in Seq(Frame) /\ Len(frames) \in {0, 1, 2} /\ armed \in {0, 1, 2}
    /\ ret \in Threads \cup {Kernel}

\* The dirty latch holds a PC only inside a check.
NoLatch == dlatch = Zero

\* Where the running thread is, by where the scheduler is.
Points ==
    /\ ctl = "guest" => at[running] <= MaxStep
    /\ ctl \in {"boundary", "returned"} => at[running] = MaxStep + 1

\* Outside the handler nothing of a delivery is left.
Outside == Level = 0 =>
    /\ clatch = Zero /\ ~ site
    /\ ctl \in {"guest", "boundary"} => running = pcb /\ gpr = Here
    /\ ctl = "returned" => running = pcb

\* What the first activation holds, and what its landing relies on.
First ==
    /\ frames[1].entry = running
    /\ frames[1].saved = Here /\ frames[1].point = Here
    /\ frames[1].after = Zero /\ frames[1].prev = Zero /\ frames[1].prevsite = FALSE
    /\ frames[1].outer <=> ctl = "boundary"
    /\ frames[1].epc = Sentinel \/ frames[1].epc.t = running
    /\ frames[1].outer => frames[1].epc = Sentinel
    /\ frames[1].low => frames[1].epc = Here
    /\ frames[1].low \/ frames[1].epc = Sentinel =>
         frames[1].dlatch = Zero /\ frames[1].pump = FALSE

\* The handler: it has moved PCB[0] to a live thread or not at all; the context
\* it saved is still there unless a nested delivery has replaced it.
Inside == Level > 0 =>
    /\ ctl \in {"guest", "boundary"}
    /\ First
    /\ armed \in {1, 2} /\ (Level = 2 => armed = 2)
    /\ pcb # running => Alive(pcb) /\ (ctl = "guest" => frames[1].epc # Sentinel)
    /\ armed = 1 => /\ real_epc = frames[1].epc
                    /\ tcb[running].pc = frames[1].epc /\ tcb[running].gpr = Here
    /\ frames[1].epc = Sentinel <=> reason = "LEGACY"
    /\ reason = "NONE" /\ ~ rfe_pending => gpr = Place(Kernel, Level)

\* A nested activation has interrupted the handler, under the same thread.
Nested == Level = 2 =>
    /\ frames[2].saved = Place(Kernel, 1) /\ frames[2].point = Place(Kernel, 1)
    /\ frames[2].epc = Place(Kernel, 1) /\ real_epc = Place(Kernel, 1)
    /\ frames[2].after = Zero
    /\ tcb[running].pc = Place(Kernel, 1)
    /\ pcb = running /\ frames[1].epc # Sentinel

\* The thread a deferred switch goes to is alive.
DeferTarget ==
    defer = NoSwitch
    \/ /\ defer.from \in Threads /\ defer.to \in Threads /\ defer.from # defer.to
       /\ Alive(defer.to)

\* A yielder that has ended cannot be resumed.
Yielder == ret # Kernel =>
    /\ ctl \in {"boundary", "returned"} => tcb[ret].ready
    /\ ret # running /\ at[ret] > MaxStep => tcb[ret].pc = Sentinel

ThreadsInv ==
    /\ Typed /\ NoLatch /\ Points /\ Outside /\ Inside /\ Nested
    /\ DeferTarget /\ Yielder /\ SuspendedIntact

----------------------------------------------------------------------------
(* Places, contexts and activations. *)

LEMMA PlaceFacts ==
    ASSUME NEW t, NEW k
    PROVE  /\ Place(t, k).t = t /\ Place(t, k).k = k
           /\ t \in Threads \cup {Kernel, Host} /\ k \in Nat => Place(t, k) \in AnyPlace
           /\ \A u, j : Place(t, k) = Place(u, j) => t = u /\ k = j
  BY DEF Place, AnyPlace

LEMMA HostFacts ==
    /\ Zero \in AnyPlace /\ Sentinel \in AnyPlace /\ Zero # Sentinel
    /\ \A t, k : t # Host => Place(t, k) # Zero /\ Place(t, k) # Sentinel
  BY DEF Place, AnyPlace, Zero, Sentinel

LEMMA AppendFacts ==
    ASSUME NEW S, NEW q \in Seq(S), NEW x \in S
    PROVE  /\ Append(q, x) \in Seq(S) /\ Len(Append(q, x)) = Len(q) + 1
           /\ Append(q, x)[Len(q) + 1] = x
           /\ \A i \in 1..Len(q) : Append(q, x)[i] = q[i]
  OBVIOUS

LEMMA SecondOfTwo ==
    ASSUME NEW S, NEW q \in Seq(S), Len(q) = 1, NEW x \in S
    PROVE  /\ Append(q, x) \in Seq(S) /\ Len(Append(q, x)) = 2
           /\ Append(q, x)[1] = q[1] /\ Append(q, x)[2] = x
  <1>1. /\ Append(q, x) \in Seq(S) /\ Len(Append(q, x)) = Len(q) + 1
        /\ Append(q, x)[Len(q) + 1] = x
        /\ \A i \in 1..Len(q) : Append(q, x)[i] = q[i]
    BY AppendFacts
  <1>2. Len(q) + 1 = 2 /\ 1 \in 1..Len(q)
    OBVIOUS
  <1> QED
    BY <1>1, <1>2, Zenon

\* psx_save_context_to_tcb changes one context, and not whether its thread is open.
LEMMA SavedFacts ==
    ASSUME NEW t \in Threads, NEW pc \in AnyPlace, gpr \in AnyPlace,
           tcb \in [Threads -> Context]
    PROVE  /\ Saved(t, pc) \in [Threads -> Context]
           /\ Saved(t, pc)[t].pc = pc /\ Saved(t, pc)[t].gpr = gpr
           /\ Saved(t, pc)[t].ready = tcb[t].ready
           /\ \A u \in Threads \ {t} : Saved(t, pc)[u] = tcb[u]
  BY DEF Saved, Context

\* A context that is intact is resumed where its thread stopped.
LEMMA ResumeFacts ==
    ASSUME NEW u \in Threads, NEW c, at \in [Threads -> Nat],
           c[u].pc = Place(u, at[u]), c[u].gpr = Place(u, at[u]), Resume(u, c)
    PROVE  /\ running' = u /\ at' = at /\ ctl' = "guest"
           /\ gpr' = Place(u, at[u])
  <1>1. Place(u, at[u]).t = u /\ Place(u, at[u]).k = at[u]
    BY PlaceFacts
  <1>2. running' = u /\ at' = [at EXCEPT ![u] = at[u]] /\ ctl' = "guest" /\ gpr' = Place(u, at[u])
    BY <1>1 DEF Resume
  <1> QED
    BY <1>2

\* Every way to a new thread ends the same: the thread that gives way has been
\* saved as SuspendedIntact asks, and the next is alive and therefore intact.
LEMMA SwitchTo ==
    ASSUME ExceptionAssumption, ThreadsInv, NEW u \in Threads, u # running, Alive(u),
           frames' = <<>>, clatch' = Zero, site' = FALSE, dlatch' = Zero,
           pcb' = u, Resume(u, tcb'),
           tcb' \in [Threads -> Context],
           \A t \in Threads \ {running} : tcb'[t] = tcb[t],
           tcb'[running].ready = tcb[running].ready,
           Alive(running) => tcb'[running].pc = Here /\ tcb'[running].gpr = Here,
           at[running] > MaxStep => tcb'[running].pc = Sentinel \/ ret' # running,
           real_epc' \in AnyPlace, armed' \in {0, 1, 2},
           ret' \in {ret, running, Kernel},
           defer' = defer \/ defer' = NoSwitch
    PROVE  ThreadsInv'
  <1> USE DEF ExceptionAssumption
  <1>0. Typed /\ Yielder /\ DeferTarget /\ SuspendedIntact
    BY DEF ThreadsInv
  <1>1. tcb'[u].pc = Place(u, at[u]) /\ tcb'[u].gpr = Place(u, at[u])
    BY <1>0 DEF SuspendedIntact
  <1>2. /\ running' = u /\ at' = at /\ ctl' = "guest"
        /\ gpr' = Place(u, at[u])
    BY <1>0, <1>1, ResumeFacts DEF Typed
  <1>3. \A t \in Threads : Alive(t)' <=> Alive(t)
    BY <1>2 DEF Alive
  <1>4. frames' \in Seq(Frame) /\ Len(frames') = 0
    OBVIOUS
  <1>5. Typed'
    <2>1. gpr' \in AnyPlace
      BY <1>0, <1>2, PlaceFacts DEF Typed
    <2> QED
      BY <1>0, <1>2, <1>4, <2>1, HostFacts DEF Typed
  <1>6. NoLatch' /\ Points'
    BY <1>0, <1>2 DEF NoLatch, Points, Alive
  <1>7. Outside' /\ Inside' /\ Nested'
    BY <1>2, <1>4 DEF Outside, Inside, Nested, Level, Here
  <1>8. DeferTarget'
    BY <1>0, <1>3 DEF DeferTarget
  <1>9. Yielder'
    <2> SUFFICES ASSUME ret' # Kernel, ret' # u, at[ret'] > MaxStep
                 PROVE  tcb'[ret'].pc = Sentinel
      BY <1>2 DEF Yielder
    <2>1. CASE ret' = running
      BY <2>1
    <2>2. CASE ret' = ret /\ ret # running
      BY <2>2, <1>0 DEF Yielder, Typed
    <2> QED
      BY <2>1, <2>2
  <1>10. SuspendedIntact'
    <2> SUFFICES ASSUME NEW t \in Threads, t # u, Alive(t)
                 PROVE  tcb'[t].pc = Place(t, at[t]) /\ tcb'[t].gpr = Place(t, at[t])
      BY <1>2, <1>3 DEF SuspendedIntact
    <2>1. CASE t = running
      BY <2>1 DEF Here
    <2>2. CASE t # running
      BY <2>2, <1>0 DEF SuspendedIntact
    <2> QED
      BY <2>1, <2>2
  <1> QED
    BY <1>5, <1>6, <1>7, <1>8, <1>9, <1>10 DEF ThreadsInv

----------------------------------------------------------------------------
(* The guest outside the handler. *)

LEMMA Started ==
    ASSUME ExceptionAssumption, Init
    PROVE  ThreadsInv
  <1> USE DEF ExceptionAssumption, Init
  <1>1. \A t \in Threads : Place(t, 0) \in AnyPlace
    BY PlaceFacts
  <1>2. frames \in Seq(Frame) /\ Len(frames) = 0
    OBVIOUS
  <1>3. Typed
    <2>1. tcb \in [Threads -> Context]
      BY <1>1 DEF Context
    <2> QED
      BY <1>1, <1>2, <2>1, HostFacts DEF Typed
  <1>4. NoLatch /\ Points /\ Outside /\ Inside /\ Nested
    BY <1>2 DEF NoLatch, Points, Outside, Inside, Nested, Level, Here
  <1>5. DeferTarget /\ Yielder
    BY DEF DeferTarget, Yielder
  <1>6. SuspendedIntact
    BY DEF SuspendedIntact, Alive
  <1> QED
    BY <1>3, <1>4, <1>5, <1>6 DEF ThreadsInv

\* The running thread goes on to point k, its last one or one before that.
LEMMA RunsTo ==
    ASSUME ExceptionAssumption, ThreadsInv, InGuest, NEW k \in Nat, Run(k),
           UNCHANGED <<pcb, tcb, running, excVars, latches, defer, ret, wild>>,
           \/ k <= MaxStep /\ ctl' = ctl
           \/ /\ k = MaxStep + 1 /\ ctl' = "boundary" /\ defer = NoSwitch
              /\ ret # Kernel => tcb[ret].ready
    PROVE  ThreadsInv'
  <1> USE DEF ExceptionAssumption
  <1>0. /\ Typed /\ NoLatch /\ Points /\ Outside /\ DeferTarget /\ Yielder
        /\ SuspendedIntact
    BY DEF ThreadsInv
  <1>1. /\ Level = 0 /\ ctl = "guest" /\ running = pcb /\ gpr = Here
        /\ clatch = Zero /\ site = FALSE
    BY <1>0 DEF InGuest, Outside, Typed
  <1>2. /\ at' = [at EXCEPT ![running] = k]
        /\ gpr' = Place(running, k)
        /\ UNCHANGED <<pcb, tcb, running, frames, armed, real_epc, dlatch, clatch, site,
                       defer, ret>>
    BY <1>1 DEF Run, excVars, latches
  <1>3. at' \in [Threads -> Nat] /\ at'[running] = k
        /\ \A t \in Threads \ {running} : at'[t] = at[t]
    BY <1>0, <1>2 DEF Typed
  <1>4. gpr' \in AnyPlace
    BY <1>0, <1>2, PlaceFacts DEF Typed
  <1>5. Typed' /\ NoLatch'
    BY <1>0, <1>2, <1>3, <1>4 DEF Typed, NoLatch
  <1>6. Points'
    BY <1>1, <1>2, <1>3 DEF Points
  <1>7. Outside' /\ Inside' /\ Nested'
    BY <1>1, <1>2, <1>3 DEF Outside, Inside, Nested, Level, Here
  <1>8. DeferTarget'
    BY <1>0, <1>1, <1>2, <1>3 DEF DeferTarget, Alive
  <1>9. Yielder'
    BY <1>0, <1>1, <1>2, <1>3 DEF Yielder, Typed
  <1>10. SuspendedIntact'
    BY <1>0, <1>2, <1>3 DEF SuspendedIntact, Alive
  <1> QED
    BY <1>5, <1>6, <1>7, <1>8, <1>9, <1>10 DEF ThreadsInv

LEMMA Advances ==
    ASSUME ExceptionAssumption, ThreadsInv, Advance
    PROVE  ThreadsInv'
  <1>1. at[running] \in Nat
    BY DEF ThreadsInv, Typed
  <1> QED
    BY <1>1, RunsTo DEF Advance, ExceptionAssumption

LEMMA Ends ==
    ASSUME ExceptionAssumption, ThreadsInv, ThreadEnds
    PROVE  ThreadsInv'
  BY RunsTo DEF ThreadEnds, ExceptionAssumption

LEMMA Closes ==
    ASSUME ExceptionAssumption, ThreadsInv, NEW u \in Threads, CloseThread(u)
    PROVE  ThreadsInv'
  <1> USE DEF ExceptionAssumption
  <1>0. /\ Typed /\ NoLatch /\ Points /\ Outside /\ DeferTarget /\ Yielder
        /\ SuspendedIntact
    BY DEF ThreadsInv
  <1>1. /\ Level = 0 /\ ctl = "guest" /\ u # defer.to
        /\ tcb' = [tcb EXCEPT ![u].ready = FALSE]
        /\ UNCHANGED <<pcb, running, at, gpr, frames, armed, real_epc, dlatch, clatch, site,
                       defer, ret, ctl>>
    BY DEF CloseThread, InGuest, excVars, latches
  <1>2. /\ tcb' \in [Threads -> Context]
        /\ \A t \in Threads : tcb'[t].pc = tcb[t].pc /\ tcb'[t].gpr = tcb[t].gpr
        /\ \A t \in Threads \ {u} : tcb'[t].ready = tcb[t].ready
        /\ tcb'[u].ready = FALSE
    BY <1>0, <1>1 DEF Typed, Context
  <1>3. Typed' /\ NoLatch' /\ Points'
    BY <1>0, <1>1, <1>2 DEF Typed, NoLatch, Points
  <1>4. Outside' /\ Inside' /\ Nested'
    BY <1>0, <1>1 DEF Outside, Inside, Nested, Level, Here
  <1>5. DeferTarget'
    BY <1>0, <1>1, <1>2 DEF DeferTarget, Alive
  <1>6. Yielder'
    BY <1>0, <1>1, <1>2 DEF Yielder, Typed
  <1>7. SuspendedIntact'
    BY <1>0, <1>1, <1>2 DEF SuspendedIntact, Alive
  <1> QED
    BY <1>3, <1>4, <1>5, <1>6, <1>7 DEF ThreadsInv

\* ChangeThread: Here is committed with the registers of Here.
LEMMA Changes ==
    ASSUME ExceptionAssumption, ThreadsInv, NEW u \in Threads, psx_request_thread_switch(u)
    PROVE  ThreadsInv'
  <1> USE DEF ExceptionAssumption
  <1>0. Typed /\ NoLatch /\ Points /\ Outside
    BY DEF ThreadsInv
  <1>1. /\ Level = 0 /\ ctl = "guest" /\ running = pcb /\ gpr = Here
        /\ clatch = Zero /\ site = FALSE /\ dlatch = Zero
        /\ at[running] <= MaxStep /\ u # running /\ Alive(u)
    BY <1>0 DEF psx_request_thread_switch, InGuest, Outside, Typed, NoLatch, Points
  <1>2. frames = <<>> /\ frames' = frames
    BY <1>0, <1>1 DEF Typed, Level, psx_request_thread_switch, excVars
  <1>3. Here \in AnyPlace
    BY <1>0, <1>1 DEF Typed
  <1>4. /\ tcb' \in [Threads -> Context]
        /\ \A t \in Threads \ {running} : tcb'[t] = tcb[t]
        /\ tcb'[running].ready = tcb[running].ready
        /\ Alive(running) => tcb'[running].pc = Here /\ tcb'[running].gpr = Here
    <2>1. CASE tcb[running].ready
      <3>1. tcb' = Saved(running, Here)
        BY <1>1, <2>1 DEF psx_request_thread_switch
      <3> QED
        BY <3>1, <1>0, <1>1, <1>3, SavedFacts DEF Typed
    <2>2. CASE ~ tcb[running].ready
      BY <1>0, <1>1, <2>2 DEF psx_request_thread_switch, Alive, Typed
    <2> QED
      BY <2>1, <2>2
  <1>5. /\ pcb' = u /\ ret' = running /\ Resume(u, tcb')
        /\ UNCHANGED <<dlatch, clatch, site, armed, real_epc, defer>>
    BY <1>1 DEF psx_request_thread_switch, latches, excVars
  <1>6. ~ (at[running] > MaxStep)
    BY <1>0, <1>1 DEF Typed
  <1>7. armed' \in {0, 1, 2} /\ real_epc' \in AnyPlace
    BY <1>0, <1>5 DEF Typed
  <1> QED
    BY <1>1, <1>2, <1>4, <1>5, <1>6, <1>7, SwitchTo

\* The hand-back goes to a yielder that is intact, or that has ended and is
\* refused; the thread that gives way has ended.
LEMMA HandsBack ==
    ASSUME ExceptionAssumption, ThreadsInv, ScheduleNext
    PROVE  ThreadsInv'
  <1> USE DEF ExceptionAssumption
  <1>0. /\ Typed /\ NoLatch /\ Points /\ Outside /\ Inside /\ DeferTarget /\ Yielder
        /\ SuspendedIntact
    BY DEF ThreadsInv
  <1>1. Level = 0
    <2>1. ctl = "returned"
      BY DEF ScheduleNext
    <2>2. ~ (Level > 0)
      BY <1>0, <2>1 DEF Inside
    <2> QED
      BY <1>0, <2>2 DEF Typed, Level
  <1>2. /\ ctl = "returned" /\ running = pcb
        /\ clatch = Zero /\ site = FALSE /\ dlatch = Zero
        /\ at[running] = MaxStep + 1
    BY <1>0, <1>1 DEF ScheduleNext, Outside, Typed, NoLatch, Points
  <1>3. frames = <<>> /\ frames' = frames
    BY <1>0, <1>1 DEF Typed, Level, ScheduleNext, excVars
  <1>4. /\ UNCHANGED <<tcb, armed, real_epc, dlatch, clatch, site, defer>>
        /\ ret' = Kernel
        /\ \/ ret \in Threads \ {running} /\ pcb' = ret /\ Resume(ret, tcb)
           \/ ctl' = "exit" /\ UNCHANGED <<pcb, gpr, running, at>>
    BY <1>2 DEF ScheduleNext, excVars, latches
  <1>5. armed' \in {0, 1, 2} /\ real_epc' \in AnyPlace /\ tcb' \in [Threads -> Context]
    BY <1>0, <1>4 DEF Typed
  <1>6. CASE ret \in Threads \ {running} /\ pcb' = ret /\ Resume(ret, tcb) /\ Alive(ret)
    <2>1. ret \in Threads /\ ret # running /\ Alive(ret) /\ pcb' = ret /\ Resume(ret, tcb')
      BY <1>6, <1>4
    <2>2. ~ Alive(running) /\ ret' # running
      BY <1>2, <1>4, <1>0 DEF Alive, Typed
    <2>3. \A t \in Threads \ {running} : tcb'[t] = tcb[t]
      BY <1>4
    <2> QED
      BY <1>2, <1>3, <1>4, <1>5, <2>1, <2>2, <2>3, SwitchTo
  <1>7. CASE ret \in Threads \ {running} /\ pcb' = ret /\ Resume(ret, tcb) /\ ~ Alive(ret)
    <2>1. ret # Kernel /\ tcb[ret].ready /\ at[ret] > MaxStep
      BY <1>0, <1>2, <1>7 DEF Yielder, Alive, Typed
    <2>2. tcb[ret].pc = Sentinel
      BY <1>0, <1>7, <2>1 DEF Yielder
    <2>3. Sentinel.t \notin Threads
      BY PlaceFacts DEF Sentinel
    <2>4. /\ ctl' = "halted" /\ UNCHANGED <<running, at>> /\ gpr' = tcb[ret].gpr
      BY <1>7, <2>2, <2>3 DEF Resume
    <2>5. Typed'
      BY <1>0, <1>3, <1>4, <1>5, <1>7, <2>4 DEF Typed, Context
    <2>6. NoLatch' /\ Points' /\ Outside' /\ Inside' /\ Nested'
      BY <1>2, <1>3, <1>4, <2>4 DEF NoLatch, Points, Outside, Inside, Nested, Level
    <2>7. DeferTarget' /\ Yielder' /\ SuspendedIntact'
      BY <1>0, <1>4, <2>4 DEF DeferTarget, Yielder, SuspendedIntact, Alive
    <2> QED
      BY <2>5, <2>6, <2>7 DEF ThreadsInv
  <1>8. CASE ctl' = "exit" /\ UNCHANGED <<pcb, gpr, running, at>>
    <2>1. Typed'
      BY <1>0, <1>3, <1>4, <1>5, <1>8 DEF Typed
    <2>2. NoLatch' /\ Points' /\ Outside' /\ Inside' /\ Nested'
      BY <1>2, <1>3, <1>4, <1>8 DEF NoLatch, Points, Outside, Inside, Nested, Level
    <2>3. DeferTarget' /\ Yielder' /\ SuspendedIntact'
      BY <1>0, <1>4, <1>8 DEF DeferTarget, Yielder, SuspendedIntact, Alive
    <2> QED
      BY <2>1, <2>2, <2>3 DEF ThreadsInv
  <1> QED
    BY <1>4, <1>6, <1>7, <1>8

----------------------------------------------------------------------------
(* The check. *)

\* A check of a thread, without the quirks: a leader, a pump of game code or a
\* poll; only a poll after the outermost dispatch.
LEMMA ThreadSiteFacts ==
    ASSUME ExceptionAssumption, ThreadsInv, Quirks = {}, Level = 0, NEW s, s \in Sites
    PROVE  /\ ctl \in {"guest", "boundary"}
           /\ s.pump \in BOOLEAN /\ s.pc \in AnyPlace
           /\ s.pc = Zero \/ (s.pc.t = running /\ s.pc # Zero /\ ctl = "guest")
           /\ s.pc # Zero /\ ~ s.pump => s.pc = Here
           /\ s.area = "kernel" => s.pc = Here /\ ~ s.pump
           /\ s.pump => s.area = "game" /\ s.pc # Zero
  <1> USE DEF ExceptionAssumption
  <1>0. Typed
    BY DEF ThreadsInv
  <1>1. /\ Now = Here /\ Here \in AnyPlace /\ Here # Zero /\ Here.t = running
        /\ at[running] \in Nat /\ Here.k = at[running]
    BY <1>0, PlaceFacts, HostFacts DEF Now, Here, Typed
  <1>2. \/ ctl = "boundary" /\ s = Poll
        \/ ctl = "guest" /\ s \in ThreadSites
    BY DEF Sites
  <1>3. CASE s = Poll
    BY <1>2, <1>3, HostFacts DEF Poll
  <1>4. CASE ctl = "guest" /\ s \in LeaderSites
    <2>1. s.pc = Here /\ s.pump = FALSE
      BY <1>1, <1>4 DEF LeaderSites, Leader
    <2> QED
      BY <1>1, <1>4, <2>1
  <1>5. CASE ctl = "guest" /\ s \in {Pump("game", b) : b \in BOOLEAN}
    <2>1. PICK b \in BOOLEAN : s = Pump("game", b)
      BY <1>5
    <2>2. [Now EXCEPT !.k = IF b THEN @ + 1 ELSE @]
            = Place(running, IF b THEN at[running] + 1 ELSE at[running])
      BY <1>1 DEF Here, Place
    <2>3. /\ s.pump = TRUE /\ s.area = "game"
          /\ s.pc = Place(running, IF b THEN at[running] + 1 ELSE at[running])
      BY <2>1, <2>2 DEF Pump
    <2>4. running # Host /\ running \in Threads
          /\ (IF b THEN at[running] + 1 ELSE at[running]) \in Nat
      BY <1>0, <1>1 DEF Typed
    <2>5. s.pc \in AnyPlace /\ s.pc.t = running /\ s.pc # Zero
      BY <2>3, <2>4, PlaceFacts, HostFacts
    <2> QED
      BY <1>5, <2>3, <2>5
  <1>6. s \in ThreadSites =>
          s = Poll \/ s \in LeaderSites \/ s \in {Pump("game", b) : b \in BOOLEAN}
    BY DEF ThreadSites
  <1> QED
    BY <1>2, <1>3, <1>4, <1>5, <1>6

\* Nothing is left in the latches, so the check knows only its own resume PC.
LEMMA CheckPcIsOwn ==
    ASSUME ExceptionAssumption, ThreadsInv, Quirks = {}, Level = 0, NEW s, s \in Sites
    PROVE  /\ CheckPc(s) = s.pc
           /\ DirtyLatch(s) = IF s.pump THEN s.pc ELSE Zero
           /\ CompiledLatch(s) \in AnyPlace
  <1>1. dlatch = Zero /\ clatch = Zero
    BY DEF ThreadsInv, NoLatch, Outside
  <1>2. s.pump \in BOOLEAN /\ s.pc \in AnyPlace
    BY ThreadSiteFacts
  <1> QED
    BY <1>1, <1>2, HostFacts DEF CheckPc, DirtyLatch, CompiledLatch

\* The deferred thread is saved at the check's own place.
LEMMA Honours ==
    ASSUME ExceptionAssumption, ThreadsInv, Quirks = {}, NEW s, Honour(s)
    PROVE  ThreadsInv'
  <1> USE DEF ExceptionAssumption
  <1>0. Typed /\ NoLatch /\ Points /\ Outside /\ DeferTarget
    BY DEF ThreadsInv
  <1>1. /\ Level = 0 /\ s \in Sites /\ defer # NoSwitch /\ pcb = defer.from
        /\ ~ s.pump /\ CheckPc(s) # Zero
    BY DEF Honour, Honourable, Stale
  <1>2. ctl = "guest" /\ CheckPc(s) = Here
    BY <1>1, ThreadSiteFacts, CheckPcIsOwn
  <1>3. /\ running = pcb /\ gpr = Here /\ clatch = Zero /\ site = FALSE /\ dlatch = Zero
        /\ at[running] <= MaxStep
        /\ defer.to \in Threads /\ defer.to # running /\ Alive(defer.to)
    BY <1>0, <1>1, <1>2 DEF Outside, Typed, NoLatch, Points, DeferTarget
  <1>4. frames = <<>> /\ frames' = frames
    BY <1>0, <1>1 DEF Typed, Level, Honour, excVars
  <1>5. /\ tcb' = Saved(running, Here) /\ pcb' = defer.to /\ Resume(defer.to, tcb')
        /\ clatch' = Zero /\ defer' = NoSwitch
        /\ UNCHANGED <<dlatch, site, armed, real_epc, ret>>
    BY <1>1, <1>2, <1>3 DEF Honour, excVars
  <1>6. /\ tcb' \in [Threads -> Context]
        /\ \A t \in Threads \ {running} : tcb'[t] = tcb[t]
        /\ tcb'[running].ready = tcb[running].ready
        /\ tcb'[running].pc = Here /\ tcb'[running].gpr = Here
    BY <1>0, <1>3, <1>5, SavedFacts DEF Typed
  <1>7. ~ (at[running] > MaxStep) /\ armed' \in {0, 1, 2} /\ real_epc' \in AnyPlace
    BY <1>0, <1>3, <1>5 DEF Typed
  <1>8. site' = FALSE /\ dlatch' = Zero
    BY <1>3, <1>5
  <1> QED
    BY <1>3, <1>4, <1>5, <1>6, <1>7, <1>8, SwitchTo

LEMMA ChecksOnly ==
    ASSUME ExceptionAssumption, ThreadsInv, Quirks = {}, NEW s, CheckOnly(s)
    PROVE  ThreadsInv'
  <1> USE DEF ExceptionAssumption
  <1>0. /\ Typed /\ NoLatch /\ Points /\ Outside /\ Inside /\ Nested /\ DeferTarget
        /\ Yielder /\ SuspendedIntact
    BY DEF ThreadsInv
  <1>1. /\ UNCHANGED <<pcb, tcb, running, at, gpr, frames, armed, real_epc, reason,
                       rfe_pending, clatch, site, ret>>
        /\ defer' = defer \/ defer' = NoSwitch
        /\ dlatch' = Zero
        /\ ctl' = IF Level = 0 /\ ctl = "boundary" THEN "returned" ELSE ctl
    BY <1>0 DEF CheckOnly, excVars, DeferKept, LatchAfter, NoLatch
  <1>2. Typed'
    BY <1>0, <1>1 DEF Typed
  <1>3. NoLatch' /\ Points' /\ Outside'
    BY <1>0, <1>1 DEF NoLatch, Points, Outside, Level, Here
  <1>4. Inside'
    BY <1>0, <1>1 DEF Inside, First, Level, Here, Alive
  <1>5. Nested' /\ DeferTarget'
    BY <1>0, <1>1 DEF Nested, DeferTarget, Level, Alive
  <1>6. Yielder' /\ SuspendedIntact'
    BY <1>0, <1>1 DEF Yielder, SuspendedIntact, Alive
  <1> QED
    BY <1>2, <1>3, <1>4, <1>5, <1>6 DEF ThreadsInv

\* A delivery saves the context of the running thread and of no other.
LEMMA DeliverSaves ==
    ASSUME ExceptionAssumption, ThreadsInv, NEW s, Deliver(s), pcb = running,
           EpcFor(s) \in AnyPlace
    PROVE  /\ tcb' \in [Threads -> Context]
           /\ tcb'[running].pc = EpcFor(s) /\ tcb'[running].gpr = gpr
           /\ \A t \in Threads : tcb'[t].ready = tcb[t].ready
           /\ \A t \in Threads \ {running} : tcb'[t] = tcb[t]
           /\ DeferTarget' /\ Yielder' /\ SuspendedIntact' /\ Points' /\ NoLatch'
  <1> USE DEF ExceptionAssumption
  <1>0. /\ Typed /\ Points /\ DeferTarget /\ Yielder /\ SuspendedIntact
    BY DEF ThreadsInv
  <1>1. tcb' = Saved(running, EpcFor(s))
    BY DEF Deliver
  <1>2. /\ tcb' \in [Threads -> Context]
        /\ tcb'[running].pc = EpcFor(s) /\ tcb'[running].gpr = gpr
        /\ tcb'[running].ready = tcb[running].ready
        /\ \A t \in Threads \ {running} : tcb'[t] = tcb[t]
    BY <1>0, <1>1, SavedFacts DEF Typed
  <1>3. \A t \in Threads : tcb'[t].ready = tcb[t].ready
    BY <1>2
  <1>4. /\ UNCHANGED <<pcb, running, at, ret, ctl>> /\ dlatch' = Zero
        /\ defer' = defer \/ defer' = NoSwitch
    BY DEF Deliver, HandlerLatch, DeferKept
  <1>5. DeferTarget'
    BY <1>0, <1>3, <1>4 DEF DeferTarget, Alive
  <1>6. Yielder'
    BY <1>0, <1>2, <1>3, <1>4 DEF Yielder, Typed
  <1>7. SuspendedIntact'
    BY <1>0, <1>2, <1>4 DEF SuspendedIntact, Alive
  <1>8. Points' /\ NoLatch'
    BY <1>0, <1>4 DEF Points, NoLatch
  <1> QED
    BY <1>2, <1>3, <1>5, <1>6, <1>7, <1>8

\* A thread is interrupted.
LEMMA DeliversFirst ==
    ASSUME ExceptionAssumption, ThreadsInv, Quirks = {}, NEW s, Deliver(s), Level = 0
    PROVE  ThreadsInv'
  <1> USE DEF ExceptionAssumption
  <1>0. Typed /\ NoLatch /\ Points /\ Outside
    BY DEF ThreadsInv
  <1>1. s \in Sites /\ frames = <<>>
    BY <1>0 DEF Deliver, Typed, Level
  <1>2. /\ ctl \in {"guest", "boundary"} /\ pcb = running /\ gpr = Here
        /\ clatch = Zero /\ site = FALSE /\ dlatch = Zero /\ Now = Here /\ Here \in AnyPlace
    BY <1>0, <1>1, ThreadSiteFacts DEF Outside, NoLatch, Typed, Now
  <1>3. /\ EpcFor(s) \in AnyPlace
        /\ EpcFor(s) = Sentinel \/ EpcFor(s).t = running
        /\ ctl = "boundary" => EpcFor(s) = Sentinel
        /\ s.area = "kernel" => EpcFor(s) = Here
    <2>1. /\ CheckPc(s) = s.pc /\ s.pc \in AnyPlace
          /\ s.pc = Zero \/ (s.pc.t = running /\ ctl = "guest")
          /\ s.area = "kernel" => s.pc = Here
      BY <1>1, ThreadSiteFacts, CheckPcIsOwn
    <2>2. Here # Zero /\ Sentinel \in AnyPlace
      BY <1>0, HostFacts DEF Here, Typed
    <2> QED
      BY <2>1, <2>2 DEF EpcFor
  <1>4. /\ s.pump \in BOOLEAN /\ DirtyLatch(s) \in AnyPlace /\ CompiledLatch(s) \in AnyPlace
        /\ s.area = "kernel" => s.pump = FALSE /\ DirtyLatch(s) = Zero
    BY <1>1, ThreadSiteFacts, CheckPcIsOwn, HostFacts
  <1>5. EpcFor(s) = Sentinel => s.pump = FALSE /\ DirtyLatch(s) = Zero
    <2> SUFFICES ASSUME s.pump PROVE EpcFor(s) # Sentinel
      BY <1>1, <1>4, CheckPcIsOwn
    <2>1. CheckPc(s) = s.pc /\ s.pc # Zero /\ s.pc.t = running /\ s.area = "game"
      BY <1>1, CheckPcIsOwn, ThreadSiteFacts
    <2>2. Sentinel.t = Host /\ running # Host
      BY <1>0, PlaceFacts DEF Sentinel, Typed
    <2> QED
      BY <2>1, <2>2 DEF EpcFor
  <1>6. PICK a \in LatchAfter(s) :
         frames' = Append(frames,
            [entry |-> pcb, saved |-> gpr, point |-> Now, epc |-> EpcFor(s),
             low |-> s.area = "kernel", outer |-> ctl = "boundary",
             dlatch |-> DirtyLatch(s), after |-> a, prev |-> clatch,
             pump |-> s.pump \/ site, prevsite |-> site])
    BY DEF Deliver
  <1>7. a = Zero
    BY <1>2 DEF LatchAfter
  <1> DEFINE p == (s.pump \/ site)
             l == (s.area = "kernel")
             o == (ctl = "boundary")
             f == [entry |-> pcb, saved |-> gpr, point |-> Now, epc |-> EpcFor(s),
             low |-> l, outer |-> o,
             dlatch |-> DirtyLatch(s), after |-> a, prev |-> clatch,
             pump |-> p, prevsite |-> site]
  <1>8. frames' = Append(frames, f)
    BY <1>6
  <1>9. p \in BOOLEAN /\ p = s.pump /\ l \in BOOLEAN /\ o \in BOOLEAN
    BY <1>2, <1>4
  <1>10. /\ frames' \in Seq(Frame) /\ Len(frames') = 1
         /\ frames'[1].entry = running
         /\ frames'[1].saved = Here /\ frames'[1].point = Here
         /\ frames'[1].after = Zero /\ frames'[1].prev = Zero /\ frames'[1].prevsite = FALSE
         /\ frames'[1].outer = o /\ frames'[1].low = l /\ frames'[1].pump = p
         /\ frames'[1].epc = EpcFor(s) /\ frames'[1].dlatch = DirtyLatch(s)
    <2> HIDE DEF p, l, o
    <2>1. /\ f.entry = running /\ f.saved = Here /\ f.point = Here
          /\ f.after = Zero /\ f.prev = Zero /\ f.prevsite = FALSE
          /\ f.outer = o /\ f.low = l /\ f.pump = p
          /\ f.epc = EpcFor(s) /\ f.dlatch = DirtyLatch(s)
      BY <1>2, <1>7
    <2>2. f \in Frame
      BY <1>0, <1>2, <1>3, <1>4, <1>7, <1>9, HostFacts DEF Frame, Typed
    <2> HIDE DEF f
    <2>3. frames' = <<f>>
      BY <1>1, <1>8
    <2> QED
      BY <2>1, <2>2, <2>3
  <1>11. /\ UNCHANGED <<pcb, running, at, ret, ctl>>
         /\ armed' = 1 /\ real_epc' = EpcFor(s)
         /\ reason' = IF EpcFor(s) = Sentinel THEN "LEGACY" ELSE "NONE"
         /\ rfe_pending' = FALSE
         /\ gpr' = Place(Kernel, 1) /\ clatch' = CompiledLatch(s)
         /\ site' = s.pump
    BY <1>2, <1>4 DEF Deliver
  <1>12. /\ tcb' \in [Threads -> Context]
         /\ tcb'[running].pc = EpcFor(s) /\ tcb'[running].gpr = Here
         /\ DeferTarget' /\ Yielder' /\ SuspendedIntact' /\ Points' /\ NoLatch'
    BY <1>2, <1>3, DeliverSaves
  <1>13. Typed'
    <2>1. gpr' \in AnyPlace
      BY <1>11, PlaceFacts
    <2> QED
      BY <1>0, <1>3, <1>4, <1>10, <1>11, <1>12, <2>1 DEF Typed
  <1>14. Here' = Here /\ Level' = 1
    BY <1>10, <1>11 DEF Here, Level
  <1>15. Outside' /\ Nested'
    BY <1>14 DEF Outside, Nested
  <1>16. First'
    <2>1. o <=> ctl' = "boundary"
      BY <1>11
    <2>2. o => EpcFor(s) = Sentinel
      BY <1>3
    <2>3. l => EpcFor(s) = Here /\ p = FALSE /\ DirtyLatch(s) = Zero
      BY <1>3, <1>4, <1>9
    <2>4. EpcFor(s) = Sentinel => p = FALSE /\ DirtyLatch(s) = Zero
      BY <1>5, <1>9
    <2> HIDE DEF p, l, o
    <2> QED
      BY <1>3, <1>9, <1>10, <1>11, <1>14, <2>1, <2>2, <2>3, <2>4 DEF First
  <1>17. Inside'
    BY <1>2, <1>10, <1>11, <1>12, <1>14, <1>16 DEF Inside
  <1> QED
    BY <1>12, <1>13, <1>15, <1>17 DEF ThreadsInv

\* The handler is interrupted: only at the outer level, and only as long as it
\* has not moved PCB[0].
LEMMA DeliversNested ==
    ASSUME ExceptionAssumption, ThreadsInv, Quirks = {}, NEW s, Deliver(s), Level # 0
    PROVE  ThreadsInv'
  <1> USE DEF ExceptionAssumption
  <1>0. Typed /\ NoLatch /\ Inside
    BY DEF ThreadsInv
  <1>1. /\ Level = 1 /\ ~ rfe_pending /\ reason = "NONE" /\ pcb = frames[1].entry
    BY <1>0 DEF Deliver, NestGate, Typed, Level
  <1>2. /\ First /\ pcb = running /\ gpr = Place(Kernel, 1) /\ frames[1].epc # Sentinel
        /\ Now = Place(Kernel, 1) /\ dlatch = Zero /\ ctl \in {"guest", "boundary"}
    BY <1>0, <1>1 DEF Inside, First, Now, NoLatch
  <1>3. Place(Kernel, 1) \in AnyPlace /\ Place(Kernel, 1) # Zero /\ Place(Kernel, 1) # Sentinel
    BY PlaceFacts, HostFacts
  <1>4. s \in {Leader("kernel"), Pump("game", FALSE)}
    BY <1>1 DEF Deliver, Sites, HandlerSites
  <1>5. [Now EXCEPT !.k = IF FALSE THEN @ + 1 ELSE @] = Place(Kernel, 1)
    BY <1>2 DEF Place
  <1>6. s.pc = Place(Kernel, 1) /\ s.pump \in BOOLEAN /\ s.area # "rom"
    <2>1. CASE s = Leader("kernel")
      BY <1>2, <2>1 DEF Leader
    <2>2. CASE s = Pump("game", FALSE)
      BY <1>5, <2>2 DEF Pump
    <2> QED
      BY <1>4, <2>1, <2>2
  <1>7. /\ DirtyLatch(s) \in AnyPlace /\ CompiledLatch(s) \in AnyPlace
        /\ EpcFor(s) = Place(Kernel, 1)
    BY <1>0, <1>2, <1>3, <1>6, HostFacts DEF DirtyLatch, CompiledLatch, CheckPc, EpcFor, Typed
  <1>8. PICK a \in LatchAfter(s) :
         frames' = Append(frames,
            [entry |-> pcb, saved |-> gpr, point |-> Now, epc |-> EpcFor(s),
             low |-> s.area = "kernel", outer |-> ctl = "boundary",
             dlatch |-> DirtyLatch(s), after |-> a, prev |-> clatch,
             pump |-> s.pump \/ site, prevsite |-> site])
    BY DEF Deliver
  <1>9. a = Zero
    BY <1>2 DEF LatchAfter
  <1> DEFINE p == (s.pump \/ site)
             f == [entry |-> pcb, saved |-> gpr, point |-> Now, epc |-> EpcFor(s),
             low |-> s.area = "kernel", outer |-> ctl = "boundary",
             dlatch |-> DirtyLatch(s), after |-> a, prev |-> clatch,
             pump |-> p, prevsite |-> site]
  <1>10. p \in BOOLEAN
    OBVIOUS
  <1>11. f \in Frame
    <2> HIDE DEF p
    <2> QED
      BY <1>0, <1>2, <1>3, <1>7, <1>9, <1>10, HostFacts DEF Frame, Typed
  <1>12. frames' = Append(frames, f)
    BY <1>8
  <1>13. f.saved = Place(Kernel, 1) /\ f.point = Place(Kernel, 1) /\ f.epc = Place(Kernel, 1)
         /\ f.after = Zero
    BY <1>2, <1>7, <1>9
  <1> HIDE DEF f, p
  <1>14. /\ frames' \in Seq(Frame) /\ Len(frames') = 2
         /\ frames'[1] = frames[1] /\ frames'[2] = f
    <2>1. frames \in Seq(Frame) /\ Len(frames) = 1
      BY <1>0, <1>1 DEF Typed, Level
    <2>2. \A x \in Frame :
             /\ Append(frames, x) \in Seq(Frame) /\ Len(Append(frames, x)) = 2
             /\ Append(frames, x)[1] = frames[1] /\ Append(frames, x)[2] = x
      BY <2>1, SecondOfTwo
    <2> QED
      BY <2>2, <1>11, <1>12
  <1>15. /\ UNCHANGED <<pcb, running, at, ret, ctl>>
         /\ armed' = 2 /\ real_epc' = Place(Kernel, 1)
         /\ reason' = "NONE" /\ rfe_pending' = FALSE
         /\ gpr' = Place(Kernel, 2) /\ clatch' = CompiledLatch(s)
         /\ site' \in BOOLEAN
    BY <1>1, <1>3, <1>7 DEF Deliver
  <1>16. /\ tcb' \in [Threads -> Context]
         /\ tcb'[running].pc = Place(Kernel, 1)
         /\ DeferTarget' /\ Yielder' /\ SuspendedIntact' /\ Points' /\ NoLatch'
    BY <1>2, <1>3, <1>7, DeliverSaves
  <1>17. Typed'
    <2>1. gpr' \in AnyPlace
      BY <1>15, PlaceFacts
    <2> QED
      BY <1>0, <1>3, <1>7, <1>14, <1>15, <1>16, <2>1 DEF Typed
  <1>18. Here' = Here /\ Level' = 2
    BY <1>14, <1>15 DEF Here, Level
  <1>19. First'
    BY <1>2, <1>14, <1>15, <1>18 DEF First
  <1>20. Outside' /\ Inside'
    BY <1>2, <1>14, <1>15, <1>18, <1>19 DEF Outside, Inside
  <1>21. Nested'
    BY <1>2, <1>13, <1>14, <1>15, <1>16, <1>18 DEF Nested
  <1> QED
    BY <1>16, <1>17, <1>20, <1>21 DEF ThreadsInv

----------------------------------------------------------------------------
(* The handler and its exits. *)

\* A step that changes, of what the invariant speaks of, at most the current
\* thread, the registers and the escape flags.
LEMMA HandlerStep ==
    ASSUME ExceptionAssumption, ThreadsInv, Level > 0,
           UNCHANGED <<tcb, running, at, frames, armed, real_epc, latches, defer, ret, ctl>>,
           pcb' \in Threads, gpr' \in AnyPlace,
           pcb' # running => Alive(pcb') /\ (ctl = "guest" => frames[1].epc # Sentinel),
           Level = 2 => pcb' = pcb,
           (reason' = "LEGACY") <=> (reason = "LEGACY"),
           reason' = "NONE" /\ ~ rfe_pending' => gpr' = Place(Kernel, Level)
    PROVE  ThreadsInv'
  <1>0. /\ Typed /\ NoLatch /\ Points /\ Outside /\ Inside /\ Nested /\ DeferTarget
        /\ Yielder /\ SuspendedIntact
    BY DEF ThreadsInv
  <1>1. UNCHANGED <<tcb, running, at, frames, armed, real_epc, dlatch, clatch, site,
                    defer, ret, ctl>>
    BY DEF latches
  <1>2. Typed' /\ NoLatch' /\ Points'
    BY <1>0, <1>1 DEF Typed, NoLatch, Points
  <1>3. Level' = Level /\ Here' = Here /\ (First <=> First')
    BY <1>1 DEF Level, Here, First
  <1>4. Outside'
    BY <1>3 DEF Outside
  <1>5. Inside'
    BY <1>0, <1>1, <1>3 DEF Inside, Alive
  <1>6. Nested'
    BY <1>0, <1>1, <1>3 DEF Nested
  <1>7. DeferTarget' /\ Yielder' /\ SuspendedIntact'
    BY <1>0, <1>1 DEF DeferTarget, Yielder, SuspendedIntact, Alive
  <1> QED
    BY <1>2, <1>4, <1>5, <1>6, <1>7 DEF ThreadsInv

LEMMA HandlerSwitches ==
    ASSUME ExceptionAssumption, ThreadsInv, Quirks = {}, NEW u \in Threads, HandlerSwitch(u)
    PROVE  ThreadsInv'
  <1>0. Typed /\ Inside
    BY DEF ThreadsInv
  <1>1. /\ Level = 1 /\ pcb' = u /\ Alive(u)
        /\ ~ (reason = "LEGACY" /\ ctl = "guest")
        /\ UNCHANGED <<tcb, running, at, gpr, frames, armed, real_epc, reason, rfe_pending,
                       latches, defer, ret, ctl>>
    BY DEF HandlerSwitch, excVars
  <1>2. /\ ctl = "guest" => frames[1].epc # Sentinel
        /\ reason = "NONE" /\ ~ rfe_pending => gpr = Place(Kernel, Level)
    BY <1>0, <1>1 DEF Inside
  <1>3. gpr \in AnyPlace
    BY <1>0 DEF Typed
  <1> QED
    BY <1>1, <1>2, <1>3, HandlerStep

LEMMA Marks ==
    ASSUME ExceptionAssumption, ThreadsInv, psx_rfe_mark_escape
    PROVE  ThreadsInv'
  <1>0. Typed /\ Inside /\ Nested
    BY DEF ThreadsInv
  <1>1. /\ Level > 0 /\ reason # "LEGACY" /\ reason' = "RFE"
        /\ gpr' \in {tcb[pcb].gpr, gpr}
        /\ UNCHANGED <<pcb, tcb, running, at, frames, armed, real_epc, latches, defer, ret, ctl>>
    BY DEF psx_rfe_mark_escape, InHandler
  <1>2. gpr' \in AnyPlace /\ pcb' \in Threads
    BY <1>0, <1>1 DEF Typed, Context
  <1>3. pcb # running => Alive(pcb) /\ (ctl = "guest" => frames[1].epc # Sentinel)
    BY <1>0, <1>1 DEF Inside
  <1> QED
    BY <1>1, <1>2, <1>3, HandlerStep

\* A jump into an activation that has returned is recorded and changes nothing else.
LEMMA GoesWild ==
    ASSUME ExceptionAssumption, ThreadsInv, Level > 0,
           UNCHANGED <<pcb, tcb, running, at, gpr, excVars, latches, defer, ret, ctl>>
    PROVE  ThreadsInv'
  <1>0. Typed /\ Inside
    BY DEF ThreadsInv
  <1>1. UNCHANGED <<pcb, tcb, running, at, gpr, frames, armed, real_epc, reason, rfe_pending,
                    latches, defer, ret, ctl>>
    BY DEF excVars
  <1>2. /\ pcb # running => Alive(pcb) /\ (ctl = "guest" => frames[1].epc # Sentinel)
        /\ reason = "NONE" /\ ~ rfe_pending => gpr = Place(Kernel, Level)
    BY <1>0 DEF Inside
  <1>3. gpr \in AnyPlace /\ pcb \in Threads
    BY <1>0 DEF Typed
  <1> QED
    BY <1>1, <1>2, <1>3, HandlerStep

\* What holds at a landing: the activation is the one armed last, and the handler
\* returns to the EPC that was installed for it, unless it has none.
Landing(pc, why) ==
    /\ Level > 0 /\ armed = Level
    /\ pc = tcb[pcb].pc \/ (why = "LEGACY" /\ tcb[pcb].pc = Sentinel)

\* The nested handler returns into the outer one.
LEMMA ReturnsToHandler ==
    ASSUME ExceptionAssumption, ThreadsInv, NEW pc, NEW regs, NEW why, Landing(pc, why),
           ReturnToInterrupted(pc, regs, why), Level = 2
    PROVE  ThreadsInv'
  <1> USE DEF ExceptionAssumption
  <1>0. /\ Typed /\ NoLatch /\ Points /\ Inside /\ Nested /\ DeferTarget
        /\ Yielder /\ SuspendedIntact
    BY DEF ThreadsInv
  <1>1. /\ frames[2].saved = Place(Kernel, 1) /\ frames[2].after = Zero
        /\ real_epc = Place(Kernel, 1) /\ tcb[pcb].pc = Place(Kernel, 1)
        /\ pcb = running /\ frames[1].epc # Sentinel /\ First /\ armed = 2
        /\ ctl \in {"guest", "boundary"}
    BY <1>0 DEF Nested, Inside
  <1>2. Place(Kernel, 1) # Sentinel /\ Place(Kernel, 1) \in AnyPlace
    BY HostFacts, PlaceFacts
  <1>3. DoRestore(pc, why)
    BY <1>1, <1>2 DEF Landing, DoRestore, same_guest_pc
  <1>4. /\ frames' = SubSeq(frames, 1, 1) /\ gpr' = Place(Kernel, 1) /\ reason' = "NONE"
        /\ rfe_pending' = FALSE /\ dlatch' = Zero
        /\ clatch' = frames[2].prev /\ site' = frames[2].prevsite /\ ctl' = ctl
        /\ UNCHANGED <<pcb, tcb, running, at, armed, real_epc, defer, ret>>
    <2>1. Level - 1 = 1 /\ Top = frames[2] /\ Level # 1
      BY DEF Top
    <2> QED
      BY <1>1, <1>3, <2>1 DEF ReturnToInterrupted, PopFrame, CallersRestore
  <1>5. /\ frames' \in Seq(Frame) /\ Len(frames') = 1 /\ frames'[1] = frames[1]
        /\ frames[2] \in Frame
    <2>1. frames \in Seq(Frame) /\ Len(frames) = 2
      BY <1>0 DEF Typed, Level
    <2> QED
      BY <1>4, <2>1
  <1>6. clatch' \in AnyPlace /\ site' \in BOOLEAN
    BY <1>4, <1>5 DEF Frame
  <1>7. Typed' /\ NoLatch' /\ Points'
    BY <1>0, <1>2, <1>4, <1>5, <1>6 DEF Typed, NoLatch, Points
  <1>8. Level' = 1 /\ Here' = Here
    BY <1>4, <1>5 DEF Level, Here
  <1>9. First'
    BY <1>1, <1>4, <1>5, <1>8 DEF First
  <1>10. Outside' /\ Inside' /\ Nested'
    BY <1>1, <1>4, <1>5, <1>8, <1>9 DEF Outside, Inside, Nested
  <1>11. DeferTarget' /\ Yielder' /\ SuspendedIntact'
    BY <1>0, <1>4 DEF DeferTarget, Yielder, SuspendedIntact, Alive
  <1> QED
    BY <1>7, <1>10, <1>11 DEF ThreadsInv

\* A landing in the outer activation: nothing was delivered in between.
LEMMA OuterLanding ==
    ASSUME ExceptionAssumption, ThreadsInv, Level = 1, armed = 1
    PROVE  /\ Top = frames[1] /\ First /\ ctl \in {"guest", "boundary"}
           /\ pcb # running => Alive(pcb) /\ (ctl = "guest" => frames[1].epc # Sentinel)
           /\ real_epc = frames[1].epc
           /\ tcb[running].pc = frames[1].epc /\ tcb[running].gpr = Here
           /\ SubSeq(frames, 1, Level - 1) = <<>>
           /\ Switched <=> pcb # running
           /\ Here \in AnyPlace
  <1> USE DEF ExceptionAssumption
  <1>0. Typed /\ Inside
    BY DEF ThreadsInv
  <1>1. Top = frames[1]
    BY DEF Top
  <1>2. /\ First /\ ctl \in {"guest", "boundary"}
        /\ pcb # running => Alive(pcb) /\ (ctl = "guest" => frames[1].epc # Sentinel)
        /\ real_epc = frames[1].epc
        /\ tcb[running].pc = frames[1].epc /\ tcb[running].gpr = Here
    BY <1>0 DEF Inside
  <1>3. SubSeq(frames, 1, Level - 1) = <<>>
    <2>1. frames \in Seq(Frame) /\ Level - 1 = 0
      BY <1>0 DEF Typed
    <2> QED
      BY <2>1
  <1>4. Switched <=> pcb # running
    BY <1>1, <1>2 DEF Switched, First, Alive
  <1>5. Here \in AnyPlace
    BY <1>0, PlaceFacts DEF Here, Typed
  <1> QED
    BY <1>1, <1>2, <1>3, <1>4, <1>5

\* The running thread goes on in its own place, itself the current thread.
LEMMA GoesOn ==
    ASSUME ExceptionAssumption, ThreadsInv, Level = 1, armed = 1,
           PopFrame, CallersRestore, gpr' = Here, pcb' = running,
           UNCHANGED <<tcb, running, at, ret>>, DeferTarget',
           ctl' = IF ctl = "boundary" THEN "returned" ELSE ctl
    PROVE  ThreadsInv'
  <1> USE DEF ExceptionAssumption
  <1>0. Typed /\ Points /\ Yielder /\ SuspendedIntact
    BY DEF ThreadsInv
  <1>1. /\ Top = frames[1] /\ First /\ SubSeq(frames, 1, Level - 1) = <<>>
        /\ Here \in AnyPlace /\ ctl \in {"guest", "boundary"}
    BY OuterLanding
  <1>2. /\ frames' = <<>> /\ dlatch' = Zero /\ clatch' = Zero /\ site' = FALSE
        /\ UNCHANGED <<armed, real_epc>>
    BY <1>1 DEF PopFrame, CallersRestore, First
  <1>3. frames' \in Seq(Frame) /\ Len(frames') = 0
    BY <1>2
  <1>4. Typed' /\ NoLatch'
    BY <1>0, <1>1, <1>2, <1>3, HostFacts DEF Typed, NoLatch
  <1>5. Points'
    BY <1>0 DEF Points
  <1>6. Outside' /\ Inside' /\ Nested'
    BY <1>1, <1>2, <1>3 DEF Outside, Inside, Nested, Level, Here
  <1>7. Yielder' /\ SuspendedIntact'
    BY <1>0, <1>1 DEF Yielder, SuspendedIntact, Alive
  <1> QED
    BY <1>4, <1>5, <1>6, <1>7 DEF ThreadsInv

\* The EPC installed is the one that comes back, so the saved registers do.
LEMMA ReturnsToThread ==
    ASSUME ExceptionAssumption, ThreadsInv, NEW pc, NEW regs, NEW why, Landing(pc, why),
           ReturnToInterrupted(pc, regs, why), Level = 1
    PROVE  ThreadsInv'
  <1> USE DEF ExceptionAssumption
  <1>0. DeferTarget
    BY DEF ThreadsInv
  <1>1. armed = 1
    BY DEF Landing
  <1>2. /\ Top = frames[1] /\ First /\ pcb = running /\ real_epc = tcb[running].pc
    BY <1>1, OuterLanding DEF ReturnToInterrupted
  <1>3. DoRestore(pc, why)
    BY <1>2 DEF Landing, DoRestore, same_guest_pc
  <1>4. /\ gpr' = Here /\ pcb' = running /\ PopFrame /\ CallersRestore
        /\ UNCHANGED <<tcb, running, at, ret, defer>>
        /\ ctl' = IF ctl = "boundary" THEN "returned" ELSE ctl
    BY <1>2, <1>3 DEF ReturnToInterrupted, First
  <1>5. DeferTarget'
    BY <1>0, <1>4 DEF DeferTarget, Alive
  <1> QED
    BY <1>1, <1>4, <1>5, GoesOn

LEMMA Defers ==
    ASSUME ExceptionAssumption, ThreadsInv, Level > 0, armed = Level, DeferSwitch
    PROVE  ThreadsInv'
  <1> USE DEF ExceptionAssumption
  <1>0. Typed
    BY DEF ThreadsInv
  <1>1. Level = 1 /\ armed = 1
    BY DEF DeferSwitch, Switched
  <1>2. /\ Top = frames[1] /\ First /\ pcb # running /\ Alive(pcb)
        /\ ctl \in {"guest", "boundary"}
    BY <1>1, OuterLanding DEF DeferSwitch
  <1>3. ctl = "guest"
    BY <1>2 DEF DeferSwitch, CanDefer, First
  <1>4. /\ gpr' = Here /\ pcb' = running /\ PopFrame /\ CallersRestore
        /\ UNCHANGED <<tcb, running, at, ret, ctl>>
        /\ defer' = [from |-> running, to |-> pcb]
    BY <1>2 DEF DeferSwitch, First
  <1>5. DeferTarget'
    <2>1. defer'.from = running /\ defer'.to = pcb
      BY <1>4
    <2>2. Alive(defer.to)'
      BY <1>2, <1>4, <2>1 DEF Alive
    <2> QED
      BY <1>0, <1>2, <2>1, <2>2 DEF DeferTarget, Typed
  <1> QED
    BY <1>1, <1>3, <1>4, <1>5, GoesOn

\* A switch taken at once: the context the BIOS saved is consistent, since the
\* interrupt came in the low kernel, or the thread had ended.
LEMMA SwitchesNow ==
    ASSUME ExceptionAssumption, ThreadsInv, Level > 0, armed = Level, SwitchNow
    PROVE  ThreadsInv'
  <1> USE DEF ExceptionAssumption
  <1>0. Typed /\ Points
    BY DEF ThreadsInv
  <1>1. Level = 1 /\ armed = 1
    BY DEF SwitchNow, Switched
  <1>2. /\ Top = frames[1] /\ First /\ pcb # running /\ Alive(pcb)
        /\ ctl \in {"guest", "boundary"}
        /\ ctl = "guest" => frames[1].epc # Sentinel
        /\ real_epc = frames[1].epc
        /\ tcb[running].pc = frames[1].epc /\ tcb[running].gpr = Here
        /\ SubSeq(frames, 1, Level - 1) = <<>>
    BY <1>1, OuterLanding DEF SwitchNow
  <1>3. frames[1].low \/ frames[1].outer \/ frames[1].epc = Sentinel
    BY <1>2 DEF SwitchNow, CanDefer
  <1>4. frames[1].dlatch = Zero /\ frames[1].pump = FALSE
    BY <1>2, <1>3 DEF First
  <1>5. /\ frames' = <<>> /\ dlatch' = Zero /\ clatch' = Zero /\ site' = FALSE
        /\ pcb' = pcb /\ Resume(pcb, tcb) /\ UNCHANGED <<tcb, armed, real_epc, defer, ret>>
    BY <1>2, <1>4 DEF SwitchNow, PopFrame
  <1>6. Alive(running) => tcb[running].pc = Here
    <2>1. CASE ctl = "guest"
      BY <1>2, <1>3, <2>1 DEF First
    <2>2. CASE ctl = "boundary"
      BY <1>0, <2>2 DEF Points, Alive, Typed
    <2> QED
      BY <1>2, <2>1, <2>2
  <1>7. at[running] > MaxStep => tcb[running].pc = Sentinel
    <2>1. CASE ctl = "guest"
      BY <1>0, <2>1 DEF Points, Typed
    <2>2. CASE ctl = "boundary"
      BY <1>2, <2>2 DEF First
    <2> QED
      BY <1>2, <2>1, <2>2
  <1>8. /\ tcb' \in [Threads -> Context] /\ armed' \in {0, 1, 2} /\ real_epc' \in AnyPlace
        /\ pcb \in Threads
        /\ \A t \in Threads \ {running} : tcb'[t] = tcb[t]
    BY <1>0, <1>5 DEF Typed
  <1>9. /\ tcb'[running].ready = tcb[running].ready
        /\ Alive(running) => tcb'[running].pc = Here /\ tcb'[running].gpr = Here
        /\ at[running] > MaxStep => tcb'[running].pc = Sentinel
        /\ pcb' = pcb /\ Resume(pcb, tcb')
    BY <1>2, <1>5, <1>6, <1>7
  <1> QED
    BY <1>2, <1>5, <1>8, <1>9, SwitchTo

LEMMA Lands ==
    ASSUME ExceptionAssumption, ThreadsInv, NEW pc, NEW regs, NEW why, Level > 0,
           pc = tcb[pcb].pc \/ (why = "LEGACY" /\ tcb[pcb].pc = Sentinel),
           Land(pc, regs, why)
    PROVE  ThreadsInv'
  <1>1. CASE armed = Level
    <2>1. Level = 1 \/ Level = 2
      BY DEF ThreadsInv, Typed, Level
    <2>2. Landing(pc, why)
      BY <1>1 DEF Landing
    <2>3. CASE ReturnToInterrupted(pc, regs, why)
      BY <2>1, <2>2, <2>3, ReturnsToHandler, ReturnsToThread
    <2>4. CASE SwitchNow
      BY <1>1, <2>4, SwitchesNow
    <2>5. CASE DeferSwitch
      BY <1>1, <2>5, Defers
    <2> QED
      BY <1>1, <2>3, <2>4, <2>5 DEF Land
  <1>2. CASE armed # Level
    BY <1>2, GoesWild DEF Land
  <1> QED
    BY <1>1, <1>2

----------------------------------------------------------------------------
(* The theorems. *)

LEMMA ThreadsStep ==
    ASSUME ExceptionAssumption, Quirks = {}, ThreadsInv, [Next]_vars
    PROVE  ThreadsInv'
  <1>1. CASE Advance
    BY <1>1, Advances
  <1>2. ASSUME NEW u \in Threads, psx_request_thread_switch(u)
        PROVE  ThreadsInv'
    BY <1>2, Changes
  <1>3. ASSUME NEW u \in Threads, CloseThread(u)
        PROVE  ThreadsInv'
    BY <1>3, Closes
  <1>4. ASSUME NEW u \in Threads, HandlerSwitch(u)
        PROVE  ThreadsInv'
    BY <1>4, HandlerSwitches
  <1>5. CASE ThreadEnds
    BY <1>5, Ends
  <1>6. CASE ScheduleNext
    BY <1>6, HandsBack
  <1>7. CASE Check
    <2>1. PICK s \in Sites : Honour(s) \/ CheckOnly(s) \/ Deliver(s)
      BY <1>7 DEF Check
    <2>2. CASE Deliver(s)
      BY <2>2, DeliversFirst, DeliversNested
    <2> QED
      BY <2>1, <2>2, Honours, ChecksOnly
  <1>8. CASE psx_syscall_return
    BY <1>8, Lands DEF psx_syscall_return, InHandler
  <1>9. CASE psx_rfe_mark_escape
    BY <1>9, Marks
  <1>10. CASE psx_rfe_escape_check
    BY <1>10, Lands DEF psx_rfe_escape_check, InHandler
  <1>11. CASE LegacyReturn
    BY <1>11, Lands DEF LegacyReturn, InHandler
  <1>12. CASE psx_restore_state_escape
    BY <1>12, GoesWild DEF psx_restore_state_escape, InHandler
  <1>13. CASE UNCHANGED vars
    <2>1. UNCHANGED <<pcb, tcb, running, at, gpr, frames, armed, real_epc, reason,
                      rfe_pending, dlatch, clatch, site, defer, ret, ctl>>
      BY <1>13 DEF vars, excVars, latches
    <2>2. Typed' /\ NoLatch' /\ Points' /\ Outside' /\ Nested'
      BY <2>1 DEF ThreadsInv, Typed, NoLatch, Points, Outside, Nested, Level, Here
    <2>3. Inside'
      BY <2>1 DEF ThreadsInv, Inside, First, Level, Here, Alive
    <2>4. DeferTarget' /\ Yielder' /\ SuspendedIntact'
      BY <2>1 DEF ThreadsInv, DeferTarget, Yielder, SuspendedIntact, Alive
    <2> QED
      BY <2>2, <2>3, <2>4 DEF ThreadsInv
  <1> QED
    BY <1>1, <1>2, <1>3, <1>4, <1>5, <1>6, <1>7, <1>8, <1>9, <1>10, <1>11, <1>12, <1>13
    DEF Next, HandlerExit

LEMMA ThreadsAlways ==
    ASSUME Quirks = {}
    PROVE  Spec => []ThreadsInv
  <1>1. Init => ThreadsInv
    BY ExceptionAssumption, Started
  <1>2. ThreadsInv /\ [Next]_vars => ThreadsInv'
    BY ExceptionAssumption, ThreadsStep
  <1> QED
    BY <1>1, <1>2, PTL DEF Spec

\* For any number of threads and points: whatever way a thread loses the processor
\* (ChangeThread, a deferred switch, one taken at once, its end), its saved program
\* counter and registers are those it stopped with.
THEOREM SuspendedThreadsIntact ==
    ASSUME Quirks = {}
    PROVE  Spec => []SuspendedIntact
  <1>1. ThreadsInv => SuspendedIntact
    BY DEF ThreadsInv
  <1> QED
    BY <1>1, ThreadsAlways, PTL

\* For any number of threads and points: outside the handler psx_check_interrupts
\* and the scheduler leave the current thread running with its own registers.
THEOREM RunningThreadIntact ==
    ASSUME Quirks = {}
    PROVE  Spec => []ContextIntact
  <1>1. ThreadsInv => ContextIntact
    BY DEF ThreadsInv, Outside, ContextIntact
  <1> QED
    BY <1>1, ThreadsAlways, PTL

\* For any number of threads and points: the resume PC and the registers that
\* psx_check_interrupts saves belong to the code it interrupted.
THEOREM DeliveriesArePrecise ==
    ASSUME Quirks = {}
    PROVE  Spec => []DeliveryIsPrecise
  <1>1. ThreadsInv => DeliveryIsPrecise
    <2> SUFFICES ASSUME ThreadsInv, NEW i \in 1..Level
                 PROVE  /\ frames[i].saved = frames[i].point
                        /\ frames[i].epc = Sentinel \/ frames[i].epc.t = frames[i].point.t
      BY DEF DeliveryIsPrecise
    <2>0. Typed /\ Inside /\ Nested
      BY DEF ThreadsInv
    <2>1. Level \in {0, 1, 2}
      BY <2>0 DEF Typed, Level
    <2>2. CASE i = 1
      <3>1. First
        BY <2>0, <2>1 DEF Inside
      <3>2. Here.t = running
        BY PlaceFacts DEF Here
      <3> QED
        BY <2>2, <3>1, <3>2 DEF First
    <2>3. CASE i = 2
      BY <2>0, <2>1, <2>3 DEF Nested
    <2> QED
      BY <2>1, <2>2, <2>3
  <1> QED
    BY <1>1, ThreadsAlways, PTL
=============================================================================
