----------------------------- MODULE SaveState -----------------------------
(***************************************************************************)
(* User save states (savestate.c over boot_state.c).  A key press or a     *)
(* debug command stages a request; the next interrupt check outside an     *)
(* exception serves it: a save first, then a load.  A save writes the      *)
(* machine section by section over the slot's file; a load checks the key  *)
(* in the header and applies the sections to the live machine as it reads  *)
(* them.  Writing may fail at any section, the process may be killed at    *)
(* any step, and the program may be updated between two launches.          *)
(*                                                                         *)
(* What a section holds is abstracted to the build and the moment of the   *)
(* guest that produced it.                                                 *)
(***************************************************************************)
EXTENDS Naturals, Sequences

CONSTANTS
    Order,      \* the sections, in the order boot_state_save writes them
    Slots,      \* slots the guard of savestate_request_* accepts
    Keys,       \* slots the callers may ask for
    Builds,     \* integrity keys of the builds that run over time
    None,
    MaxMoment   \* bound: moments of the guest

ASSUME SaveStateAssumption ==
    /\ Order \in Seq(STRING) /\ Len(Order) > 0 /\ Order[1] = "CPU"
    /\ Slots \subseteq Keys /\ None \notin Keys
    /\ MaxMoment \in Nat /\ Builds # {} /\ None \notin Builds

Sections == {Order[i] : i \in 1..Len(Order)}

VARIABLES
    build,      \* the running build
    mach,       \* the machine: what each section holds
    pc,         \* moment the program counter belongs to; 0 is entry_pc
    moment,     \* moments the guest has lived through
    inExc,      \* in_exception
    s_save_pending, s_load_pending,
    phase,      \* where the poll is
    at,         \* the slot, and the sections handled so far
    file,       \* the slot files
    img, owed, before  \* ghosts

vars == <<build, mach, pc, moment, inExc, s_save_pending, s_load_pending, phase, at,
          file, img, owed, before>>

Content == [build : Builds, moment : 0..MaxMoment]
Machine == [Sections -> Content]

Absent == [there |-> FALSE, key |-> None, pc |-> 0, secs |-> <<>>]

\* A save file: the header's key (none until it is written), the program counter
\* of the CPU section, and the sections that are complete.
File == [there : BOOLEAN, key : Builds \cup {None}, pc : 0..MaxMoment,
         secs : Seq(Content)]

Phases == {"guest", "saving", "polled", "loading", "resume"}

TypeOK ==
    /\ build \in Builds /\ mach \in Machine /\ pc \in 0..MaxMoment
    /\ moment \in 0..MaxMoment /\ inExc \in BOOLEAN
    /\ s_save_pending \in Slots \cup {None} /\ s_load_pending \in Slots \cup {None}
    /\ phase \in Phases /\ file \in [Slots -> File]
    /\ img \in [Slots -> [mach : Machine, pc : 0..MaxMoment]]
    /\ at \in [slot : Slots \cup {None}, done : 0..Len(Order), seen : SUBSET Sections]

\* A machine as the BIOS has left it.
Fresh(b) == [s \in Sections |-> [build |-> b, moment |-> 0]]

Idle == [slot |-> None, done |-> 0, seen |-> {}]

\* Ghost: the save a poll found staged and could open, and the machine it found.
NoPoll == [slot |-> None, mach |-> Fresh(CHOOSE b \in Builds : TRUE)]

NoImage == [mach |-> Fresh(CHOOSE b \in Builds : TRUE), pc |-> 0]

Init ==
    /\ build \in Builds /\ mach = Fresh(build) /\ pc = 0 /\ moment = 0
    /\ inExc = FALSE /\ s_save_pending = None /\ s_load_pending = None
    /\ phase = "guest" /\ at = Idle /\ file = [s \in Slots |-> Absent]
    /\ img = [s \in Slots |-> NoImage] /\ owed = FALSE /\ before = NoPoll

machine == <<build, mach, pc, moment, inExc>>
pending == <<s_save_pending, s_load_pending>>

----------------------------------------------------------------------------
(* The guest, and the requests. *)

\* The guest runs: the registers change, some other sections, and the program
\* counter.
Run(S) ==
    /\ phase = "guest" /\ moment < MaxMoment
    /\ moment' = moment + 1 /\ pc' = moment + 1
    /\ mach' = [s \in Sections |->
                   IF s \in S \cup {"CPU"} THEN [build |-> build, moment |-> moment + 1]
                   ELSE mach[s]]
    /\ UNCHANGED <<build, inExc, pending, phase, at, file, img, owed, before>>

\* Mutant: nothing is due unless both are.
PollDueBoth == s_save_pending # None /\ s_load_pending # None

\* The hot path's test.
PollDue == s_save_pending # None \/ s_load_pending # None

\* The guest enters or leaves its exception handler, where the poll is skipped.
\* An interrupt check polls before it delivers an exception.
EnterException ==
    /\ phase = "guest" /\ ~ inExc /\ ~ PollDue /\ inExc' = TRUE
    /\ UNCHANGED <<build, mach, pc, moment, pending, phase, at, file, img, owed, before>>

LeaveException ==
    /\ phase = "guest" /\ inExc /\ inExc' = FALSE
    /\ UNCHANGED <<build, mach, pc, moment, pending, phase, at, file, img, owed, before>>

InRange(k) == k \in Slots

\* savestate_request_save: the last request wins.
RequestSave(k) ==
    /\ phase = "guest" /\ InRange(k)
    /\ s_save_pending' = k
    /\ UNCHANGED <<machine, s_load_pending, phase, at, file, img, owed, before>>

\* savestate_request_load, under the default scheduler (the other one refuses).
RequestLoad(k) ==
    /\ phase = "guest" /\ InRange(k)
    /\ s_load_pending' = k /\ owed' = TRUE
    /\ UNCHANGED <<machine, s_save_pending, phase, at, file, img, before>>

----------------------------------------------------------------------------
(* savestate_poll: the save. *)

\* psx_check_interrupts makes the call outside an exception.
Polling == phase = "guest" /\ ~ inExc /\ PollDue

\* Mutant: a staged load goes first.
SaveDueLast == s_save_pending # None /\ s_load_pending = None

\* The save is served before the load.
SaveDue == s_save_pending # None

\* The slot's file is opened for writing, which empties it, or cannot be opened.
SaveOpen(opened) ==
    /\ Polling /\ SaveDue
    /\ s_save_pending' = None
    /\ before' = [slot |-> IF opened THEN s_save_pending ELSE None, mach |-> mach]
    /\ IF opened
       THEN /\ phase' = "saving"
            /\ at' = [Idle EXCEPT !.slot = s_save_pending]
            /\ file' = [file EXCEPT ![s_save_pending] = [Absent EXCEPT !.there = TRUE]]
            /\ img' = [img EXCEPT ![s_save_pending] = [mach |-> mach, pc |-> pc]]
       ELSE phase' = "polled" /\ UNCHANGED <<at, file, img>>
    /\ UNCHANGED <<machine, s_load_pending, owed>>

\* The header: from here on the file carries the build's key.
WriteHeader ==
    /\ phase = "saving" /\ file[at.slot].key = None
    /\ file' = [file EXCEPT ![at.slot].key = build]
    /\ UNCHANGED <<machine, pending, phase, at, img, owed, before>>

\* The next section.
WriteSection ==
    /\ phase = "saving" /\ file[at.slot].key # None /\ at.done < Len(Order)
    /\ LET s == Order[at.done + 1]
       IN file' = [file EXCEPT ![at.slot].secs = Append(@, mach[s]),
                               ![at.slot].pc = IF s = "CPU" THEN pc ELSE @]
    /\ at' = [at EXCEPT !.done = @ + 1]
    /\ UNCHANGED <<machine, pending, phase, img, owed, before>>

\* A write or an allocation fails: the file is removed.
SaveFails ==
    /\ phase = "saving" /\ at.done < Len(Order)
    /\ file' = [file EXCEPT ![at.slot] = Absent]
    /\ phase' = "polled"
    /\ UNCHANGED <<machine, pending, at, img, owed, before>>

\* The file is closed; nobody looks whether the buffered tail reached the disk.
SaveClose(flushed) ==
    /\ phase = "saving" /\ at.done = Len(Order)
    /\ file' = IF flushed THEN file ELSE [file EXCEPT ![at.slot].secs = SubSeq(@, 1, Len(@) - 1)]
    /\ phase' = "polled"
    /\ UNCHANGED <<machine, pending, at, img, owed, before>>

----------------------------------------------------------------------------
(* savestate_poll: the load. *)

\* The poll has nothing, or nothing more, to save.
SaveServed == phase = "polled" \/ (Polling /\ ~ SaveDue)

PollEnd ==
    /\ phase = "polled" /\ s_load_pending = None
    /\ phase' = "guest" /\ at' = Idle /\ before' = NoPoll
    /\ UNCHANGED <<machine, pending, file, img, owed>>

\* Mutant: any build's file will do.
KeyMatchesAny(f) == f.there /\ f.key # None

\* The file opens, has a header, and the header is this build's.
KeyMatches(f) == f.there /\ f.key = build

\* Mutant: the request is cleared only if the load is refused.
ClearedOnRefusal(slot) == IF KeyMatches(file[slot]) THEN slot ELSE None

\* The request is cleared before anything is read.
Cleared(slot) == None

LoadOpen ==
    /\ SaveServed /\ s_load_pending # None
    /\ s_load_pending' = Cleared(s_load_pending) /\ owed' = FALSE
    /\ IF KeyMatches(file[s_load_pending])
       THEN /\ phase' = "loading" /\ at' = [Idle EXCEPT !.slot = s_load_pending]
            /\ before' = IF phase = "polled" THEN before
                         ELSE [slot |-> s_save_pending, mach |-> mach]
       ELSE phase' = "guest" /\ at' = Idle /\ before' = NoPoll
    /\ UNCHANGED <<machine, s_save_pending, file, img>>

\* Mutant: a file that ends early is good enough.
AcceptsShort(seen) == TRUE

\* Every required section has been seen.
Accepts(seen) == seen = Sections

\* One section is read and applied to the live machine; the CPU section never
\* brings its program counter back.
LoadSection ==
    /\ phase = "loading" /\ at.done < Len(file[at.slot].secs)
    /\ LET s == Order[at.done + 1]
       IN /\ mach' = [mach EXCEPT ![s] = file[at.slot].secs[at.done + 1]]
          /\ pc' = IF s = "CPU" THEN 0 ELSE pc
          /\ at' = [at EXCEPT !.done = @ + 1, !.seen = @ \cup {s}]
    /\ UNCHANGED <<build, moment, inExc, pending, phase, file, img, owed, before>>

\* Memory for a section cannot be had: the load is given up with the sections
\* read so far in place, and the guest goes on.
LoadFails ==
    /\ phase = "loading" /\ at.done < Len(Order)
    /\ phase' = "guest" /\ at' = Idle /\ before' = NoPoll
    /\ UNCHANGED <<machine, pending, file, img, owed>>

\* The loop is over, all sections read or the file at its end.
LoadEnd ==
    /\ phase = "loading" /\ at.done = Len(file[at.slot].secs)
    /\ IF Accepts(at.seen) THEN phase' = "resume" /\ UNCHANGED <<at, before>>
       ELSE phase' = "guest" /\ at' = Idle /\ before' = NoPoll
    /\ UNCHANGED <<machine, pending, file, img, owed>>

\* psx_scheduler_resume_at: the host stack is abandoned and the guest dispatched
\* at the program counter the load left.
Resume ==
    /\ phase = "resume" /\ phase' = "guest" /\ at' = Idle /\ before' = NoPoll
    /\ UNCHANGED <<machine, pending, file, img, owed>>

----------------------------------------------------------------------------

\* The process ends, at whatever step, and a build is launched over the same
\* directory.
Restart(b) ==
    /\ build' = b /\ mach' = Fresh(b) /\ pc' = 0 /\ inExc' = FALSE
    /\ s_save_pending' = None /\ s_load_pending' = None /\ owed' = FALSE
    /\ phase' = "guest" /\ at' = Idle /\ before' = NoPoll
    /\ UNCHANGED <<moment, file, img>>

PollStep ==
    \/ \E o \in BOOLEAN : SaveOpen(o) \/ SaveClose(o)
    \/ WriteHeader \/ WriteSection \/ SaveFails \/ PollEnd
    \/ LoadOpen \/ LoadSection \/ LoadFails \/ LoadEnd \/ Resume

Next ==
    \/ \E S \in SUBSET (Sections \ {"CPU"}) : Run(S)
    \/ EnterException \/ LeaveException
    \/ \E k \in Keys : RequestSave(k) \/ RequestLoad(k)
    \/ PollStep
    \/ \E b \in Builds : Restart(b)

Spec == Init /\ [][Next]_vars

\* The guest keeps executing blocks and its exception handlers return.
FairSpec == Spec /\ WF_vars(PollStep) /\ WF_vars(LeaveException)

----------------------------------------------------------------------------
(* Properties. *)

\* A load that is accepted leaves the machine exactly as it was when the slot was
\* saved, every section of that one moment, whatever failed or was killed while
\* the file was written.
AcceptedIsWhole == phase = "resume" => mach = img[at.slot].mach

\* Nothing another build saved ever reaches the machine, not even by a load that
\* is given up half way.
OneBuildOnly == \A s \in Sections : mach[s].build = build

\* A poll that finds a save and a load of one slot staged leaves the machine as it
\* found it: the save comes first, and what it wrote is what the load reads.
SamePollRoundTrip ==
    phase = "resume" /\ before.slot = at.slot => mach = before.mach

\* One request, one load: the jump back to the scheduler does not find the request
\* still staged.
OneLoadPerRequest == [][phase' = "loading" /\ phase # "loading" => owed]_vars

\* A staged save is served, or the process ends.
SaveIsServed == s_save_pending # None ~> s_save_pending = None
=============================================================================
