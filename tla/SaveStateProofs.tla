-------------------------- MODULE SaveStateProofs --------------------------
(***************************************************************************)
(* Theorems about save states, for any number of slots, sections, builds   *)
(* and moments: an accepted load is whole, and no other build's state ever *)
(* reaches the machine.  The inductive invariant says what a slot's file   *)
(* holds (a prefix of the machine that was saved there, all of it of the   *)
(* build in the header), that a save in progress writes the live machine,  *)
(* and that a load in progress has restored exactly the sections it has    *)
(* seen.                                                                   *)
(***************************************************************************)
EXTENDS SaveState, TLAPS

\* A file holds the beginning of the machine that was saved there, and its key is
\* that of the build the machine belongs to.
FileIsImage(s) ==
    LET f == file[s] m == img[s].mach
    IN /\ Len(f.secs) <= Len(Order)
       /\ \A i \in 1..Len(f.secs) : f.secs[i] = m[Order[i]]
       /\ f.key # None => \A c \in Sections : m[c].build = f.key

\* A save in progress: the machine stands still, and what is in the file is counted.
SavingInv ==
    phase = "saving" =>
        /\ at.slot \in Slots
        /\ mach = img[at.slot].mach
        /\ at.done = Len(file[at.slot].secs)

\* A load in progress: the file is this build's, and the sections seen are back.
LoadingInv ==
    phase = "loading" =>
        /\ at.slot \in Slots
        /\ file[at.slot].key = build
        /\ at.done <= Len(file[at.slot].secs)
        /\ \A c \in at.seen : mach[c] = img[at.slot].mach[c]

\* The inductive invariant.
StateInv ==
    /\ TypeOK
    /\ OneBuildOnly
    /\ \A s \in Slots : FileIsImage(s)
    /\ SavingInv
    /\ LoadingInv
    /\ phase = "resume" => at.slot \in Slots /\ mach = img[at.slot].mach

----------------------------------------------------------------------------

LEMMA CpuIsASection == "CPU" \in Sections
  BY SaveStateAssumption DEF Sections

LEMMA FreshTyped ==
    ASSUME NEW b \in Builds
    PROVE  Fresh(b) \in Machine /\ \A c \in Sections : Fresh(b)[c].build = b
  BY SaveStateAssumption DEF Fresh, Machine, Content

LEMMA AbsentTyped == Absent \in File
  BY SaveStateAssumption DEF Absent, File

LEMMA IdleTyped ==
    Idle \in [slot : Slots \cup {None}, done : 0..Len(Order), seen : SUBSET Sections]
  BY SaveStateAssumption DEF Idle

LEMMA InitInv == Init => StateInv
  <1> SUFFICES ASSUME Init PROVE StateInv
    OBVIOUS
  <1>1. build \in Builds /\ mach = Fresh(build) /\ (CHOOSE b \in Builds : TRUE) \in Builds
    BY SaveStateAssumption DEF Init
  <1>2. mach \in Machine /\ OneBuildOnly
    BY <1>1, FreshTyped DEF OneBuildOnly
  <1>3. NoImage \in [mach : Machine, pc : 0..MaxMoment]
    BY <1>1, FreshTyped, SaveStateAssumption DEF NoImage
  <1>4. TypeOK
    <2>1. 0 \in 0..MaxMoment
      BY SaveStateAssumption
    <2>2. /\ file \in [Slots -> File]
          /\ img \in [Slots -> [mach : Machine, pc : 0..MaxMoment]]
      BY <1>3, AbsentTyped DEF Init
    <2>3. /\ pc \in 0..MaxMoment /\ moment \in 0..MaxMoment /\ inExc \in BOOLEAN
          /\ s_save_pending \in Slots \cup {None} /\ s_load_pending \in Slots \cup {None}
          /\ phase \in Phases
      BY <2>1 DEF Init, Phases
    <2> QED BY <1>1, <1>2, <2>2, <2>3, IdleTyped DEF Init, TypeOK
  <1>5. ASSUME NEW s \in Slots PROVE FileIsImage(s)
    BY SaveStateAssumption DEF Init, FileIsImage, Absent
  <1> QED BY <1>2, <1>4, <1>5 DEF Init, StateInv, SavingInv, LoadingInv

\* Files and images are only disturbed by a save.
LEMMA FilesKept ==
    ASSUME StateInv, UNCHANGED <<file, img>>
    PROVE  \A s \in Slots : FileIsImage(s)'
  BY DEF StateInv, FileIsImage

\* The guest and the requests.
LEMMA GuestInv ==
    ASSUME StateInv,
           \/ \E S \in SUBSET (Sections \ {"CPU"}) : Run(S)
           \/ EnterException \/ LeaveException
           \/ \E k \in Keys : RequestSave(k) \/ RequestLoad(k)
    PROVE  StateInv'
  <1>0. UNCHANGED <<file, img>> /\ phase = "guest" /\ phase' = "guest" /\ at' = at
    BY DEF Run, EnterException, LeaveException, RequestSave, RequestLoad
  <1>1. \A s \in Slots : FileIsImage(s)'
    BY <1>0, FilesKept
  <1>2. TypeOK' /\ OneBuildOnly'
    <2>1. ASSUME NEW S \in SUBSET (Sections \ {"CPU"}), Run(S) PROVE TypeOK' /\ OneBuildOnly'
      <3>1. moment + 1 \in 0..MaxMoment
        BY <2>1, SaveStateAssumption DEF Run, StateInv, TypeOK
      <3>2. mach' \in Machine /\ \A c \in Sections : mach'[c].build = build'
        BY <2>1, <3>1 DEF Run, StateInv, TypeOK, OneBuildOnly, Machine, Content
      <3> QED BY <2>1, <3>1, <3>2 DEF Run, StateInv, TypeOK, OneBuildOnly, pending
    <2>2. CASE EnterException \/ LeaveException
      BY <2>2 DEF EnterException, LeaveException, StateInv, TypeOK, OneBuildOnly, pending
    <2>3. ASSUME NEW k \in Keys, RequestSave(k) \/ RequestLoad(k)
          PROVE  TypeOK' /\ OneBuildOnly'
      BY <2>3 DEF RequestSave, RequestLoad, InRange, StateInv, TypeOK, OneBuildOnly, machine
    <2> QED BY <2>1, <2>2, <2>3
  <1> QED BY <1>0, <1>1, <1>2 DEF StateInv, SavingInv, LoadingInv

\* The poll returns to the guest without touching machine or files.
LEMMA BackToGuest ==
    ASSUME StateInv, UNCHANGED <<build, mach, pc, moment, inExc, file, img>>,
           s_save_pending' \in Slots \cup {None}, s_load_pending' \in Slots \cup {None},
           phase' = "guest", at' = Idle
    PROVE  StateInv'
  <1>1. \A s \in Slots : FileIsImage(s)'
    BY FilesKept
  <1>2. TypeOK' /\ OneBuildOnly'
    BY IdleTyped DEF StateInv, TypeOK, OneBuildOnly, Phases
  <1> QED BY <1>1, <1>2 DEF StateInv, SavingInv, LoadingInv

----------------------------------------------------------------------------
(* The save. *)

LEMMA SaveOpenInv ==
    ASSUME StateInv, NEW o \in BOOLEAN, SaveOpen(o)
    PROVE  StateInv'
  <1> DEFINE k == s_save_pending
  <1>1. k \in Slots /\ UNCHANGED machine /\ UNCHANGED s_load_pending /\ s_save_pending' = None
    BY DEF SaveOpen, SaveDue, StateInv, TypeOK
  <1>2. CASE ~ o
    <2>1. UNCHANGED <<at, file, img>> /\ phase' = "polled"
      BY <1>2 DEF SaveOpen
    <2>2. TypeOK' /\ OneBuildOnly'
      BY <1>1, <2>1 DEF StateInv, TypeOK, OneBuildOnly, Phases, machine
    <2> QED BY <2>1, <2>2, FilesKept DEF StateInv, SavingInv, LoadingInv
  <1>3. CASE o
    <2> DEFINE fresh == [Absent EXCEPT !.there = TRUE]
    <2>1. /\ phase' = "saving" /\ at' = [Idle EXCEPT !.slot = k]
          /\ file' = [file EXCEPT ![k] = fresh]
          /\ img' = [img EXCEPT ![k] = [mach |-> mach, pc |-> pc]]
      BY <1>3 DEF SaveOpen
    <2>2. fresh \in File /\ fresh.secs = <<>> /\ fresh.key = None
      BY AbsentTyped DEF Absent, File
    <2>3. /\ at' \in [slot : Slots \cup {None}, done : 0..Len(Order), seen : SUBSET Sections]
          /\ at'.slot = k /\ at'.done = 0
      BY <1>1, <2>1, IdleTyped DEF Idle
    <2>4. file' \in [Slots -> File] /\ file'[k] = fresh
      BY <1>1, <2>1, <2>2 DEF StateInv, TypeOK
    <2>5. /\ img' \in [Slots -> [mach : Machine, pc : 0..MaxMoment]]
          /\ img'[k].mach = mach
      BY <1>1, <2>1 DEF StateInv, TypeOK
    <2>6. TypeOK' /\ OneBuildOnly'
      BY <1>1, <2>1, <2>3, <2>4, <2>5 DEF StateInv, TypeOK, OneBuildOnly, Phases, machine
    <2>7. ASSUME NEW s \in Slots PROVE FileIsImage(s)'
      <3>1. CASE s = k
        BY <3>1, <2>2, <2>4, SaveStateAssumption DEF FileIsImage
      <3>2. CASE s # k
        <4>1. file'[s] = file[s] /\ img'[s] = img[s]
          BY <3>2, <2>1 DEF StateInv, TypeOK
        <4> QED BY <4>1 DEF StateInv, FileIsImage
      <3> QED BY <3>1, <3>2
    <2>8. SavingInv' /\ LoadingInv' /\ phase' # "resume"
      BY <1>1, <2>1, <2>2, <2>3, <2>4, <2>5 DEF SavingInv, LoadingInv, machine
    <2> QED BY <2>6, <2>7, <2>8 DEF StateInv
  <1> QED BY <1>2, <1>3

\* What a save in progress knows.
LEMMA SavingFacts ==
    ASSUME StateInv, phase = "saving"
    PROVE  /\ at.slot \in Slots /\ file[at.slot] \in File
           /\ file[at.slot].secs \in Seq(Content)
           /\ at.done = Len(file[at.slot].secs) /\ at.done \in 0..Len(Order)
           /\ mach = img[at.slot].mach
           /\ \A c \in Sections : img[at.slot].mach[c].build = build
           /\ FileIsImage(at.slot)
  BY DEF StateInv, SavingInv, OneBuildOnly, TypeOK, File

\* A save in progress replaces its file by one that is still an image.
LEMMA SaveStepInv ==
    ASSUME StateInv, phase = "saving", NEW f \in File,
           file' = [file EXCEPT ![at.slot] = f],
           UNCHANGED <<build, mach, pc, moment, inExc, s_save_pending, s_load_pending, img>>,
           Len(f.secs) <= Len(Order),
           \A i \in 1..Len(f.secs) : f.secs[i] = mach[Order[i]],
           f.key \in {None, build},
           \/ phase' = "polled" /\ at' = at
           \/ /\ phase' = "saving"
              /\ at' = [at EXCEPT !.done = Len(f.secs)]
    PROVE  StateInv'
  <1>1. /\ at.slot \in Slots /\ mach = img[at.slot].mach
        /\ \A c \in Sections : img[at.slot].mach[c].build = build
    BY SavingFacts
  <1>2. file' \in [Slots -> File] /\ file'[at.slot] = f
    BY <1>1 DEF StateInv, TypeOK
  <1>3. Len(f.secs) \in 0..Len(Order)
    BY SaveStateAssumption DEF File
  <1>4. /\ at' \in [slot : Slots \cup {None}, done : 0..Len(Order), seen : SUBSET Sections]
        /\ at'.slot = at.slot
        /\ phase' = "saving" => at'.done = Len(f.secs)
    BY <1>3 DEF StateInv, TypeOK
  <1>5. TypeOK' /\ OneBuildOnly'
    BY <1>2, <1>4 DEF StateInv, TypeOK, OneBuildOnly, Phases
  <1>6. ASSUME NEW s \in Slots PROVE FileIsImage(s)'
    <2>1. CASE s = at.slot
      BY <2>1, <1>1, <1>2 DEF FileIsImage
    <2>2. CASE s # at.slot
      <3>1. file'[s] = file[s] /\ img'[s] = img[s]
        BY <2>2 DEF StateInv, TypeOK
      <3> QED BY <3>1 DEF StateInv, FileIsImage
    <2> QED BY <2>1, <2>2
  <1>7. SavingInv' /\ LoadingInv' /\ phase' # "resume"
    BY <1>1, <1>2, <1>4 DEF SavingInv, LoadingInv
  <1> QED BY <1>5, <1>6, <1>7 DEF StateInv

\* The key of a file in progress is this build's, once it is there.
LEMMA SavingKey ==
    ASSUME StateInv, phase = "saving"
    PROVE  file[at.slot].key \in {None, build}
  <1>1. /\ \A c \in Sections : img[at.slot].mach[c].build = build
        /\ file[at.slot].key # None =>
             \A c \in Sections : img[at.slot].mach[c].build = file[at.slot].key
    BY SavingFacts DEF FileIsImage
  <1> QED BY <1>1, CpuIsASection

LEMMA WriteInv ==
    ASSUME StateInv, WriteHeader \/ WriteSection \/ SaveFails \/ \E o \in BOOLEAN : SaveClose(o)
    PROVE  StateInv'
  <1> DEFINE k == at.slot
             f == file[k]
  <1>0. phase = "saving"
    BY DEF WriteHeader, WriteSection, SaveFails, SaveClose
  <1>1. /\ k \in Slots /\ f \in File /\ f.secs \in Seq(Content)
        /\ at.done = Len(f.secs) /\ at.done \in 0..Len(Order)
        /\ mach = img[k].mach /\ FileIsImage(k) /\ f.key \in {None, build}
    BY <1>0, SavingFacts, SavingKey
  <1>2. \A i \in 1..Len(f.secs) : f.secs[i] = mach[Order[i]]
    BY <1>1 DEF FileIsImage
  <1>3. build \in Builds /\ mach \in Machine /\ pc \in 0..MaxMoment /\ file \in [Slots -> File]
        /\ Len(Order) \in Nat
    BY SaveStateAssumption DEF StateInv, TypeOK
  <1>4. CASE WriteHeader
    <2> DEFINE g == [f EXCEPT !.key = build]
    <2>1. g \in File /\ g.secs = f.secs /\ g.key = build
      BY <1>1, <1>3 DEF File
    <2>2. file' = [file EXCEPT ![k] = g]
      BY <1>4 DEF WriteHeader
    <2>3. phase' = "saving" /\ at' = [at EXCEPT !.done = Len(g.secs)]
      BY <1>0, <1>1, <1>4, <2>1 DEF WriteHeader, StateInv, TypeOK
    <2>4. UNCHANGED <<build, mach, pc, moment, inExc, s_save_pending, s_load_pending, img>>
      BY <1>4 DEF WriteHeader, machine, pending
    <2>5. /\ Len(g.secs) <= Len(Order) /\ g.key \in {None, build}
          /\ \A i \in 1..Len(g.secs) : g.secs[i] = mach[Order[i]]
      BY <1>1, <1>2, <1>3, <2>1
    <2> HIDE DEF g
    <2> QED BY <1>0, <2>1, <2>2, <2>3, <2>4, <2>5, SaveStepInv
  <1>5. CASE WriteSection
    <2> DEFINE c == Order[at.done + 1]
               g == [f EXCEPT !.secs = Append(f.secs, mach[c]),
                              !.pc = IF c = "CPU" THEN pc ELSE f.pc]
    <2>0. at.done < Len(Order)
      BY <1>5 DEF WriteSection
    <2>1. c \in Sections
      BY <1>1, <1>3, <2>0 DEF Sections
    <2>2. mach[c] \in Content
      BY <1>3, <2>1 DEF Machine
    <2>3. /\ Append(f.secs, mach[c]) \in Seq(Content)
          /\ Len(Append(f.secs, mach[c])) = at.done + 1
          /\ \A i \in 1..(at.done + 1) :
                Append(f.secs, mach[c])[i] = IF i = at.done + 1 THEN mach[c] ELSE f.secs[i]
      <3> HIDE DEF c
      <3> QED BY <1>1, <2>2
    <2>4. g \in File /\ g.secs = Append(f.secs, mach[c]) /\ g.key = f.key
      <3> HIDE DEF c
      <3> QED BY <1>1, <1>3, <2>3 DEF File
    <2>5. /\ Len(g.secs) <= Len(Order)
          /\ \A i \in 1..Len(g.secs) : g.secs[i] = mach[Order[i]]
      <3>1. Len(g.secs) = at.done + 1
        BY <2>3, <2>4
      <3>2. ASSUME NEW i \in 1..(at.done + 1) PROVE g.secs[i] = mach[Order[i]]
        <4> HIDE DEF g
        <4>1. CASE i = at.done + 1
          BY <4>1, <2>3, <2>4
        <4>2. CASE i # at.done + 1
          <5>1. i \in 1..Len(f.secs)
            BY <4>2, <1>1
          <5>2. g.secs[i] = f.secs[i]
            <6> HIDE DEF c, f
            <6> QED BY <4>2, <2>3, <2>4
          <5> QED BY <5>1, <5>2, <1>2
        <4> QED BY <4>1, <4>2
      <3> HIDE DEF g
      <3> QED BY <3>1, <3>2, <2>0, <1>1
    <2>6. file' = [file EXCEPT ![k] = g]
      BY <1>3, <1>5 DEF WriteSection
    <2>7. phase' = "saving" /\ at' = [at EXCEPT !.done = Len(g.secs)]
      BY <1>0, <1>1, <1>5, <2>3, <2>4 DEF WriteSection
    <2>8. UNCHANGED <<build, mach, pc, moment, inExc, s_save_pending, s_load_pending, img>>
      BY <1>5 DEF WriteSection, machine, pending
    <2> HIDE DEF g
    <2> QED BY <1>0, <1>1, <2>4, <2>5, <2>6, <2>7, <2>8, SaveStepInv
  <1>6. CASE SaveFails
    <2>1. Absent.secs = <<>> /\ Absent.key = None
      BY DEF Absent
    <2>2. Len(Absent.secs) = 0
      BY <2>1
    <2>3. file' = [file EXCEPT ![k] = Absent] /\ phase' = "polled" /\ at' = at
      BY <1>6 DEF SaveFails
    <2>4. UNCHANGED <<build, mach, pc, moment, inExc, s_save_pending, s_load_pending, img>>
      BY <1>6 DEF SaveFails, machine, pending
    <2>5. /\ Len(Absent.secs) <= Len(Order) /\ Absent.key \in {None, build}
          /\ \A i \in 1..Len(Absent.secs) : Absent.secs[i] = mach[Order[i]]
      BY <1>3, <2>1, <2>2
    <2> QED BY <1>0, <2>3, <2>4, <2>5, AbsentTyped, SaveStepInv
  <1>7. ASSUME NEW o \in BOOLEAN, SaveClose(o) PROVE StateInv'
    <2> DEFINE g == IF o THEN f ELSE [f EXCEPT !.secs = SubSeq(f.secs, 1, Len(f.secs) - 1)]
    <2>0. Len(f.secs) \in Nat \ {0}
      BY <1>1, <1>7, SaveStateAssumption DEF SaveClose
    <2>1. /\ SubSeq(f.secs, 1, Len(f.secs) - 1) \in Seq(Content)
          /\ Len(SubSeq(f.secs, 1, Len(f.secs) - 1)) = Len(f.secs) - 1
          /\ \A i \in 1..(Len(f.secs) - 1) : SubSeq(f.secs, 1, Len(f.secs) - 1)[i] = f.secs[i]
      <3> HIDE DEF f
      <3> QED BY <1>1, <2>0
    <2>2. g \in File /\ g.key = f.key
      BY <1>1, <2>1 DEF File
    <2>3. /\ Len(g.secs) <= Len(Order)
          /\ \A i \in 1..Len(g.secs) : g.secs[i] = mach[Order[i]]
      <3>1. CASE o
        BY <3>1, <1>1, <1>2
      <3>2. CASE ~ o
        <4>1. g.secs = SubSeq(f.secs, 1, Len(f.secs) - 1)
          BY <3>2, <1>1 DEF File
        <4> HIDE DEF g, f
        <4> QED BY <4>1, <2>0, <2>1, <1>1, <1>2, <1>3
      <3> QED BY <3>1, <3>2
    <2>4. file' = [file EXCEPT ![k] = g]
      BY <1>1, <1>3, <1>7 DEF SaveClose
    <2>5. phase' = "polled" /\ at' = at
      BY <1>7 DEF SaveClose
    <2>6. UNCHANGED <<build, mach, pc, moment, inExc, s_save_pending, s_load_pending, img>>
      BY <1>7 DEF SaveClose, machine, pending
    <2> HIDE DEF g
    <2> QED BY <1>0, <1>1, <2>2, <2>3, <2>4, <2>5, <2>6, SaveStepInv
  <1> QED BY <1>4, <1>5, <1>6, <1>7

----------------------------------------------------------------------------
(* The load. *)

LEMMA LoadOpenInv ==
    ASSUME StateInv, LoadOpen
    PROVE  StateInv'
  <1> DEFINE k == s_load_pending
  <1>1. k \in Slots /\ s_load_pending' = None /\ UNCHANGED <<machine, s_save_pending, file, img>>
    BY DEF LoadOpen, Cleared, StateInv, TypeOK
  <1>2. CASE KeyMatches(file[k])
    <2>1. phase' = "loading" /\ at' = [Idle EXCEPT !.slot = k] /\ file[k].key = build
      BY <1>2 DEF LoadOpen, KeyMatches
    <2>2. /\ at' \in [slot : Slots \cup {None}, done : 0..Len(Order), seen : SUBSET Sections]
          /\ at'.slot = k /\ at'.done = 0 /\ at'.seen = {}
      BY <1>1, <2>1, IdleTyped DEF Idle
    <2>3. TypeOK' /\ OneBuildOnly'
      BY <1>1, <2>1, <2>2 DEF StateInv, TypeOK, OneBuildOnly, Phases, machine
    <2>4. Len(file[k].secs) \in Nat
      BY <1>1 DEF StateInv, TypeOK, File
    <2>5. SavingInv' /\ LoadingInv' /\ phase' # "resume"
      BY <1>1, <2>1, <2>2, <2>4 DEF SavingInv, LoadingInv, machine
    <2> QED BY <1>1, <2>3, <2>5, FilesKept DEF StateInv
  <1>3. CASE ~ KeyMatches(file[k])
    <2>1. phase' = "guest" /\ at' = Idle
      BY <1>3 DEF LoadOpen
    <2> QED BY <1>1, <2>1, BackToGuest DEF machine, StateInv, TypeOK
  <1> QED BY <1>2, <1>3

LEMMA LoadSectionInv ==
    ASSUME StateInv, LoadSection
    PROVE  StateInv'
  <1> DEFINE k == at.slot
             c == Order[at.done + 1]
             v == file[k].secs[at.done + 1]
  <1>1. /\ phase = "loading" /\ phase' = "loading"
        /\ UNCHANGED <<build, moment, inExc, s_save_pending, s_load_pending, file, img>>
        /\ at.done < Len(file[k].secs)
        /\ mach' = [mach EXCEPT ![c] = v]
        /\ pc' = IF c = "CPU" THEN 0 ELSE pc
        /\ at' = [at EXCEPT !.done = at.done + 1, !.seen = at.seen \cup {c}]
    BY DEF LoadSection, pending
  <1>2. /\ k \in Slots /\ file[k].key = build /\ FileIsImage(k)
        /\ file[k].secs \in Seq(Content) /\ build \in Builds /\ mach \in Machine
        /\ at \in [slot : Slots \cup {None}, done : 0..Len(Order), seen : SUBSET Sections]
        /\ at.done \in Nat
    BY <1>1, SaveStateAssumption DEF StateInv, LoadingInv, TypeOK, File
  <1>3. at.done + 1 \in 1..Len(file[k].secs) /\ at.done + 1 \in 1..Len(Order)
    BY <1>1, <1>2, SaveStateAssumption DEF FileIsImage
  <1>4. c \in Sections /\ v \in Content /\ v = img[k].mach[c] /\ build # None
    BY <1>2, <1>3, SaveStateAssumption DEF FileIsImage, Sections
  <1>5. v.build = build
    BY <1>2, <1>4 DEF FileIsImage
  <1>6. /\ mach' \in Machine /\ mach'[c] = v
        /\ \A d \in Sections : d # c => mach'[d] = mach[d]
    <2> HIDE DEF c, v
    <2> QED BY <1>1, <1>2, <1>4 DEF Machine
  <1>7. /\ at' \in [slot : Slots \cup {None}, done : 0..Len(Order), seen : SUBSET Sections]
        /\ at'.slot = k /\ at'.done = at.done + 1 /\ at'.seen = at.seen \cup {c}
    <2>1. at.seen \cup {c} \in SUBSET Sections /\ at.done + 1 \in 0..Len(Order)
      BY <1>2, <1>3, <1>4
    <2>2. at' = [at EXCEPT !.done = at.done + 1, !.seen = at.seen \cup {c}]
      BY <1>1
    <2> HIDE DEF c
    <2> QED BY <1>2, <2>1, <2>2
  <1>8. TypeOK'
    <2>1. pc' \in 0..MaxMoment
      BY <1>1, SaveStateAssumption DEF StateInv, TypeOK
    <2> QED BY <1>1, <1>6, <1>7, <2>1 DEF StateInv, TypeOK
  <1>9. OneBuildOnly'
    <2> HIDE DEF c, v
    <2> QED BY <1>1, <1>5, <1>6 DEF StateInv, OneBuildOnly
  <1>10. \A d \in at'.seen : mach'[d] = img'[at'.slot].mach[d]
    <2>1. \A d \in at.seen : mach[d] = img[k].mach[d] /\ d \in Sections
      BY <1>1, <1>2 DEF StateInv, LoadingInv
    <2> HIDE DEF c, v
    <2> QED BY <1>1, <1>4, <1>6, <1>7, <2>1
  <1>11. SavingInv' /\ LoadingInv' /\ phase' # "resume"
    BY <1>1, <1>2, <1>3, <1>7, <1>10 DEF SavingInv, LoadingInv
  <1> QED BY <1>1, <1>8, <1>9, <1>11, FilesKept DEF StateInv

LEMMA LoadEndInv ==
    ASSUME StateInv, LoadEnd
    PROVE  StateInv'
  <1>1. phase = "loading" /\ UNCHANGED <<machine, pending, file, img>>
    BY DEF LoadEnd
  <1>2. CASE Accepts(at.seen)
    <2>1. phase' = "resume" /\ at' = at /\ at.seen = Sections
      BY <1>2 DEF LoadEnd, Accepts
    <2>2. at.slot \in Slots /\ \A d \in Sections : mach[d] = img[at.slot].mach[d]
      BY <1>1, <2>1 DEF StateInv, LoadingInv
    <2>3. mach \in Machine /\ img[at.slot].mach \in Machine
      BY <2>2 DEF StateInv, TypeOK
    <2>4. mach = img[at.slot].mach
      BY <2>2, <2>3 DEF Machine
    <2>5. TypeOK' /\ OneBuildOnly'
      BY <1>1, <2>1 DEF StateInv, TypeOK, OneBuildOnly, Phases, machine, pending
    <2>6. UNCHANGED <<mach, img>>
      BY <1>1 DEF machine
    <2> QED BY <1>1, <2>1, <2>2, <2>4, <2>5, <2>6, FilesKept DEF StateInv, SavingInv, LoadingInv
  <1>3. CASE ~ Accepts(at.seen)
    <2>1. phase' = "guest" /\ at' = Idle
      BY <1>3 DEF LoadEnd
    <2> QED BY <1>1, <2>1, BackToGuest DEF machine, pending, StateInv, TypeOK
  <1> QED BY <1>2, <1>3

LEMMA RestartInv ==
    ASSUME StateInv, NEW b \in Builds, Restart(b)
    PROVE  StateInv'
  <1>1. mach' \in Machine /\ \A c \in Sections : mach'[c].build = build'
    BY FreshTyped DEF Restart
  <1>2. TypeOK' /\ OneBuildOnly'
    <2>1. 0 \in 0..MaxMoment
      BY SaveStateAssumption
    <2>2. /\ pc' \in 0..MaxMoment /\ inExc' \in BOOLEAN
          /\ s_save_pending' \in Slots \cup {None} /\ s_load_pending' \in Slots \cup {None}
          /\ phase' \in Phases /\ UNCHANGED <<moment, file, img>> /\ at' = Idle
          /\ build' \in Builds
      BY <2>1 DEF Restart, Phases
    <2> QED BY <1>1, <2>2, IdleTyped DEF StateInv, TypeOK, OneBuildOnly
  <1> QED BY <1>2, FilesKept DEF Restart, StateInv, SavingInv, LoadingInv

LEMMA StepInv == StateInv /\ [Next]_vars => StateInv'
  <1> SUFFICES ASSUME StateInv, [Next]_vars PROVE StateInv'
    OBVIOUS
  <1>1. ASSUME \/ \E S \in SUBSET (Sections \ {"CPU"}) : Run(S)
               \/ EnterException \/ LeaveException
               \/ \E k \in Keys : RequestSave(k) \/ RequestLoad(k)
        PROVE  StateInv'
    BY <1>1, GuestInv
  <1>2. ASSUME NEW o \in BOOLEAN, SaveOpen(o) PROVE StateInv'
    BY <1>2, SaveOpenInv
  <1>3. ASSUME WriteHeader \/ WriteSection \/ SaveFails \/ \E o \in BOOLEAN : SaveClose(o)
        PROVE  StateInv'
    BY <1>3, WriteInv
  <1>4. CASE LoadOpen
    BY <1>4, LoadOpenInv
  <1>5. CASE LoadSection
    BY <1>5, LoadSectionInv
  <1>6. CASE LoadEnd
    BY <1>6, LoadEndInv
  <1>7. CASE PollEnd \/ LoadFails \/ Resume
    BY <1>7, BackToGuest DEF PollEnd, LoadFails, Resume, machine, pending, StateInv, TypeOK
  <1>8. ASSUME NEW b \in Builds, Restart(b) PROVE StateInv'
    BY <1>8, RestartInv
  <1>9. CASE UNCHANGED vars
    <2>1. \A s \in Slots : FileIsImage(s)'
      BY <1>9, FilesKept DEF vars
    <2> QED BY <1>9, <2>1 DEF vars, StateInv, TypeOK, OneBuildOnly, SavingInv, LoadingInv
  <1> QED BY <1>1, <1>2, <1>3, <1>4, <1>5, <1>6, <1>7, <1>8, <1>9 DEF Next, PollStep

\* boot_state_load accepts a file only when it has put back the whole machine that
\* savestate_poll saved in that slot, whatever failed while it was written.
THEOREM AcceptedLoadIsWhole == Spec => []AcceptedIsWhole
  <1>1. StateInv => AcceptedIsWhole
    BY DEF StateInv, AcceptedIsWhole
  <1> QED BY <1>1, InitInv, StepInv, PTL DEF Spec

\* The integrity key keeps every section of another build out of the machine,
\* loads that are given up half way included.
THEOREM BuildsDoNotMix == Spec => []OneBuildOnly
  <1>1. StateInv => OneBuildOnly
    BY DEF StateInv
  <1> QED BY <1>1, InitInv, StepInv, PTL DEF Spec

----------------------------------------------------------------------------
(* The two requests of one poll. *)

\* The machine a poll found is the one in the image of the slot it saved.
BeforeInv == before.slot # None => before.slot \in Slots /\ img[before.slot].mach = before.mach

LEMMA BeforeInit == Init => BeforeInv
  BY DEF Init, BeforeInv, NoPoll

LEMMA BeforeStep == StateInv /\ BeforeInv /\ [Next]_vars => BeforeInv'
  <1> SUFFICES ASSUME StateInv, BeforeInv, [Next]_vars PROVE BeforeInv'
    OBVIOUS
  <1>1. ASSUME UNCHANGED <<before, img>> PROVE BeforeInv'
    BY <1>1 DEF BeforeInv
  <1>2. ASSUME before' = NoPoll PROVE BeforeInv'
    BY <1>2 DEF BeforeInv, NoPoll
  <1>3. ASSUME NEW o \in BOOLEAN, SaveOpen(o) PROVE BeforeInv'
    <2>1. s_save_pending \in Slots /\ img \in [Slots -> [mach : Machine, pc : 0..MaxMoment]]
      BY <1>3 DEF SaveOpen, SaveDue, StateInv, TypeOK
    <2>2. CASE o
      <3>1. /\ before'.slot = s_save_pending /\ before'.mach = mach
            /\ img' = [img EXCEPT ![s_save_pending] = [mach |-> mach, pc |-> pc]]
        BY <1>3, <2>2 DEF SaveOpen
      <3> QED BY <2>1, <3>1 DEF BeforeInv
    <2>3. CASE ~ o
      <3>1. before'.slot = None
        BY <1>3, <2>3 DEF SaveOpen
      <3> QED BY <3>1 DEF BeforeInv
    <2> QED BY <2>2, <2>3
  <1>4. CASE LoadOpen
    <2>1. UNCHANGED img
      BY <1>4 DEF LoadOpen
    <2>2. CASE before' = NoPoll \/ UNCHANGED before
      BY <1>1, <1>2, <2>1, <2>2
    <2>3. CASE phase # "polled" /\ before' = [slot |-> s_save_pending, mach |-> mach]
      <3>1. s_save_pending = None
        BY <1>4, <2>3 DEF LoadOpen, SaveServed, SaveDue
      <3> QED BY <2>3, <3>1 DEF BeforeInv
    <2> QED BY <1>4, <2>2, <2>3 DEF LoadOpen
  <1>5. CASE LoadEnd
    BY <1>1, <1>2, <1>5 DEF LoadEnd
  <1>6. CASE WriteHeader \/ WriteSection \/ SaveFails \/ LoadSection \/ \E o \in BOOLEAN : SaveClose(o)
    BY <1>1, <1>6 DEF WriteHeader, WriteSection, SaveFails, LoadSection, SaveClose
  <1>7. CASE PollEnd \/ LoadFails \/ Resume \/ \E b \in Builds : Restart(b)
    BY <1>2, <1>7 DEF PollEnd, LoadFails, Resume, Restart
  <1>8. CASE \/ \E S \in SUBSET (Sections \ {"CPU"}) : Run(S)
             \/ EnterException \/ LeaveException
             \/ \E k \in Keys : RequestSave(k) \/ RequestLoad(k)
    BY <1>1, <1>8 DEF Run, EnterException, LeaveException, RequestSave, RequestLoad
  <1>9. CASE UNCHANGED vars
    BY <1>1, <1>9 DEF vars
  <1> QED BY <1>3, <1>4, <1>5, <1>6, <1>7, <1>8, <1>9 DEF Next, PollStep

\* A save and a load of one slot that savestate_poll serves in one call give the guest
\* back the machine the call found, whatever the slot held before.
THEOREM RoundTripInOnePoll == Spec => []SamePollRoundTrip
  <1>1. StateInv /\ BeforeInv => SamePollRoundTrip
    <2> SUFFICES ASSUME StateInv, BeforeInv, phase = "resume", before.slot = at.slot
                 PROVE  mach = before.mach
      BY DEF SamePollRoundTrip
    <2>1. at.slot \in Slots /\ mach = img[at.slot].mach
      BY DEF StateInv
    <2>2. before.slot # None
      BY <2>1, SaveStateAssumption
    <2> QED BY <2>1, <2>2 DEF BeforeInv
  <1> QED BY <1>1, InitInv, StepInv, BeforeInit, BeforeStep, PTL DEF Spec

\* A staged load has not been served yet.
OwedInv == s_load_pending # None => owed

\* A load that left the poll by a longjmp does not find its own request again: every
\* load answers a request that no other load has answered.
THEOREM EachLoadWasAskedFor == Spec => OneLoadPerRequest
  <1>1. Init => OwedInv
    BY DEF Init, OwedInv
  <1>2. OwedInv /\ [Next]_vars =>
            OwedInv' /\ (phase' = "loading" /\ phase # "loading" => owed)
    <2> SUFFICES ASSUME OwedInv, [Next]_vars
                 PROVE  OwedInv' /\ (phase' = "loading" /\ phase # "loading" => owed)
      OBVIOUS
    <2>1. CASE LoadOpen
      BY <2>1 DEF LoadOpen, OwedInv, Cleared
    <2>2. CASE \E o \in BOOLEAN : SaveOpen(o) \/ SaveClose(o)
      BY <2>2 DEF SaveOpen, SaveClose, OwedInv, pending
    <2>3. CASE WriteHeader \/ WriteSection \/ SaveFails \/ PollEnd \/ LoadSection \/ LoadFails
               \/ LoadEnd \/ Resume
      BY <2>3 DEF WriteHeader, WriteSection, SaveFails, PollEnd, LoadSection, LoadFails,
                  LoadEnd, Resume, OwedInv, pending
    <2>4. CASE \/ \E S \in SUBSET (Sections \ {"CPU"}) : Run(S)
               \/ EnterException \/ LeaveException
               \/ \E k \in Keys : RequestSave(k) \/ RequestLoad(k)
               \/ \E b \in Builds : Restart(b)
      BY <2>4 DEF Run, EnterException, LeaveException, RequestSave, RequestLoad, Restart,
                  OwedInv, pending
    <2>5. CASE UNCHANGED vars
      BY <2>5 DEF vars, OwedInv
    <2> QED BY <2>1, <2>2, <2>3, <2>4, <2>5 DEF Next, PollStep
  <1>3. (phase' = "loading" /\ phase # "loading" => owed)
            => [phase' = "loading" /\ phase # "loading" => owed]_vars
    OBVIOUS
  <1> QED BY <1>1, <1>2, <1>3, PTL DEF Spec, OneLoadPerRequest
=============================================================================
