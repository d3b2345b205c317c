-------------------------- MODULE OverlayDispatch --------------------------
(***************************************************************************)
(* Content-keyed dispatch of native overlay code (overlay_loader.c) over   *)
(* the write-generation counters of memory.c.                              *)
(*                                                                         *)
(* Guest code is a set Addrs of function entries; ram[a] is the image of   *)
(* the function now in RAM at a, and a hash of the bytes (crc32) is the    *)
(* image itself.  A candidate is native code compiled for one image.  The  *)
(* interpreter reads live RAM and is always right; native code is right    *)
(* only while RAM holds the image it was compiled from.                    *)
(*                                                                         *)
(* Everything here runs on the dispatch thread; the guest decides which    *)
(* of the actions comes next.  Features says how the session is built and  *)
(* configured:                                                             *)
(*   "cps"    g_psx_cps_mode: continuation re-entries of interiors         *)
(*   "sljit"  g_sljit_tier_enabled: shards of the background worker        *)
(*   "live"   s_sljit_live: shards are diffed, then run live               *)
(*   "diff"   s_diff_mode: every candidate is diffed                       *)
(*   "yield"  the guest switches threads (psx_request_thread_switch)       *)
(*   "load"   the user loads save states                                   *)
(***************************************************************************)
EXTENDS Naturals, Sequences, FiniteSets

CONSTANTS
    Addrs, Images, Pages,
    PageOf,        \* the page that holds the code at an address
    KernelAddrs,   \* the addresses below 0x10000
    NativeExec,    \* the user's setting of s_native_exec
    Features,
    Cache,         \* the DLLs a rescan may find, one function each
    Blobs,         \* the shards persisted by earlier sessions
    BUDGET,        \* OVERLAY_DIFF_BUDGET, 32 in the code
    CAND_CAP,      \* 16384 in the code
    ACTIVE_CAP,    \* the length of s_active_stack, 64 in the code
    MaxGen,        \* bound of the model: stores per watched page
    MaxDepth       \* bound of the model: nested native activations

Fn == [addr : Addrs, img : Images]

ASSUME DispatchAssumption ==
    /\ PageOf \in [Addrs -> Pages]
    /\ KernelAddrs \subseteq Addrs
    /\ NativeExec \in BOOLEAN
    /\ Features \subseteq {"cps", "sljit", "live", "diff", "yield", "load"}
    /\ Cache \in Seq(Fn) /\ Blobs \in Seq(Fn)
    /\ BUDGET \in Nat /\ CAND_CAP \in Nat /\ ACTIVE_CAP \in Nat
    /\ MaxGen \in Nat /\ MaxDepth \in Nat

VARIABLES
    ram,           \* [Addrs -> Images]
    page_gen,      \* overlay_page_gen
    s_cand,        \* the candidate table, oldest first
    s_cache_idx,   \* how much of Cache the index of the cache directory holds
    s_loaded,      \* how much of it is loaded (s_loaded_paths)
    s_checked,     \* the region's bit of the checked-regions memo
    blobs,         \* the shards on disk, in directory order
    s_blobs,       \* how many of them are registered (s_loaded_blobs)
    dirty,         \* s_async_cache_dirty
    missed,        \* what the worker was given: the address, and its image then
    calls,         \* native activations on the C stack, as candidate indices
    s_active,      \* s_active_stack up to s_active_depth
    s_native_exec,
    shadow,        \* run_shadow_diff: its globals, and whether its frame is live
    exc,           \* the armed setjmp frame of an exception dispatch
    escapes        \* s_shadow_escapes

miss == <<s_cache_idx, s_loaded, s_checked, blobs, s_blobs, dirty, missed>>
stacks == <<calls, s_active, s_native_exec, shadow, exc, escapes>>
vars == <<ram, page_gen, s_cand, miss, stacks>>

Candidate ==
    [addr : Addrs, img : Images, gcc : BOOLEAN, val_gen : Nat,
     state : {"VALID", "INVALID", "BLACKLIST"}, passes : Nat, touch : BOOLEAN]

NoShadow == [pass |-> "none"]
Shadows == [pass : {"interp", "native"}, c : Nat, ram0 : [Addrs -> Images],
            ramI : [Addrs -> Images], sv : BOOLEAN, base : Nat,
            mmio : BOOLEAN, frame : BOOLEAN]
NoExc == [in |-> FALSE]
Excs == [in : {TRUE}, base : Nat, shadow : BOOLEAN]

InShadow == shadow.pass # "none"
ShadowRunning == InShadow /\ shadow.frame
InException == exc.in

TypeOK ==
    /\ ram \in [Addrs -> Images]
    /\ page_gen \in [Pages -> Nat]
    /\ s_cand \in Seq(Candidate)
    /\ s_cache_idx \in 0..Len(Cache) /\ s_loaded \in 0..s_cache_idx
    /\ s_checked \in BOOLEAN /\ dirty \in BOOLEAN
    /\ blobs \in Seq(Fn) /\ s_blobs \in 0..Len(blobs)
    /\ missed \subseteq Fn
    /\ calls \in Seq(1..Len(s_cand)) /\ s_active \in Seq(1..Len(s_cand))
    /\ s_native_exec \in BOOLEAN
    /\ shadow \in Shadows \cup {NoShadow}
    /\ exc \in Excs \cup {NoExc}
    /\ escapes \in Nat

----------------------------------------------------------------------------
(* Generations and validity. *)

Watched == {PageOf[s_cand[i].addr] : i \in 1..Len(s_cand)}

\* cand_gensum: the generation of the page under the code.
cand_gensum(c) == page_gen[PageOf[c.addr]]

\* cand_crc(c) == c->crc_code.
LiveMatch(c) == ram[c.addr] = c.img

\* Mutant: an INVALID entry whose generation is unchanged is trusted too.
FastPathAnyState(c) == cand_gensum(c) = c.val_gen

\* Valid, and no store to its page since: no hash.
FastPath(c) == c.state = "VALID" /\ cand_gensum(c) = c.val_gen

Matched(c) == FastPath(c) \/ LiveMatch(c)

\* s_cand grows by new at its end, which is the head of the chain of its address;
\* a full table drops what does not fit.
Room(cs, n) == IF Len(cs) + n > CAND_CAP THEN CAND_CAP - Len(cs) ELSE n

\* register_sljit_candidate with the crc of the blob header.
sljit_candidate(f) ==
    [addr |-> f.addr, img |-> f.img, gcc |-> FALSE,
     val_gen |-> page_gen[PageOf[f.addr]], state |-> "VALID",
     passes |-> 0, touch |-> FALSE]

\* scan_sljit_cache_dir: every blob on disk that is not registered yet.
Scanned(cs) ==
    cs \o [i \in 1..Room(cs, Len(blobs) - s_blobs) |->
              sljit_candidate(blobs[s_blobs + i])]

\* cand_register: valid iff live RAM has the image of the manifest.
gcc_candidate(f) ==
    [addr |-> f.addr, img |-> f.img, gcc |-> TRUE,
     val_gen |-> page_gen[PageOf[f.addr]],
     state |-> IF ram[f.addr] = f.img THEN "VALID" ELSE "INVALID",
     passes |-> 0, touch |-> FALSE]

\* A shard for the live image is retired by a DLL for the live image.
Obsoleted(c, fs) ==
    /\ ~ c.gcc /\ LiveMatch(c)
    /\ \E j \in 1..Len(fs) : fs[j].addr = c.addr /\ fs[j].img = c.img

\* load_one_dll for every DLL of the region that is indexed and not loaded.
Loaded(cs) ==
    LET n == Room(cs, s_cache_idx - s_loaded)
        fs == [i \in 1..n |-> Cache[s_loaded + i]]
    IN [i \in 1..Len(cs) |-> IF Obsoleted(cs[i], fs)
                             THEN [cs[i] EXCEPT !.state = "BLACKLIST"] ELSE cs[i]]
       \o [i \in 1..n |-> gcc_candidate(fs[i])]

----------------------------------------------------------------------------
(* overlay_loader_dispatch. *)

Chain(cs, a) == {i \in 1..Len(cs) : cs[i].addr = a}

\* The miss block: a lookup that found no chain picks up the shards published
\* since, if there is still none loads the region's DLLs, once per rescan, and if
\* that failed too gives the worker a snapshot, once per address.
AfterScan(noHead) ==
    IF noHead /\ "sljit" \in Features /\ dirty THEN Scanned(s_cand) ELSE s_cand
LoadDue(noHead) == noHead /\ ~ s_checked
MissTable(a, interior) ==
    LET none(cs) == interior \/ Chain(cs, a) = {}
        cs == AfterScan(none(s_cand))
    IN IF LoadDue(none(cs)) THEN Loaded(cs) ELSE cs

\* s_loaded_paths after the region's DLLs were loaded.
LoadedPaths(load) == IF load THEN s_cache_idx ELSE s_loaded

\* Whether the miss at a is handed to the worker (sljit_already_tried).
Enqueues(a) ==
    /\ "sljit" \in Features /\ Features \cap {"diff", "live"} # {} /\ ~ InShadow
    /\ \A f \in missed : f.addr # a

MissEffects(a, interior) ==
    LET none(cs) == interior \/ Chain(cs, a) = {}
        scan == none(s_cand) /\ "sljit" \in Features /\ dirty
        load == LoadDue(none(AfterScan(none(s_cand))))
    IN /\ dirty' = (dirty /\ ~ scan)
       /\ s_blobs' = IF scan THEN Len(blobs) ELSE s_blobs
       /\ s_checked' = (s_checked \/ load)
       /\ s_loaded' = LoadedPaths(load)
       /\ missed' = IF ~ interior /\ Chain(MissTable(a, FALSE), a) = {} /\ Enqueues(a)
                    THEN missed \cup {[addr |-> a, img |-> ram[a]]} ELSE missed
       /\ UNCHANGED <<s_cache_idx, blobs>>

\* The candidate the walk of the chain stops at (newest first, skipping the
\* blacklisted), or 0.
Hit(cs, a) ==
    LET S == {i \in Chain(cs, a) : cs[i].state # "BLACKLIST" /\ Matched(cs[i])}
    IN IF S = {} THEN 0 ELSE CHOOSE i \in S : \A j \in S : j <= i

\* The table after the walk: the hit is VALID and the entries passed over are
\* INVALID, all with the generation they were checked at.
Walked(cs, a, hit) ==
    [i \in 1..Len(cs) |->
        IF cs[i].addr # a \/ cs[i].state = "BLACKLIST" \/ i < hit THEN cs[i]
        ELSE [cs[i] EXCEPT !.val_gen = cand_gensum(cs[i]),
                           !.state = IF i = hit THEN "VALID" ELSE "INVALID"]]

\* Whether the code at a must prove itself: not in the kernel window.
WantDiff(c) ==
    /\ "diff" \in Features \/ ("live" \in Features /\ ~ c.gcc)
    /\ c.addr \notin KernelAddrs

\* Mutant: a shadow may start inside an exception dispatch.
RouteAnywhere(c) ==
    IF c.touch THEN "interp"
    ELSE IF WantDiff(c) /\ ~ InShadow /\ c.passes < BUDGET THEN "shadow"
    ELSE IF s_native_exec THEN "native" ELSE "interp"

\* Mutant: inside an exception dispatch an unproven candidate runs natively.
RouteUnproven(c) ==
    IF c.touch THEN "interp"
    ELSE IF WantDiff(c) /\ ~ InShadow /\ ~ InException /\ c.passes < BUDGET THEN "shadow"
    ELSE IF s_native_exec THEN "native" ELSE "interp"

\* What a matched entry does: device code and code still to be proven inside an
\* exception are interpreted, unproven code is diffed, the rest is native.
Route(c) ==
    IF c.touch THEN "interp"
    ELSE IF WantDiff(c) /\ ~ InShadow /\ c.passes < BUDGET
         THEN IF InException THEN "interp" ELSE "shadow"
    ELSE IF s_native_exec THEN "native" ELSE "interp"

\* Call c->fn: pushed on s_active_stack while it has room.  What a longjmp unwinds
\* is never popped, so the stack fills up over a session.
Enter(i) ==
    /\ Len(calls) < MaxDepth
    /\ calls' = Append(calls, i)
    /\ s_active' = IF Len(s_active) < ACTIVE_CAP THEN Append(s_active, i) ELSE s_active
    /\ UNCHANGED <<s_native_exec, shadow, exc, escapes>>

\* run_shadow_diff up to its interpreter pass.
BeginShadow(i) ==
    /\ shadow' = [pass |-> "interp", c |-> i, ram0 |-> ram, ramI |-> ram,
                  sv |-> s_native_exec, base |-> Len(calls),
                  mmio |-> FALSE, frame |-> TRUE]
    /\ s_native_exec' = FALSE
    /\ UNCHANGED <<calls, s_active, exc, escapes>>

\* A call of the entry a, whether from the interpreter, the static code or
\* another native function.
Dispatch(a) ==
    LET cs == MissTable(a, FALSE)
        hit == Hit(cs, a)
        route == IF hit = 0 THEN "interp" ELSE Route(cs[hit])
    IN /\ MissEffects(a, FALSE)
       /\ s_cand' = Walked(cs, a, hit)
       /\ \/ route = "interp" /\ UNCHANGED stacks
          \/ route = "native" /\ Enter(hit)
          \/ route = "shadow" /\ BeginShadow(hit)
       /\ UNCHANGED <<ram, page_gen>>

\* overlay_find_by_range: the oldest candidate that is not blacklisted.
FindByRange(cs, a) ==
    LET S == {i \in Chain(cs, a) : cs[i].state # "BLACKLIST"}
    IN IF S = {} THEN 0 ELSE CHOOSE i \in S : \A j \in S : i <= j

\* A continuation re-entry inside the function at a (CPS builds): no entry has
\* this address, so the miss block runs and the owner is found by its range.
DispatchInterior(a) ==
    LET cs == MissTable(a, TRUE)
        ci == FindByRange(cs, a)
        c == cs[ci]
        own == InShadow /\ shadow.pass = "native" /\ shadow.c = ci
        native == /\ ci # 0 /\ Matched(c) /\ ~ c.touch
                  /\ \/ own
                     \/ /\ ~ (WantDiff(c) /\ c.passes < BUDGET)
                        /\ s_native_exec
    IN /\ "cps" \in Features
       /\ MissEffects(a, TRUE)
       /\ s_cand' = IF ci = 0 \/ FastPath(c) THEN cs
                    ELSE [cs EXCEPT ![ci].val_gen = cand_gensum(c),
                                    ![ci].state = IF LiveMatch(c) THEN "VALID" ELSE @]
       /\ IF native THEN Enter(ci) ELSE UNCHANGED stacks
       /\ UNCHANGED <<ram, page_gen>>

\* The stack discipline of native calls: an activation inside an exception
\* dispatch or a shadow is above the frame that armed it.
Floor ==
    LET e == IF InException THEN exc.base ELSE 0
        s == IF ShadowRunning THEN shadow.base ELSE 0
    IN IF e > s THEN e ELSE s

\* c->fn returns.
Return ==
    /\ Len(calls) > Floor
    /\ calls' = SubSeq(calls, 1, Len(calls) - 1)
    /\ s_active' = IF Len(s_active) > 0 THEN SubSeq(s_active, 1, Len(s_active) - 1) ELSE s_active
    /\ UNCHANGED <<ram, page_gen, s_cand, miss, s_native_exec, shadow, exc, escapes>>

----------------------------------------------------------------------------
(* Stores: overlay_watch_note_write and overlay_loader_active_write_check. *)

\* Mutant: an executing entry is not checked for stores to its own code.
ActiveIgnored(i) == FALSE

Active(i) == \E d \in 1..Len(s_active) : s_active[d] = i

\* Mutant: the generation of a watched page does not move.
BumpedNever(p) == page_gen

Bumped(p) == [page_gen EXCEPT ![p] = @ + 1]

\* A CPU or DMA store that leaves image img at a.
Store(a, img) ==
    /\ page_gen[PageOf[a]] < MaxGen
    /\ ram' = [ram EXCEPT ![a] = img]
    /\ IF PageOf[a] \in Watched
       THEN /\ page_gen' = Bumped(PageOf[a])
            /\ s_cand' = [i \in 1..Len(s_cand) |->
                             IF Active(i) /\ s_cand[i].addr = a
                             THEN [s_cand[i] EXCEPT !.state = "BLACKLIST"] ELSE s_cand[i]]
       ELSE UNCHANGED <<page_gen, s_cand>>
    /\ UNCHANGED <<miss, stacks>>

----------------------------------------------------------------------------
(* The rest of run_shadow_diff. *)

\* The interpreter pass reaches a device register (g_shadow_mmio_hits).
ShadowTouch ==
    /\ ShadowRunning /\ shadow.pass = "interp" /\ ~ shadow.mmio
    /\ shadow' = [shadow EXCEPT !.mmio = TRUE]
    /\ UNCHANGED <<ram, page_gen, s_cand, miss, calls, s_active, s_native_exec, exc, escapes>>

\* The epilogue.
EndShadow(cs) ==
    /\ s_cand' = cs
    /\ shadow' = NoShadow
    /\ s_native_exec' = shadow.sv

\* The interpreter pass returns: device code is pinned to the interpreter, other
\* code gets its native pass from the same RAM.
ShadowInterpDone ==
    /\ ShadowRunning /\ shadow.pass = "interp" /\ Len(calls) = shadow.base
    /\ InException => ~ exc.shadow
    /\ \/ /\ shadow.mmio
          /\ EndShadow([s_cand EXCEPT ![shadow.c].touch = TRUE])
          /\ UNCHANGED ram
       \/ /\ ~ shadow.mmio
          /\ shadow' = [shadow EXCEPT !.pass = "native", !.ramI = ram]
          /\ ram' = shadow.ram0
          /\ UNCHANGED <<s_cand, s_native_exec>>
    /\ UNCHANGED <<page_gen, miss, calls, s_active, exc, escapes>>

\* Clean passes in a row.
Credit(c, clean) ==
    IF ~ clean THEN 0 ELSE IF c.passes < BUDGET THEN c.passes + 1 ELSE c.passes

\* The native pass returns: the two results are compared (same: the registers are
\* equal), and the interpreter's is kept.
ShadowNativeDone(same) ==
    LET clean == same /\ ram = shadow.ramI
        c == s_cand[shadow.c]
    IN /\ ShadowRunning /\ shadow.pass = "native" /\ Len(calls) = shadow.base
       /\ InException => ~ exc.shadow
       /\ EndShadow([s_cand EXCEPT ![shadow.c].passes = Credit(c, clean)])
       /\ ram' = shadow.ramI
       /\ UNCHANGED <<page_gen, miss, calls, s_active, exc, escapes>>

----------------------------------------------------------------------------
(* Exceptions, thread switches and save states unwind the C stack. *)

\* psx_check_interrupts arms its setjmp frame and dispatches the handler.
TakeException ==
    /\ ~ InException
    /\ exc' = [in |-> TRUE, base |-> Len(calls), shadow |-> InShadow]
    /\ UNCHANGED <<ram, page_gen, s_cand, miss, calls, s_active, s_native_exec, shadow, escapes>>

\* deferred_exception_longjmp, with overlay_loader_shadow_escape_fixup: the
\* activations above the setjmp frame vanish without their epilogues.
ReturnFromException ==
    /\ InException
    /\ calls' = SubSeq(calls, 1, exc.base)
    /\ exc' = NoExc
    /\ IF InShadow /\ ~ exc.shadow
       THEN /\ escapes' = escapes + 1
            /\ shadow' = NoShadow
            /\ s_native_exec' = shadow.sv
       ELSE UNCHANGED <<escapes, shadow, s_native_exec>>
    /\ UNCHANGED <<ram, page_gen, s_cand, miss, s_active>>

\* longjmp to psx_scheduler_run: every activation, and a shadow frame, vanishes.
Unwind ==
    /\ ~ InException
    /\ calls' = <<>>
    /\ shadow' = IF InShadow THEN [shadow EXCEPT !.frame = FALSE] ELSE shadow
    /\ UNCHANGED <<page_gen, s_cand, miss, s_active, s_native_exec, exc, escapes>>

\* psx_request_thread_switch.
Yield ==
    /\ "yield" \in Features
    /\ Unwind /\ UNCHANGED ram

\* savestate_poll: boot_state_load copies the saved RAM over the live one and
\* psx_scheduler_resume_at unwinds.
StateLoad(r) ==
    /\ "load" \in Features
    /\ Unwind /\ ram' = r

----------------------------------------------------------------------------
(* The background producers. *)

\* overlay_loader_rescan, after a batch compile put n more DLLs in the cache.
Rescan(n) ==
    /\ s_cache_idx + n <= Len(Cache)
    /\ s_cache_idx' = s_cache_idx + n
    /\ s_checked' = FALSE
    /\ UNCHANGED <<ram, page_gen, s_cand, s_loaded, blobs, s_blobs, dirty, missed,
                   stacks>>

\* overlay_loader_async_publish on the worker thread: the shard of a snapshot it
\* was given, under a file name of its own.
Publish(f) ==
    /\ f \in missed
    /\ \A i \in 1..Len(blobs) : blobs[i] # f
    /\ blobs' = Append(blobs, f)
    /\ dirty' = TRUE
    /\ UNCHANGED <<ram, page_gen, s_cand, s_cache_idx, s_loaded, s_checked, s_blobs, missed,
                   stacks>>

\* overlay_loader_init, with the shards of earlier sessions registered.
Init ==
    /\ ram \in [Addrs -> Images]
    /\ page_gen = [p \in Pages |-> 0]
    /\ blobs = IF "sljit" \in Features THEN Blobs ELSE <<>>
    /\ s_blobs = Len(blobs)
    /\ s_cand = [i \in 1..Len(blobs) |-> sljit_candidate(blobs[i])]
    /\ s_cache_idx = 0 /\ s_loaded = 0 /\ s_checked = FALSE
    /\ dirty = FALSE /\ missed = {}
    /\ calls = <<>> /\ s_active = <<>>
    /\ s_native_exec = NativeExec
    /\ shadow = NoShadow /\ exc = NoExc /\ escapes = 0

Next ==
    \/ \E a \in Addrs : Dispatch(a)
    \/ \E a \in Addrs : DispatchInterior(a)
    \/ Return
    \/ \E a \in Addrs, img \in Images : Store(a, img)
    \/ ShadowTouch
    \/ ShadowInterpDone
    \/ \E same \in BOOLEAN : ShadowNativeDone(same)
    \/ TakeException
    \/ ReturnFromException
    \/ Yield
    \/ \E r \in [Addrs -> Images] : StateLoad(r)
    \/ \E n \in 1..Len(Cache) : Rescan(n)
    \/ \E f \in missed : Publish(f)

Spec == Init /\ [][Next]_vars

----------------------------------------------------------------------------
(* Properties. *)

\* "if the page-generation sum is unchanged since we last confirmed this entry
\* VALID, the bytes are PROVABLY unchanged": what the fast path of the dispatch
\* relies on when it skips the hash.
ValidMeansUnchanged ==
    \A i \in 1..Len(s_cand) : FastPath(s_cand[i]) => LiveMatch(s_cand[i])

\* Native code on the C stack that s_active_stack knows of is the code RAM holds,
\* or its entry is blacklisted because the guest overwrote it during this
\* activation.  An activation that found the stack full is not known to it.
NativeRunsLiveCode ==
    \A d \in 1..Len(calls) :
        (\E e \in 1..Len(s_active) : s_active[e] = calls[d]) =>
            LiveMatch(s_cand[calls[d]]) \/ s_cand[calls[d]].state = "BLACKLIST"

\* A dispatch calls native code only when RAM holds the image it was compiled
\* from, with or without the hash.
EntersLiveCode ==
    [][Len(calls') > Len(calls) =>
         LiveMatch(s_cand'[calls'[Len(calls')]])]_vars

\* "a shard runs native live only after a clean verify budget", and device code
\* never: what runs natively outside a shadow has passed BUDGET diffs in a row.
TrustedBeforeLive ==
    [][\A i \in 1..Len(s_cand') :
         /\ Len(calls') > Len(calls) /\ calls'[Len(calls')] = i
         /\ ~ InShadow /\ WantDiff(s_cand'[i])
         => s_cand'[i].passes = BUDGET /\ ~ s_cand'[i].touch]_vars

\* "if the counters ever move, that invariant is broken": an exception return
\* never unwinds a live shadow run.
NoShadowEscape == escapes = 0
=============================================================================
