----------------------- MODULE OverlayDispatchProofs -----------------------
(***************************************************************************)
(* The generation fast path is sound for DLL candidates: in a session      *)
(* without continuation re-entry, shards, diffing and save states, an      *)
(* entry the dispatch trusts without a hash has its image in RAM, for any  *)
(* number of addresses, images, pages, DLLs and stores.  In every session, *)
(* whatever its features, unproven code does not run live and no exception *)
(* return unwinds a shadow run.                                            *)
(***************************************************************************)
EXTENDS OverlayDispatch, WellFoundedInduction, TLAPS

\* The sessions the theorems are about.
DllsOnly == Features \subseteq {"yield"}

\* The part of the type invariant the argument needs; no shadow ever runs.
Typed ==
    /\ ram \in [Addrs -> Images]
    /\ page_gen \in [Pages -> Nat]
    /\ s_cand \in Seq(Candidate)
    /\ s_cache_idx \in 0..Len(Cache) /\ s_loaded \in 0..s_cache_idx
    /\ shadow = NoShadow
    /\ calls \in Seq(Nat)
    /\ exc = NoExc \/ (exc \in Excs /\ exc.base <= Len(calls))

\* A generation was current when it was recorded, and counters only grow.
GenerationsPast ==
    \A i \in 1..Len(s_cand) : s_cand[i].val_gen <= cand_gensum(s_cand[i])

Inv == Typed /\ GenerationsPast /\ ValidMeansUnchanged

\* The two facts about one candidate that make the fast path sound.
Sound(c) == c.val_gen <= cand_gensum(c) /\ (FastPath(c) => LiveMatch(c))

\* What every step keeps of a table cs that becomes ds: entries stay where they are,
\* for the same function, and a blacklisted one stays blacklisted.
Keeps(cs, ds) ==
    /\ Len(cs) <= Len(ds)
    /\ \A i \in 1..Len(cs) :
         /\ ds[i].addr = cs[i].addr /\ ds[i].img = cs[i].img
         /\ cs[i].state = "BLACKLIST" => ds[i].state = "BLACKLIST"

\* What s_active_stack knows of is live or blacklisted, also where a longjmp left an
\* entry of an activation that is gone.
Fresh(c) == LiveMatch(c) \/ c.state = "BLACKLIST"
ActiveInv ==
    /\ s_active \in Seq(Nat)
    /\ \A e \in 1..Len(s_active) :
         s_active[e] \in 1..Len(s_cand) /\ Fresh(s_cand[s_active[e]])

\* A non-empty set of naturals has a least element.
LEMMA LeastOfNat ==
    ASSUME NEW S, S \subseteq Nat, S # {}
    PROVE  \E i \in S : \A j \in S : i <= j
<1> DEFINE R == OpToRel(<, Nat)
<1>1. IsWellFoundedOn(R, Nat)
  BY NatLessThanWellFounded
<1>2. \A i, j \in Nat : i < j => <<i, j>> \in R
  BY Zenon DEF OpToRel
<1> HIDE DEF R
<1>3. PICK i \in S : \A j \in S : ~ (<<j, i>> \in R)
  BY <1>1, WFMin
<1>4. \A j \in S : ~ (j < i)
  BY <1>2, <1>3, Zenon
<1>5. \A j \in S : i <= j
  BY <1>4
<1> QED
  BY <1>5

\* A non-empty set of positions of a sequence has a last one.
LEMMA SeqMax ==
    ASSUME NEW n \in Nat, NEW S \in SUBSET (1..n), S # {}
    PROVE  \E i \in S : \A j \in S : j <= i
<1> DEFINE D == {n - i : i \in S}
<1>1. D \subseteq Nat /\ D # {}
  <2>1. \A i \in S : i \in Int /\ 1 <= i /\ i <= n
    OBVIOUS
  <2>2. \A i \in S : n - i \in Nat
    BY <2>1
  <2> QED BY <2>2
<1>2. PICK d \in D : \A e \in D : d <= e
  BY <1>1, LeastOfNat
<1>3. PICK i \in S : d = n - i
  BY <1>2
<1>4. \A j \in S : n - j \in D
  OBVIOUS
<1> HIDE DEF D
<1> QED BY <1>2, <1>3, <1>4

\* What a concatenation holds.
LEMMA ConcatFacts ==
    ASSUME NEW T, NEW s \in Seq(T), NEW t \in Seq(T)
    PROVE  /\ s \o t \in Seq(T) /\ Len(s \o t) = Len(s) + Len(t)
           /\ \A i \in 1..(Len(s) + Len(t)) :
                (s \o t)[i] = IF i <= Len(s) THEN s[i] ELSE t[i - Len(s)]
OBVIOUS

\* What an append leaves.
LEMMA AppendFacts ==
    ASSUME NEW T, NEW s \in Seq(T), NEW e \in T
    PROVE  /\ Append(s, e) \in Seq(T)
           /\ Len(s) \in Nat /\ Len(Append(s, e)) = Len(s) + 1
           /\ Append(s, e)[Len(Append(s, e))] = e
OBVIOUS

\* A prefix is a sequence no longer than the whole.
LEMMA PrefixFacts ==
    ASSUME NEW T, NEW s \in Seq(T), NEW n \in Nat, n <= Len(s)
    PROVE  SubSeq(s, 1, n) \in Seq(T) /\ Len(SubSeq(s, 1, n)) = n
OBVIOUS

\* A sequence without its last element.
LEMMA FrontFacts ==
    ASSUME NEW T, NEW s \in Seq(T), Len(s) > 0
    PROVE  LET f == SubSeq(s, 1, Len(s) - 1)
           IN /\ f \in Seq(T) /\ Len(f) = Len(s) - 1
              /\ \A e \in 1..Len(f) : e \in 1..Len(s) /\ f[e] = s[e]
<1> DEFINE n == Len(s) - 1
           f == SubSeq(s, 1, n)
<1>1. n \in Nat /\ n <= Len(s) /\ Len(s) \in Nat
  OBVIOUS
<1>2. f \in Seq(T) /\ Len(f) = n
  <2> HIDE DEF n
  <2> QED BY <1>1, PrefixFacts
<1>3. ASSUME NEW e \in 1..n PROVE e \in 1..Len(s) /\ f[e] = s[e]
  OBVIOUS
<1> HIDE DEF f, n
<1>4. \A e \in 1..Len(f) : e \in 1..Len(s) /\ f[e] = s[e]
  BY <1>2, <1>3
<1> QED BY <1>2, <1>4 DEF f, n

\* A step past a inside the window a + 1 .. b.
LEMMA InWindow ==
    ASSUME NEW a \in Nat, NEW b \in Nat, NEW l \in Nat, b <= l,
           NEW n \in Int, n <= b - a, NEW i \in 1..n
    PROVE  a + i \in 1..l
OBVIOUS

USE DispatchAssumption

\* A table of sound candidates is what the invariant says of s_cand.
LEMMA SoundTable ==
    ASSUME Typed
    PROVE  GenerationsPast /\ ValidMeansUnchanged
             <=> \A i \in 1..Len(s_cand) : Sound(s_cand[i])
BY DEF GenerationsPast, ValidMeansUnchanged, Sound

LEMMA GensumType ==
    ASSUME Typed, NEW c \in Candidate
    PROVE  cand_gensum(c) \in Nat
BY DEF Typed, cand_gensum, Candidate

LEMMA KeepsTwice ==
    ASSUME NEW cs \in Seq(Candidate), NEW ds \in Seq(Candidate), NEW es \in Seq(Candidate),
           Keeps(cs, ds), Keeps(ds, es)
    PROVE  Keeps(cs, es)
<1>1. /\ Len(cs) \in Nat /\ Len(ds) \in Nat /\ Len(es) \in Nat
      /\ Len(cs) <= Len(ds) /\ Len(ds) <= Len(es)
  BY DEF Keeps
<1>2. \A i \in 1..Len(cs) : i \in 1..Len(ds)
  BY <1>1
<1> QED BY <1>1, <1>2 DEF Keeps

\* A candidate registered from a manifest is sound: it is hashed there and then.
LEMMA RegisteredSound ==
    ASSUME Typed, NEW f \in Fn
    PROVE  gcc_candidate(f) \in Candidate /\ Sound(gcc_candidate(f))
<1> DEFINE c == gcc_candidate(f)
<1>1. /\ c.addr = f.addr /\ c.img = f.img /\ c.val_gen = page_gen[PageOf[f.addr]]
      /\ c.state = (IF ram[f.addr] = f.img THEN "VALID" ELSE "INVALID")
  BY DEF gcc_candidate
<1>2. page_gen[PageOf[f.addr]] \in Nat
  BY DEF Typed, Fn
<1>3. c \in Candidate
  BY <1>2 DEF gcc_candidate, Candidate, Fn
<1>4. Sound(c)
  BY <1>1, <1>2 DEF Sound, cand_gensum, FastPath, LiveMatch
<1> QED BY <1>3, <1>4

\* Loading the DLLs of a region keeps every candidate sound.
LEMMA LoadedSound ==
    ASSUME Typed, NEW cs \in Seq(Candidate), \A i \in 1..Len(cs) : Sound(cs[i])
    PROVE  /\ Loaded(cs) \in Seq(Candidate)
           /\ \A i \in 1..Len(Loaded(cs)) : Sound(Loaded(cs)[i])
           /\ Keeps(cs, Loaded(cs))
<1> DEFINE n == Room(cs, s_cache_idx - s_loaded)
           fs == [i \in 1..n |-> Cache[s_loaded + i]]
           old == [i \in 1..Len(cs) |-> IF Obsoleted(cs[i], fs)
                       THEN [cs[i] EXCEPT !.state = "BLACKLIST"] ELSE cs[i]]
           new == [i \in 1..n |-> gcc_candidate(fs[i])]
           len == Len(cs)
<1>0. len \in Nat /\ DOMAIN cs = 1..len
  OBVIOUS
<1>1. /\ n \in Int /\ n <= s_cache_idx - s_loaded
      /\ s_loaded \in Nat /\ s_cache_idx \in Nat /\ s_cache_idx <= Len(Cache) /\ Len(Cache) \in Nat
  <2>1. /\ s_cache_idx \in Nat /\ s_loaded \in Nat /\ Len(Cache) \in Nat
        /\ s_loaded <= s_cache_idx /\ s_cache_idx <= Len(Cache)
    BY DEF Typed
  <2>2. n = IF len + (s_cache_idx - s_loaded) > CAND_CAP
            THEN CAND_CAP - len ELSE s_cache_idx - s_loaded
    BY DEF Room
  <2> HIDE DEF n, len
  <2> QED BY <2>1, <2>2, <1>0
<1>2. \A i \in 1..n : Cache[s_loaded + i] \in Fn
  <2> SUFFICES ASSUME NEW i \in 1..n PROVE Cache[s_loaded + i] \in Fn
    OBVIOUS
  <2> HIDE DEF n
  <2>1. s_loaded + i \in 1..Len(Cache)
    BY <1>1, InWindow
  <2> QED BY <2>1
<1>3. \A i \in 1..n : new[i] \in Candidate /\ Sound(new[i])
  BY <1>2, RegisteredSound
<1>4. ASSUME NEW i \in 1..len
      PROVE  /\ old[i] \in Candidate /\ Sound(old[i])
             /\ old[i].addr = cs[i].addr /\ old[i].img = cs[i].img
             /\ cs[i].state = "BLACKLIST" => old[i].state = "BLACKLIST"
  <2> DEFINE c == cs[i]
             b == [c EXCEPT !.state = "BLACKLIST"]
  <2>1. c \in Candidate /\ Sound(c)
    BY <1>0
  <2>2. b \in Candidate /\ b.addr = c.addr /\ b.img = c.img /\ b.val_gen = c.val_gen
        /\ b.state = "BLACKLIST"
    BY <2>1 DEF Candidate
  <2>3. Sound(b)
    BY <2>1, <2>2 DEF Sound, cand_gensum, FastPath, LiveMatch
  <2>4. old[i] = c \/ old[i] = b
    OBVIOUS
  <2> HIDE DEF b, old
  <2> QED BY <2>1, <2>2, <2>3, <2>4
<1>5. old \in Seq(Candidate) /\ Len(old) = len
  BY <1>0, <1>4
<1>6. \E m \in Nat : 1..n = 1..m
  <2>1. CASE n \in Nat BY <2>1
  <2>2. CASE n \notin Nat
    <3>1. 1..n = 1..0 BY <2>2, <1>1
    <3> QED BY <3>1
  <2> QED BY <2>1, <2>2
<1>7. PICK m \in Nat : 1..n = 1..m
  BY <1>6
<1>8. new \in Seq(Candidate) /\ Len(new) = m
  <2>1. new \in [1..m -> Candidate]
    BY <1>3, <1>7
  <2> HIDE DEF new
  <2> QED BY <2>1
<1>9. Loaded(cs) = old \o new
  BY DEF Loaded
<1> HIDE DEF old, new, n, fs, len
<1>10. /\ old \o new \in Seq(Candidate)
       /\ Len(old \o new) = len + m
       /\ \A i \in 1..(len + m) : (old \o new)[i] = IF i <= len THEN old[i] ELSE new[i - len]
  <2>1. /\ old \in Seq(Candidate) /\ new \in Seq(Candidate)
        /\ Len(old) = len /\ Len(new) = m /\ len \in Nat
    BY <1>5, <1>8, <1>0
  <2> QED BY <2>1, ConcatFacts
<1>11. ASSUME NEW i \in 1..(len + m) PROVE Sound((old \o new)[i])
  <2>1. CASE i <= len BY <2>1, <1>10, <1>4, <1>0
  <2>2. CASE ~ (i <= len)
    <3>0. i - len \in 1..m BY <2>2, <1>0
    <3>1. i - len \in 1..n BY <3>0, <1>7
    <3> QED BY <3>1, <2>2, <1>10, <1>3
  <2> QED BY <2>1, <2>2
<1>12. Keeps(cs, old \o new)
  <2>1. ASSUME NEW i \in 1..len PROVE (old \o new)[i] = old[i]
    <3>1. i \in 1..(len + m) /\ i <= len BY <1>0
    <3> QED BY <3>1, <1>10
  <2>2. Len(cs) = len /\ len <= Len(old \o new)
    <3>1. Len(cs) = len BY DEF len
    <3> QED BY <3>1, <1>10, <1>0
  <2> QED BY <2>1, <2>2, <1>4 DEF Keeps
<1> QED BY <1>9, <1>10, <1>11, <1>12

\* Without shards the miss block only loads DLLs.
LEMMA MissSound ==
    ASSUME Inv, DllsOnly, NEW a \in Addrs
    PROVE  /\ MissTable(a, FALSE) \in Seq(Candidate)
           /\ \A i \in 1..Len(MissTable(a, FALSE)) : Sound(MissTable(a, FALSE)[i])
           /\ Keeps(s_cand, MissTable(a, FALSE))
<1>1. s_cand \in Seq(Candidate) /\ Typed /\ \A i \in 1..Len(s_cand) : Sound(s_cand[i])
  BY SoundTable DEF Inv, Typed
<1>2. "sljit" \notin Features
  BY DEF DllsOnly
<1>3. MissTable(a, FALSE) = s_cand \/ MissTable(a, FALSE) = Loaded(s_cand)
  BY <1>2 DEF MissTable, AfterScan
<1>4. Keeps(s_cand, s_cand)
  BY <1>1 DEF Keeps
<1> QED BY <1>1, <1>3, <1>4, LoadedSound

\* The walk of a chain re-establishes soundness: what it marks VALID matched.
LEMMA WalkedSound ==
    ASSUME Typed, NEW cs \in Seq(Candidate), \A i \in 1..Len(cs) : Sound(cs[i]),
           NEW a \in Addrs
    PROVE  LET w == Walked(cs, a, Hit(cs, a))
           IN /\ w \in Seq(Candidate) /\ Len(w) = Len(cs)
              /\ \A i \in 1..Len(w) : Sound(w[i])
              /\ Keeps(cs, w)
              /\ Hit(cs, a) # 0 => /\ Hit(cs, a) \in 1..Len(cs)
                                   /\ LiveMatch(cs[Hit(cs, a)])
                                   /\ w[Hit(cs, a)].addr = cs[Hit(cs, a)].addr
                                   /\ w[Hit(cs, a)].img = cs[Hit(cs, a)].img
<1> DEFINE h == Hit(cs, a)
           w == Walked(cs, a, h)
           S == {i \in Chain(cs, a) : cs[i].state # "BLACKLIST" /\ Matched(cs[i])}
           len == Len(cs)
           u(i) == [cs[i] EXCEPT !.val_gen = cand_gensum(cs[i]),
                                 !.state = IF i = h THEN "VALID" ELSE "INVALID"]
<1>0. len \in Nat /\ DOMAIN cs = 1..len /\ \A i \in 1..len : cs[i] \in Candidate
  OBVIOUS
<1>1. h # 0 => h \in S
  <2>1. h = IF S = {} THEN 0 ELSE CHOOSE i \in S : \A j \in S : j <= i
    BY DEF Hit
  <2>2. ASSUME S # {} PROVE \E i \in S : \A j \in S : j <= i
    BY <2>2, SeqMax, <1>0 DEF Chain
  <2> HIDE DEF S, h
  <2> QED BY <2>1, <2>2
<1>2. h # 0 => h \in 1..len /\ LiveMatch(cs[h])
  BY <1>1 DEF Chain, Matched, Sound
<1>3. ASSUME NEW i \in 1..len
      PROVE  /\ u(i) \in Candidate /\ u(i).addr = cs[i].addr /\ u(i).img = cs[i].img
             /\ u(i).val_gen = cand_gensum(cs[i])
             /\ u(i).state = IF i = h THEN "VALID" ELSE "INVALID"
  <2>1. cs[i] \in Candidate /\ cand_gensum(cs[i]) \in Nat
    BY <1>0, GensumType
  <2> HIDE DEF h
  <2> QED BY <2>1 DEF Candidate
<1>4. ASSUME NEW i \in 1..len PROVE Sound(u(i))
  <2>1. cand_gensum(u(i)) = cand_gensum(cs[i]) /\ cand_gensum(cs[i]) \in Nat
    BY <1>3, <1>0, GensumType DEF cand_gensum
  <2>2. CASE i = h
    <3>1. LiveMatch(cs[i]) BY <1>2, <2>2, <1>0
    <3>2. LiveMatch(u(i)) BY <3>1, <1>3 DEF LiveMatch
    <3> HIDE DEF u, h
    <3> QED BY <3>2, <2>1, <1>3 DEF Sound
  <2>3. CASE i # h
    <3>1. u(i).state = "INVALID" BY <2>3, <1>3
    <3> HIDE DEF u, h
    <3> QED BY <3>1, <2>1, <1>3 DEF Sound, FastPath
  <2> QED BY <2>2, <2>3
<1>5. /\ w = [i \in 1..len |-> IF cs[i].addr # a \/ cs[i].state = "BLACKLIST" \/ i < h
                               THEN cs[i] ELSE u(i)]
  BY DEF Walked
<1>6. \A i \in 1..len : w[i] \in Candidate /\ Sound(w[i])
                        /\ w[i].addr = cs[i].addr /\ w[i].img = cs[i].img
  <2> SUFFICES ASSUME NEW i \in 1..len
      PROVE w[i] \in Candidate /\ Sound(w[i]) /\ w[i].addr = cs[i].addr /\ w[i].img = cs[i].img
    OBVIOUS
  <2>1. w[i] = cs[i] \/ w[i] = u(i)
    BY <1>5
  <2>2. Sound(cs[i]) OBVIOUS
  <2> HIDE DEF u, w, h
  <2> QED BY <2>1, <2>2, <1>3, <1>4, <1>0
<1>7. w \in Seq(Candidate) /\ Len(w) = len
  <2> HIDE DEF u, h
  <2> QED BY <1>5, <1>6, <1>0
<1>9. Keeps(cs, w)
  <2>1. \A i \in 1..len : cs[i].state = "BLACKLIST" => w[i] = cs[i]
    BY <1>5
  <2> HIDE DEF u, h, w, S
  <2> QED BY <2>1, <1>6, <1>7, <1>0 DEF Keeps
<1> HIDE DEF u, h, w, S
<1>8. h # 0 => h \in 1..len /\ LiveMatch(cs[h]) /\ w[h].addr = cs[h].addr /\ w[h].img = cs[h].img
  BY <1>2, <1>6
<1> QED BY <1>6, <1>7, <1>8, <1>9 DEF h, w

LEMMA InvInit == ASSUME DllsOnly PROVE Init => Inv
<1> SUFFICES ASSUME Init PROVE Inv
  OBVIOUS
<1>1. blobs = <<>> /\ s_cand = [i \in 1..Len(blobs) |-> sljit_candidate(blobs[i])]
  BY DEF Init, DllsOnly
<1>2. s_cand \in Seq(Candidate) /\ Len(s_cand) = 0
  BY <1>1
<1>3. Typed
  BY <1>2 DEF Init, Typed, NoExc
<1>4. GenerationsPast /\ ValidMeansUnchanged
  BY <1>2 DEF GenerationsPast, ValidMeansUnchanged
<1> QED BY <1>3, <1>4 DEF Inv

\* A step that touches neither RAM nor the table keeps every candidate sound.
LEMMA SameTable ==
    ASSUME Inv, UNCHANGED <<ram, page_gen, s_cand>>, Typed'
    PROVE  Inv'
BY DEF Inv, GenerationsPast, ValidMeansUnchanged, cand_gensum, FastPath, LiveMatch

\* A call: the chain is walked, and what is entered is live.
LEMMA DispatchStep ==
    ASSUME Inv, DllsOnly, NEW a \in Addrs, Dispatch(a)
    PROVE  /\ Inv' /\ UNCHANGED ram /\ Keeps(s_cand, s_cand')
           /\ Len(calls') > Len(calls) => LiveMatch(s_cand'[calls'[Len(calls')]])
           /\ \/ s_active' = s_active
              \/ \E h \in 1..Len(s_cand') :
                   s_active' = Append(s_active, h) /\ LiveMatch(s_cand'[h])
<1> DEFINE cs == MissTable(a, FALSE)
           h == Hit(cs, a)
           w == Walked(cs, a, h)
           route == IF h = 0 THEN "interp" ELSE Route(cs[h])
<1>1. /\ cs \in Seq(Candidate) /\ \A i \in 1..Len(cs) : Sound(cs[i])
      /\ Keeps(s_cand, cs)
  BY MissSound
<1>2. Typed BY DEF Inv
<1>3. /\ w \in Seq(Candidate) /\ Len(w) = Len(cs)
      /\ \A i \in 1..Len(w) : Sound(w[i])
      /\ Keeps(cs, w)
      /\ h # 0 => h \in 1..Len(cs) /\ LiveMatch(cs[h]) /\ w[h].addr = cs[h].addr
                  /\ w[h].img = cs[h].img
  <2> HIDE DEF cs
  <2> QED BY <1>1, <1>2, WalkedSound
<1>4. s_cand' = w /\ ram' = ram /\ page_gen' = page_gen
  BY DEF Dispatch
<1>5. /\ s_cache_idx' = s_cache_idx /\ s_loaded' \in 0..s_cache_idx
  <2>1. /\ s_cache_idx' = s_cache_idx
        /\ s_loaded' = s_cache_idx \/ s_loaded' = s_loaded
    BY DEF Dispatch, MissEffects, LoadedPaths
  <2>2. s_cache_idx \in Nat /\ s_loaded \in 0..s_cache_idx
    BY <1>2 DEF Typed
  <2> QED BY <2>1, <2>2
<1>6. ~ WantDiff(cs[h])
  BY DEF WantDiff, DllsOnly
<1>7. route # "shadow"
  <2> HIDE DEF h, cs
  <2> QED BY <1>6 DEF Route
<1>8. \/ UNCHANGED stacks
      \/ h # 0 /\ Enter(h)
  <2>1. \/ route = "interp" /\ UNCHANGED stacks
        \/ route = "native" /\ Enter(h)
        \/ route = "shadow" /\ BeginShadow(h)
    BY DEF Dispatch
  <2> HIDE DEF h, cs
  <2> QED BY <2>1, <1>7
<1> HIDE DEF cs, h, w, route
<1>9. /\ shadow' = shadow /\ exc' = exc
      /\ \/ calls' = calls
         \/ /\ h \in Nat /\ h # 0
            /\ calls' = Append(calls, h)
  BY <1>8, <1>3, <1>1 DEF stacks, Enter
<1>10. calls \in Seq(Nat)
  BY <1>2 DEF Typed
<1>11. calls' \in Seq(Nat) /\ Len(calls) <= Len(calls')
  <2>1. CASE calls' = calls
    BY <2>1, <1>10
  <2>2. CASE h \in Nat /\ calls' = Append(calls, h)
    BY <2>2, <1>10, AppendFacts
  <2> QED BY <2>1, <2>2, <1>9
<1>12. Typed'
  <2>1. exc' = NoExc \/ (exc' \in Excs /\ exc'.base <= Len(calls'))
    <3>1. exc = NoExc \/ (exc \in Excs /\ exc.base <= Len(calls))
      BY <1>2 DEF Typed
    <3>2. exc \in Excs => exc.base \in Nat
      BY DEF Excs
    <3>3. Len(calls) \in Nat /\ Len(calls') \in Nat
      BY <1>10, <1>11
    <3> QED BY <3>1, <3>2, <3>3, <1>11, <1>9
  <2> QED BY <2>1, <1>2, <1>3, <1>4, <1>5, <1>9, <1>11 DEF Typed
<1>13. \A i \in 1..Len(s_cand') : Sound(s_cand'[i])
  BY <1>3, <1>4
<1>14. (GenerationsPast /\ ValidMeansUnchanged)'
  BY <1>13, <1>4 DEF GenerationsPast, ValidMeansUnchanged, Sound, cand_gensum, FastPath, LiveMatch
<1>15. ASSUME Len(calls') > Len(calls)
       PROVE  LiveMatch(s_cand'[calls'[Len(calls')]])
  <2>1. h # 0 /\ calls' = Append(calls, h)
    BY <1>15, <1>9, <1>10
  <2>2. calls'[Len(calls')] = h
    BY <2>1, <1>9, <1>10, AppendFacts
  <2>3. LiveMatch(w[h])
    BY <2>1, <1>3 DEF LiveMatch
  <2> QED BY <2>2, <2>3, <1>4
<1>16. Keeps(s_cand, s_cand')
  <2>1. s_cand \in Seq(Candidate) BY <1>2 DEF Typed
  <2> QED BY <2>1, <1>1, <1>3, <1>4, KeepsTwice
<1>17. \/ s_active' = s_active
       \/ \E i \in 1..Len(s_cand') :
            s_active' = Append(s_active, i) /\ LiveMatch(s_cand'[i])
  <2>1. \/ s_active' = s_active
        \/ h # 0 /\ s_active' = Append(s_active, h)
    BY <1>8 DEF stacks, Enter
  <2>2. h # 0 => h \in 1..Len(w) /\ LiveMatch(w[h])
    BY <1>3 DEF LiveMatch
  <2> QED BY <2>1, <2>2, <1>4
<1> QED BY <1>4, <1>12, <1>14, <1>15, <1>16, <1>17 DEF Inv

\* A store to a watched page moves its generation past every recorded one; a
\* store to an unwatched page is under no candidate.
LEMMA StoreStep ==
    ASSUME Inv, NEW a \in Addrs, NEW img \in Images, Store(a, img)
    PROVE  Inv'
<1> DEFINE pg == PageOf[a]
           len == Len(s_cand)
<1>1. Typed /\ s_cand \in Seq(Candidate) /\ len \in Nat /\ pg \in Pages
  BY DEF Inv, Typed
<1>2. \A i \in 1..len : s_cand[i] \in Candidate /\ Sound(s_cand[i])
  BY <1>1, SoundTable DEF Inv
<1>3. /\ ram' = [ram EXCEPT ![a] = img] /\ UNCHANGED <<miss, stacks>>
  BY DEF Store
<1>4. CASE pg \in Watched
  <2> DEFINE b(i) == [s_cand[i] EXCEPT !.state = "BLACKLIST"]
  <2>1. /\ page_gen' = [page_gen EXCEPT ![pg] = @ + 1]
        /\ s_cand' = [i \in 1..len |-> IF Active(i) /\ s_cand[i].addr = a
                                       THEN b(i) ELSE s_cand[i]]
    BY <1>4 DEF Store, Bumped
  <2>2. ASSUME NEW i \in 1..len
        PROVE  /\ s_cand'[i] \in Candidate /\ s_cand'[i].addr = s_cand[i].addr
               /\ s_cand'[i].img = s_cand[i].img /\ s_cand'[i].val_gen = s_cand[i].val_gen
               /\ s_cand'[i].state = "VALID" => s_cand[i].state = "VALID"
    <3>1. s_cand[i] \in Candidate BY <1>2
    <3>2. /\ b(i) \in Candidate /\ b(i).addr = s_cand[i].addr /\ b(i).img = s_cand[i].img
          /\ b(i).val_gen = s_cand[i].val_gen /\ b(i).state = "BLACKLIST"
      BY <3>1 DEF Candidate
    <3>3. s_cand'[i] = b(i) \/ s_cand'[i] = s_cand[i]
      BY <2>1
    <3> HIDE DEF b
    <3> QED BY <3>1, <3>2, <3>3
  <2>3. s_cand' \in Seq(Candidate) /\ Len(s_cand') = len
    <3>1. s_cand' \in [1..len -> Candidate]
      BY <2>1, <2>2
    <3> HIDE DEF len
    <3> QED BY <3>1, <1>1
  <2>4. page_gen' \in [Pages -> Nat] /\ ram' \in [Addrs -> Images]
    BY <1>1, <1>3, <2>1 DEF Typed
  <2>5. Typed'
    BY <1>1, <1>3, <2>3, <2>4 DEF Typed, miss, stacks
  <2>6. ASSUME NEW i \in 1..len
        PROVE  /\ s_cand'[i].val_gen <= page_gen'[PageOf[s_cand'[i].addr]]
               /\ (/\ s_cand'[i].state = "VALID"
                   /\ page_gen'[PageOf[s_cand'[i].addr]] = s_cand'[i].val_gen)
                    => ram'[s_cand'[i].addr] = s_cand'[i].img
    <3> DEFINE c == s_cand[i]
               q == PageOf[c.addr]
    <3>1. c \in Candidate /\ Sound(c) BY <1>2
    <3>2. c.addr \in Addrs /\ q \in Pages /\ c.val_gen \in Nat /\ page_gen[q] \in Nat
          /\ c.val_gen <= page_gen[q]
      BY <3>1, <1>1 DEF Candidate, Typed, Sound, cand_gensum
    <3>3. c.state = "VALID" /\ page_gen[q] = c.val_gen => ram[c.addr] = c.img
      BY <3>1 DEF Sound, FastPath, LiveMatch, cand_gensum
    <3>4. page_gen \in [Pages -> Nat] /\ ram \in [Addrs -> Images]
      BY <1>1 DEF Typed
    <3>5. CASE q = pg
      <4>1. page_gen'[q] = page_gen[q] + 1
        BY <3>5, <2>1, <3>4, <3>2
      <4>2. page_gen'[q] # c.val_gen /\ c.val_gen <= page_gen'[q]
        <5> HIDE DEF c, q
        <5> QED BY <4>1, <3>2
      <4>3. s_cand'[i].addr = c.addr /\ s_cand'[i].val_gen = c.val_gen
        BY <2>2
      <4> HIDE DEF c
      <4> QED BY <4>2, <4>3
    <3>6. CASE q # pg
      <4>1. page_gen'[q] = page_gen[q] /\ c.addr # a
        BY <3>6, <2>1, <3>4, <3>2
      <4>2. ram'[c.addr] = ram[c.addr]
        BY <4>1, <1>3, <3>4, <3>2
      <4> HIDE DEF pg
      <4> QED BY <4>1, <4>2, <3>2, <3>3, <2>2
    <3> QED BY <3>5, <3>6
  <2>7. (GenerationsPast /\ ValidMeansUnchanged)'
    BY <2>6, <2>3 DEF GenerationsPast, ValidMeansUnchanged, cand_gensum, FastPath, LiveMatch
  <2> QED BY <2>5, <2>7 DEF Inv
<1>5. CASE pg \notin Watched
  <2>1. UNCHANGED <<page_gen, s_cand>>
    BY <1>5 DEF Store
  <2>2. \A i \in 1..len : s_cand[i].addr # a
    BY <1>5 DEF Watched
  <2>3. ram' \in [Addrs -> Images] /\ \A x \in Addrs : x # a => ram'[x] = ram[x]
    BY <1>1, <1>3 DEF Typed
  <2>4. Typed'
    BY <1>1, <1>3, <2>1, <2>3 DEF Typed, miss, stacks
  <2>5. \A i \in 1..len : ram'[s_cand[i].addr] = ram[s_cand[i].addr]
    BY <2>2, <2>3, <1>2 DEF Candidate
  <2>6. (GenerationsPast /\ ValidMeansUnchanged)'
    BY <2>1, <2>5, <1>1 DEF Inv, GenerationsPast, ValidMeansUnchanged, cand_gensum, FastPath, LiveMatch
  <2> QED BY <2>4, <2>6 DEF Inv
<1> QED BY <1>4, <1>5

\* The steps that leave RAM and the table alone.
LEMMA OtherStep ==
    ASSUME Inv, DllsOnly, Next,
           ~ \E a \in Addrs : Dispatch(a),
           ~ \E a \in Addrs, img \in Images : Store(a, img)
    PROVE  /\ UNCHANGED <<ram, page_gen, s_cand>> /\ Typed'
           /\ Len(calls') <= Len(calls)
           /\ \/ s_active' = s_active
              \/ Len(s_active) > 0 /\ s_active' = SubSeq(s_active, 1, Len(s_active) - 1)
<1>1. /\ Typed /\ calls \in Seq(Nat) /\ Len(calls) \in Nat /\ ~ InShadow
      /\ s_cache_idx \in Nat /\ s_loaded \in 0..s_cache_idx
      /\ exc = NoExc \/ (exc \in Excs /\ exc.base \in Nat /\ exc.base <= Len(calls))
  <2>1. Typed BY DEF Inv
  <2>2. calls \in Seq(Nat) /\ Len(calls) \in Nat
    BY <2>1 DEF Typed
  <2>3. ~ InShadow
    BY <2>1 DEF Typed, InShadow, NoShadow
  <2>4. s_cache_idx \in Nat /\ s_loaded \in 0..s_cache_idx
    BY <2>1 DEF Typed
  <2>5. exc = NoExc \/ (exc \in Excs /\ exc.base <= Len(calls))
    BY <2>1 DEF Typed
  <2>6. exc \in Excs => exc.base \in Nat
    BY DEF Excs
  <2> QED BY <2>1, <2>2, <2>3, <2>4, <2>5, <2>6
<1>2. CASE Return
  <2> DEFINE n == Len(calls) - 1
  <2>1. /\ Len(calls) > Floor /\ calls' = SubSeq(calls, 1, n)
        /\ UNCHANGED <<ram, page_gen, s_cand, miss, shadow, exc>>
        /\ \/ s_active' = s_active
           \/ Len(s_active) > 0 /\ s_active' = SubSeq(s_active, 1, Len(s_active) - 1)
    BY <1>2 DEF Return
  <2>a. Floor = (IF (IF InException THEN exc.base ELSE 0) > 0
                  THEN (IF InException THEN exc.base ELSE 0) ELSE 0)
    BY <1>1 DEF Floor, ShadowRunning
  <2>b. InException => exc \in Excs /\ exc.base \in Nat
    BY <1>1 DEF InException, NoExc
  <2>2. InException => exc.base \in Nat /\ exc.base <= n
    BY <1>1, <2>1, <2>a, <2>b
  <2>3. Len(calls) > 0
    BY <1>1, <2>1, <2>a, <2>b
  <2>4. n \in Nat /\ n <= Len(calls)
    BY <1>1, <2>3
  <2> HIDE DEF n
  <2>5. calls' \in Seq(Nat) /\ Len(calls') = n
    BY <2>1, <2>4, <1>1, PrefixFacts
  <2>c. exc # NoExc => InException
    BY <1>1 DEF InException, Excs
  <2>6. exc' = NoExc \/ (exc' \in Excs /\ exc'.base <= Len(calls'))
    BY <2>1, <2>2, <2>5, <2>b, <2>c
  <2> QED BY <2>1, <2>4, <2>5, <2>6, <1>1 DEF Typed, miss
<1>3. CASE TakeException
  <2>1. /\ exc' = [in |-> TRUE, base |-> Len(calls), shadow |-> InShadow]
        /\ UNCHANGED <<ram, page_gen, s_cand, miss, calls, s_active, shadow>>
    BY <1>3 DEF TakeException
  <2>2. exc' \in Excs /\ exc'.base = Len(calls)
    BY <2>1, <1>1 DEF Excs, InShadow
  <2> QED BY <2>1, <2>2, <1>1 DEF Typed, miss
<1>4. CASE ReturnFromException
  <2>1. /\ InException /\ calls' = SubSeq(calls, 1, exc.base) /\ exc' = NoExc
        /\ UNCHANGED <<ram, page_gen, s_cand, miss, s_active, shadow>>
    BY <1>4, <1>1 DEF ReturnFromException
  <2>2. exc.base \in Nat /\ exc.base <= Len(calls)
    BY <2>1, <1>1 DEF InException, NoExc
  <2>3. calls' \in Seq(Nat) /\ Len(calls') <= Len(calls)
    BY <2>1, <2>2, <1>1, PrefixFacts
  <2> QED BY <2>1, <2>3, <1>1 DEF Typed, miss
<1>5. CASE Yield
  <2>1. /\ calls' = <<>> /\ ~ InException
        /\ UNCHANGED <<ram, page_gen, s_cand, miss, s_active, shadow, exc>>
    BY <1>5, <1>1 DEF Yield, Unwind
  <2>2. exc = NoExc
    BY <2>1, <1>1 DEF InException, Excs
  <2>3. calls' \in Seq(Nat) /\ Len(calls') = 0
    BY <2>1
  <2> QED BY <2>1, <2>2, <2>3, <1>1 DEF Typed, miss
<1>6. CASE \E n \in 1..Len(Cache) : Rescan(n)
  <2>1. PICK n \in 1..Len(Cache) : Rescan(n)
    BY <1>6
  <2>2. /\ s_cache_idx' = s_cache_idx + n /\ s_cache_idx + n <= Len(Cache)
        /\ UNCHANGED <<ram, page_gen, s_cand, s_loaded, calls, s_active, shadow, exc>>
    BY <2>1 DEF Rescan, stacks
  <2>3. s_cache_idx' \in 0..Len(Cache) /\ s_loaded' \in 0..s_cache_idx'
    BY <2>2, <1>1
  <2> QED BY <2>2, <2>3, <1>1 DEF Typed
<1>7. CASE \E f \in missed : Publish(f)
  BY <1>7, <1>1 DEF Publish, stacks, Typed
<1>8. ~ \E a \in Addrs : DispatchInterior(a)
  BY DEF DispatchInterior, DllsOnly
<1>9. ~ \E r \in [Addrs -> Images] : StateLoad(r)
  BY DEF StateLoad, DllsOnly
<1>10. ~ ShadowTouch /\ ~ ShadowInterpDone /\ ~ \E same \in BOOLEAN : ShadowNativeDone(same)
  BY <1>1 DEF ShadowTouch, ShadowInterpDone, ShadowNativeDone, ShadowRunning
<1> QED
  BY <1>2, <1>3, <1>4, <1>5, <1>6, <1>7, <1>8, <1>9, <1>10 DEF Next

LEMMA InvStep == ASSUME Inv, DllsOnly, [Next]_vars PROVE Inv'
<1>1. CASE \E a \in Addrs : Dispatch(a)
  BY <1>1, DispatchStep
<1>2. CASE \E a \in Addrs, img \in Images : Store(a, img)
  BY <1>2, StoreStep
<1>3. CASE Next /\ ~ (\E a \in Addrs : Dispatch(a))
           /\ ~ (\E a \in Addrs, img \in Images : Store(a, img))
  BY <1>3, OtherStep, SameTable
<1>4. CASE UNCHANGED vars
  <2>1. Typed'
    BY <1>4 DEF vars, miss, stacks, Inv, Typed
  <2> QED BY <2>1, <1>4, SameTable DEF vars
<1> QED BY <1>1, <1>2, <1>3, <1>4

\* The fast path of overlay_loader_dispatch never trusts stale bytes: an entry
\* that is VALID at the current generation has its image in RAM.
THEOREM FastPathIsSound ==
    ASSUME DllsOnly
    PROVE  Spec => []ValidMeansUnchanged
<1>1. Init => Inv
  BY InvInit
<1>2. Inv /\ [Next]_vars => Inv'
  BY InvStep
<1>3. Inv => ValidMeansUnchanged
  BY DEF Inv
<1> QED
  BY <1>1, <1>2, <1>3, PTL DEF Spec

\* Native code is entered only when RAM holds the bytes it was compiled from.
THEOREM DispatchIsSound ==
    ASSUME DllsOnly
    PROVE  Spec => EntersLiveCode
<1>1. Init => Inv
  BY InvInit
<1>2. Inv /\ [Next]_vars => Inv'
  BY InvStep
<1>3. Inv /\ [Next]_vars =>
        [Len(calls') > Len(calls) => LiveMatch(s_cand'[calls'[Len(calls')]])]_vars
  <2> SUFFICES ASSUME Inv, Next, Len(calls') > Len(calls)
               PROVE  LiveMatch(s_cand'[calls'[Len(calls')]])
    OBVIOUS
  <2>1. CASE \E a \in Addrs : Dispatch(a)
    BY <2>1, DispatchStep
  <2>2. CASE \E a \in Addrs, img \in Images : Store(a, img)
    BY <2>2 DEF Store, stacks, Inv, Typed
  <2>3. CASE ~ (\E a \in Addrs : Dispatch(a))
             /\ ~ (\E a \in Addrs, img \in Images : Store(a, img))
    <3>1. Len(calls') <= Len(calls) /\ Typed' /\ Typed
      BY <2>3, OtherStep DEF Inv
    <3>2. Len(calls') \in Nat /\ Len(calls) \in Nat
      BY <3>1 DEF Typed
    <3> QED BY <3>1, <3>2
  <2> QED BY <2>1, <2>2, <2>3
<1> QED
  BY <1>1, <1>2, <1>3, PTL DEF Spec, EntersLiveCode

\* A store under an active entry blacklists it: its page is watched since the
\* entry was registered, and the check compares every slot of the stack.
LEMMA ActiveStore ==
    ASSUME Inv, ActiveInv, NEW a \in Addrs, NEW img \in Images, Store(a, img)
    PROVE  ActiveInv'
<1>1. s_cand \in Seq(Candidate) /\ Len(s_cand) \in Nat /\ ram \in [Addrs -> Images]
  BY DEF Inv, Typed
<1>2. s_active' = s_active /\ ram' = [ram EXCEPT ![a] = img]
  BY DEF Store, stacks
<1>3. Len(s_cand') = Len(s_cand)
  BY <1>1 DEF Store
<1>4. ASSUME NEW e \in 1..Len(s_active) PROVE Fresh(s_cand[s_active[e]])'
  <2> DEFINE i == s_active[e]
             c == s_cand[i]
             b == [c EXCEPT !.state = "BLACKLIST"]
  <2>1. i \in 1..Len(s_cand) /\ c \in Candidate /\ Fresh(c) /\ Active(i)
    BY <1>1 DEF ActiveInv, Active
  <2>2. c.addr \in Addrs /\ PageOf[c.addr] \in Watched
    BY <2>1 DEF Candidate, Watched
  <2>3. /\ b.state = "BLACKLIST" /\ b \in Candidate
    BY <2>1 DEF Candidate
  <2>4. s_cand'[i] = c \/ s_cand'[i] = b
    BY <2>1 DEF Store
  <2>5. CASE c.addr = a
    <3>1. s_cand'[i] = b
      BY <2>5, <2>1, <2>2 DEF Store
    <3> QED BY <3>1, <2>3, <1>2 DEF Fresh
  <2>6. CASE c.addr # a
    <3>1. ram'[c.addr] = ram[c.addr]
      BY <2>6, <2>2, <1>1, <1>2
    <3> HIDE DEF b, c
    <3> QED BY <3>1, <2>1, <2>3, <2>4, <1>2 DEF Fresh, LiveMatch, c
  <2> QED BY <2>5, <2>6
<1> QED BY <1>2, <1>3, <1>4 DEF ActiveInv

\* A call pushes a live entry, and nothing revives a blacklisted one.
LEMMA ActiveDispatch ==
    ASSUME Inv, ActiveInv, DllsOnly, NEW a \in Addrs, Dispatch(a)
    PROVE  ActiveInv'
<1>1. /\ Inv' /\ ram' = ram /\ Keeps(s_cand, s_cand')
      /\ \/ s_active' = s_active
         \/ \E h \in 1..Len(s_cand') :
              s_active' = Append(s_active, h) /\ LiveMatch(s_cand'[h])
  BY DispatchStep
<1>2. Len(s_cand) \in Nat /\ Len(s_cand') \in Nat
  BY <1>1 DEF Inv, Typed
<1>3. ASSUME NEW e \in 1..Len(s_active)
      PROVE  s_active[e] \in 1..Len(s_cand') /\ Fresh(s_cand'[s_active[e]])
  <2>1. s_active[e] \in 1..Len(s_cand) /\ Fresh(s_cand[s_active[e]])
    BY DEF ActiveInv
  <2> QED BY <2>1, <1>1, <1>2 DEF Keeps, Fresh, LiveMatch
<1>4. s_active \in Seq(Nat) /\ Len(s_active) \in Nat
  BY DEF ActiveInv
<1>5. CASE s_active' = s_active
  BY <1>5, <1>3, <1>4, <1>1 DEF ActiveInv, Fresh, LiveMatch
<1>6. ASSUME NEW h \in 1..Len(s_cand'),
             s_active' = Append(s_active, h), LiveMatch(s_cand'[h])
      PROVE  ActiveInv'
  <2>1. h \in Nat BY <1>2
  <2>2. /\ s_active' \in Seq(Nat) /\ Len(s_active') = Len(s_active) + 1
        /\ \A e \in 1..Len(s_active) : s_active'[e] = s_active[e]
        /\ s_active'[Len(s_active) + 1] = h
    BY <2>1, <1>6, <1>4
  <2>3. ASSUME NEW e \in 1..Len(s_active')
        PROVE  s_active'[e] \in 1..Len(s_cand') /\ Fresh(s_cand'[s_active'[e]])
    <3>1. CASE e \in 1..Len(s_active)
      BY <3>1, <2>2, <1>3
    <3>2. CASE e = Len(s_active) + 1
      BY <3>2, <2>2, <1>6 DEF Fresh
    <3> QED BY <3>1, <3>2, <2>2, <1>4
  <2> QED BY <2>2, <2>3, <1>1 DEF ActiveInv, Fresh, LiveMatch
<1> QED BY <1>1, <1>5, <1>6

\* overlay_loader_active_write_check does its job: native code that s_active_stack
\* knows of and that is still on the C stack is what RAM holds, or was blacklisted
\* when the guest overwrote it.
THEOREM ActiveCodeIsLive ==
    ASSUME DllsOnly
    PROVE  Spec => []NativeRunsLiveCode
<1>1. Init => Inv /\ ActiveInv
  <2>1. Init => s_active = <<>>
    BY DEF Init
  <2> QED BY <2>1, InvInit DEF ActiveInv
<1>2. Inv /\ ActiveInv /\ [Next]_vars => Inv' /\ ActiveInv'
  <2> SUFFICES ASSUME Inv, ActiveInv, [Next]_vars PROVE ActiveInv'
    BY InvStep
  <2>1. CASE \E a \in Addrs : Dispatch(a)
    BY <2>1, ActiveDispatch
  <2>2. CASE \E a \in Addrs, img \in Images : Store(a, img)
    BY <2>2, ActiveStore
  <2>3. CASE Next /\ ~ (\E a \in Addrs : Dispatch(a))
             /\ ~ (\E a \in Addrs, img \in Images : Store(a, img))
    <3>1. /\ ram' = ram /\ s_cand' = s_cand
          /\ \/ s_active' = s_active
             \/ Len(s_active) > 0 /\ s_active' = SubSeq(s_active, 1, Len(s_active) - 1)
      BY <2>3, OtherStep
    <3>2. CASE s_active' = s_active
      BY <3>1, <3>2 DEF ActiveInv, Fresh, LiveMatch
    <3>3. CASE Len(s_active) > 0 /\ s_active' = SubSeq(s_active, 1, Len(s_active) - 1)
      <4>1. /\ s_active' \in Seq(Nat) /\ Len(s_active') = Len(s_active) - 1
            /\ \A e \in 1..Len(s_active') : e \in 1..Len(s_active) /\ s_active'[e] = s_active[e]
        BY <3>3, FrontFacts DEF ActiveInv
      <4> QED BY <4>1, <3>1 DEF ActiveInv, Fresh, LiveMatch
    <3> QED BY <3>1, <3>2, <3>3
  <2>4. CASE UNCHANGED vars
    BY <2>4 DEF vars, stacks, ActiveInv, Fresh, LiveMatch
  <2> QED BY <2>1, <2>2, <2>3, <2>4
<1>3. ActiveInv => NativeRunsLiveCode
  BY DEF ActiveInv, NativeRunsLiveCode, Fresh
<1> QED
  BY <1>1, <1>2, <1>3, PTL DEF Spec

----------------------------------------------------------------------------
(* What holds in every session, whatever its features. *)

\* A shadow that runs inside an exception dispatch was running when the dispatch
\* armed its frame: none is begun inside one.
EscapeInv ==
    /\ escapes = 0
    /\ InException /\ InShadow => exc.shadow

\* A dispatch inside an exception begins no shadow.
LEMMA ShadowOutsideException ==
    ASSUME EscapeInv, NEW a \in Addrs, Dispatch(a)
    PROVE  EscapeInv'
<1> DEFINE h == Hit(MissTable(a, FALSE), a)
           c == MissTable(a, FALSE)[h]
           route == IF h = 0 THEN "interp" ELSE Route(c)
<1>1. \/ route = "interp" /\ UNCHANGED stacks
      \/ route = "native" /\ Enter(h)
      \/ route = "shadow" /\ BeginShadow(h)
  BY DEF Dispatch
<1>2. route = "shadow" => ~ InException
  <2> HIDE DEF h, c
  <2> QED BY DEF Route
<1> HIDE DEF route, h, c
<1>3. escapes' = escapes /\ exc' = exc
  BY <1>1 DEF stacks, Enter, BeginShadow
<1>4. shadow' = shadow \/ ~ InException
  BY <1>1, <1>2 DEF stacks, Enter
<1> QED BY <1>3, <1>4 DEF EscapeInv, InException, InShadow

LEMMA EscapeStep == ASSUME EscapeInv, [Next]_vars PROVE EscapeInv'
<1> USE DEF EscapeInv, InException, InShadow
<1>1. CASE \E a \in Addrs : Dispatch(a)
  BY <1>1, ShadowOutsideException
<1>2. CASE \E a \in Addrs : DispatchInterior(a)
  <2>1. PICK a \in Addrs : DispatchInterior(a) BY <1>2
  <2>2. UNCHANGED <<shadow, exc, escapes>>
    BY <2>1 DEF DispatchInterior, Enter, stacks
  <2> QED BY <2>2
<1>3. CASE Return
  BY <1>3 DEF Return
<1>4. CASE \E a \in Addrs, img \in Images : Store(a, img)
  BY <1>4 DEF Store, stacks
<1>5. CASE ShadowTouch \/ ShadowInterpDone \/ \E same \in BOOLEAN : ShadowNativeDone(same)
  <2>1. InShadow /\ exc' = exc /\ escapes' = escapes
    BY <1>5 DEF ShadowTouch, ShadowInterpDone, ShadowNativeDone, ShadowRunning
  <2> QED BY <2>1
<1>6. CASE TakeException
  BY <1>6 DEF TakeException
<1>7. CASE ReturnFromException
  <2>1. exc' = NoExc BY <1>7 DEF ReturnFromException
  <2>2. ~ exc'.in BY <2>1 DEF NoExc
  <2>3. escapes' = escapes BY <1>7 DEF ReturnFromException
  <2> QED BY <2>2, <2>3
<1>8. CASE Unwind
  BY <1>8 DEF Unwind
<1>9. CASE \E n \in 1..Len(Cache) : Rescan(n)
  BY <1>9 DEF Rescan, stacks
<1>10. CASE \E f \in missed : Publish(f)
  BY <1>10 DEF Publish, stacks
<1>11. CASE UNCHANGED vars
  BY <1>11 DEF vars, stacks
<1> QED
  BY <1>1, <1>2, <1>3, <1>4, <1>5, <1>6, <1>7, <1>8, <1>9, <1>10, <1>11
  DEF Next, Yield, StateLoad

\* An exception return never unwinds a live shadow run, in any build and with any
\* setting: overlay_loader_shadow_escape_fixup finds nothing to fix.
THEOREM ShadowsAreNotUnwound == Spec => []NoShadowEscape
<1>1. Init => EscapeInv
  BY DEF Init, EscapeInv, NoExc, InException
<1>2. EscapeInv /\ [Next]_vars => EscapeInv'
  BY EscapeStep
<1>3. EscapeInv => NoShadowEscape
  BY DEF EscapeInv, NoShadowEscape
<1> QED
  BY <1>1, <1>2, <1>3, PTL DEF Spec

\* A candidate has at most its budget of clean passes.
Fit == {c \in Candidate : c.passes <= BUDGET}

\* What the trust in a candidate rests on.
SameTrust(c, d) ==
    d.addr = c.addr /\ d.gcc = c.gcc /\ d.passes = c.passes /\ d.touch = c.touch

\* The tables and the memory, in any session.
TableInv ==
    /\ ram \in [Addrs -> Images]
    /\ page_gen \in [Pages -> Nat]
    /\ s_cand \in Seq(Fit)
    /\ s_cache_idx \in 0..Len(Cache) /\ s_loaded \in 0..s_cache_idx
    /\ blobs \in Seq(Fn) /\ s_blobs \in 0..Len(blobs)
    /\ missed \subseteq Fn

\* The frames on the C stack; the setjmp frame of an exception is one of them.
FrameInv ==
    /\ calls \in Seq(1..Len(s_cand)) /\ s_active \in Seq(1..Len(s_cand))
    /\ shadow \in Shadows \cup {NoShadow}
    /\ exc = NoExc \/ (exc \in Excs /\ exc.base <= Len(calls))

FlagInv ==
    s_checked \in BOOLEAN /\ dirty \in BOOLEAN /\ s_native_exec \in BOOLEAN /\ escapes \in Nat

SessionInv == TableInv /\ FrameInv /\ FlagInv

LEMMA FitCandidate ==
    ASSUME TableInv, NEW c \in Fit
    PROVE  /\ c \in Candidate /\ c.addr \in Addrs /\ c.passes \in Nat /\ c.passes <= BUDGET
           /\ cand_gensum(c) \in Nat
<1>1. c \in Candidate /\ c.passes <= BUDGET
  BY DEF Fit
<1>2. c.addr \in Addrs /\ c.passes \in Nat
  BY <1>1 DEF Candidate
<1>3. cand_gensum(c) \in Nat
  BY <1>2 DEF TableInv, cand_gensum
<1> QED BY <1>1, <1>2, <1>3

\* Marking a candidate leaves its trust alone.
LEMMA MarkedFit ==
    ASSUME TableInv, NEW c \in Fit, NEW g \in Nat, NEW s \in {"VALID", "INVALID", "BLACKLIST"}
    PROVE  LET d == [c EXCEPT !.val_gen = g, !.state = s]
           IN d \in Fit /\ SameTrust(c, d)
<1> DEFINE d == [c EXCEPT !.val_gen = g, !.state = s]
<1>1. c \in Candidate /\ c.passes <= BUDGET
  BY FitCandidate
<1>2. d \in Candidate /\ SameTrust(c, d)
  BY <1>1 DEF Candidate, SameTrust
<1> HIDE DEF d
<1>3. d \in Fit /\ SameTrust(c, d)
  BY <1>1, <1>2 DEF Fit, SameTrust
<1> QED BY <1>3 DEF d

LEMMA BlacklistedFit ==
    ASSUME NEW c \in Fit
    PROVE  [c EXCEPT !.state = "BLACKLIST"] \in Fit
<1> DEFINE d == [c EXCEPT !.state = "BLACKLIST"]
<1>1. c \in Candidate /\ c.passes <= BUDGET
  BY DEF Fit
<1>2. d \in Candidate /\ d.passes = c.passes
  BY <1>1 DEF Candidate
<1> HIDE DEF d
<1>3. d \in Fit
  BY <1>1, <1>2 DEF Fit
<1> QED BY <1>3 DEF d

\* A new candidate starts without a pass.
LEMMA NewFit ==
    ASSUME TableInv, NEW f \in Fn
    PROVE  sljit_candidate(f) \in Fit /\ gcc_candidate(f) \in Fit
<1>1. page_gen[PageOf[f.addr]] \in Nat
  BY DEF TableInv, Fn
<1>2. sljit_candidate(f) \in Candidate /\ sljit_candidate(f).passes = 0
  BY <1>1 DEF sljit_candidate, Candidate, Fn
<1>3. gcc_candidate(f) \in Candidate /\ gcc_candidate(f).passes = 0
  BY <1>1 DEF gcc_candidate, Candidate, Fn
<1> QED BY <1>2, <1>3 DEF Fit

LEMMA SeqOfFunction ==
    ASSUME NEW T, NEW m \in Nat, NEW g \in [1..m -> T]
    PROVE  g \in Seq(T) /\ Len(g) = m
OBVIOUS

LEMMA ConcatGrows ==
    ASSUME NEW T, NEW s \in Seq(T), NEW t \in Seq(T)
    PROVE  s \o t \in Seq(T) /\ Len(s) <= Len(s \o t)
OBVIOUS

\* A table extended by what there is room for, which may be nothing.
LEMMA Extended ==
    ASSUME NEW T, NEW cs \in Seq(T), NEW n \in Int, NEW g,
           g = [i \in 1..n |-> g[i]], \A i \in 1..n : g[i] \in T
    PROVE  cs \o g \in Seq(T) /\ Len(cs) <= Len(cs \o g)
<1>1. \E m \in Nat : 1..n = 1..m
  <2>1. CASE n \in Nat BY <2>1
  <2>2. CASE n \notin Nat
    <3>1. 1..n = 1..0 BY <2>2
    <3> QED BY <3>1
  <2> QED BY <2>1, <2>2
<1>2. PICK m \in Nat : 1..n = 1..m
  BY <1>1
<1>3. g \in [1..m -> T]
  BY <1>2
<1>4. g \in Seq(T)
  BY <1>3, SeqOfFunction, Zenon
<1> QED BY <1>4, ConcatGrows, Zenon

LEMMA RoomBound ==
    ASSUME NEW cs \in Seq(Fit), NEW n \in Int
    PROVE  Room(cs, n) \in Int /\ Room(cs, n) <= n
<1>1. Len(cs) \in Nat
  OBVIOUS
<1> QED BY <1>1 DEF Room

LEMMA ScannedFit ==
    ASSUME TableInv, NEW cs \in Seq(Fit)
    PROVE  Scanned(cs) \in Seq(Fit) /\ Len(cs) <= Len(Scanned(cs))
<1> DEFINE n == Room(cs, Len(blobs) - s_blobs)
           g == [i \in 1..n |-> sljit_candidate(blobs[s_blobs + i])]
<1>1. blobs \in Seq(Fn) /\ Len(blobs) \in Nat /\ s_blobs \in Nat /\ s_blobs <= Len(blobs)
  BY DEF TableInv
<1>2. n \in Int /\ n <= Len(blobs) - s_blobs
  <2>1. Len(blobs) - s_blobs \in Int BY <1>1
  <2> QED BY <2>1, RoomBound
<1>3. Scanned(cs) = cs \o g
  BY DEF Scanned
<1> HIDE DEF n
<1>4. ASSUME NEW i \in 1..n PROVE g[i] \in Fit
  <2>1. s_blobs + i \in 1..Len(blobs)
    BY <1>1, <1>2, InWindow
  <2>2. blobs[s_blobs + i] \in Fn
    BY <2>1, <1>1
  <2> QED BY <2>2, NewFit
<1>5. g = [i \in 1..n |-> g[i]]
  OBVIOUS
<1> HIDE DEF g
<1> QED BY <1>2, <1>3, <1>4, <1>5, Extended

LEMMA LoadedFit ==
    ASSUME TableInv, NEW cs \in Seq(Fit)
    PROVE  Loaded(cs) \in Seq(Fit) /\ Len(cs) <= Len(Loaded(cs))
<1> DEFINE n == Room(cs, s_cache_idx - s_loaded)
           fs == [i \in 1..n |-> Cache[s_loaded + i]]
           len == Len(cs)
           old == [i \in 1..len |-> IF Obsoleted(cs[i], fs)
                       THEN [cs[i] EXCEPT !.state = "BLACKLIST"] ELSE cs[i]]
           new == [i \in 1..n |-> gcc_candidate(fs[i])]
<1>1. /\ s_cache_idx \in Nat /\ s_loaded \in Nat /\ Len(Cache) \in Nat
      /\ s_loaded <= s_cache_idx /\ s_cache_idx <= Len(Cache)
  BY DEF TableInv
<1>2. n \in Int /\ n <= s_cache_idx - s_loaded
  <2>1. s_cache_idx - s_loaded \in Int BY <1>1
  <2> QED BY <2>1, RoomBound
<1>3. Loaded(cs) = old \o new
  BY DEF Loaded
<1>4. ASSUME NEW i \in 1..n PROVE new[i] \in Fit
  <2> HIDE DEF n
  <2>1. s_loaded + i \in 1..Len(Cache)
    BY <1>1, <1>2, InWindow
  <2>2. Cache[s_loaded + i] \in Fn
    BY <2>1
  <2> QED BY <2>2, NewFit
<1>5. len \in Nat /\ \A i \in 1..len : cs[i] \in Fit
  OBVIOUS
<1>6. ASSUME NEW i \in 1..len PROVE old[i] \in Fit
  <2>1. old[i] = cs[i] \/ old[i] = [cs[i] EXCEPT !.state = "BLACKLIST"]
    OBVIOUS
  <2>2. cs[i] \in Fit BY <1>5
  <2> HIDE DEF old
  <2> QED BY <2>1, <2>2, BlacklistedFit
<1>7. old \in Seq(Fit) /\ Len(old) = len
  <2>1. old \in [1..len -> Fit] BY <1>6
  <2> HIDE DEF old, len
  <2> QED BY <2>1, <1>5
<1>8. new = [i \in 1..n |-> new[i]]
  OBVIOUS
<1> HIDE DEF old, new, n, fs
<1>9. old \o new \in Seq(Fit) /\ Len(old) <= Len(old \o new)
  BY <1>2, <1>4, <1>7, <1>8, Extended
<1> QED BY <1>3, <1>7, <1>9

\* The miss block, for an entry or an interior.
LEMMA MissFit ==
    ASSUME TableInv, NEW a \in Addrs, NEW interior \in BOOLEAN
    PROVE  /\ MissTable(a, interior) \in Seq(Fit)
           /\ Len(s_cand) <= Len(MissTable(a, interior))
<1> DEFINE ns == interior \/ Chain(s_cand, a) = {}
           cs == AfterScan(ns)
           nc == interior \/ Chain(cs, a) = {}
<1>1. s_cand \in Seq(Fit) /\ Len(s_cand) \in Nat
  BY DEF TableInv
<1>2. cs = s_cand \/ cs = Scanned(s_cand)
  BY DEF AfterScan
<1>3. MissTable(a, interior) = IF LoadDue(nc) THEN Loaded(cs) ELSE cs
  BY DEF MissTable
<1> HIDE DEF cs, nc
<1>4. cs \in Seq(Fit) /\ Len(cs) \in Nat /\ Len(s_cand) <= Len(cs)
  BY <1>1, <1>2, ScannedFit
<1>5. Loaded(cs) \in Seq(Fit) /\ Len(cs) <= Len(Loaded(cs)) /\ Len(Loaded(cs)) \in Nat
  BY <1>4, LoadedFit
<1> QED BY <1>1, <1>3, <1>4, <1>5

\* The walk of a chain marks entries and leaves their trust alone.
LEMMA WalkedFit ==
    ASSUME TableInv, NEW cs \in Seq(Fit), NEW a \in Addrs
    PROVE  LET h == Hit(cs, a)
               w == Walked(cs, a, h)
           IN /\ w \in Seq(Fit) /\ Len(w) = Len(cs)
              /\ h # 0 => h \in 1..Len(cs) /\ SameTrust(cs[h], w[h])
<1> DEFINE h == Hit(cs, a)
           w == Walked(cs, a, h)
           S == {i \in Chain(cs, a) : cs[i].state # "BLACKLIST" /\ Matched(cs[i])}
           len == Len(cs)
           st(i) == IF i = h THEN "VALID" ELSE "INVALID"
           u(i) == [cs[i] EXCEPT !.val_gen = cand_gensum(cs[i]), !.state = st(i)]
<1>0. len \in Nat /\ \A i \in 1..len : cs[i] \in Fit
  OBVIOUS
<1>1. h # 0 => h \in 1..len
  <2>1. h = IF S = {} THEN 0 ELSE CHOOSE i \in S : \A j \in S : j <= i
    BY DEF Hit
  <2>2. S \subseteq 1..len
    BY DEF Chain
  <2> HIDE DEF S, h, len
  <2>3. ASSUME S # {} PROVE \E i \in S : \A j \in S : j <= i
    BY <2>2, <2>3, SeqMax, <1>0
  <2> QED BY <2>1, <2>2, <2>3
<1>2. ASSUME NEW i \in 1..len PROVE u(i) \in Fit /\ SameTrust(cs[i], u(i))
  <2>1. cs[i] \in Fit BY <1>0
  <2>2. cand_gensum(cs[i]) \in Nat BY <2>1, FitCandidate
  <2>3. st(i) \in {"VALID", "INVALID", "BLACKLIST"} OBVIOUS
  <2> HIDE DEF st
  <2> QED BY <2>1, <2>2, <2>3, MarkedFit
<1>3. w = [i \in 1..len |-> IF cs[i].addr # a \/ cs[i].state = "BLACKLIST" \/ i < h
                            THEN cs[i] ELSE u(i)]
  BY DEF Walked
<1>4. ASSUME NEW i \in 1..len PROVE w[i] \in Fit /\ SameTrust(cs[i], w[i])
  <2>1. w[i] = cs[i] \/ w[i] = u(i)
    BY <1>3
  <2>2. SameTrust(cs[i], cs[i]) BY DEF SameTrust
  <2> HIDE DEF u, w, h
  <2> QED BY <2>1, <2>2, <1>0, <1>2
<1>5. w \in Seq(Fit) /\ Len(w) = len
  <2> HIDE DEF u, h, len
  <2>1. w \in [1..len -> Fit] BY <1>3, <1>4
  <2> HIDE DEF w
  <2> QED BY <2>1, <1>0
<1> HIDE DEF h, w, u, S, st
<1>6. /\ w \in Seq(Fit) /\ Len(w) = Len(cs)
      /\ h # 0 => h \in 1..Len(cs) /\ SameTrust(cs[h], w[h])
  BY <1>1, <1>4, <1>5
<1> QED BY <1>6 DEF h, w

LEMMA SeqWiden ==
    ASSUME NEW n \in Nat, NEW m \in Nat, n <= m, NEW s \in Seq(1..n)
    PROVE  s \in Seq(1..m)
<1>1. Len(s) \in Nat /\ s \in [1..Len(s) -> 1..n]
  OBVIOUS
<1>2. \A i \in 1..Len(s) : s[i] \in 1..m
  BY <1>1
<1>3. s \in [1..Len(s) -> 1..m]
  BY <1>1, <1>2
<1> QED BY <1>1, <1>3, SeqOfFunction

\* What the miss block does to its memos and to the list given to the worker.
LEMMA MissTyped ==
    ASSUME TableInv, FlagInv, NEW a \in Addrs, NEW interior \in BOOLEAN,
           MissEffects(a, interior)
    PROVE  /\ s_cache_idx' = s_cache_idx /\ s_loaded' \in 0..s_cache_idx
           /\ blobs' = blobs /\ s_blobs' \in 0..Len(blobs)
           /\ missed' \subseteq Fn /\ s_checked' \in BOOLEAN /\ dirty' \in BOOLEAN
<1>1. /\ s_cache_idx' = s_cache_idx /\ blobs' = blobs
      /\ s_loaded' = s_cache_idx \/ s_loaded' = s_loaded
      /\ s_blobs' = Len(blobs) \/ s_blobs' = s_blobs
      /\ missed' = missed \cup {[addr |-> a, img |-> ram[a]]} \/ missed' = missed
  BY DEF MissEffects, LoadedPaths
<1>2. s_checked' \in BOOLEAN /\ dirty' \in BOOLEAN
  BY Zenon DEF MissEffects
<1>3. /\ s_cache_idx \in Nat /\ s_loaded \in 0..s_cache_idx
      /\ Len(blobs) \in Nat /\ s_blobs \in 0..Len(blobs)
  BY DEF TableInv
<1>4. s_loaded' \in 0..s_cache_idx /\ s_blobs' \in 0..Len(blobs)
  BY <1>1, <1>3
<1>5. [addr |-> a, img |-> ram[a]] \in Fn /\ missed \subseteq Fn
  BY DEF TableInv, Fn
<1>6. missed' \subseteq Fn
  BY <1>1, <1>5, Zenon
<1> QED BY <1>1, <1>2, <1>4, <1>6

\* A step that only moves within a table that grew keeps the frames.
LEMMA FramesKept ==
    ASSUME TableInv, FrameInv, s_cand' \in Seq(Fit), Len(s_cand) <= Len(s_cand'),
           UNCHANGED <<calls, s_active, exc>>, shadow' \in Shadows \cup {NoShadow}
    PROVE  FrameInv'
<1>1. Len(s_cand) \in Nat /\ Len(s_cand') \in Nat
  BY DEF TableInv
<1>2. calls \in Seq(1..Len(s_cand')) /\ s_active \in Seq(1..Len(s_cand'))
  BY <1>1, SeqWiden DEF FrameInv
<1> QED BY <1>2 DEF FrameInv

LEMMA Entered ==
    ASSUME TableInv, FrameInv, s_cand' \in Seq(Fit), Len(s_cand) <= Len(s_cand'),
           NEW h \in 1..Len(s_cand'), Enter(h)
    PROVE  /\ FrameInv' /\ s_native_exec' = s_native_exec /\ escapes' = escapes
           /\ calls'[Len(calls')] = h
<1> DEFINE T == 1..Len(s_cand')
<1>1. Len(s_cand) \in Nat /\ Len(s_cand') \in Nat
  BY DEF TableInv
<1>2. calls \in Seq(T) /\ s_active \in Seq(T)
  BY <1>1, SeqWiden DEF FrameInv
<1>3. /\ calls' = Append(calls, h)
      /\ s_active' = Append(s_active, h) \/ s_active' = s_active
      /\ UNCHANGED <<s_native_exec, shadow, exc, escapes>>
  BY DEF Enter
<1>4. h \in T OBVIOUS
<1> HIDE DEF T
<1>5. /\ calls' \in Seq(T) /\ s_active' \in Seq(T)
      /\ Len(calls) \in Nat /\ Len(calls') = Len(calls) + 1 /\ calls'[Len(calls')] = h
  <2>1. /\ Append(calls, h) \in Seq(T)
        /\ Len(calls) \in Nat /\ Len(Append(calls, h)) = Len(calls) + 1
        /\ Append(calls, h)[Len(Append(calls, h))] = h
    BY <1>2, <1>4
  <2>2. Append(s_active, h) \in Seq(T)
    BY <1>2, <1>4, AppendFacts, Zenon
  <2> QED BY <2>1, <2>2, <1>2, <1>3, Zenon
<1>6. exc' = NoExc \/ (exc' \in Excs /\ exc'.base <= Len(calls'))
  <2>1. exc = NoExc \/ (exc \in Excs /\ exc.base <= Len(calls))
    BY DEF FrameInv
  <2>2. exc \in Excs => exc.base \in Nat
    BY DEF Excs
  <2> QED BY <2>1, <2>2, <1>3, <1>5
<1>7. shadow' \in Shadows \cup {NoShadow}
  BY <1>3 DEF FrameInv
<1>8. FrameInv'
  BY <1>5, <1>6, <1>7 DEF FrameInv, T
<1> QED BY <1>3, <1>5, <1>8

\* The new activation is trusted.
EntersTrusted ==
    \A i \in 1..Len(s_cand') :
        /\ Len(calls') > Len(calls) /\ calls'[Len(calls')] = i
        /\ ~ InShadow /\ WantDiff(s_cand'[i])
        => s_cand'[i].passes = BUDGET /\ ~ s_cand'[i].touch

\* What is diffed depends on what the trust rests on.
LEMMA TrustCarries ==
    ASSUME TableInv, NEW c \in Fit, NEW d, SameTrust(c, d), ~ c.touch,
           ~ (WantDiff(c) /\ c.passes < BUDGET), WantDiff(d)
    PROVE  d.passes = BUDGET /\ ~ d.touch
<1>1. WantDiff(c)
  BY Zenon DEF WantDiff, SameTrust
<1>2. c.passes \in Nat /\ c.passes <= BUDGET
  BY FitCandidate
<1>3. c.passes = BUDGET
  BY <1>1, <1>2
<1> QED BY <1>3, Zenon DEF SameTrust

LEMMA SessionDispatch ==
    ASSUME SessionInv, NEW a \in Addrs, Dispatch(a)
    PROVE  SessionInv' /\ EntersTrusted
<1> DEFINE cs == MissTable(a, FALSE)
           h == Hit(cs, a)
           w == Walked(cs, a, h)
           route == IF h = 0 THEN "interp" ELSE Route(cs[h])
<1>1. TableInv /\ FrameInv /\ FlagInv
  BY DEF SessionInv
<1>2. cs \in Seq(Fit) /\ Len(s_cand) <= Len(cs)
  BY <1>1, MissFit
<1>3. /\ w \in Seq(Fit) /\ Len(w) = Len(cs)
      /\ h # 0 => h \in 1..Len(cs) /\ SameTrust(cs[h], w[h])
  <2> HIDE DEF cs
  <2> QED BY <1>1, <1>2, WalkedFit
<1>4. /\ s_cand' = w /\ ram' = ram /\ page_gen' = page_gen /\ MissEffects(a, FALSE)
  BY DEF Dispatch
<1>5. \/ route = "interp" /\ UNCHANGED stacks
      \/ route = "native" /\ Enter(h)
      \/ route = "shadow" /\ BeginShadow(h)
  BY DEF Dispatch
<1>6. route = "native" => h # 0 /\ ~ cs[h].touch
                          /\ (InShadow \/ ~ (WantDiff(cs[h]) /\ cs[h].passes < BUDGET))
  <2> HIDE DEF h, cs
  <2> QED BY Zenon DEF Route
<1>7. route = "shadow" => h # 0
  OBVIOUS
<1> HIDE DEF cs, h, w, route
<1>8. s_cand' \in Seq(Fit) /\ Len(s_cand) <= Len(s_cand') /\ Len(s_cand') = Len(cs)
  BY <1>2, <1>3, <1>4
<1>9. TableInv' /\ s_checked' \in BOOLEAN /\ dirty' \in BOOLEAN
  <2>1. /\ s_cache_idx' = s_cache_idx /\ s_loaded' \in 0..s_cache_idx
        /\ blobs' = blobs /\ s_blobs' \in 0..Len(blobs)
        /\ missed' \subseteq Fn /\ s_checked' \in BOOLEAN /\ dirty' \in BOOLEAN
    BY <1>1, <1>4, MissTyped
  <2> QED BY <2>1, <1>1, <1>4, <1>8, Zenon DEF TableInv
<1>10. CASE UNCHANGED stacks
  <2>1. UNCHANGED <<calls, s_active, s_native_exec, shadow, exc, escapes>>
    BY <1>10 DEF stacks
  <2>2. FrameInv'
    <3>1. shadow' \in Shadows \cup {NoShadow} BY <2>1, <1>1 DEF FrameInv
    <3> QED BY <3>1, <2>1, <1>1, <1>8, FramesKept
  <2>3. FlagInv'
    BY <2>1, <1>1, <1>9, Zenon DEF FlagInv
  <2>4. ~ (Len(calls') > Len(calls))
    BY <2>1, <1>1 DEF FrameInv
  <2> QED BY <2>2, <2>3, <2>4, <1>9 DEF SessionInv, EntersTrusted
<1>11. CASE route = "native" /\ Enter(h)
  <2>1. h # 0 /\ h \in 1..Len(s_cand') /\ SameTrust(cs[h], w[h]) /\ cs[h] \in Fit
    BY <1>11, <1>6, <1>3, <1>8, <1>2
  <2>2. /\ FrameInv' /\ s_native_exec' = s_native_exec /\ escapes' = escapes
        /\ calls'[Len(calls')] = h
    BY <2>1, <1>1, <1>8, <1>11, Entered
  <2>3. FlagInv'
    BY <2>2, <1>1, <1>9, Zenon DEF FlagInv
  <2>4. ASSUME ~ InShadow, WantDiff(w[h]) PROVE w[h].passes = BUDGET /\ ~ w[h].touch
    BY <2>4, <2>1, <1>6, <1>11, <1>1, TrustCarries
  <2> QED BY <2>2, <2>3, <2>4, <1>4, <1>9, Zenon DEF SessionInv, EntersTrusted
<1>12. CASE route = "shadow" /\ BeginShadow(h)
  <2>1. h # 0 /\ h \in Nat
    BY <1>12, <1>7, <1>3, <1>2
  <2>2. /\ shadow' = [pass |-> "interp", c |-> h, ram0 |-> ram, ramI |-> ram,
                      sv |-> s_native_exec, base |-> Len(calls),
                      mmio |-> FALSE, frame |-> TRUE]
        /\ s_native_exec' = FALSE /\ UNCHANGED <<calls, s_active, exc, escapes>>
    BY <1>12 DEF BeginShadow
  <2>3. Len(calls) \in Nat /\ s_native_exec \in BOOLEAN /\ ram \in [Addrs -> Images]
    BY <1>1 DEF FrameInv, FlagInv, TableInv
  <2>4. shadow' \in Shadows
    BY <2>1, <2>2, <2>3 DEF Shadows
  <2>5. FrameInv'
    BY <2>2, <2>4, <1>1, <1>8, FramesKept
  <2>6. FlagInv'
    BY <2>2, <1>1, <1>9, Zenon DEF FlagInv
  <2>7. ~ (Len(calls') > Len(calls))
    BY <2>2, <2>3
  <2> QED BY <2>5, <2>6, <2>7, <1>9 DEF SessionInv, EntersTrusted
<1> QED BY <1>5, <1>10, <1>11, <1>12

LEMMA SessionInterior ==
    ASSUME SessionInv, NEW a \in Addrs, DispatchInterior(a)
    PROVE  SessionInv' /\ EntersTrusted
<1> DEFINE cs == MissTable(a, TRUE)
           ci == FindByRange(cs, a)
           c == cs[ci]
           S == {i \in Chain(cs, a) : cs[i].state # "BLACKLIST"}
           g == cand_gensum(c)
           st == IF LiveMatch(c) THEN "VALID" ELSE c.state
           d == [c EXCEPT !.val_gen = g, !.state = st]
           own == InShadow /\ shadow.pass = "native" /\ shadow.c = ci
           native == /\ ci # 0 /\ Matched(c) /\ ~ c.touch
                     /\ \/ own
                        \/ /\ ~ (WantDiff(c) /\ c.passes < BUDGET)
                           /\ s_native_exec
           len == Len(cs)
<1>1. TableInv /\ FrameInv /\ FlagInv
  BY DEF SessionInv
<1>2. cs \in Seq(Fit) /\ Len(s_cand) <= len /\ len \in Nat
  <2>1. cs \in Seq(Fit) /\ Len(s_cand) <= len
    <3>1. TRUE \in BOOLEAN OBVIOUS
    <3> QED BY <3>1, <1>1, MissFit, Zenon
  <2> HIDE DEF cs
  <2> QED BY <2>1
<1>3. ci # 0 => ci \in 1..len
  <2>1. ci = IF S = {} THEN 0 ELSE CHOOSE i \in S : \A j \in S : i <= j
    BY DEF FindByRange
  <2>2. S \subseteq 1..len
    BY DEF Chain
  <2> HIDE DEF S, ci, len
  <2>4. S \subseteq Nat
    BY <2>2
  <2>3. ASSUME S # {} PROVE \E i \in S : \A j \in S : i <= j
    BY <2>4, <2>3, LeastOfNat
  <2> QED BY <2>1, <2>2, <2>3
<1>4. /\ s_cand' = (IF ci = 0 \/ FastPath(c) THEN cs
                    ELSE [cs EXCEPT ![ci].val_gen = g,
                                    ![ci].state = IF LiveMatch(c) THEN "VALID" ELSE @])
      /\ ram' = ram /\ page_gen' = page_gen /\ MissEffects(a, TRUE)
      /\ IF native THEN Enter(ci) ELSE UNCHANGED stacks
  BY DEF DispatchInterior
<1>5. ASSUME ci # 0 PROVE c \in Fit /\ d \in Fit /\ SameTrust(c, d)
  <2>1. ci \in 1..len BY <1>5, <1>3
  <2>2. c \in Fit
    <3> HIDE DEF ci, cs
    <3> QED BY <2>1, <1>2
  <2> HIDE DEF c
  <2>3. g \in Nat /\ c \in Candidate
    BY <2>2, <1>1, FitCandidate
  <2>4. st \in {"VALID", "INVALID", "BLACKLIST"}
    BY <2>3 DEF Candidate
  <2> HIDE DEF g, st
  <2> QED BY <2>2, <2>3, <2>4, <1>1, MarkedFit
<1>6. s_cand' = cs \/ (ci # 0 /\ s_cand' = [cs EXCEPT ![ci] = d])
  <2> HIDE DEF cs, ci
  <2>1. CASE ci = 0 \/ FastPath(c) BY <2>1, <1>4
  <2>2. CASE ~ (ci = 0 \/ FastPath(c))
    <3>1. ci \in DOMAIN cs BY <2>2, <1>3, <1>2
    <3> QED BY <3>1, <2>2, <1>4
  <2> QED BY <2>1, <2>2
<1> HIDE DEF cs, ci, c, d, g, st, own, native, S
<1>7. /\ s_cand' \in Seq(Fit) /\ Len(s_cand') = len
      /\ ci # 0 => SameTrust(c, s_cand'[ci])
  <2>1. CASE s_cand' = cs
    BY <2>1, <1>2 DEF SameTrust, c
  <2>2. CASE ci # 0 /\ s_cand' = [cs EXCEPT ![ci] = d]
    BY <2>2, <1>2, <1>3, <1>5
  <2> QED BY <2>1, <2>2, <1>6
<1>8. Len(s_cand) <= Len(s_cand')
  BY <1>2, <1>7
<1>9. TableInv' /\ s_checked' \in BOOLEAN /\ dirty' \in BOOLEAN
  <2>1. /\ s_cache_idx' = s_cache_idx /\ s_loaded' \in 0..s_cache_idx
        /\ blobs' = blobs /\ s_blobs' \in 0..Len(blobs)
        /\ missed' \subseteq Fn /\ s_checked' \in BOOLEAN /\ dirty' \in BOOLEAN
    BY <1>1, <1>4, MissTyped
  <2> QED BY <2>1, <1>1, <1>4, <1>7, Zenon DEF TableInv
<1>10. CASE ~ native
  <2>1. UNCHANGED <<calls, s_active, s_native_exec, shadow, exc, escapes>>
    BY <1>10, <1>4 DEF stacks
  <2>2. FrameInv'
    <3>1. shadow' \in Shadows \cup {NoShadow} BY <2>1, <1>1 DEF FrameInv
    <3> QED BY <3>1, <2>1, <1>1, <1>7, <1>8, FramesKept
  <2>3. FlagInv'
    BY <2>1, <1>1, <1>9, Zenon DEF FlagInv
  <2>4. ~ (Len(calls') > Len(calls))
    BY <2>1, <1>1 DEF FrameInv
  <2> QED BY <2>2, <2>3, <2>4, <1>9 DEF SessionInv, EntersTrusted
<1>11. CASE native
  <2>1. /\ ci # 0 /\ Enter(ci) /\ ~ c.touch
        /\ InShadow \/ ~ (WantDiff(c) /\ c.passes < BUDGET)
    BY <1>11, <1>4, Zenon DEF native, own
  <2>2. ci \in 1..Len(s_cand') /\ c \in Fit /\ SameTrust(c, s_cand'[ci])
    BY <2>1, <1>3, <1>5, <1>7
  <2>3. /\ FrameInv' /\ s_native_exec' = s_native_exec /\ escapes' = escapes
        /\ calls'[Len(calls')] = ci
    BY <2>1, <2>2, <1>1, <1>7, <1>8, Entered
  <2>4. FlagInv'
    BY <2>3, <1>1, <1>9, Zenon DEF FlagInv
  <2>5. ASSUME ~ InShadow, WantDiff(s_cand'[ci])
        PROVE  s_cand'[ci].passes = BUDGET /\ ~ s_cand'[ci].touch
    BY <2>5, <2>1, <2>2, <1>1, TrustCarries
  <2> QED BY <2>3, <2>4, <2>5, <1>9, Zenon DEF SessionInv, EntersTrusted
<1> QED BY <1>10, <1>11

\* Facts about the frames that several steps use.
LEMMA FrameFacts ==
    ASSUME FrameInv
    PROVE  /\ calls \in Seq(1..Len(s_cand)) /\ Len(calls) \in Nat
           /\ s_active \in Seq(1..Len(s_cand)) /\ Len(s_active) \in Nat
           /\ InShadow => shadow \in Shadows
           /\ shadow \in Shadows => shadow.base \in Nat
           /\ InException => exc \in Excs /\ exc.base \in Nat /\ exc.base <= Len(calls)
           /\ ~ InException => exc = NoExc
<1>1. calls \in Seq(1..Len(s_cand)) /\ s_active \in Seq(1..Len(s_cand))
  BY DEF FrameInv
<1>2. Len(calls) \in Nat /\ Len(s_active) \in Nat
  BY <1>1
<1>3. InShadow => shadow \in Shadows
  BY DEF FrameInv, InShadow, NoShadow
<1>4. shadow \in Shadows => shadow.base \in Nat
  BY DEF Shadows
<1>5. exc = NoExc \/ (exc \in Excs /\ exc.base <= Len(calls))
  BY DEF FrameInv
<1>6. exc \in Excs => exc.base \in Nat /\ exc.in = TRUE
  BY DEF Excs
<1>7. exc = NoExc => ~ exc.in
  BY DEF NoExc
<1> QED BY <1>1, <1>2, <1>3, <1>4, <1>5, <1>6, <1>7, Zenon DEF InException

\* A step that leaves the tables and the flags alone.
LEMMA FramesOnly ==
    ASSUME SessionInv, FrameInv', UNCHANGED <<ram, page_gen, s_cand, miss>>,
           s_native_exec' \in BOOLEAN, escapes' \in Nat, Len(calls') <= Len(calls)
    PROVE  SessionInv' /\ EntersTrusted
<1>1. TableInv /\ FlagInv /\ FrameInv
  BY DEF SessionInv
<1>2. TableInv'
  BY <1>1 DEF TableInv, miss
<1>3. FlagInv'
  BY <1>1, Zenon DEF FlagInv, miss
<1>4. Len(calls) \in Nat /\ Len(calls') \in Nat
  BY <1>1 DEF FrameInv
<1>5. ~ (Len(calls') > Len(calls))
  BY <1>4
<1> QED BY <1>2, <1>3, <1>5 DEF SessionInv, EntersTrusted

LEMMA SessionReturn ==
    ASSUME SessionInv, Return
    PROVE  SessionInv' /\ EntersTrusted
<1> DEFINE n == Len(calls) - 1
           T == 1..Len(s_cand)
<1>1. FrameInv /\ FlagInv BY DEF SessionInv
<1>2. /\ calls \in Seq(T) /\ Len(calls) \in Nat
      /\ s_active \in Seq(T) /\ Len(s_active) \in Nat
      /\ InShadow => shadow \in Shadows
      /\ shadow \in Shadows => shadow.base \in Nat
      /\ InException => exc \in Excs /\ exc.base \in Nat /\ exc.base <= Len(calls)
      /\ ~ InException => exc = NoExc
  BY <1>1, FrameFacts
<1>3. /\ Len(calls) > Floor /\ calls' = SubSeq(calls, 1, n)
      /\ UNCHANGED <<ram, page_gen, s_cand, miss, s_native_exec, shadow, exc, escapes>>
      /\ \/ s_active' = s_active
         \/ Len(s_active) > 0 /\ s_active' = SubSeq(s_active, 1, Len(s_active) - 1)
  BY DEF Return
<1>4. Len(calls) > 0 /\ (InException => exc.base <= n)
  <2> DEFINE e == IF InException THEN exc.base ELSE 0
             s == IF ShadowRunning THEN shadow.base ELSE 0
  <2>1. e \in Nat /\ s \in Nat
    BY <1>2 DEF ShadowRunning
  <2>2. Floor = IF e > s THEN e ELSE s
    BY DEF Floor
  <2>3. InException => e = exc.base
    OBVIOUS
  <2> HIDE DEF e, s
  <2> QED BY <2>1, <2>2, <2>3, <1>2, <1>3
<1>5. n \in Nat /\ n <= Len(calls)
  BY <1>2, <1>4
<1> HIDE DEF n, T
<1>6. calls' \in Seq(T) /\ Len(calls') = n
  BY <1>2, <1>3, <1>5, PrefixFacts
<1>7. s_active' \in Seq(T)
  BY <1>2, <1>3, FrontFacts
<1>8. exc' = NoExc \/ (exc' \in Excs /\ exc'.base <= Len(calls'))
  BY <1>2, <1>3, <1>4, <1>6
<1>9. shadow' \in Shadows \cup {NoShadow}
  BY <1>1, <1>3 DEF FrameInv
<1>10. FrameInv'
  BY <1>3, <1>6, <1>7, <1>8, <1>9 DEF FrameInv, T
<1>11. s_native_exec' \in BOOLEAN /\ escapes' \in Nat
  BY <1>1, <1>3, Zenon DEF FlagInv
<1> QED BY <1>3, <1>5, <1>6, <1>10, <1>11, FramesOnly

LEMMA SessionStore ==
    ASSUME SessionInv, NEW a \in Addrs, NEW img \in Images, Store(a, img)
    PROVE  SessionInv' /\ EntersTrusted
<1> DEFINE len == Len(s_cand)
<1>1. TableInv /\ FrameInv /\ FlagInv
  BY DEF SessionInv
<1>2. s_cand \in Seq(Fit) /\ len \in Nat /\ \A i \in 1..len : s_cand[i] \in Fit
  BY <1>1 DEF TableInv
<1>3. ram' = [ram EXCEPT ![a] = img] /\ UNCHANGED <<miss, stacks>>
  BY DEF Store
<1>4. s_cand' \in Seq(Fit) /\ Len(s_cand') = len
  <2>1. CASE s_cand' = s_cand
    BY <2>1, <1>2
  <2>2. CASE s_cand' = [i \in 1..len |-> IF Active(i) /\ s_cand[i].addr = a
                           THEN [s_cand[i] EXCEPT !.state = "BLACKLIST"] ELSE s_cand[i]]
    <3>1. ASSUME NEW i \in 1..len PROVE s_cand'[i] \in Fit
      <4>1. \/ s_cand'[i] = [s_cand[i] EXCEPT !.state = "BLACKLIST"]
            \/ s_cand'[i] = s_cand[i]
        BY <2>2
      <4>2. s_cand[i] \in Fit BY <1>2
      <4> QED BY <4>1, <4>2, BlacklistedFit, Zenon
    <3>2. s_cand' \in [1..len -> Fit]
      BY <2>2, <3>1
    <3> HIDE DEF len
    <3> QED BY <3>2, <1>2, SeqOfFunction
  <2> QED BY <2>1, <2>2 DEF Store
<1>5. page_gen' \in [Pages -> Nat] /\ ram' \in [Addrs -> Images]
  <2>1. page_gen \in [Pages -> Nat] /\ ram \in [Addrs -> Images] /\ PageOf[a] \in Pages
    BY <1>1 DEF TableInv
  <2>2. page_gen' = page_gen \/ page_gen' = [page_gen EXCEPT ![PageOf[a]] = @ + 1]
    BY DEF Store, Bumped
  <2> QED BY <2>1, <2>2, <1>3
<1>6. TableInv'
  BY <1>1, <1>3, <1>4, <1>5 DEF TableInv, miss
<1>7. FrameInv'
  <2>1. UNCHANGED <<calls, s_active, exc>> /\ shadow' \in Shadows \cup {NoShadow}
    BY <1>1, <1>3 DEF FrameInv, stacks
  <2>2. Len(s_cand) <= Len(s_cand')
    BY <1>2, <1>4
  <2> QED BY <2>1, <2>2, <1>1, <1>4, FramesKept
<1>8. FlagInv'
  BY <1>1, <1>3, Zenon DEF FlagInv, miss, stacks
<1>9. ~ (Len(calls') > Len(calls))
  BY <1>1, <1>3 DEF FrameInv, stacks
<1> QED BY <1>6, <1>7, <1>8, <1>9 DEF SessionInv, EntersTrusted

\* The end of a shadow: the table keeps its shape whatever the outcome.
LEMMA CreditFit ==
    ASSUME NEW cs \in Seq(Fit), NEW i \in 1..Len(cs), NEW clean \in BOOLEAN
    PROVE  /\ [cs EXCEPT ![i].touch = TRUE] \in Seq(Fit)
           /\ Len([cs EXCEPT ![i].touch = TRUE]) = Len(cs)
           /\ [cs EXCEPT ![i].passes = Credit(cs[i], clean)] \in Seq(Fit)
           /\ Len([cs EXCEPT ![i].passes = Credit(cs[i], clean)]) = Len(cs)
<1> DEFINE c == cs[i]
           n == Credit(c, clean)
           t == [c EXCEPT !.touch = TRUE]
           p == [c EXCEPT !.passes = n]
<1>1. c \in Candidate /\ c.passes <= BUDGET /\ c.passes \in Nat
  <2>1. c \in Fit OBVIOUS
  <2>2. c \in Candidate /\ c.passes <= BUDGET BY <2>1 DEF Fit
  <2> QED BY <2>2 DEF Candidate
<1>2. n \in Nat /\ n <= BUDGET
  <2> HIDE DEF c
  <2> QED BY <1>1 DEF Credit
<1> HIDE DEF n
<1>3. /\ t \in Candidate /\ t.passes = c.passes
      /\ p \in Candidate /\ p.passes = n
  BY <1>1, <1>2 DEF Candidate
<1>4. t \in Fit /\ p \in Fit
  <2> HIDE DEF t, p, c
  <2> QED BY <1>1, <1>2, <1>3 DEF Fit
<1>5. /\ [cs EXCEPT ![i].touch = TRUE] = [cs EXCEPT ![i] = t]
      /\ [cs EXCEPT ![i].passes = n] = [cs EXCEPT ![i] = p]
  OBVIOUS
<1>6. ASSUME NEW d \in Fit
      PROVE  [cs EXCEPT ![i] = d] \in Seq(Fit) /\ Len([cs EXCEPT ![i] = d]) = Len(cs)
  OBVIOUS
<1> HIDE DEF t, p, c
<1>7. /\ [cs EXCEPT ![i] = t] \in Seq(Fit) /\ Len([cs EXCEPT ![i] = t]) = Len(cs)
      /\ [cs EXCEPT ![i] = p] \in Seq(Fit) /\ Len([cs EXCEPT ![i] = p]) = Len(cs)
  BY <1>4, <1>6
<1> QED BY <1>5, <1>7 DEF n, c

\* What any step inside a shadow or around one keeps.
LEMMA ShadowStep ==
    ASSUME SessionInv, UNCHANGED <<page_gen, miss, calls, s_active, exc, escapes>>,
           ram' \in [Addrs -> Images], s_cand' \in Seq(Fit), Len(s_cand') = Len(s_cand),
           s_native_exec' \in BOOLEAN, shadow' \in Shadows \cup {NoShadow}
    PROVE  SessionInv' /\ EntersTrusted
<1>1. TableInv /\ FrameInv /\ FlagInv
  BY DEF SessionInv
<1>2. TableInv'
  BY <1>1 DEF TableInv, miss
<1>3. Len(s_cand) <= Len(s_cand')
  BY <1>1 DEF TableInv
<1>4. FrameInv'
  BY <1>1, <1>3, FramesKept
<1>5. FlagInv'
  BY <1>1, Zenon DEF FlagInv, miss
<1>6. ~ (Len(calls') > Len(calls))
  BY <1>1 DEF FrameInv
<1> QED BY <1>2, <1>4, <1>5, <1>6 DEF SessionInv, EntersTrusted

LEMMA SessionShadow ==
    ASSUME SessionInv,
           ShadowTouch \/ ShadowInterpDone \/ \E same \in BOOLEAN : ShadowNativeDone(same)
    PROVE  SessionInv' /\ EntersTrusted
<1>1. TableInv /\ FrameInv /\ FlagInv
  BY DEF SessionInv
<1>2. shadow \in Shadows
  <2>1. InShadow
    BY DEF ShadowTouch, ShadowInterpDone, ShadowNativeDone, ShadowRunning
  <2> QED BY <2>1, <1>1, FrameFacts
<1>3. /\ s_cand \in Seq(Fit) /\ Len(s_cand) \in Nat /\ DOMAIN s_cand = 1..Len(s_cand)
      /\ ram \in [Addrs -> Images]
  BY <1>1 DEF TableInv
<1>4. /\ shadow.sv \in BOOLEAN /\ shadow.ram0 \in [Addrs -> Images]
      /\ shadow.ramI \in [Addrs -> Images]
  BY <1>2 DEF Shadows
<1>5. s_native_exec \in BOOLEAN
  BY <1>1 DEF FlagInv
<1>6. NoShadow \in Shadows \cup {NoShadow}
  OBVIOUS
<1>7. CASE ShadowTouch
  <2>1. /\ shadow' = [shadow EXCEPT !.mmio = TRUE]
        /\ UNCHANGED <<ram, page_gen, s_cand, miss, calls, s_active, s_native_exec, exc, escapes>>
    BY <1>7 DEF ShadowTouch
  <2>2. shadow' \in Shadows
    BY <2>1, <1>2 DEF Shadows
  <2> QED BY <2>1, <2>2, <1>3, <1>5, ShadowStep
<1>8. CASE ShadowInterpDone
  <2>1. UNCHANGED <<page_gen, miss, calls, s_active, exc, escapes>>
    BY <1>8 DEF ShadowInterpDone
  <2>2. CASE /\ EndShadow([s_cand EXCEPT ![shadow.c].touch = TRUE])
             /\ UNCHANGED ram
    <3>1. /\ s_cand' = [s_cand EXCEPT ![shadow.c].touch = TRUE]
          /\ shadow' = NoShadow /\ s_native_exec' = shadow.sv /\ ram' = ram
      BY <2>2 DEF EndShadow
    <3>2. s_cand' \in Seq(Fit) /\ Len(s_cand') = Len(s_cand)
      <4>1. CASE shadow.c \in 1..Len(s_cand)
        <5>1. TRUE \in BOOLEAN OBVIOUS
        <5> QED BY <5>1, <4>1, <3>1, <1>3, CreditFit, Zenon
      <4>2. CASE shadow.c \notin 1..Len(s_cand)
        <5>1. s_cand' = s_cand BY <4>2, <3>1, <1>3
        <5> QED BY <5>1, <1>3
      <4> QED BY <4>1, <4>2
    <3> QED BY <3>1, <3>2, <2>1, <1>3, <1>4, <1>6, ShadowStep, Zenon
  <2>3. CASE /\ shadow' = [shadow EXCEPT !.pass = "native", !.ramI = ram]
             /\ ram' = shadow.ram0
             /\ UNCHANGED <<s_cand, s_native_exec>>
    <3>1. shadow' \in Shadows
      BY <2>3, <1>2, <1>3 DEF Shadows
    <3> QED BY <3>1, <2>1, <2>3, <1>3, <1>4, <1>5, ShadowStep
  <2> QED BY <1>8, <2>2, <2>3 DEF ShadowInterpDone
<1>9. ASSUME NEW same \in BOOLEAN, ShadowNativeDone(same)
      PROVE  SessionInv' /\ EntersTrusted
  <2> DEFINE clean == same /\ ram = shadow.ramI
  <2>1. /\ s_cand' = [s_cand EXCEPT ![shadow.c].passes = Credit(s_cand[shadow.c], clean)]
        /\ shadow' = NoShadow /\ s_native_exec' = shadow.sv /\ ram' = shadow.ramI
        /\ UNCHANGED <<page_gen, miss, calls, s_active, exc, escapes>>
    BY <1>9 DEF ShadowNativeDone, EndShadow
  <2>2. clean \in BOOLEAN OBVIOUS
  <2> HIDE DEF clean
  <2>3. s_cand' \in Seq(Fit) /\ Len(s_cand') = Len(s_cand)
    <3>1. CASE shadow.c \in 1..Len(s_cand)
      BY <3>1, <2>1, <2>2, <1>3, CreditFit, Zenon
    <3>2. CASE shadow.c \notin 1..Len(s_cand)
      <4>1. s_cand' = s_cand BY <3>2, <2>1, <1>3
      <4> QED BY <4>1, <1>3
    <3> QED BY <3>1, <3>2
  <2> QED BY <2>1, <2>3, <1>4, <1>6, ShadowStep, Zenon
<1> QED BY <1>7, <1>8, <1>9

LEMMA SessionException ==
    ASSUME SessionInv, TakeException \/ ReturnFromException
    PROVE  SessionInv' /\ EntersTrusted
<1> DEFINE T == 1..Len(s_cand)
<1>1. FrameInv /\ FlagInv
  BY DEF SessionInv
<1>2. /\ calls \in Seq(T) /\ Len(calls) \in Nat /\ s_active \in Seq(T)
      /\ InShadow => shadow \in Shadows
      /\ InException => exc.base \in Nat /\ exc.base <= Len(calls)
  BY <1>1, FrameFacts
<1>3. s_native_exec \in BOOLEAN /\ escapes \in Nat
  BY <1>1 DEF FlagInv
<1>4. CASE TakeException
  <2>1. /\ exc' = [in |-> TRUE, base |-> Len(calls), shadow |-> InShadow]
        /\ UNCHANGED <<ram, page_gen, s_cand, miss, calls, s_active, s_native_exec, shadow, escapes>>
    BY <1>4 DEF TakeException
  <2>2. exc' \in Excs /\ exc'.base = Len(calls)
    BY <2>1, <1>2 DEF Excs, InShadow
  <2>3. FrameInv'
    BY <2>1, <2>2, <1>1, <1>2 DEF FrameInv
  <2> QED BY <2>1, <2>3, <1>2, <1>3, FramesOnly
<1>5. CASE ReturnFromException
  <2>1. /\ InException /\ calls' = SubSeq(calls, 1, exc.base) /\ exc' = NoExc
        /\ UNCHANGED <<ram, page_gen, s_cand, miss, s_active>>
    BY <1>5 DEF ReturnFromException
  <2>2. calls' \in Seq(T) /\ Len(calls') <= Len(calls)
    <3> HIDE DEF T
    <3> QED BY <2>1, <1>2, PrefixFacts
  <2>3. /\ shadow' \in Shadows \cup {NoShadow}
        /\ s_native_exec' \in BOOLEAN /\ escapes' \in Nat
    <3>1. CASE InShadow /\ ~ exc.shadow
      <4>1. shadow' = NoShadow /\ s_native_exec' = shadow.sv /\ escapes' = escapes + 1
        BY <3>1, <1>5 DEF ReturnFromException
      <4>2. shadow.sv \in BOOLEAN
        BY <3>1, <1>2 DEF Shadows
      <4>3. escapes' \in Nat BY <4>1, <1>3
      <4> QED BY <4>1, <4>2, <4>3, Zenon
    <3>2. CASE ~ (InShadow /\ ~ exc.shadow)
      BY <3>2, <1>5, <1>1, <1>3, Zenon DEF ReturnFromException, FrameInv
    <3> QED BY <3>1, <3>2
  <2>4. FrameInv'
    BY <2>1, <2>2, <2>3, <1>2 DEF FrameInv
  <2> QED BY <2>1, <2>2, <2>3, <2>4, FramesOnly
<1> QED BY <1>4, <1>5

LEMMA SessionUnwind ==
    ASSUME SessionInv, Unwind, ram' \in [Addrs -> Images]
    PROVE  SessionInv' /\ EntersTrusted
<1>1. TableInv /\ FrameInv /\ FlagInv
  BY DEF SessionInv
<1>2. /\ ~ InException /\ calls' = <<>>
      /\ shadow' = IF InShadow THEN [shadow EXCEPT !.frame = FALSE] ELSE shadow
      /\ UNCHANGED <<page_gen, s_cand, miss, s_active, s_native_exec, exc, escapes>>
  BY DEF Unwind
<1>3. exc = NoExc /\ (InShadow => shadow \in Shadows) /\ Len(calls) \in Nat
  BY <1>1, <1>2, FrameFacts
<1>4. shadow' \in Shadows \cup {NoShadow}
  <2>1. CASE InShadow
    <3>1. shadow' \in Shadows
      BY <2>1, <1>2, <1>3 DEF Shadows
    <3> QED BY <3>1
  <2>2. CASE ~ InShadow
    BY <2>2, <1>1, <1>2 DEF FrameInv
  <2> QED BY <2>1, <2>2
<1>5. calls' \in Seq(1..Len(s_cand)) /\ Len(calls') = 0
  BY <1>2
<1>6. FrameInv'
  BY <1>1, <1>2, <1>3, <1>4, <1>5 DEF FrameInv
<1>7. TableInv'
  BY <1>1, <1>2 DEF TableInv, miss
<1>8. FlagInv'
  BY <1>1, <1>2, Zenon DEF FlagInv, miss
<1>9. ~ (Len(calls') > Len(calls))
  BY <1>3, <1>5
<1> QED BY <1>6, <1>7, <1>8, <1>9 DEF SessionInv, EntersTrusted

LEMMA SessionProducers ==
    ASSUME SessionInv,
           \/ \E n \in 1..Len(Cache) : Rescan(n)
           \/ \E f \in missed : Publish(f)
    PROVE  SessionInv' /\ EntersTrusted
<1>1. TableInv /\ FrameInv /\ FlagInv
  BY DEF SessionInv
<1>2. UNCHANGED <<ram, page_gen, s_cand, s_loaded, s_blobs, missed, stacks>>
  BY DEF Rescan, Publish
<1>3. FrameInv' /\ ~ (Len(calls') > Len(calls))
  BY <1>1, <1>2 DEF FrameInv, stacks
<1>4. CASE \E n \in 1..Len(Cache) : Rescan(n)
  <2>1. PICK n \in 1..Len(Cache) : Rescan(n)
    BY <1>4
  <2>2. /\ s_cache_idx' = s_cache_idx + n /\ s_cache_idx + n <= Len(Cache)
        /\ s_checked' = FALSE /\ UNCHANGED <<blobs, dirty>>
    BY <2>1 DEF Rescan
  <2>3. s_cache_idx' \in 0..Len(Cache) /\ s_loaded' \in 0..s_cache_idx'
    BY <2>2, <1>1, <1>2 DEF TableInv
  <2>4. TableInv'
    BY <2>2, <2>3, <1>1, <1>2 DEF TableInv
  <2>5. FlagInv'
    BY <2>2, <1>1, <1>2, Zenon DEF FlagInv, stacks
  <2> QED BY <2>4, <2>5, <1>3 DEF SessionInv, EntersTrusted
<1>5. CASE \E f \in missed : Publish(f)
  <2>1. PICK f \in missed : Publish(f)
    BY <1>5
  <2>2. /\ blobs' = Append(blobs, f) /\ dirty' = TRUE /\ UNCHANGED <<s_cache_idx, s_checked>>
    BY <2>1 DEF Publish
  <2>3. f \in Fn /\ blobs \in Seq(Fn) /\ s_blobs \in 0..Len(blobs)
    BY <1>1 DEF TableInv
  <2>4. blobs' \in Seq(Fn) /\ s_blobs' \in 0..Len(blobs')
    BY <2>2, <2>3, <1>2
  <2>5. TableInv'
    BY <2>2, <2>4, <1>1, <1>2 DEF TableInv
  <2>6. FlagInv'
    BY <2>2, <1>1, <1>2, Zenon DEF FlagInv, stacks
  <2> QED BY <2>5, <2>6, <1>3 DEF SessionInv, EntersTrusted
<1> QED BY <1>4, <1>5

LEMMA SessionInit == Init => SessionInv
<1> SUFFICES ASSUME Init PROVE SessionInv
  OBVIOUS
<1> USE DEF Init
<1>1. blobs \in Seq(Fn) /\ Len(blobs) \in Nat /\ \A i \in 1..Len(blobs) : blobs[i] \in Fn
  OBVIOUS
<1>2. page_gen \in [Pages -> Nat]
  OBVIOUS
<1>3. ASSUME NEW f \in Fn PROVE sljit_candidate(f) \in Fit
  <2>1. page_gen[PageOf[f.addr]] \in Nat
    BY <1>2 DEF Fn
  <2>2. sljit_candidate(f) \in Candidate /\ sljit_candidate(f).passes = 0
    BY <2>1 DEF sljit_candidate, Candidate, Fn
  <2> QED BY <2>2 DEF Fit
<1>4. s_cand \in [1..Len(blobs) -> Fit]
  BY <1>1, <1>3
<1>5. s_cand \in Seq(Fit)
  BY <1>1, <1>4, SeqOfFunction
<1>6. TableInv
  BY <1>1, <1>2, <1>5 DEF TableInv
<1>7. FrameInv
  BY DEF FrameInv
<1>8. FlagInv
  BY DEF FlagInv
<1> QED BY <1>6, <1>7, <1>8 DEF SessionInv

LEMMA SessionStep ==
    ASSUME SessionInv, Next
    PROVE  SessionInv' /\ EntersTrusted
<1>1. CASE Yield \/ \E r \in [Addrs -> Images] : StateLoad(r)
  <2>1. Unwind /\ ram' \in [Addrs -> Images]
    BY <1>1 DEF Yield, StateLoad, SessionInv, TableInv
  <2> QED BY <2>1, SessionUnwind
<1>2. CASE ~ (Yield \/ \E r \in [Addrs -> Images] : StateLoad(r))
  BY <1>2, SessionDispatch, SessionInterior, SessionReturn, SessionStore, SessionShadow,
     SessionException, SessionProducers DEF Next
<1> QED BY <1>1, <1>2

LEMMA SessionAlways == Spec => []SessionInv
<1>1. SessionInv /\ [Next]_vars => SessionInv'
  <2> SUFFICES ASSUME SessionInv, [Next]_vars PROVE SessionInv'
    OBVIOUS
  <2>1. CASE Next BY <2>1, SessionStep
  <2>2. CASE UNCHANGED vars
    <3> USE <2>2 DEF vars, miss, stacks
    <3>1. TableInv' BY DEF SessionInv, TableInv
    <3>2. FrameInv' BY DEF SessionInv, FrameInv
    <3>3. FlagInv' BY Zenon DEF SessionInv, FlagInv
    <3> QED BY <3>1, <3>2, <3>3 DEF SessionInv
  <2> QED BY <2>1, <2>2
<1> QED
  BY <1>1, SessionInit, PTL DEF Spec

\* The candidate table, the memos of the miss block, the C stack and the globals of
\* run_shadow_diff stay well formed in every session.
THEOREM SessionTypeCorrect == Spec => []TypeOK
<1>1. SessionInv => TypeOK
  <2> SUFFICES ASSUME SessionInv PROVE TypeOK
    OBVIOUS
  <2>1. TableInv /\ FrameInv /\ FlagInv BY DEF SessionInv
  <2>2. s_cand \in Seq(Candidate)
    <3>1. s_cand \in Seq(Fit) BY <2>1 DEF TableInv
    <3>2. Fit \subseteq Candidate BY DEF Fit
    <3> HIDE DEF Fit
    <3>3. Len(s_cand) \in Nat /\ s_cand \in [1..Len(s_cand) -> Candidate]
      BY <3>1, <3>2
    <3> QED BY <3>3, SeqOfFunction
  <2>3. exc \in Excs \cup {NoExc}
    BY <2>1 DEF FrameInv
  <2> QED BY <2>1, <2>2, <2>3, Zenon DEF TypeOK, TableInv, FrameInv, FlagInv
<1> QED
  BY <1>1, SessionAlways, PTL

\* A candidate that must prove itself is entered live, outside a shadow, only with
\* its whole budget of clean diffs and never once it touched a device: in any
\* session, through an entry or an interior.
THEOREM LiveCodeIsTrusted == Spec => TrustedBeforeLive
<1>1. SessionInv /\ [Next]_vars => [EntersTrusted]_vars
  BY SessionStep
<1> QED
  BY <1>1, SessionAlways, PTL DEF Spec, TrustedBeforeLive, EntersTrusted
=============================================================================
