-------------------------- MODULE HookEngineProofs --------------------------
(***************************************************************************)
(* DobbyDestroy undoes DobbyHook and DobbyInstrument, and the newest hook  *)
(* of an address has control, for images, sites and hooks of any number    *)
(* and for trampolines of any lengths on top of each other.  And a thread  *)
(* that calls hooked code runs the whole original function while hooks     *)
(* come and go under it, for code of any length, any number of hooks and   *)
(* of threads, as long as trampolines are near ones and the code has no    *)
(* loops.  Between two patches that holds for trampolines of every kind,   *)
(* with the hooks run in the right order, and for the origin_call of hooks *)
(* that have been destroyed.  A patch that reaches into a second page      *)
(* stops at the end of the first.                                          *)
(***************************************************************************)
EXTENDS HookThreads, FiniteSetTheorems, SequenceTheorems, WellFoundedInduction, TLAPS

---------------------------------------------------------------------------
(* The engine: hooking, instrumenting and destroying                       *)

\* Word k of the trampoline of entry n has been written and not restored.
Written(n, k) ==
    /\ n \in live
    /\ k \in 1 .. Size(n)
    /\ ~(op.n = n /\ op.pc = "origin")
    /\ (op.n = n /\ op.pc = "commit") => k <= op.i
    /\ (op.n = n /\ op.pc = "restore") => op.i < k

\* The entries whose trampolines hold word k of site a.
Holds(a, k, n) == n \in live /\ entry[n].addr = a /\ Written(n, k)

\* The entry a call of Dobby works on is the newest of its address.
OpInv ==
    /\ op.pc = "idle" => op = Idle
    /\ op.pc = "origin" => op.i = 0
    /\ op.pc # "idle" =>
        /\ op.n \in live
        /\ \A m \in live : entry[m].addr = entry[op.n].addr => m <= op.n
        /\ op.i \in 0 .. Size(op.n)

\* A word of a site is that of the newest trampoline holding it, or original.
SiteWord(a, k) ==
    /\ (\A n \in live : ~Holds(a, k, n)) => code[a + k - 1] = Image[a + k - 1]
    /\ \A n \in live :
        (Holds(a, k, n) /\ \A m \in live : Holds(a, k, m) => m <= n)
            => code[a + k - 1] = entry[n].tramp[k]

SiteInv == \A a \in Sites, k \in 1 .. MaxTrampoline : SiteWord(a, k)

\* A word of no site is original.
ElsewhereInv ==
    \A w \in Words : (\A a \in Sites : w \notin a .. a + MaxTrampoline - 1)
        => code[w] = Image[w]

\* The entries below n on its address whose trampolines are at least k long.
Below(n, k, m) ==
    m \in live /\ m < n /\ entry[m].addr = entry[n].addr /\ k <= Size(m)

\* What an entry has saved is the newest trampoline below it, or original.
SavedWord(n, k) ==
    /\ (\A m \in live : ~Below(n, k, m))
        => entry[n].saved[k] = Image[entry[n].addr + k - 1]
    /\ \A m \in live :
        (Below(n, k, m) /\ \A j \in live : Below(n, k, j) => j <= m)
            => entry[n].saved[k] = entry[m].tramp[k]

SavedInv == \A n \in live : \A k \in 1 .. Size(n) : SavedWord(n, k)

IInv == TypeOK /\ OpInv /\ SiteInv /\ ElsewhereInv /\ SavedInv

---------------------------------------------------------------------------

\* Every trampoline the engine may choose has one to four words.
LEMMA TrampolineLengths ==
    ASSUME NEW a, NEW t, NEW far, NEW tramp \in GenerateTrampolineBuffer(a, t, far)
    PROVE  Len(tramp) \in 1 .. MaxTrampoline
<1>1. CASE tramp = GenerateNearTrampolineBuffer(t)
  BY <1>1 DEF GenerateNearTrampolineBuffer, MaxTrampoline
<1>2. CASE tramp = GenerateNormalTrampolineBuffer(a, t, far)
  <2>1. CASE tramp = LiteralLdrBranch(a, t)
    BY <2>1 DEF LiteralLdrBranch, MaxTrampoline
  <2>2. CASE tramp = AdrpAddBr(t)
    BY <2>2 DEF AdrpAddBr, MaxTrampoline
  <2> QED  BY <1>2, <2>1, <2>2 DEF GenerateNormalTrampolineBuffer
<1> QED  BY <1>1, <1>2 DEF GenerateTrampolineBuffer

\* The initial state has nothing hooked.
LEMMA InitIInv == Init => IInv
<1> SUFFICES ASSUME Init PROVE IInv
  OBVIOUS
<1>1. TypeOK
  BY SizesAssumption, SitesAssumption, FlagsAssumption
     DEF Init, TypeOK, Idle, Entries, MaxTrampoline
<1>2. OpInv
  BY DEF Init, OpInv, Idle
<1>3. SiteInv /\ ElsewhereInv /\ SavedInv
  BY DEF Init, SiteInv, SiteWord, ElsewhereInv, SavedInv
<1> QED  BY <1>1, <1>2, <1>3 DEF IInv

\* Nothing is written before Commit: the new entry saves what is there.
LEMMA AddPreserves ==
    ASSUME IInv, Ready, made < MaxHooks,
           NEW a \in Sites, NEW t, NEW h, NEW tramp, NEW pc \in {"origin", "commit"},
           Len(tramp) \in 1 .. MaxTrampoline,
           AddHookEntry(a, t, h, tramp, pc)
    PROVE  IInv'
<1> USE DEF MaxTrampoline
<1>1. PICK n \in Nat : n = made + 1
  BY DEF IInv, TypeOK
<1>2. /\ n \in Entries /\ n \notin live
      /\ \A m \in live : m \in 1 .. made /\ m < n /\ m \in Entries
  BY <1>1, SizesAssumption DEF IInv, TypeOK, Entries
<1>3. /\ entry'[n] = DispatchRouting(a, t, h, tramp)
      /\ \A m \in Entries : m # n => entry'[m] = entry[m]
      /\ DOMAIN entry' = Entries
      /\ live' = live \cup {n}
      /\ made' = n
      /\ op' = [pc |-> pc, n |-> n, i |-> 0]
      /\ code' = code /\ origin' = origin /\ near' = near /\ fate' = fate
  BY <1>1, <1>2 DEF AddHookEntry, IInv, TypeOK
<1>4. /\ entry'[n].addr = a
      /\ entry'[n].tramp = tramp
      /\ entry'[n].saved = [k \in 1 .. Len(tramp) |-> code[a + k - 1]]
      /\ entry'[n].relocated = GenRelocateCodeAndBranch(code, a, Len(tramp))
      /\ Size(n)' = Len(tramp)
  BY <1>3 DEF DispatchRouting, Size
<1>5. \A m \in live : Size(m)' = Size(m) /\ entry'[m] = entry[m]
  BY <1>2, <1>3 DEF Size
<1>6. op = Idle
  BY DEF Ready
<1>7. TypeOK'
  <2>1. \A m \in 1 .. made : entry'[m] = entry[m] /\ Size(m)' = Size(m)
    BY <1>1, <1>3, SizesAssumption DEF IInv, TypeOK, Entries, Size
  <2>2. DOMAIN entry'[n].relocated = 1 .. Size(n)' + 1
    BY <1>4 DEF GenRelocateCodeAndBranch
  <2>3. DOMAIN entry'[n].saved = 1 .. Size(n)'
    BY <1>4
  <2>4. \A m \in 1 .. made' :
          /\ entry'[m].addr \in Sites
          /\ Size(m)' \in 1 .. MaxTrampoline
          /\ DOMAIN entry'[m].saved = 1 .. Size(m)'
          /\ DOMAIN entry'[m].relocated = 1 .. Size(m)' + 1
    <3>1. CASE made' = n
      <4>1. \A m \in 1 .. n : m = n \/ m \in 1 .. made
        BY <1>1 DEF IInv, TypeOK
      <4>2. entry'[n].addr \in Sites /\ Size(n)' \in 1 .. MaxTrampoline
        BY <1>4
      <4>3. \A m \in 1 .. made :
              /\ entry'[m].addr \in Sites
              /\ Size(m)' \in 1 .. MaxTrampoline
              /\ DOMAIN entry'[m].saved = 1 .. Size(m)'
              /\ DOMAIN entry'[m].relocated = 1 .. Size(m)' + 1
        BY <2>1 DEF IInv, TypeOK
      <4> QED  BY <3>1, <4>1, <4>2, <4>3, <2>2, <2>3
    <3> QED  BY <1>3, <3>1
  <2>5. made' \in 0 .. MaxHooks /\ live' \subseteq 1 .. made'
    BY <1>1, <1>2, <1>3, SizesAssumption DEF IInv, TypeOK
  <2>6. op' \in [pc : {"idle", "origin", "commit", "restore"}, n : 0 .. made',
                 i : 0 .. MaxTrampoline]
    BY <1>1, <1>3
  <2> QED  BY <1>3, <2>4, <2>5, <2>6 DEF TypeOK, IInv
<1>8. OpInv'
  <2>1. \A m \in live' : m <= op'.n
    BY <1>1, <1>2, <1>3, SizesAssumption DEF IInv, TypeOK
  <2> QED  BY <1>3, <1>4, <2>1 DEF OpInv
<1>9. \A b \in Sites, k \in 1 .. MaxTrampoline :
        /\ ~Holds(b, k, n)'
        /\ \A m \in live : Holds(b, k, m)' <=> Holds(b, k, m)
  BY <1>2, <1>3, <1>5, <1>6 DEF Holds, Written, Idle
<1>10. SiteInv'
  <2> SUFFICES ASSUME NEW b \in Sites, NEW k \in 1 .. MaxTrampoline
               PROVE  SiteWord(b, k)'
    BY DEF SiteInv
  <2>1. \A m \in live' : Holds(b, k, m)' => m \in live
    BY <1>3, <1>9
  <2>2. SiteWord(b, k)
    BY DEF IInv, SiteInv
  <2> QED  BY <1>3, <1>5, <1>9, <2>1, <2>2 DEF SiteWord
<1>11. ElsewhereInv'
  BY <1>3 DEF IInv, ElsewhereInv
<1>12. \A k \in 1 .. Len(tramp) : \A m \in live : Below(n, k, m)' <=> Holds(a, k, m)
  <2> SUFFICES ASSUME NEW k \in 1 .. Len(tramp), NEW m \in live
               PROVE  Below(n, k, m)' <=> Holds(a, k, m)
    OBVIOUS
  <2>1. Below(n, k, m)' <=> (entry[m].addr = a /\ k <= Size(m))
    BY <1>2, <1>3, <1>4, <1>5 DEF Below
  <2>2. Size(m) \in 1 .. MaxTrampoline
    BY <1>2 DEF IInv, TypeOK
  <2>3. Written(m, k) <=> k <= Size(m)
    BY <1>2, <1>6, <2>2 DEF Written, Idle
  <2> QED  BY <2>1, <2>3 DEF Holds
<1>13. ~\E k \in 1 .. Len(tramp) : Below(n, k, n)'
  BY <1>1, SizesAssumption DEF Below, IInv, TypeOK
<1>14. \A k \in 1 .. Len(tramp) : SavedWord(n, k)'
  <2> SUFFICES ASSUME NEW k \in 1 .. Len(tramp) PROVE SavedWord(n, k)'
    OBVIOUS
  <2>1. entry'[n].saved[k] = code[a + k - 1] /\ k \in 1 .. MaxTrampoline
    BY <1>4
  <2>2. SiteWord(a, k)
    BY <2>1 DEF IInv, SiteInv
  <2>3. \A m \in live' : Below(n, k, m)' => m \in live
    BY <1>3, <1>13
  <2> QED  BY <1>3, <1>4, <1>5, <1>12, <2>1, <2>2, <2>3 DEF SiteWord, SavedWord
<1>15. \A p \in live : \A k \in 1 .. Size(p) : SavedWord(p, k)'
  <2> SUFFICES ASSUME NEW p \in live, NEW k \in 1 .. Size(p)
               PROVE  SavedWord(p, k)'
    OBVIOUS
  <2>1. SavedWord(p, k)
    BY DEF IInv, SavedInv
  <2>2. \A m \in live : Below(p, k, m)' <=> Below(p, k, m)
    BY <1>3, <1>5 DEF Below
  <2>3. ~Below(p, k, n)'
    BY <1>1, <1>2, SizesAssumption DEF Below, IInv, TypeOK
  <2>4. \A m \in live' : Below(p, k, m)' => m \in live
    BY <1>3, <2>3
  <2> QED  BY <1>3, <1>5, <2>1, <2>2, <2>4 DEF SavedWord
<1>16. SavedInv'
  <2> SUFFICES ASSUME NEW p \in live', NEW k \in 1 .. Size(p)'
               PROVE  SavedWord(p, k)'
    BY DEF SavedInv
  <2>1. CASE p = n
    BY <2>1, <1>4, <1>14
  <2>2. CASE p \in live
    BY <2>2, <1>5, <1>15
  <2> QED  BY <1>3, <2>1, <2>2
<1> QED  BY <1>7, <1>8, <1>10, <1>11, <1>16 DEF IInv

\* A step that leaves code, entries and list alone, and for which the same
\* words count as written, preserves the invariant.
LEMMA QuietStep ==
    ASSUME IInv, TypeOK', OpInv', UNCHANGED <<code, entry, live>>,
           \A n \in live, k \in 1 .. MaxTrampoline : Written(n, k)' <=> Written(n, k)
    PROVE  IInv'
<1>1. \A a \in Sites, k \in 1 .. MaxTrampoline : \A n \in live :
        Holds(a, k, n)' <=> Holds(a, k, n)
  BY DEF Holds
<1>2. SiteInv'
  <2> SUFFICES ASSUME NEW a \in Sites, NEW k \in 1 .. MaxTrampoline
               PROVE  SiteWord(a, k)'
    BY DEF SiteInv
  <2>1. SiteWord(a, k)
    BY DEF IInv, SiteInv
  <2> QED  BY <1>1, <2>1 DEF SiteWord
<1>3. SavedInv' /\ ElsewhereInv'
  BY DEF IInv, SavedInv, SavedWord, Below, Size, ElsewhereInv
<1> QED  BY <1>2, <1>3 DEF IInv

\* Updating one element of a table leaves it a table.
LEMMA TableUpdate ==
    ASSUME NEW S, NEW R, NEW V, NEW g \in [S -> [R -> V]], NEW x \in S, NEW y, NEW v \in V
    PROVE  [g EXCEPT ![x][y] = v] \in [S -> [R -> V]]
<1>1. g[x] \in [R -> V]
  OBVIOUS
<1>2. [g[x] EXCEPT ![y] = v] \in [R -> V]
  BY <1>1
<1> QED  BY <1>2

\* Writing *origin_call changes no code.
LEMMA OriginPreserves == IInv /\ SetOriginCall => IInv'
<1> SUFFICES ASSUME IInv, SetOriginCall PROVE IInv'
  OBVIOUS
<1>1. /\ op \in [pc : {"idle", "origin", "commit", "restore"}, n : 0 .. made,
                 i : 0 .. MaxTrampoline]
      /\ op'.pc = "commit" /\ op'.n = op.n /\ op'.i = 0 /\ op.i = 0
      /\ op.pc = "origin"
      /\ op.n \in live /\ op.n \in 1 .. MaxHooks
      /\ UNCHANGED <<code, made, entry, live, near, fate>>
  BY SizesAssumption DEF SetOriginCall, IInv, OpInv, TypeOK
<1>2. op' \in [pc : {"idle", "origin", "commit", "restore"}, n : 0 .. made',
              i : 0 .. MaxTrampoline]
  BY <1>1 DEF SetOriginCall
<1>3. origin' \in [Sites -> [Replacements -> 0 .. MaxHooks]]
  <2>1. /\ origin \in [Sites -> [Replacements -> 0 .. MaxHooks]]
        /\ entry[op.n].addr \in Sites /\ op.n \in 0 .. MaxHooks
    BY <1>1 DEF IInv, TypeOK
  <2>2. origin' = [origin EXCEPT ![entry[op.n].addr][entry[op.n].target[3]] = op.n]
    BY DEF SetOriginCall
  <2> QED  BY <2>1, <2>2, TableUpdate
<1>4. TypeOK'
  BY <1>1, <1>2, <1>3 DEF IInv, TypeOK, Size
<1>5. OpInv'
  BY <1>1 DEF IInv, OpInv, Size, Idle
<1>6. \A n \in live, k \in 1 .. MaxTrampoline : Written(n, k)' <=> Written(n, k)
  BY <1>1 DEF Written, Size
<1> QED  BY <1>1, <1>4, <1>5, <1>6, QuietStep

\* DobbyDestroy picks the newest entry of the address.
LEMMA DestroyPreserves == ASSUME IInv, NEW a \in Sites, DobbyDestroy(a) PROVE IInv'
<1>1. PICK n \in Entries : Finds(a, n) /\ op' = [pc |-> "restore", n |-> n, i |-> 0]
  BY DEF DobbyDestroy
<1>2. /\ op = Idle
      /\ n \in live /\ n \in 1 .. made
      /\ UNCHANGED <<code, made, entry, live, origin, near, fate>>
  BY <1>1 DEF DobbyDestroy, Ready, Finds, IInv, TypeOK
<1>3. Size(n) \in 1 .. MaxTrampoline /\ made \in Nat
  BY <1>2 DEF IInv, TypeOK
<1>4. TypeOK'
  BY <1>1, <1>2 DEF IInv, TypeOK, Size, MaxTrampoline
<1>5. OpInv'
  BY <1>1, <1>2, <1>3 DEF OpInv, Finds, Size, MaxTrampoline
<1>6. \A m \in live, k \in 1 .. MaxTrampoline : Written(m, k)' <=> Written(m, k)
  BY <1>1, <1>2 DEF Written, Size, Idle
<1> QED  BY <1>2, <1>4, <1>5, <1>6, QuietStep

\* After the last word Commit leaves every word of the trampoline written.
LEMMA CommitPreserves == IInv /\ CommitReturns => IInv'
<1> SUFFICES ASSUME IInv, CommitReturns PROVE IInv'
  OBVIOUS
<1>1. /\ op.pc = "commit" /\ op.i = Size(op.n) /\ op' = Idle
      /\ op.n \in live
      /\ UNCHANGED <<code, made, entry, live, origin, near, fate>>
  BY DEF CommitReturns, IInv, OpInv
<1>2. TypeOK'
  BY <1>1 DEF IInv, TypeOK, Size, Idle, MaxTrampoline
<1>3. OpInv'
  BY <1>1 DEF OpInv, Idle
<1>4. \A m \in live, k \in 1 .. MaxTrampoline : Written(m, k)' <=> Written(m, k)
  <2>1. \A m \in live : Size(m) \in Nat /\ m # 0 /\ Size(m)' = Size(m)
    BY <1>1 DEF IInv, TypeOK, Size, MaxTrampoline
  <2> QED  BY <1>1, <2>1 DEF Written, Idle
<1> QED  BY <1>1, <1>2, <1>3, <1>4, QuietStep

\* Two sites have no word in common.
LEMMA SitesApart ==
    ASSUME Spaced, NEW a \in Sites, NEW b \in Sites,
           NEW k \in 1 .. MaxTrampoline, NEW j \in 1 .. MaxTrampoline,
           a + k - 1 = b + j - 1
    PROVE  a = b /\ k = j
<1>1. a \in Int /\ b \in Int
  BY SitesAssumption, SizesAssumption DEF MaxTrampoline
<1>2. ~(a < b) /\ ~(b < a)
  BY <1>1 DEF Spaced, MaxTrampoline
<1> QED  BY <1>1, <1>2 DEF MaxTrampoline

\* One word of CodePatch: the newest entry of the site gains or gives up
\* one word, and that word becomes the one the invariant asks for.
LEMMA PatchPreserves == Spaced /\ IInv /\ PatchWord => IInv'
<1> SUFFICES ASSUME Spaced, IInv, PatchWord PROVE IInv'
  OBVIOUS
<1>1. CASE ~Writable(entry[op.n].addr + op.i)
  <2>1. UNCHANGED <<code, made, entry, live, origin, near, op>> /\ fate' = "fault"
    BY <1>1 DEF PatchWord
  <2>2. TypeOK' /\ OpInv'
    BY <2>1 DEF IInv, TypeOK, OpInv, Size
  <2>3. \A m \in live, k \in 1 .. MaxTrampoline : Written(m, k)' <=> Written(m, k)
    BY <2>1 DEF Written, Size
  <2> QED  BY <2>1, <2>2, <2>3, QuietStep
<1>2. CASE Writable(entry[op.n].addr + op.i)
  <2>1. PICK n \in live, i \in Nat, a \in Sites :
          /\ n = op.n /\ i = op.i /\ a = entry[n].addr
          /\ n \in 1 .. made /\ i < Size(n) /\ Size(n) \in 1 .. MaxTrampoline
          /\ \A m \in live : entry[m].addr = a => m <= n
          /\ op.pc \in {"commit", "restore"}
    <3>1. op.pc \in {"commit", "restore"} /\ op.n \in live /\ op.i < Size(op.n)
      BY DEF PatchWord, IInv, OpInv
    <3>2. op.n \in 1 .. made /\ op.i \in Nat
      BY <3>1 DEF IInv, TypeOK
    <3>3. entry[op.n].addr \in Sites /\ Size(op.n) \in 1 .. MaxTrampoline
      BY <3>2 DEF IInv, TypeOK
    <3> QED  BY <3>1, <3>2, <3>3 DEF IInv, OpInv
  <2>2. /\ code' = [code EXCEPT ![a + i] = PatchBuffer[i + 1]]
        /\ op'.i = i + 1 /\ op'.n = n /\ op'.pc = op.pc
        /\ op' \in [pc : {"idle", "origin", "commit", "restore"}, n : 0 .. made,
                    i : 0 .. MaxTrampoline]
        /\ UNCHANGED <<made, entry, live, origin, near, fate>>
    BY <1>2, <2>1 DEF PatchWord, IInv, TypeOK, MaxTrampoline
  <2>3. i + 1 \in 1 .. MaxTrampoline /\ a \in Nat /\ i + 1 \in 1 .. Size(n)
    BY <2>1, SitesAssumption, SizesAssumption DEF MaxTrampoline
  <2>4. TypeOK'
    BY <2>2 DEF IInv, TypeOK, Size
  <2>5. OpInv'
    BY <2>1, <2>2, <2>3 DEF OpInv, Size
  <2>6. SavedInv'
    BY <2>2 DEF IInv, SavedInv, SavedWord, Below, Size
  <2>7. ElsewhereInv'
    <3>1. \A w \in Words : w # a + i => code'[w] = code[w]
      BY <2>2 DEF IInv, TypeOK
    <3>2. a + i \in a .. a + MaxTrampoline - 1
      BY <2>3 DEF MaxTrampoline
    <3> QED  BY <2>1, <3>1, <3>2 DEF IInv, ElsewhereInv
  <2>8. \A b \in Sites, k \in 1 .. MaxTrampoline :
          (b # a \/ k # i + 1) =>
            /\ code'[b + k - 1] = code[b + k - 1]
            /\ \A m \in live : Holds(b, k, m)' <=> Holds(b, k, m)
    <3> SUFFICES ASSUME NEW b \in Sites, NEW k \in 1 .. MaxTrampoline,
                        b # a \/ k # i + 1
                 PROVE  /\ code'[b + k - 1] = code[b + k - 1]
                        /\ \A m \in live : Holds(b, k, m)' <=> Holds(b, k, m)
      OBVIOUS
    <3>1. b + k - 1 # a + i
      <4>1. a + i = a + (i + 1) - 1
        BY <2>1, <2>3
      <4> QED  BY <2>1, <2>3, <4>1, SitesApart
    <3>2. b + k - 1 \in Words
      BY SitesAssumption, SizesAssumption DEF Words, MaxTrampoline
    <3>3. code'[b + k - 1] = code[b + k - 1]
      BY <2>2, <3>1, <3>2 DEF IInv, TypeOK
    <3>4. ASSUME NEW m \in live PROVE Holds(b, k, m)' <=> Holds(b, k, m)
      <4>1. CASE m # n
        BY <2>1, <2>2, <4>1 DEF Holds, Written, Size
      <4>2. CASE m = n /\ b # a
        BY <2>1, <2>2, <4>2 DEF Holds
      <4>3. CASE m = n /\ k # i + 1
        BY <2>1, <2>2, <4>3 DEF Holds, Written, Size, MaxTrampoline
      <4> QED  BY <4>1, <4>2, <4>3
    <3> QED  BY <3>3, <3>4
  <2>9. SiteWord(a, i + 1)'
    <3>1. a + i \in Words /\ a + (i + 1) - 1 = a + i
      BY <2>3, SitesAssumption, SizesAssumption DEF Words, MaxTrampoline
    <3>2. code'[a + i] = PatchBuffer[i + 1]
      BY <2>2, <3>1 DEF IInv, TypeOK
    <3>3. CASE op.pc = "commit"
      <4>1. code'[a + i] = entry[n].tramp[i + 1]
        BY <2>1, <3>2, <3>3 DEF PatchBuffer
      <4>2. Holds(a, i + 1, n)'
        BY <2>1, <2>2, <2>3, <3>3 DEF Holds, Written, Size
      <4>3. \A m \in live : Holds(a, i + 1, m)' => m <= n
        BY <2>1, <2>2 DEF Holds
      <4>4. \A m \in live : (\A j \in live : Holds(a, i + 1, j)' => j <= m) => n <= m
        BY <2>1, <4>2
      <4>5. \A m \in live : m \in Int
        BY DEF IInv, TypeOK
      <4> QED  BY <2>1, <2>2, <3>1, <4>1, <4>2, <4>3, <4>4, <4>5 DEF SiteWord
    <3>4. CASE op.pc = "restore"
      <4>1. code'[a + i] = entry[n].saved[i + 1]
        BY <2>1, <3>2, <3>4 DEF PatchBuffer
      <4>2. ~Holds(a, i + 1, n)'
        BY <2>1, <2>2, <3>4 DEF Holds, Written
      <4>3. ASSUME NEW m \in live, m # n
            PROVE  Holds(a, i + 1, m)' <=> Below(n, i + 1, m)
        <5>1. Written(m, i + 1)' <=> i + 1 <= Size(m)
          BY <2>1, <2>2, <2>3, <4>3 DEF Written, Size, IInv, TypeOK, MaxTrampoline
        <5>2. entry[m].addr = a => m < n
          BY <2>1, <4>3 DEF IInv, TypeOK
        <5> QED  BY <2>1, <2>2, <5>1, <5>2 DEF Holds, Below
      <4>4. ~Below(n, i + 1, n)
        BY <2>1 DEF Below
      <4>5. \A m \in live : Holds(a, i + 1, m)' <=> Below(n, i + 1, m)
        BY <4>2, <4>3, <4>4
      <4>6. SavedWord(n, i + 1)
        BY <2>1, <2>3 DEF IInv, SavedInv
      <4> QED  BY <2>1, <2>2, <3>1, <4>1, <4>5, <4>6 DEF SiteWord, SavedWord
    <3> QED  BY <2>1, <3>3, <3>4
  <2>10. SiteInv'
    <3> SUFFICES ASSUME NEW b \in Sites, NEW k \in 1 .. MaxTrampoline
                 PROVE  SiteWord(b, k)'
      BY DEF SiteInv
    <3>1. CASE b = a /\ k = i + 1
      BY <2>9, <3>1
    <3>2. CASE b # a \/ k # i + 1
      <4>1. SiteWord(b, k)
        BY DEF IInv, SiteInv
      <4>2. /\ code'[b + k - 1] = code[b + k - 1]
            /\ \A m \in live : Holds(b, k, m)' <=> Holds(b, k, m)
        BY <2>8, <3>2
      <4> QED  BY <2>2, <4>1, <4>2 DEF SiteWord
    <3> QED  BY <3>1, <3>2
  <2> QED  BY <2>4, <2>5, <2>6, <2>7, <2>10 DEF IInv
<1> QED  BY <1>1, <1>2

\* RemoveHookEntry takes the restored entry off the list: no word of it is
\* written any more, and no entry of its address lies above it.
LEMMA RemovePreserves == IInv /\ RemoveHookEntry => IInv'
<1> SUFFICES ASSUME IInv, RemoveHookEntry PROVE IInv'
  OBVIOUS
<1>1. PICK n \in live :
        /\ n = op.n /\ n \in 1 .. made /\ op.i = Size(n) /\ op.pc = "restore"
        /\ \A m \in live : entry[m].addr = entry[n].addr => m <= n
  BY DEF RemoveHookEntry, IInv, OpInv, TypeOK
<1>2. /\ live' = live \ {n} /\ op' = Idle
      /\ UNCHANGED <<code, made, entry, origin, near, fate>>
  <2>1. PICK m \in Entries : Finds(entry[n].addr, m) /\ live' = live \ {m}
    BY <1>1 DEF RemoveHookEntry
  <2>2. m = n
    <3>1. m \in live /\ m <= n /\ n <= m
      BY <1>1, <2>1 DEF Finds
    <3>2. m \in Int /\ n \in Int
      BY <3>1 DEF IInv, TypeOK
    <3> QED  BY <3>1, <3>2
  <2> QED  BY <2>1, <2>2 DEF RemoveHookEntry
<1>3. \A m \in live : Size(m)' = Size(m) /\ Size(m) \in Nat /\ m # 0 /\ m \in Int
  BY <1>2 DEF IInv, TypeOK, Size, MaxTrampoline
<1>4. TypeOK' /\ OpInv'
  BY <1>2 DEF IInv, TypeOK, OpInv, Size, Idle, MaxTrampoline
<1>5. \A a \in Sites, k \in 1 .. MaxTrampoline :
        /\ ~Holds(a, k, n)
        /\ \A m \in live' : Holds(a, k, m)' <=> Holds(a, k, m)
  BY <1>1, <1>2, <1>3 DEF Holds, Written, Idle
<1>6. SiteInv'
  <2> SUFFICES ASSUME NEW a \in Sites, NEW k \in 1 .. MaxTrampoline
               PROVE  SiteWord(a, k)'
    BY DEF SiteInv
  <2>1. SiteWord(a, k)
    BY DEF IInv, SiteInv
  <2> QED  BY <1>2, <1>5, <2>1 DEF SiteWord
<1>7. ElsewhereInv'
  BY <1>2 DEF IInv, ElsewhereInv
<1>8. SavedInv'
  <2> SUFFICES ASSUME NEW p \in live', NEW k \in 1 .. Size(p)'
               PROVE  SavedWord(p, k)'
    BY DEF SavedInv
  <2>1. p \in live /\ p # n /\ SavedWord(p, k)
    BY <1>2, <1>3 DEF IInv, SavedInv
  <2>2. ~Below(p, k, n)
    BY <1>1, <1>3, <2>1 DEF Below
  <2>3. \A m \in live' : Below(p, k, m)' <=> Below(p, k, m)
    BY <1>2, <1>3 DEF Below
  <2> QED  BY <1>2, <2>1, <2>2, <2>3 DEF SavedWord
<1> QED  BY <1>4, <1>6, <1>7, <1>8 DEF IInv

\* Routing adds an entry or ends the process.
LEMMA RoutePreserves ==
    ASSUME IInv, Ready, made < MaxHooks, NEW a \in Sites, NEW t, NEW h, NEW far,
           NEW pc \in {"origin", "commit"}, Route(a, t, h, far, pc)
    PROVE  IInv'
<1>1. PICK tramp \in GenerateTrampolineBuffer(a, t, far) :
        AddHookEntry(a, t, h, tramp, pc) \/ RoutingDies(a, tramp)
  BY DEF Route
<1>2. CASE AddHookEntry(a, t, h, tramp, pc)
  BY <1>2, TrampolineLengths, AddPreserves
<1>3. CASE RoutingDies(a, tramp)
  <2>1. /\ UNCHANGED <<code, made, entry, live, origin, near, op>>
        /\ fate' \in {"abort", "fault"}
    BY <1>3 DEF RoutingDies
  <2>2. TypeOK' /\ OpInv'
    BY <2>1 DEF IInv, TypeOK, OpInv, Size
  <2>3. \A m \in live, k \in 1 .. MaxTrampoline : Written(m, k)' <=> Written(m, k)
    BY <2>1 DEF Written, Size
  <2> QED  BY <2>1, <2>2, <2>3, QuietStep
<1> QED  BY <1>1, <1>2, <1>3

\* Every step of the engine preserves the invariant.
LEMMA NextPreserves == Spaced /\ IInv /\ [Next]_vars => IInv'
<1> SUFFICES ASSUME Spaced, IInv, [Next]_vars PROVE IInv'
  OBVIOUS
<1>1. ASSUME NEW a \in Sites, NEW f \in Replacements, DobbyHook(a, f) PROVE IInv'
  BY <1>1, RoutePreserves DEF DobbyHook
<1>2. ASSUME NEW a \in Sites, NEW h \in Handlers, DobbyInstrument(a, h) PROVE IInv'
  <2>1. PICK t : t = Closure(made + 1)
    OBVIOUS
  <2>2. /\ Ready /\ made < MaxHooks
        /\ Route(a, t, <<"handler", h>>, "closure" \in Far, "commit")
    BY <1>2, <2>1 DEF DobbyInstrument
  <2> QED  BY <2>2, RoutePreserves
<1>3. ASSUME NEW a \in Sites, DobbyDestroy(a) PROVE IInv'
  BY <1>3, DestroyPreserves
<1>4. CASE dobby_enable_near_branch_trampoline \/ dobby_disable_near_branch_trampoline
           \/ UNCHANGED vars
  <2>1. UNCHANGED <<code, made, entry, live, origin, op, fate>> /\ near' \in BOOLEAN
    BY <1>4 DEF dobby_enable_near_branch_trampoline, vars, IInv, TypeOK,
                dobby_disable_near_branch_trampoline
  <2>2. TypeOK' /\ OpInv'
    BY <2>1 DEF IInv, TypeOK, OpInv, Size
  <2>3. \A m \in live, k \in 1 .. MaxTrampoline : Written(m, k)' <=> Written(m, k)
    BY <2>1 DEF Written, Size
  <2> QED  BY <2>1, <2>2, <2>3, QuietStep
<1> QED  BY <1>1, <1>2, <1>3, <1>4, OriginPreserves, PatchPreserves, CommitPreserves,
            RemovePreserves DEF Next

\* The inductive invariant gives the two properties.
LEMMA IInvImplies == IInv => NoHookNoPatch /\ NewestHasControl
<1> SUFFICES ASSUME IInv PROVE NoHookNoPatch /\ NewestHasControl
  OBVIOUS
<1>1. ASSUME NEW w \in Words, \A n \in live : ~Covers(n, w)
      PROVE  code[w] = Image[w]
  <2>1. CASE \A a \in Sites : w \notin a .. a + MaxTrampoline - 1
    BY <2>1 DEF IInv, ElsewhereInv
  <2>2. ASSUME NEW a \in Sites, w \in a .. a + MaxTrampoline - 1
        PROVE  code[w] = Image[w]
    <3>1. a \in Nat /\ w \in Nat
      BY SitesAssumption, SizesAssumption DEF Words
    <3>2. PICK k \in 1 .. MaxTrampoline : w = a + k - 1
      <4>1. w - a + 1 \in 1 .. MaxTrampoline /\ w = a + (w - a + 1) - 1
        BY <2>2, <3>1 DEF MaxTrampoline
      <4> QED  BY <4>1
    <3>3. \A n \in live : ~Holds(a, k, n)
      <4> SUFFICES ASSUME NEW n \in live, Holds(a, k, n) PROVE Covers(n, w)
        BY <1>1
      <4>1. entry[n].addr = a /\ k \in 1 .. Size(n) /\ Size(n) \in Nat
        BY DEF Holds, Written, IInv, TypeOK, MaxTrampoline
      <4> QED  BY <3>1, <3>2, <4>1 DEF Covers
    <3>4. SiteWord(a, k)
      BY DEF IInv, SiteInv
    <3> QED  BY <3>2, <3>3, <3>4 DEF SiteWord
  <2> QED  BY <2>1, <2>2
<1>2. ASSUME op = Idle, NEW a \in Sites, NEW n \in Entries, Finds(a, n),
             NEW k \in 1 .. Size(n)
      PROVE  code[a + k - 1] = entry[n].tramp[k]
  <2>1. n \in live /\ n \in 1 .. made /\ entry[n].addr = a
    BY <1>2 DEF Finds, IInv, TypeOK
  <2>2. k \in 1 .. MaxTrampoline
    BY <2>1 DEF IInv, TypeOK, MaxTrampoline
  <2>3. Holds(a, k, n) /\ \A m \in live : Holds(a, k, m) => m <= n
    BY <1>2, <2>1 DEF Holds, Written, Finds, Idle
  <2>4. SiteWord(a, k)
    BY <2>2 DEF IInv, SiteInv
  <2> QED  BY <2>1, <2>3, <2>4 DEF SiteWord
<1> QED  BY <1>1, <1>2 DEF NoHookNoPatch, NewestHasControl

\* The bookkeeping of the interceptor is well formed when the sites are at
\* least a trampoline apart.
THEOREM EngineTypeCorrect == Spaced => (Spec => []TypeOK)
<1> SUFFICES ASSUME Spaced PROVE Spec => []TypeOK
  OBVIOUS
<1>1. IInv /\ [Next]_vars => IInv'
  BY NextPreserves
<1>2. IInv => TypeOK
  BY DEF IInv
<1> QED  BY InitIInv, <1>1, <1>2, PTL DEF Spec

\* DobbyDestroy restores the code: for sites that are far enough apart, a
\* word no remaining hook covers is the original word, whatever trampolines
\* have been put on top of each other and taken off again.
THEOREM DestroyRestores == Spaced => (Spec => []NoHookNoPatch)
<1> SUFFICES ASSUME Spaced PROVE Spec => []NoHookNoPatch
  OBVIOUS
<1>1. IInv /\ [Next]_vars => IInv'
  BY NextPreserves
<1> QED  BY InitIInv, <1>1, IInvImplies, PTL DEF Spec

\* Between two calls of Dobby the newest hook of every address has control.
THEOREM NewestHookRuns == Spaced => (Spec => []NewestHasControl)
<1> SUFFICES ASSUME Spaced PROVE Spec => []NewestHasControl
  OBVIOUS
<1>1. IInv /\ [Next]_vars => IInv'
  BY NextPreserves
<1> QED  BY InitIInv, <1>1, IInvImplies, PTL DEF Spec

---------------------------------------------------------------------------
(* Pages                                                                   *)

\* A set of numbers that is not empty has a least one: what the proofs below
\* use in the place of induction.
LEMMA LeastNat ==
    ASSUME NEW T \in SUBSET Nat, T # {}
    PROVE  \E n \in T : \A m \in T : n <= m
<1>1. IsWellFoundedOn(OpToRel(<, Nat), Nat)
    BY NatLessThanWellFounded
<1>2. PICK x \in T : \A y \in T : ~(<<y, x>> \in OpToRel(<, Nat))
    BY <1>1, WFMin
<1>3. \A y \in T : ~(y < x)
    BY <1>2 DEF OpToRel
<1> QED BY <1>3

LEMMA SitesInt == \A a \in Sites : a \in Int
<1> SUFFICES ASSUME NEW a \in Sites PROVE a \in Int
  OBVIOUS
<1>1. a \in 0 .. CodeWords - MaxTrampoline
  BY SitesAssumption
<1> QED  BY <1>1

\* A set of entries that is not empty has a newest one.
LEMMA NewestIn ==
    ASSUME NEW N \in Nat, NEW T \in SUBSET (1 .. N), T # {}
    PROVE  \E n \in T : \A m \in T : m <= n
<1> DEFINE S == {N - n : n \in T}
<1>1. S \in SUBSET Nat /\ S # {}
  <2>1. \A n \in T : N - n \in Nat
    OBVIOUS
  <2> QED  BY <2>1
<1>2. PICK s \in S : \A r \in S : s <= r
  BY <1>1, LeastNat
<1>3. PICK n \in T : s = N - n
  BY <1>2
<1>4. ASSUME NEW m \in T PROVE m <= n
  <2>1. N - n <= N - m
    BY <1>2, <1>3
  <2> QED  BY <2>1
<1> QED  BY <1>4

\* Word k of the trampoline of entry n lies in the page that CodePatch makes
\* writable.
InPage(n, k) == Page(entry[n].addr + k - 1) = Page(entry[n].addr)

\* Entry n has been, or is being, committed.
Settling(n) == op.n = n /\ op.pc \in {"origin", "commit"}

\* What has been written is in the page of its first word: the words of every
\* entry that Commit is through with, and the words it has come to.
PageInv ==
    /\ \A n \in live : ~Settling(n) => \A k \in 1 .. Size(n) : InPage(n, k)
    /\ op.pc = "commit" => \A k \in 1 .. op.i : InPage(op.n, k)
    /\ fate = "fault" /\ op # Idle =>
            op.pc = "commit" /\ op.i < Size(op.n) /\ ~InPage(op.n, op.i + 1)

LEMMA RoutePages ==
    ASSUME IInv, PageInv, Ready, made < MaxHooks,
           NEW a \in Sites, NEW t, NEW h, NEW far, NEW pc \in {"origin", "commit"}, Route(a, t, h, far, pc)
    PROVE  PageInv'
<1>1. PICK tramp \in GenerateTrampolineBuffer(a, t, far) :
        AddHookEntry(a, t, h, tramp, pc) \/ RoutingDies(a, tramp)
  BY DEF Route
<1>2. op = Idle /\ fate = "running" /\ \A m \in live : ~Settling(m)
  BY DEF Ready, Idle, Settling
<1>3. CASE RoutingDies(a, tramp)
  <2>1. UNCHANGED <<entry, live, op>>
    BY <1>3 DEF RoutingDies
  <2> QED  BY <1>2, <2>1 DEF PageInv, Settling, InPage, Size, Idle
<1>4. CASE AddHookEntry(a, t, h, tramp, pc)
  <2>1. PICK n \in Nat : n = made + 1
    BY DEF IInv, TypeOK
  <2>2. /\ n \in Entries /\ n \notin live
        /\ \A m \in live : m \in Entries /\ m # n
    BY <2>1, SizesAssumption DEF IInv, TypeOK, Entries
  <2>3. /\ \A m \in live : entry'[m] = entry[m] /\ Size(m)' = Size(m)
        /\ live' = live \cup {n} /\ fate' = fate
        /\ op' = [pc |-> pc, n |-> n, i |-> 0]
    BY <1>4, <2>1, <2>2 DEF AddHookEntry, IInv, TypeOK, Size
  <2> QED  BY <1>2, <2>2, <2>3 DEF PageInv, Settling, InPage
<1> QED  BY <1>1, <1>3, <1>4

\* Commit stops at the first word of the next page; the words DobbyDestroy
\* puts back are those Commit wrote.
LEMMA PatchPages ==
    ASSUME IInv, PageInv, PatchWord
    PROVE  PageInv'
<1>1. PICK n \in live, i \in Nat :
        /\ n = op.n /\ i = op.i /\ n \in 1 .. made /\ n \in Nat
        /\ i < Size(n) /\ Size(n) \in Nat
        /\ op.pc \in {"commit", "restore"} /\ fate = "running"
        /\ entry[n].addr \in Int
  <2>1. /\ op.pc \in {"commit", "restore"} /\ op.n \in live /\ op.i < Size(op.n)
        /\ fate = "running"
    BY DEF PatchWord, IInv, OpInv
  <2>2. op.n \in 1 .. made /\ op.i \in Nat /\ made \in Nat
    BY <2>1 DEF IInv, TypeOK
  <2>3. entry[op.n].addr \in Sites /\ Size(op.n) \in 1 .. MaxTrampoline
    BY <2>2 DEF IInv, TypeOK
  <2>4. entry[op.n].addr \in Int /\ Size(op.n) \in Nat
    BY <2>3, SitesInt DEF MaxTrampoline
  <2> QED  BY <2>1, <2>2, <2>4
<1>2. Writable(entry[n].addr + i) <=> InPage(n, i + 1)
  <2>1. entry[n].addr + (i + 1) - 1 = entry[n].addr + i
    BY <1>1
  <2> QED  BY <1>1, <2>1 DEF Writable, InPage, Page
<1>3. CASE Writable(entry[n].addr + i)
  <2>1. /\ UNCHANGED <<entry, live, fate>> /\ op' = [op EXCEPT !.i = @ + 1]
    BY <1>1, <1>3 DEF PatchWord
  <2>2. op'.n = n /\ op'.pc = op.pc /\ op'.i = i + 1
    BY <1>1, <2>1 DEF IInv, TypeOK
  <2>3. \A m, k : (InPage(m, k)' <=> InPage(m, k)) /\ Size(m)' = Size(m)
    BY <2>1 DEF InPage, Size, Page
  <2>4. \A m : Settling(m)' <=> Settling(m)
    BY <1>1, <2>2 DEF Settling
  <2>5. op.pc = "commit" => \A k \in 1 .. i + 1 : InPage(n, k)
    BY <1>1, <1>2, <1>3 DEF PageInv
  <2> QED  BY <1>1, <2>1, <2>2, <2>3, <2>4, <2>5 DEF PageInv
<1>4. CASE ~Writable(entry[n].addr + i)
  <2>1. UNCHANGED <<entry, live, op>>
    BY <1>1, <1>4 DEF PatchWord
  <2>2. op.pc = "commit"
    <3>1. SUFFICES ASSUME op.pc = "restore" PROVE FALSE
      BY <1>1
    <3>2. i + 1 \in 1 .. Size(n) /\ ~Settling(n)
      BY <1>1, <3>1 DEF Settling
    <3> QED  BY <1>2, <1>4, <3>2 DEF PageInv
  <2>3. \A m, k : (InPage(m, k)' <=> InPage(m, k)) /\ Size(m)' = Size(m) /\ (Settling(m)' <=> Settling(m))
    BY <2>1 DEF InPage, Size, Page, Settling
  <2> QED  BY <1>1, <1>2, <1>4, <2>1, <2>2, <2>3 DEF PageInv
<1> QED  BY <1>3, <1>4

LEMMA NextPages ==
    ASSUME IInv, PageInv, [Next]_vars
    PROVE  PageInv'
<1>1. ASSUME NEW a \in Sites, NEW f \in Replacements, DobbyHook(a, f) PROVE PageInv'
  BY <1>1, RoutePages DEF DobbyHook
<1>2. ASSUME NEW a \in Sites, NEW h \in Handlers, DobbyInstrument(a, h) PROVE PageInv'
  <2>1. PICK t : t = Closure(made + 1)
    OBVIOUS
  <2>2. /\ Ready /\ made < MaxHooks
        /\ Route(a, t, <<"handler", h>>, "closure" \in Far, "commit")
    BY <1>2, <2>1 DEF DobbyInstrument
  <2> QED  BY <2>2, RoutePages
<1>3. ASSUME UNCHANGED entry
      PROVE  \A m, k : (InPage(m, k)' <=> InPage(m, k)) /\ Size(m)' = Size(m)
  BY <1>3 DEF InPage, Size, Page
<1>4. ASSUME NEW a \in Sites, DobbyDestroy(a) PROVE PageInv'
  <2>1. /\ op = Idle /\ fate = "running" /\ op'.pc = "restore" /\ UNCHANGED <<entry, live, fate>>
    BY <1>4 DEF DobbyDestroy, Ready
  <2> QED  BY <1>3, <2>1 DEF PageInv, Settling, Idle
<1>5. CASE SetOriginCall
  <2>1. op.i = 0 /\ op.pc = "origin" /\ op # Idle
    BY <1>5 DEF SetOriginCall, IInv, OpInv, Idle
  <2>2. /\ UNCHANGED <<entry, live, fate>> /\ op'.n = op.n /\ op'.pc = "commit" /\ op'.i = 0
    BY <1>5, <2>1 DEF SetOriginCall, IInv, TypeOK
  <2>3. fate # "fault"
    BY <2>1 DEF PageInv
  <2> QED  BY <1>3, <2>1, <2>2, <2>3 DEF PageInv, Settling
<1>6. CASE CommitReturns
  <2>1. /\ op.pc = "commit" /\ op.i = Size(op.n) /\ op' = Idle /\ UNCHANGED <<entry, live, fate>>
    BY <1>6 DEF CommitReturns
  <2>2. \A n \in live : \A k \in 1 .. Size(n) : InPage(n, k)
    BY <2>1 DEF PageInv, Settling
  <2> QED  BY <1>3, <2>1, <2>2 DEF PageInv, Idle
<1>7. CASE RemoveHookEntry
  <2>1. op.pc = "restore" /\ op' = Idle /\ UNCHANGED <<entry, fate>> /\ live' \subseteq live
    BY <1>7 DEF RemoveHookEntry
  <2> QED  BY <1>3, <2>1 DEF PageInv, Settling, Idle
<1>8. CASE UNCHANGED <<entry, live, op, fate>>
  BY <1>3, <1>8 DEF PageInv, Settling
<1> QED  BY <1>1, <1>2, <1>4, <1>5, <1>6, <1>7, <1>8, PatchPages
         DEF Next, dobby_enable_near_branch_trampoline, dobby_disable_near_branch_trampoline, vars

\* A later word of a trampoline is not in an earlier page.
LEMMA PagesAscend ==
    ASSUME NEW v \in Int, NEW w \in Int, v <= w
    PROVE  Page(v) \in Int /\ Page(v) <= Page(w)
<1>1. PageWords \in Nat \ {0}
  BY SizesAssumption
<1> QED  BY <1>1 DEF Page

\* What a fault leaves behind.
LEMMA AfterFault ==
    ASSUME IInv, PageInv, fate = "fault", op # Idle
    PROVE  FaultsAtPageEnd
<1> DEFINE n == op.n
           a == entry[n].addr
           i == op.i
<1>1. op.pc = "commit" /\ i < Size(n) /\ ~InPage(n, i + 1) /\ \A k \in 1 .. i : InPage(n, k)
  BY DEF PageInv
<1>2. n \in live /\ \A m \in live : entry[m].addr = a => m <= n
  BY <1>1 DEF IInv, OpInv
<1>3. /\ n \in 1 .. made /\ made \in Nat /\ live \subseteq 1 .. made /\ i \in Nat
      /\ a \in Sites /\ Size(n) \in 1 .. MaxTrampoline /\ Size(n) \in Nat /\ a \in Int
  <2>1. n \in 1 .. made /\ made \in Nat /\ live \subseteq 1 .. made /\ i \in Nat
    BY <1>2 DEF IInv, TypeOK
  <2>2. a \in Sites /\ Size(n) \in 1 .. MaxTrampoline
    BY <2>1 DEF IInv, TypeOK
  <2> QED  BY <2>1, <2>2, SitesInt DEF MaxTrampoline
<1> HIDE DEF n, a, i
<1>4. ASSUME NEW k \in 1 .. Size(n)
      PROVE  InPage(n, k) <=> k <= i
  <2>1. CASE k <= i
    <3>1. k \in 1 .. i
      BY <1>3, <2>1
    <3> QED  BY <1>1, <2>1, <3>1
  <2>2. CASE k > i
    <3>1. /\ a \in Int /\ a + i \in Int /\ a + k - 1 \in Int /\ a <= a + i /\ a + i <= a + k - 1
      BY <1>3, <2>2
    <3>2. Page(a) \in Int /\ Page(a + i) \in Int /\ Page(a + k - 1) \in Int
          /\ Page(a) <= Page(a + i) /\ Page(a + i) <= Page(a + k - 1)
      BY <3>1, PagesAscend
    <3>3. a + (i + 1) - 1 = a + i
      BY <1>3
    <3>4. Page(a + i) # Page(a)
      BY <1>1, <3>3 DEF InPage, a
    <3>5. Page(a + k - 1) # Page(a)
      BY <3>2, <3>4
    <3> QED  BY <1>3, <2>2, <3>5 DEF InPage, a
  <2> QED  BY <1>3, <2>1, <2>2
<1>5. ASSUME NEW k \in 1 .. Size(n)
      PROVE  code[a + k - 1] = IF k <= i THEN entry[n].tramp[k] ELSE entry[n].saved[k]
  <2>1. k \in 1 .. MaxTrampoline /\ SiteWord(a, k)
    BY <1>3 DEF IInv, SiteInv, MaxTrampoline
  <2>2. Written(n, k) <=> k <= i
    BY <1>1, <1>2 DEF Written, n, i
  <2>3. CASE k <= i
    <3>1. Holds(a, k, n) /\ \A m \in live : Holds(a, k, m) => m <= n
      BY <1>2, <2>2, <2>3 DEF Holds, a
    <3> QED  BY <1>2, <2>1, <2>3, <3>1 DEF SiteWord
  <2>4. CASE ~(k <= i)
    <3>1. ASSUME NEW m \in live
          PROVE  Holds(a, k, m) <=> Below(n, k, m)
      <4>1. CASE m = n
        BY <1>3, <2>2, <2>4, <4>1 DEF Holds, Below
      <4>2. CASE m # n
        <5>1. m \in 1 .. made /\ Size(m) \in Nat
          BY <1>3 DEF IInv, TypeOK, MaxTrampoline
        <5>2. Written(m, k) <=> k <= Size(m)
          BY <1>3, <4>2, <5>1 DEF Written, n
        <5>3. entry[m].addr = a => m < n
          BY <1>2, <1>3, <4>2, <5>1
        <5> QED  BY <5>2, <5>3 DEF Holds, Below, a
      <4> QED  BY <4>1, <4>2
    <3>2. SavedWord(n, k)
      BY <1>2 DEF IInv, SavedInv
    <3>3. CASE \A m \in live : ~Below(n, k, m)
      <4>1. code[a + k - 1] = Image[a + k - 1]
        BY <2>1, <3>1, <3>3 DEF SiteWord
      <4> QED  BY <2>4, <3>2, <3>3, <4>1 DEF SavedWord, a
    <3>4. CASE \E m \in live : Below(n, k, m)
      <4>1. PICK m \in live : Below(n, k, m) /\ \A j \in live : Below(n, k, j) => j <= m
        <5> DEFINE T == {m \in live : Below(n, k, m)}
        <5>1. T \in SUBSET (1 .. made) /\ T # {}
          BY <1>3, <3>4
        <5>2. \E m \in T : \A j \in T : j <= m
          BY <1>3, <5>1, NewestIn
        <5> QED  BY <5>2
      <4>2. code[a + k - 1] = entry[m].tramp[k]
        BY <2>1, <3>1, <4>1 DEF SiteWord
      <4>3. entry[n].saved[k] = entry[m].tramp[k]
        BY <3>2, <4>1 DEF SavedWord
      <4> QED  BY <2>4, <4>2, <4>3
    <3> QED  BY <3>3, <3>4
  <2> QED  BY <2>3, <2>4
<1>6. ~InPage(n, Size(n))
  <2>1. Size(n) \in 1 .. Size(n) /\ ~(Size(n) <= i)
    BY <1>1, <1>3 DEF n, i
  <2> QED  BY <1>4, <2>1
<1> QED  BY <1>1, <1>4, <1>5, <1>6 DEF FaultsAtPageEnd, InPage, n, a, i

\* CodePatch writes a trampoline up to the end of the page it has made
\* writable; one that reaches further ends the process there, with the rest of
\* the code as it was.  DobbyDestroy never faults.  For every page size, any
\* image, and trampolines of any lengths on top of each other.
THEOREM PatchFaultsAtPageEnd == Spaced => (Spec => []FaultsAtPageEnd)
<1> SUFFICES ASSUME Spaced PROVE Spec => []FaultsAtPageEnd
  OBVIOUS
<1>1. Init => PageInv
  BY DEF Init, PageInv, Settling, Idle
<1>2. IInv /\ [Next]_vars => IInv'
  BY NextPreserves
<1>3. IInv /\ PageInv /\ [Next]_vars => PageInv'
  BY NextPages
<1>4. IInv /\ PageInv => FaultsAtPageEnd
  BY AfterFault DEF FaultsAtPageEnd
<1> QED  BY InitIInv, <1>1, <1>2, <1>3, <1>4, PTL DEF Spec

---------------------------------------------------------------------------
(* Threads in hooked code                                                  *)

---------------------------------------------------------------------------
(* What has been run                                                       *)

\* The recursive functions on numbers of HookCalls: the instructions picked
\* from a sequence, the hooks stacked on a word, the states of a walk.
Pick(s, i, ran) ==
    IF i = 0 THEN <<>> ELSE IF s[i][1] \in {"code", "lost"} THEN Append(ran, s[i]) ELSE ran
Stack(w, n, below) ==
    IF n = 0 THEN <<>>
    ELSE IF n \in Installed /\ entry[n].addr = w THEN <<entry[n].target>> \o below ELSE below
Advance(m, i, last) == IF i = 0 THEN m ELSE Step(last)

Item(kind, x, i, last) ==
    CASE kind = "pick" -> Pick(x, i, last)
      [] kind = "stack" -> Stack(x, i, last)
      [] kind = "walk" -> Advance(x, i, last)

Kinds == {"pick", "stack", "walk"}

\* f is the function of a kind from 0 to n.
Recurs(kind, f, x, n) == f = [i \in 0 .. n |-> Item(kind, x, i, f[i - 1])]
Picks(f, s, n) == f = [i \in 0 .. n |-> Pick(s, i, f[i - 1])]
Stacks(f, w, n) == f = [i \in 0 .. n |-> Stack(w, i, f[i - 1])]
Walks(f, m, n) == f = [i \in 0 .. n |-> Advance(m, i, f[i - 1])]

\* The three recursive functions are of one form.
LEMMA RecursIs ==
    ASSUME NEW f, NEW x, NEW n
    PROVE  /\ Picks(f, x, n) <=> Recurs("pick", f, x, n)
           /\ Stacks(f, x, n) <=> Recurs("stack", f, x, n)
           /\ Walks(f, x, n) <=> Recurs("walk", f, x, n)
<1>1. \A i, last : /\ Item("pick", x, i, last) = Pick(x, i, last)
                   /\ Item("stack", x, i, last) = Stack(x, i, last)
                   /\ Item("walk", x, i, last) = Advance(x, i, last)
    BY DEF Item
<1>2. Picks(f, x, n) <=> Recurs("pick", f, x, n)
    BY <1>1 DEF Picks, Recurs
<1>3. Stacks(f, x, n) <=> Recurs("stack", f, x, n)
    BY <1>1 DEF Stacks, Recurs
<1>4. Walks(f, x, n) <=> Recurs("walk", f, x, n)
    BY <1>1 DEF Walks, Recurs
<1> QED BY <1>2, <1>3, <1>4

\* The first value does not depend on the one before it.
LEMMA ItemAtZero ==
    ASSUME NEW kind \in Kinds, NEW x
    PROVE  \A f, g : Item(kind, x, 0, f) = Item(kind, x, 0, g)
BY DEF Item, Pick, Stack, Advance, Kinds

\* There is a function of each kind.
LEMMA RecursExists ==
    ASSUME NEW kind \in Kinds, NEW x, NEW len \in Nat
    PROVE  \E f : Recurs(kind, f, x, len)
<1> DEFINE T == {n \in Nat : ~\E f : Recurs(kind, f, x, n)}
<1>1. SUFFICES ASSUME T # {} PROVE FALSE
    OBVIOUS
<1>2. PICK n \in T : \A m \in T : n <= m
    BY <1>1, LeastNat
<1>3. CASE n = 0
    <2> DEFINE f == [i \in 0 .. 0 |-> Item(kind, x, 0, <<>>)]
    <2>1. f = [i \in 0 .. 0 |-> f[i]] /\ f[0] = Item(kind, x, 0, <<>>)
        OBVIOUS
    <2> HIDE DEF f
    <2>2. \A i \in 0 .. 0 : f[i] = Item(kind, x, i, f[i - 1])
        BY <2>1, ItemAtZero
    <2>3. Recurs(kind, f, x, 0)
        BY <2>1, <2>2 DEF Recurs
    <2> QED BY <1>2, <1>3, <2>3
<1>4. CASE n > 0
    <2>1. n \in Nat /\ n - 1 \in Nat /\ ~(n <= n - 1)
        BY <1>2, <1>4
    <2>2. PICK g : Recurs(kind, g, x, n - 1)
        BY <1>2, <2>1
    <2> DEFINE f == [i \in 0 .. n |-> IF i = n THEN Item(kind, x, n, g[n - 1]) ELSE g[i]]
    <2>3. \A i \in 0 .. n - 1 : g[i] = Item(kind, x, i, g[i - 1])
        BY <2>2 DEF Recurs
    <2>4. f[n] = Item(kind, x, n, g[n - 1]) /\ \A i \in 0 .. n - 1 : f[i] = g[i]
        BY <2>1
    <2>5. f = [i \in 0 .. n |-> f[i]]
        OBVIOUS
    <2> HIDE DEF f
    <2>6. \A i \in 0 .. n : f[i] = Item(kind, x, i, f[i - 1])
        <3> SUFFICES ASSUME NEW i \in 0 .. n PROVE f[i] = Item(kind, x, i, f[i - 1])
            OBVIOUS
        <3>1. CASE i = n
            BY <1>4, <2>1, <2>4, <3>1
        <3>2. CASE i = 0
            <4>1. f[0] = g[0] /\ g[0] = Item(kind, x, 0, g[0 - 1])
                BY <1>4, <2>1, <2>3, <2>4
            <4> QED BY <3>2, <4>1, ItemAtZero
        <3>3. CASE i \in 1 .. n - 1
            BY <2>1, <2>3, <2>4, <3>3
        <3> QED BY <2>1, <3>1, <3>2, <3>3
    <2>7. Recurs(kind, f, x, n)
        BY <2>5, <2>6 DEF Recurs
    <2> QED BY <1>2, <2>7
<1> QED BY <1>2, <1>3, <1>4

\* Two functions of a kind agree as far as their parameters do.
LEMMA RecursUnique ==
    ASSUME NEW kind \in Kinds, NEW x, NEW y, NEW m \in Nat, NEW n \in Nat, m <= n, NEW f, NEW g,
           Recurs(kind, f, x, m), Recurs(kind, g, y, n),
           \A i \in 0 .. m : \A last : Item(kind, x, i, last) = Item(kind, y, i, last)
    PROVE  \A i \in 0 .. m : f[i] = g[i]
<1> DEFINE T == {i \in 0 .. m : f[i] # g[i]}
<1>1. SUFFICES ASSUME T # {} PROVE FALSE
    OBVIOUS
<1>2. T \in SUBSET Nat
    OBVIOUS
<1>3. PICK i \in T : \A j \in T : i <= j
    BY <1>1, <1>2, LeastNat
<1>4. i \in 0 .. m /\ f[i] # g[i]
    OBVIOUS
<1>5. f[i] = Item(kind, x, i, f[i - 1]) /\ g[i] = Item(kind, y, i, g[i - 1])
    <2>1. i \in 0 .. m /\ i \in 0 .. n
        BY <1>4
    <2>2. f[i] = Item(kind, x, i, f[i - 1])
        BY <2>1 DEF Recurs
    <2>3. g[i] = Item(kind, y, i, g[i - 1])
        BY <2>1 DEF Recurs
    <2> QED BY <2>2, <2>3
<1>6. CASE i = 0
    <2>1. \A last : Item(kind, x, 0, last) = Item(kind, y, 0, last)
        OBVIOUS
    <2>2. PICK u, v : u = f[i - 1] /\ v = g[i - 1]
        OBVIOUS
    <2>3. Item(kind, x, 0, u) = Item(kind, x, 0, v)
        BY ItemAtZero
    <2>4. f[i] = Item(kind, x, 0, u) /\ g[i] = Item(kind, y, 0, v)
        BY <1>5, <1>6, <2>2
    <2> QED BY <1>4, <2>1, <2>3, <2>4
<1>7. CASE i > 0
    <2>1. i - 1 \in 0 .. m /\ ~(i <= i - 1)
        BY <1>4, <1>7
    <2>2. f[i - 1] = g[i - 1]
        BY <1>3, <2>1
    <2> QED BY <1>4, <1>5, <2>2
<1> QED BY <1>4, <1>6, <1>7

\* Instructions can be picked from any sequence.
LEMMA PicksExists ==
    ASSUME NEW s, NEW len \in Nat
    PROVE  \E f : Picks(f, s, len)
BY RecursExists, RecursIs DEF Kinds

\* One instruction more.
LEMMA PicksAt ==
    ASSUME NEW f, NEW s, NEW n, Picks(f, s, n), NEW i \in 0 .. n
    PROVE  f[i] = Pick(s, i, f[i - 1])
BY DEF Picks

\* What is picked depends on the sequence only.
LEMMA PicksUnique ==
    ASSUME NEW s, NEW r, NEW m \in Nat, NEW n \in Nat, m <= n, NEW f, NEW g,
           Picks(f, s, m), Picks(g, r, n), \A i \in 1 .. m : s[i] = r[i]
    PROVE  \A i \in 0 .. m : f[i] = g[i]
<1>1. \A i \in 0 .. m : \A last : Item("pick", s, i, last) = Item("pick", r, i, last)
    <2> SUFFICES ASSUME NEW i \in 0 .. m, NEW last PROVE Pick(s, i, last) = Pick(r, i, last)
        BY DEF Item
    <2>1. i = 0 \/ i \in 1 .. m
        OBVIOUS
    <2> QED BY <2>1 DEF Pick
<1>2. PICK kind : kind = "pick"
    OBVIOUS
<1>3. kind \in Kinds /\ Recurs(kind, f, s, m) /\ Recurs(kind, g, r, n)
    BY <1>2, RecursIs DEF Kinds
<1>4. \A i \in 0 .. m : \A last : Item(kind, s, i, last) = Item(kind, r, i, last)
    BY <1>1, <1>2
<1> QED BY <1>3, <1>4, RecursUnique

\* OriginalsIn is what is picked.
LEMMA OriginalsInIs ==
    ASSUME NEW s, Len(s) \in Nat, NEW f, Picks(f, s, Len(s))
    PROVE  OriginalsIn(s) = f[Len(s)]
<1> DEFINE g == CHOOSE g : Picks(g, s, Len(s))
<1>1. Picks(g, s, Len(s))
    OBVIOUS
<1>2. OriginalsIn(s) = g[Len(s)]
    BY DEF OriginalsIn, Picks, Pick
<1> HIDE DEF g
<1>3. f[Len(s)] = g[Len(s)]
    BY <1>1, PicksUnique
<1> QED BY <1>2, <1>3

\* Nothing is picked from nothing.
LEMMA OriginalsInEmpty == OriginalsIn(<<>>) = <<>>
<1>1. PICK f : Picks(f, <<>>, 0)
    BY PicksExists
<1>2. Len(<<>>) = 0
    OBVIOUS
<1>3. f[0] = <<>>
    BY <1>1 DEF Picks, Pick
<1> QED BY <1>1, <1>2, <1>3, OriginalsInIs

\* One more instruction is picked if it is one of the function.
LEMMA OriginalsInAppend ==
    ASSUME NEW S, NEW s \in Seq(S), NEW e \in S
    PROVE  OriginalsIn(Append(s, e)) =
               IF e[1] \in {"code", "lost"} THEN Append(OriginalsIn(s), e) ELSE OriginalsIn(s)
<1> DEFINE r == Append(s, e)
           n == Len(s)
           l == n + 1
<1>1. /\ n \in Nat /\ l \in Nat /\ l # 0 /\ l - 1 = n /\ n <= l /\ Len(r) = l /\ r[l] = e
      /\ \A i \in 1 .. n : s[i] = r[i]
    OBVIOUS
<1> HIDE DEF r, n, l
<1>2. PICK f : Picks(f, s, n)
    BY <1>1, PicksExists
<1>3. PICK g : Picks(g, r, l)
    BY <1>1, PicksExists
<1>4. f[n] = g[n]
    BY <1>1, <1>2, <1>3, PicksUnique
<1>5. g[l] = Pick(r, l, g[l - 1])
    BY <1>1, <1>3, PicksAt
<1>6. OriginalsIn(s) = f[n] /\ OriginalsIn(r) = g[l]
    BY <1>1, <1>2, <1>3, OriginalsInIs DEF n
<1> QED BY <1>1, <1>4, <1>5, <1>6 DEF r, Pick

---------------------------------------------------------------------------
(* What is to be run                                                       *)

Go(w, f) == IF Image[w].op = "b" THEN f[Image[w].to[2]] ELSE <<Image[w].to>> \o f[w + 1]

\* What is to be run from word w on, with its hooks or without.
RestOf(hooked, w, f) ==
    IF w = CodeWords THEN <<>> ELSE IF hooked THEN HooksAt(w) \o Go(w, f) ELSE Go(w, f)

\* f holds what is to be run from word n on.
Rests(hooked, f, n) == f = [w \in n .. CodeWords |-> RestOf(hooked, w, f)]

\* What is to be run from a word depends on the words behind it: the code
\* has no loops.
LEMMA RestDepends ==
    ASSUME Forward, NEW hooked, NEW w \in 0 .. CodeWords, NEW f, NEW g, \A u \in w + 1 .. CodeWords : f[u] = g[u]
    PROVE  RestOf(hooked, w, f) = RestOf(hooked, w, g)
<1>1. CodeWords \in Nat
    BY SizesAssumption
<1>2. CASE w = CodeWords
    BY <1>2 DEF RestOf
<1>3. CASE w # CodeWords
    <2>1. w \in Words /\ w + 1 \in w + 1 .. CodeWords
        BY <1>1, <1>3 DEF Words
    <2>2. Image[w].op = "b" => Image[w].to[2] \in w + 1 .. CodeWords
        BY <2>1 DEF Forward, At, Unimplemented
    <2> QED BY <1>3, <2>1, <2>2 DEF RestOf, Go
<1> QED BY <1>2, <1>3

\* What is to be run is defined from every word on.
LEMMA RestsExists ==
    ASSUME Forward, NEW hooked
    PROVE  \E f : Rests(hooked, f, 0)
<1> DEFINE T == {n \in 0 .. CodeWords : ~\E f : Rests(hooked, f, CodeWords - n)}
<1>1. CodeWords \in Nat
    BY SizesAssumption
<1>2. SUFFICES T = {}
    <2>1. CodeWords \notin T /\ CodeWords \in 0 .. CodeWords /\ CodeWords - CodeWords = 0
        BY <1>1, <1>2
    <2> QED BY <2>1
<1>3. SUFFICES ASSUME T # {} PROVE FALSE
    OBVIOUS
<1>4. T \in SUBSET Nat
    BY <1>1
<1>5. PICK n \in T : \A m \in T : n <= m
    BY <1>3, <1>4, LeastNat
<1>6. n \in 0 .. CodeWords /\ ~\E f : Rests(hooked, f, CodeWords - n)
    OBVIOUS
<1> DEFINE first == CodeWords - n
<1>7. CASE n = 0
    <2>1. Rests(hooked, [w \in CodeWords .. CodeWords |-> <<>>], CodeWords)
        BY <1>1 DEF Rests, RestOf
    <2> QED BY <1>1, <1>6, <1>7, <2>1
<1>8. CASE n > 0
    <2>1. n - 1 \in 0 .. CodeWords /\ ~(n <= n - 1) /\ CodeWords - (n - 1) = first + 1 /\ first \in 0 .. CodeWords
        BY <1>1, <1>6, <1>8
    <2>2. PICK g : Rests(hooked, g, first + 1)
        BY <1>5, <2>1
    <2> HIDE DEF first
    <2> DEFINE f == [w \in first .. CodeWords |-> IF w = first THEN RestOf(hooked, first, g) ELSE g[w]]
    <2>3. \A w \in first + 1 .. CodeWords : g[w] = RestOf(hooked, w, g)
        BY <2>2 DEF Rests
    <2>4. f[first] = RestOf(hooked, first, g) /\ \A w \in first + 1 .. CodeWords : f[w] = g[w]
        BY <1>1, <2>1
    <2>5. f = [w \in first .. CodeWords |-> f[w]]
        OBVIOUS
    <2> HIDE DEF f
    <2>6. \A w \in first .. CodeWords : f[w] = RestOf(hooked, w, f)
        <3> SUFFICES ASSUME NEW w \in first .. CodeWords PROVE f[w] = RestOf(hooked, w, f)
            OBVIOUS
        <3>1. w \in 0 .. CodeWords /\ \A u \in w + 1 .. CodeWords : u \in first + 1 .. CodeWords
            BY <1>1, <2>1
        <3>2. RestOf(hooked, w, f) = RestOf(hooked, w, g)
            BY <2>4, <3>1, RestDepends
        <3>3. w = first \/ w \in first + 1 .. CodeWords
            BY <1>1, <2>1
        <3> QED BY <2>3, <2>4, <3>2, <3>3
    <2>7. Rests(hooked, f, first)
        BY <2>5, <2>6 DEF Rests
    <2> QED BY <1>6, <2>7 DEF first
<1> QED BY <1>6, <1>7, <1>8

\* The recursive definition of Originals says what it seems to say.
LEMMA OriginalsRule ==
    ASSUME Forward, NEW w \in 0 .. CodeWords
    PROVE  /\ w = CodeWords => Originals(w) = <<>>
           /\ w \in Words /\ Image[w].op = "b" => Originals(w) = Originals(Image[w].to[2])
           /\ w \in Words /\ Image[w].op # "b" => Originals(w) = <<Image[w].to>> \o Originals(w + 1)
<1> DEFINE g == CHOOSE g : Rests(FALSE, g, 0)
<1>1. Rests(FALSE, g, 0)
    BY RestsExists
<1>2. \A u : Originals(u) = g[u]
    BY DEF Originals, Rests, RestOf, Go
<1> HIDE DEF g
<1>3. g[w] = RestOf(FALSE, w, g)
    BY <1>1 DEF Rests
<1>4. CodeWords \in Nat /\ (w \in Words => w # CodeWords)
    BY SizesAssumption DEF Words
<1> QED BY <1>2, <1>3, <1>4 DEF RestOf, Go

---------------------------------------------------------------------------
(* The invariant                                                           *)

\* A target of word w that leads back to it: a closure trampoline of an entry
\* for w, or a replacement whose origin_call is the copy of such an entry.
GoodTarget(w, to) ==
    /\ w \in Sites
    /\ \/ \E n \in 1 .. made : entry[n].addr = w /\ to = Closure(n)
       \/ \E f \in Replacements :
            to = Call(w, f) /\ origin[w][f] \in 1 .. made /\ entry[origin[w][f]].addr = w

\* What word w may hold: its original instruction or a branch to a hook.
GoodWord(w, i) == i = Image[w] \/ (i.op = "b" /\ GoodTarget(w, i.to))

\* An entry branches to its target and has copied a good word.
EntryOK(n) ==
    LET e == entry[n]
    IN  /\ e.addr \in Sites
        /\ e.target = Closure(n) \/ \E f \in Replacements : e.target = Call(e.addr, f)
        /\ Len(e.tramp) = 1 /\ e.tramp[1].op = "b" /\ e.tramp[1].to = e.target
        /\ GoodWord(e.addr, e.saved[1]) /\ e.saved[1].op \notin Unimplemented
        /\ e.relocated[1] = Relocate(e.saved[1])
        /\ e.relocated[2] = Jump(At(e.addr + 1))

\* Only a good target is committed.
OpOK ==
    /\ op \in [pc : {"idle", "origin", "commit", "restore"}, n : 0 .. MaxHooks, i : Nat]
    /\ op.pc # "idle" => op.n \in 1 .. made
    /\ op.pc = "origin" => \E f \in Replacements : entry[op.n].target = Call(entry[op.n].addr, f)
    /\ op.pc = "commit" => GoodTarget(entry[op.n].addr, entry[op.n].target)

EngineOK ==
    /\ near = TRUE
    /\ made \in 0 .. MaxHooks
    /\ DOMAIN entry = Entries
    /\ DOMAIN code = Words
    /\ live \subseteq 1 .. made
    /\ origin \in [Sites -> [Replacements -> 0 .. MaxHooks]]
    /\ \A w \in Words : GoodWord(w, code[w])
    /\ \A n \in 1 .. made : EntryOK(n)
    /\ OpOK

\* The thread has run what comes before word w: it is at the word, in one of
\* its hooks, in a copy of it, or in the jump that ends the copy before it.
Stands(m, w) ==
    \/ m.at = At(w)
    \/ GoodTarget(w, m.at)
    \/ \E n \in 1 .. made :
        \/ entry[n].addr = w /\ m.at = Relocated(n)
        \/ /\ entry[n].addr = w /\ m.at = <<"relocated", n, 1, 2>>
           /\ entry[n].saved[1].op = "b" /\ m.x17 = entry[n].saved[1].to
        \/ entry[n].addr + 1 = w /\ m.at = <<"relocated", n, 2, 1>>
        \/ entry[n].addr + 1 = w /\ m.at = <<"relocated", n, 2, 2>> /\ m.x17 = At(w)

\* What a thread may have run.
Seen == {Image[w].to : w \in Words} \cup {Closure(n) : n \in Entries}
            \cup {Call(a, f) : a \in Sites, f \in Replacements}

\* What a thread has run and what is still to come are the whole function.
MachineOK(m, a) ==
    /\ m = [at |-> m.at, x17 |-> m.x17, seen |-> m.seen]
    /\ a \in 0 .. CodeWords
    /\ m.seen \in Seq(Seen)
    /\ OriginalsIn(m.seen) \in Seq(Seen)
    /\ \E w \in 0 .. CodeWords :
        Stands(m, w) /\ OriginalsIn(m.seen) \o Originals(w) = Originals(a)

ThreadsOK ==
    /\ DOMAIN thread = Threads
    /\ DOMAIN from = Threads
    /\ \A t \in Threads : MachineOK(thread[t], from[t])

TInv == EngineOK /\ ThreadsOK

---------------------------------------------------------------------------
(* What holds goes on to hold                                              *)

\* A step keeps the entries there are and sets origin_call only to a copy of
\* an entry for its site.
Grows ==
    /\ made' \in Nat /\ made <= made'
    /\ \A n \in 1 .. made : entry'[n] = entry[n]
    /\ \A w \in Sites, f \in Replacements :
        \/ origin'[w][f] = origin[w][f]
        \/ origin'[w][f] \in 1 .. made' /\ entry'[origin'[w][f]].addr = w

\* A good target stays one.
LEMMA TargetStays ==
    ASSUME made \in Nat, Grows, NEW w, NEW to, GoodTarget(w, to)
    PROVE  GoodTarget(w, to)'
<1>1. w \in Sites /\ (w \in Sites)'
    BY DEF GoodTarget
<1>2. \A n \in 1 .. made : n \in 1 .. made' /\ entry'[n] = entry[n]
    BY DEF Grows
<1>3. CASE \E n \in 1 .. made : entry[n].addr = w /\ to = Closure(n)
    BY <1>1, <1>2, <1>3 DEF GoodTarget, Closure
<1>4. ASSUME NEW f \in Replacements, to = Call(w, f),
             origin[w][f] \in 1 .. made, entry[origin[w][f]].addr = w
      PROVE  GoodTarget(w, to)'
    <2>1. origin'[w][f] \in 1 .. made' /\ entry'[origin'[w][f]].addr = w
        BY <1>1, <1>2, <1>4 DEF Grows
    <2> QED BY <1>1, <1>4, <2>1 DEF GoodTarget, Call
<1> QED BY <1>3, <1>4 DEF GoodTarget

\* A good word stays one.
LEMMA WordStays ==
    ASSUME made \in Nat, Grows, NEW w, NEW i, GoodWord(w, i)
    PROVE  GoodWord(w, i)'
BY TargetStays DEF GoodWord

\* A good entry stays one.
LEMMA EntryStays ==
    ASSUME made \in Nat, Grows, NEW n \in 1 .. made, EntryOK(n)
    PROVE  EntryOK(n)'
<1>1. entry'[n] = entry[n]
    BY DEF Grows
<1>2. GoodWord(entry[n].addr, entry[n].saved[1])
    BY DEF EntryOK
<1>3. GoodWord(entry[n].addr, entry[n].saved[1])'
    <2> DEFINE w == entry[n].addr
               i == entry[n].saved[1]
    <2>1. PICK u : u = w
        OBVIOUS
    <2>2. PICK j : j = i
        OBVIOUS
    <2>3. GoodWord(u, j)'
        BY <1>2, <2>1, <2>2, WordStays
    <2>4. w' = u /\ i' = j
        BY <1>1, <2>1, <2>2
    <2> QED BY <2>3, <2>4
<1> QED BY <1>1, <1>3 DEF EntryOK

\* A place where a thread may be stays one.
LEMMA StandsStays ==
    ASSUME made \in Nat, Grows, NEW m, NEW w, Stands(m, w)
    PROVE  Stands(m, w)'
<1>1. \A n \in 1 .. made : n \in 1 .. made' /\ entry'[n] = entry[n]
    BY DEF Grows
<1>2. CASE m.at = At(w)
    BY <1>2 DEF Stands
<1>3. CASE GoodTarget(w, m.at)
    BY <1>3, TargetStays DEF Stands
<1>4. CASE ~GoodTarget(w, m.at) /\ m.at # At(w)
    BY <1>1, <1>4 DEF Stands
<1> QED BY <1>2, <1>3, <1>4

\* A thread is as well off after a step of the engine as before it.
LEMMA MachineStays ==
    ASSUME made \in Nat, Grows, NEW m, NEW a, MachineOK(m, a)
    PROVE  MachineOK(m, a)'
BY StandsStays DEF MachineOK

---------------------------------------------------------------------------
(* The engine                                                              *)

\* The image has words at a site and behind it.
LEMMA SiteWords ==
    /\ CodeWords \in Nat
    /\ \A w \in Sites : w \in Words /\ w + 1 \in Words /\ w \in 0 .. CodeWords /\ w + 1 \in 0 .. CodeWords
BY SizesAssumption, SitesAssumption DEF Words, MaxTrampoline

\* With near trampolines only, every trampoline is one branch.
LEMMA NearOnly ==
    ASSUME AllNear, EngineOK, NEW a, NEW to, NEW far, NEW tramp \in GenerateTrampolineBuffer(a, to, far)
    PROVE  tramp = <<Insn("b", to)>>
BY DEF AllNear, EngineOK, GenerateTrampolineBuffer, GenerateNearTrampolineBuffer

\* A step that keeps words, entries and origins.
LEMMA QuietEngine ==
    ASSUME EngineOK, UNCHANGED <<code, made, entry, origin, near>>
    PROVE  /\ Grows
           /\ live' \subseteq 1 .. made /\ OpOK' => EngineOK'
<1>1. Grows
    BY DEF Grows, EngineOK
<1>2. ASSUME live' \subseteq 1 .. made, OpOK' PROVE EngineOK'
    <2>1. \A w \in Words : GoodWord(w, code[w])'
        <3> SUFFICES ASSUME NEW w \in Words PROVE GoodWord(w, code[w])'
            OBVIOUS
        <3>1. GoodWord(w, code[w]) /\ code' = code
            BY DEF EngineOK
        <3> QED BY <3>1 DEF GoodWord, GoodTarget
    <2>2. \A n \in 1 .. made' : EntryOK(n)'
        BY <1>1, EntryStays DEF EngineOK
    <2> QED BY <1>2, <2>1, <2>2 DEF EngineOK
<1> QED BY <1>1, <1>2

\* A new entry changes nothing a thread relies on.
LEMMA AddKeeps ==
    ASSUME EngineOK, made < MaxHooks, NEW a \in Sites, NEW h,
           NEW to, NEW pc \in {"origin", "commit"}, NEW tramp, tramp = <<Insn("b", to)>>,
           \/ pc = "commit" /\ to = Closure(made + 1)
           \/ pc = "origin" /\ \E f \in Replacements : to = Call(a, f),
           \A k \in 1 .. Len(tramp) : code[a + k - 1].op \notin Unimplemented,
           AddHookEntry(a, to, h, tramp, pc)
    PROVE  Grows /\ EngineOK'
<1>1. PICK n \in Nat : n = made + 1
    BY DEF EngineOK
<1>2. n \in Entries /\ made \in Nat /\ made' = n /\ n \in 1 .. made' /\ made' \in 0 .. MaxHooks
    BY <1>1, SizesAssumption DEF EngineOK, Entries, AddHookEntry
<1>3. DOMAIN entry = Entries
    BY DEF EngineOK
<1>4. /\ entry'[n] = DispatchRouting(a, to, h, tramp)
      /\ \A k \in 1 .. made : entry'[k] = entry[k]
      /\ DOMAIN entry' = Entries
      /\ live' = live \cup {n}
      /\ op' = [pc |-> pc, n |-> n, i |-> 0]
      /\ code' = code /\ origin' = origin /\ near' = near
    BY <1>1, <1>2, <1>3 DEF AddHookEntry
<1>5. Grows
    BY <1>1, <1>2, <1>4 DEF Grows
<1>6. a \in Words /\ a + 1 - 1 = a
    BY SiteWords, SitesAssumption DEF Words
<1>7. Len(tramp) = 1 /\ tramp[1].op = "b" /\ tramp[1].to = to
    BY DEF Insn
<1>8. code[a].op \notin Unimplemented /\ GoodWord(a, code[a])
    BY <1>6, <1>7 DEF EngineOK
<1>9. EntryOK(n)'
    <2>1. entry'[n].addr = a /\ entry'[n].target = to /\ entry'[n].tramp = tramp
        BY <1>4 DEF DispatchRouting
    <2>2. entry'[n].saved = [k \in 1 .. 1 |-> code[a + k - 1]]
        BY <1>4, <1>7 DEF DispatchRouting
    <2>3. entry'[n].saved[1] = code[a]
        BY <1>6, <2>2
    <2>4. entry'[n].relocated = GenRelocateCodeAndBranch(code, a, 1)
        BY <1>4, <1>7 DEF DispatchRouting
    <2>5. entry'[n].relocated[1] = Relocate(code[a]) /\ entry'[n].relocated[2] = Jump(At(a + 1))
        BY <1>6, <2>4 DEF GenRelocateCodeAndBranch
    <2>6. PICK i : i = code[a]
        OBVIOUS
    <2>7. GoodWord(a, i)'
        BY <1>2, <1>5, <1>8, <2>6, WordStays
    <2>8. GoodWord(entry[n].addr, entry[n].saved[1])'
        BY <2>1, <2>3, <2>6, <2>7
    <2>9. entry'[n].target = Closure(n) \/ \E f \in Replacements : entry'[n].target = Call(entry'[n].addr, f)
        BY <1>1, <2>1
    <2> QED BY <1>7, <1>8, <2>1, <2>3, <2>5, <2>8, <2>9 DEF EntryOK
<1>10. \A k \in 1 .. made' : EntryOK(k)'
    BY <1>1, <1>2, <1>5, <1>9, EntryStays DEF EngineOK
<1>11. \A w \in Words : GoodWord(w, code[w])'
    <2> SUFFICES ASSUME NEW w \in Words PROVE GoodWord(w, code[w])'
        OBVIOUS
    <2>1. PICK i : i = code[w]
        OBVIOUS
    <2>2. GoodWord(w, i)
        BY <2>1 DEF EngineOK
    <2>3. GoodWord(w, i)'
        BY <1>2, <1>5, <2>2, WordStays
    <2> QED BY <1>4, <2>1, <2>3
<1>12. OpOK'
    <2>1. op' \in [pc : {"idle", "origin", "commit", "restore"}, n : 0 .. MaxHooks, i : Nat]
        BY <1>2, <1>4
    <2>2. op'.pc = pc /\ op'.n = n
        BY <1>4
    <2>3. entry'[n].addr = a /\ entry'[n].target = to
        BY <1>4 DEF DispatchRouting
    <2>4. pc = "commit" => to = Closure(n)
        BY <1>1
    <2>5. pc = "commit" => GoodTarget(entry[op.n].addr, entry[op.n].target)'
        BY <1>2, <2>2, <2>3, <2>4 DEF GoodTarget
    <2>6. pc = "origin" => \E f \in Replacements : to = Call(a, f)
        OBVIOUS
    <2> QED BY <1>2, <2>1, <2>2, <2>3, <2>5, <2>6 DEF OpOK
<1>13. live' \subseteq 1 .. made'
    BY <1>1, <1>2, <1>4 DEF EngineOK
<1>14. near' = TRUE /\ DOMAIN code' = Words /\ origin' \in [Sites -> [Replacements -> 0 .. MaxHooks]]
    BY <1>4 DEF EngineOK
<1>15. EngineOK'
    BY <1>2, <1>4, <1>10, <1>11, <1>12, <1>13, <1>14 DEF EngineOK
<1> QED BY <1>5, <1>15

\* DobbyHook sets origin_call before the branch to the replacement is there.
LEMMA OriginKeeps ==
    ASSUME EngineOK, SetOriginCall
    PROVE  Grows /\ EngineOK'
<1> DEFINE n == op.n
           a == entry[n].addr
<1>1. op.pc = "origin" /\ n \in 1 .. made /\ OpOK
    BY DEF EngineOK, OpOK, SetOriginCall
<1>2. PICK f \in Replacements : entry[n].target = Call(a, f)
    BY <1>1 DEF OpOK
<1>3. entry[n].target[3] = f /\ a \in Sites /\ made \in Nat
    BY <1>1, <1>2 DEF Call, EngineOK, EntryOK
<1>4. origin' = [origin EXCEPT ![a][f] = n] /\ n \in 0 .. MaxHooks /\ n \in 1 .. made
    BY <1>1, <1>3, SizesAssumption DEF SetOriginCall, EngineOK
<1>5. op' = [op EXCEPT !.pc = "commit"] /\ UNCHANGED <<code, made, entry, live, near, fate>>
    BY DEF SetOriginCall
<1>6. origin \in [Sites -> [Replacements -> 0 .. MaxHooks]]
    BY DEF EngineOK
<1>7. entry'[n].addr = a /\ entry'[n].target = Call(a, f)
    BY <1>2, <1>5
<1> HIDE DEF n, a
<1>8. /\ origin' \in [Sites -> [Replacements -> 0 .. MaxHooks]]
      /\ origin'[a][f] = n
      /\ \A w \in Sites, g \in Replacements : origin'[w][g] = origin[w][g] \/ (w = a /\ g = f)
    BY <1>2, <1>3, <1>4, <1>6
<1>9. Grows
    BY <1>3, <1>4, <1>5, <1>7, <1>8 DEF Grows
<1>10. op'.pc = "commit" /\ op'.n = n /\ op' \in [pc : {"idle", "origin", "commit", "restore"}, n : 0 .. MaxHooks, i : Nat]
    BY <1>1, <1>5 DEF OpOK, n
<1>11. GoodTarget(a, Call(a, f))'
    <2>1. PICK u : u = a
        OBVIOUS
    <2>2. GoodTarget(u, Call(u, f))'
        BY <1>2, <1>3, <1>4, <1>5, <1>7, <1>8, <2>1 DEF GoodTarget
    <2>3. a' = a
        BY <1>5, <1>10 DEF a, n
    <2> QED BY <2>1, <2>2, <2>3
<1>12. OpOK'
    <2>1. a' = a
        BY <1>5, <1>10 DEF a, n
    <2>2. GoodTarget(entry[op.n].addr, entry[op.n].target)'
        BY <1>7, <1>10, <1>11, <2>1
    <2> QED BY <1>4, <1>5, <1>10, <2>2 DEF OpOK
<1>13. \A w \in Words : GoodWord(w, code[w])'
    <2> SUFFICES ASSUME NEW w \in Words PROVE GoodWord(w, code[w])'
        OBVIOUS
    <2>1. PICK i : i = code[w]
        OBVIOUS
    <2>2. GoodWord(w, i)
        BY <2>1 DEF EngineOK
    <2>3. GoodWord(w, i)'
        BY <1>3, <1>9, <2>2, WordStays
    <2> QED BY <1>5, <2>1, <2>3
<1>14. \A k \in 1 .. made' : EntryOK(k)'
    BY <1>3, <1>5, <1>9, EntryStays DEF EngineOK
<1>15. EngineOK'
    BY <1>5, <1>8, <1>12, <1>13, <1>14 DEF EngineOK
<1> QED BY <1>9, <1>15

\* Commit writes the branch to a good target, DobbyDestroy a good word.
LEMMA PatchKeeps ==
    ASSUME EngineOK, PatchWord
    PROVE  Grows /\ EngineOK'
<1> DEFINE n == op.n
           a == entry[n].addr
<1>1. op.pc \in {"commit", "restore"} /\ op.i < Size(n) /\ OpOK
    BY DEF PatchWord, EngineOK
<1>2. n \in 1 .. made /\ EntryOK(n) /\ made \in Nat
    BY <1>1 DEF OpOK, EngineOK
<1>3. Size(n) = 1 /\ op.i \in Nat
    BY <1>1, <1>2 DEF EntryOK, OpOK, Size
<1>4. op.i = 0 /\ a \in Sites /\ a + op.i = a /\ op.i + 1 = 1 /\ a \in Words
    <2>1. op.i = 0
        BY <1>1, <1>3
    <2>2. a \in Sites
        BY <1>2 DEF EntryOK
    <2>3. a \in Words /\ a \in Nat
        BY <2>2, SiteWords
    <2> QED BY <2>1, <2>2, <2>3
<1>5. UNCHANGED <<made, entry, live, origin, near>>
    BY DEF PatchWord
<1>6. Grows
    BY <1>2, <1>5 DEF Grows
<1>7. GoodWord(a, PatchBuffer[1])
    <2>1. CASE op.pc = "commit"
        BY <1>1, <1>2, <2>1 DEF OpOK, PatchBuffer, EntryOK, GoodWord
    <2>2. CASE op.pc = "restore"
        BY <1>2, <2>2 DEF PatchBuffer, EntryOK
    <2> QED BY <1>1, <2>1, <2>2
<1>8. \/ code' = [code EXCEPT ![a] = PatchBuffer[1]] /\ op' = [op EXCEPT !.i = @ + 1]
      \/ code' = code /\ op' = op
    BY <1>4 DEF PatchWord
<1>9. /\ DOMAIN code' = Words
      /\ code'[a] = PatchBuffer[1] \/ code'[a] = code[a]
      /\ \A w \in Words : w # a => code'[w] = code[w]
    BY <1>4, <1>8 DEF EngineOK
<1>10. \A w \in Words : GoodWord(w, code'[w])
    <2> SUFFICES ASSUME NEW w \in Words PROVE GoodWord(w, code'[w])
        OBVIOUS
    <2>1. GoodWord(w, code[w])
        BY DEF EngineOK
    <2> QED BY <1>7, <1>9, <2>1
<1>11. \A w \in Words : GoodWord(w, code[w])'
    <2> SUFFICES ASSUME NEW w \in Words PROVE GoodWord(w, code[w])'
        OBVIOUS
    <2>1. PICK i : i = code'[w]
        OBVIOUS
    <2>2. GoodWord(w, i)'
        BY <1>2, <1>6, <1>10, <2>1, WordStays
    <2> QED BY <2>1, <2>2
<1>12. \A k \in 1 .. made' : EntryOK(k)'
    BY <1>2, <1>5, <1>6, EntryStays DEF EngineOK
<1>13. OpOK'
    <2>1. op' \in [pc : {"idle", "origin", "commit", "restore"}, n : 0 .. MaxHooks, i : Nat]
          /\ op'.pc = op.pc /\ op'.n = op.n
        BY <1>1, <1>8 DEF OpOK
    <2>2. op.pc = "commit" => GoodTarget(entry[op.n].addr, entry[op.n].target)
        BY <1>1 DEF OpOK
    <2>3. op.pc = "commit" => GoodTarget(entry[op.n].addr, entry[op.n].target)'
        BY <1>5, <2>1, <2>2 DEF GoodTarget
    <2> QED BY <1>1, <1>2, <1>5, <2>1, <2>3 DEF OpOK
<1>14. EngineOK'
    BY <1>5, <1>9, <1>11, <1>12, <1>13 DEF EngineOK
<1> QED BY <1>6, <1>14

\* Nor does Routing, whether it succeeds or dies.
LEMMA RouteKeeps ==
    ASSUME AllNear, EngineOK, made < MaxHooks, NEW a \in Sites, NEW to, NEW h, NEW far,
           NEW pc \in {"origin", "commit"},
           \/ pc = "commit" /\ to = Closure(made + 1)
           \/ pc = "origin" /\ \E f \in Replacements : to = Call(a, f),
           Route(a, to, h, far, pc)
    PROVE  Grows /\ EngineOK'
<1>1. PICK tramp \in GenerateTrampolineBuffer(a, to, far) :
        \/ /\ \A k \in 1 .. Len(tramp) : code[a + k - 1].op \notin Unimplemented
           /\ AddHookEntry(a, to, h, tramp, pc)
        \/ RoutingDies(a, tramp)
    BY DEF Route
<1>2. tramp = <<Insn("b", to)>>
    BY NearOnly
<1>3. CASE RoutingDies(a, tramp)
    <2>1. UNCHANGED <<code, made, entry, origin, near>> /\ live' = live /\ op' = op
        BY <1>3 DEF RoutingDies
    <2>2. OpOK' /\ live' \subseteq 1 .. made
        BY <2>1 DEF EngineOK, OpOK, GoodTarget
    <2> QED BY <2>1, <2>2, QuietEngine
<1>4. CASE ~RoutingDies(a, tramp)
    <2>1. /\ \A k \in 1 .. Len(tramp) : code[a + k - 1].op \notin Unimplemented
          /\ AddHookEntry(a, to, h, tramp, pc)
        BY <1>1, <1>4
    <2> QED BY <1>2, <2>1, AddKeeps
<1> QED BY <1>3, <1>4

\* No step of the engine takes away what threads rely on.
LEMMA EngineStep ==
    ASSUME AllNear, EngineOK, [Next]_vars
    PROVE  Grows /\ EngineOK'
<1>1. ASSUME NEW a \in Sites, NEW f \in Replacements, DobbyHook(a, f)
      PROVE  Grows /\ EngineOK'
    <2>1. made < MaxHooks /\ Route(a, Call(a, f), Call(a, f), f \in Far, "origin")
        BY <1>1 DEF DobbyHook
    <2> QED BY <2>1, RouteKeeps
<1>2. ASSUME NEW a \in Sites, NEW h \in Handlers, DobbyInstrument(a, h)
      PROVE  Grows /\ EngineOK'
    <2>1. made < MaxHooks /\ Route(a, Closure(made + 1), <<"handler", h>>, "closure" \in Far, "commit")
        BY <1>2 DEF DobbyInstrument
    <2> QED BY <2>1, RouteKeeps
<1>3. ASSUME NEW a \in Sites, DobbyDestroy(a)
      PROVE  Grows /\ EngineOK'
    <2>1. PICK n \in Entries : Finds(a, n) /\ op' = [pc |-> "restore", n |-> n, i |-> 0]
        BY <1>3 DEF DobbyDestroy
    <2>2. UNCHANGED <<code, made, entry, live, origin, near>>
        BY <1>3 DEF DobbyDestroy
    <2>3. n \in 1 .. made /\ n \in 0 .. MaxHooks
        BY <2>1, SizesAssumption DEF Finds, EngineOK
    <2>4. OpOK'
        BY <2>1, <2>2, <2>3 DEF OpOK
    <2> QED BY <2>2, <2>4, QuietEngine DEF EngineOK
<1>4. ASSUME CommitReturns \/ RemoveHookEntry
      PROVE  Grows /\ EngineOK'
    <2>1. op' = Idle /\ UNCHANGED <<code, made, entry, origin, near>> /\ live' \subseteq live
        BY <1>4 DEF CommitReturns, RemoveHookEntry
    <2>2. OpOK'
        BY <2>1, SizesAssumption DEF OpOK, Idle
    <2>3. live' \subseteq 1 .. made
        BY <2>1 DEF EngineOK
    <2> QED BY <2>1, <2>2, <2>3, QuietEngine
<1>5. ASSUME UNCHANGED vars
      PROVE  Grows /\ EngineOK'
    <2>1. UNCHANGED <<code, made, entry, origin, near, live, op>>
        BY <1>5 DEF vars
    <2>2. OpOK' /\ live' \subseteq 1 .. made
        BY <2>1 DEF EngineOK, OpOK, GoodTarget
    <2> QED BY <2>1, <2>2, QuietEngine
<1>6. ~dobby_enable_near_branch_trampoline /\ ~dobby_disable_near_branch_trampoline
    BY DEF AllNear, dobby_enable_near_branch_trampoline, dobby_disable_near_branch_trampoline
<1> QED BY <1>1, <1>2, <1>3, <1>4, <1>5, <1>6, OriginKeeps, PatchKeeps DEF Next

---------------------------------------------------------------------------
(* The threads                                                             *)

\* What is to be run is a sequence of instructions and targets.
LEMMA RestsSeq ==
    ASSUME Forward, NEW hooked \in BOOLEAN, NEW f, Rests(hooked, f, 0),
           hooked => \A w \in Words : HooksAt(w) \in Seq(Seen)
    PROVE  \A w \in 0 .. CodeWords : f[w] \in Seq(Seen)
<1> DEFINE T == {k \in 0 .. CodeWords : f[CodeWords - k] \notin Seq(Seen)}
<1>1. CodeWords \in Nat
    BY SizesAssumption
<1>2. SUFFICES T = {}
    <2>1. \A w \in 0 .. CodeWords : CodeWords - w \in 0 .. CodeWords /\ CodeWords - (CodeWords - w) = w
        BY <1>1
    <2> QED BY <1>2, <2>1
<1>3. SUFFICES ASSUME T # {} PROVE FALSE
    OBVIOUS
<1>4. T \in SUBSET Nat
    BY <1>1
<1>5. PICK k \in T : \A j \in T : k <= j
    BY <1>3, <1>4, LeastNat
<1> DEFINE w == CodeWords - k
<1>6. w \in 0 .. CodeWords /\ f[w] \notin Seq(Seen) /\ k \in 0 .. CodeWords
    BY <1>1
<1>7. \A u \in w + 1 .. CodeWords : f[u] \in Seq(Seen)
    <2> SUFFICES ASSUME NEW u \in w + 1 .. CodeWords PROVE f[u] \in Seq(Seen)
        OBVIOUS
    <2>1. CodeWords - u \in 0 .. CodeWords /\ ~(k <= CodeWords - u) /\ CodeWords - (CodeWords - u) = u
        BY <1>1, <1>6
    <2> QED BY <1>5, <2>1
<1> HIDE DEF w
<1>8. f[w] = RestOf(hooked, w, f)
    BY <1>6 DEF Rests
<1>9. CASE w = CodeWords
    <2>1. f[w] = <<>>
        BY <1>8, <1>9 DEF RestOf
    <2>2. <<>> \in Seq(Seen)
        OBVIOUS
    <2> QED BY <1>6, <2>1, <2>2
<1>10. CASE w # CodeWords
    <2>1. w \in Words /\ w + 1 \in w + 1 .. CodeWords
        BY <1>1, <1>6, <1>10 DEF Words
    <2>2. Go(w, f) \in Seq(Seen)
        <3>1. CASE Image[w].op = "b"
            <4>1. Image[w].to[2] \in w + 1 .. CodeWords
                BY <2>1, <3>1 DEF Forward, At, Unimplemented
            <4> QED BY <1>7, <3>1, <4>1 DEF Go
        <3>2. CASE Image[w].op # "b"
            <4>1. <<Image[w].to>> \in Seq(Seen)
                BY <2>1 DEF Seen
            <4>2. f[w + 1] \in Seq(Seen)
                BY <1>7, <2>1
            <4> QED BY <3>2, <4>1, <4>2, ConcatProperties DEF Go
        <3> QED BY <3>1, <3>2
    <2>3. CASE hooked
        <3>1. HooksAt(w) \in Seq(Seen)
            BY <2>1, <2>3
        <3>2. HooksAt(w) \o Go(w, f) \in Seq(Seen)
            BY <2>2, <3>1, ConcatProperties
        <3> QED BY <1>6, <1>8, <1>10, <2>3, <3>2 DEF RestOf
    <2>4. CASE ~hooked
        BY <1>6, <1>8, <1>10, <2>2, <2>4 DEF RestOf
    <2> QED BY <2>3, <2>4
<1> QED BY <1>9, <1>10

\* The original instructions are.
LEMMA OriginalsSeq ==
    ASSUME Forward
    PROVE  \A w \in 0 .. CodeWords : Originals(w) \in Seq(Seen)
<1> DEFINE g == CHOOSE g : Rests(FALSE, g, 0)
<1>1. Rests(FALSE, g, 0)
    BY RestsExists
<1>2. \A u : Originals(u) = g[u]
    BY DEF Originals, Rests, RestOf, Go
<1> HIDE DEF g
<1> QED BY <1>1, <1>2, RestsSeq

\* A site's function that is still to come, one instruction of it having run.
LEMMA OneMore ==
    ASSUME NEW S, NEW o \in Seq(S), NEW e \in S, NEW r \in Seq(S)
    PROVE  Append(o, e) \in Seq(S) /\ Append(o, e) \o r = o \o (<<e>> \o r)
<1>1. <<e>> \in Seq(S) /\ Append(o, e) = o \o <<e>> /\ Append(o, e) \in Seq(S)
    BY AppendIsConcat
<1>2. (o \o <<e>>) \o r = o \o (<<e>> \o r)
    BY <1>1, ConcatAssociative
<1> QED BY <1>1, <1>2

\* The kinds of words: an instruction of the function, a branch of it, a
\* branch to a hook.
LEMMA WordKinds ==
    ASSUME Forward, NEW w \in Words, NEW i, GoodWord(w, i)
    PROVE  \/ /\ i.op \in {"other"} \cup Unimplemented
              /\ i.to \in Seen /\ i.to[1] = "code"
              /\ Originals(w) = <<i.to>> \o Originals(w + 1)
           \/ i.op = "b" /\ \E u \in 0 .. CodeWords : i.to = At(u) /\ Originals(w) = Originals(u)
           \/ i.op = "b" /\ GoodTarget(w, i.to)
<1>1. w \in 0 .. CodeWords
    BY SizesAssumption DEF Words
<1>2. CASE i = Image[w] /\ i.op = "b"
    <2>1. PICK u \in w + 1 .. CodeWords : Image[w].to = At(u)
        BY <1>2 DEF Forward, Unimplemented
    <2>2. u \in 0 .. CodeWords /\ Image[w].to[2] = u
        BY <1>1, <2>1, SizesAssumption DEF At
    <2> QED BY <1>1, <1>2, <2>1, <2>2, OriginalsRule
<1>3. CASE i = Image[w] /\ i.op # "b"
    <2>1. i.op \in {"other"} \cup Unimplemented /\ i.to[1] = "code"
        BY <1>3 DEF Forward
    <2> QED BY <1>1, <1>3, <2>1, OriginalsRule DEF Seen
<1> QED BY <1>2, <1>3 DEF GoodWord

\* A machine state by its parts.
Machine(at, x17, seen) == [at |-> at, x17 |-> x17, seen |-> seen]

\* What the instructions do that copies and trampolines consist of.
LEMMA ExecuteIs ==
    ASSUME NEW at, NEW x17, NEW s, NEW m, m = Machine(at, x17, s), NEW i, NEW next
    PROVE  /\ i.op \in {"other"} \cup Unimplemented =>
                Execute(m, i, next) = Machine(next, x17, Append(s, i.to))
           /\ i.op = "b" => Execute(m, i, next) = Machine(i.to, x17, s)
           /\ i.op = "set17" => Execute(m, i, next) = Machine(next, i.to, s)
           /\ i.op = "br17" => Execute(m, i, next) = Machine(x17, x17, s)
<1>1. /\ [m EXCEPT !.seen = Append(@, i.to), !.at = next] = Machine(next, x17, Append(s, i.to))
      /\ [m EXCEPT !.at = i.to] = Machine(i.to, x17, s)
      /\ [m EXCEPT !.x17 = i.to, !.at = next] = Machine(next, i.to, s)
      /\ [m EXCEPT !.at = m.x17] = Machine(x17, x17, s)
    <2>1. m.x17 = x17 /\ m.seen = s
        BY DEF Machine
    <2>2. PICK v : v = Append(s, i.to)
        OBVIOUS
    <2>3. PICK to : to = i.to
        OBVIOUS
    <2>4. [m EXCEPT !.seen = v, !.at = next] = Machine(next, x17, v)
        <3>1. [m EXCEPT !.seen = v] = Machine(at, x17, v)
            BY DEF Machine
        <3>2. [Machine(at, x17, v) EXCEPT !.at = next] = Machine(next, x17, v)
            BY DEF Machine
        <3> QED BY <3>1, <3>2
    <2>5. [m EXCEPT !.at = to] = Machine(to, x17, s) /\ [m EXCEPT !.at = x17] = Machine(x17, x17, s)
        BY DEF Machine
    <2>6. [m EXCEPT !.x17 = to, !.at = next] = Machine(next, to, s)
        <3>1. [m EXCEPT !.x17 = to] = Machine(at, to, s)
            BY DEF Machine
        <3>2. [Machine(at, to, s) EXCEPT !.at = next] = Machine(next, to, s)
            BY DEF Machine
        <3> QED BY <3>1, <3>2
    <2> QED BY <2>1, <2>2, <2>3, <2>4, <2>5, <2>6
<1>2. i.op \in {"other"} \cup Unimplemented =>
        Execute(m, i, next) = [m EXCEPT !.seen = Append(@, i.to), !.at = next]
    BY DEF Execute, Unimplemented
<1>3. i.op = "b" => Execute(m, i, next) = [m EXCEPT !.at = i.to]
    BY DEF Execute, Unimplemented
<1>4. i.op = "set17" => Execute(m, i, next) = [m EXCEPT !.x17 = i.to, !.at = next]
    BY DEF Execute, Unimplemented
<1>5. i.op = "br17" => Execute(m, i, next) = [m EXCEPT !.at = m.x17]
    BY DEF Execute, Unimplemented
<1> QED BY <1>1, <1>2, <1>3, <1>4, <1>5

\* Before word w of a call from a, with s run.
Before(s, w, a) ==
    /\ a \in 0 .. CodeWords
    /\ s \in Seq(Seen)
    /\ OriginalsIn(s) \in Seq(Seen)
    /\ OriginalsIn(s) \o Originals(w) = Originals(a)

\* A thread at a good place with the right history is well off.
LEMMA StandsOK ==
    ASSUME NEW at, NEW x17, NEW s, NEW a, NEW w \in 0 .. CodeWords, Before(s, w, a), Stands(Machine(at, x17, s), w)
    PROVE  MachineOK(Machine(at, x17, s), a)
<1> DEFINE m == Machine(at, x17, s)
<1>1. m.at = at /\ m.x17 = x17 /\ m.seen = s /\ m = [at |-> m.at, x17 |-> m.x17, seen |-> m.seen]
    BY DEF Machine
<1> HIDE DEF m
<1>2. Stands(m, w)
    BY DEF m
<1>3. MachineOK(m, a)
    BY <1>1, <1>2 DEF MachineOK, Before
<1> QED BY <1>3 DEF m

\* Running a hook adds none of the original instructions.
LEMMA HookSeen ==
    ASSUME NEW s, NEW a, NEW w, Before(s, w, a), NEW e \in Seen, e[1] \notin {"code", "lost"}
    PROVE  Before(Append(s, e), w, a)
<1>1. Append(s, e) \in Seq(Seen)
    BY DEF Before
<1>2. OriginalsIn(Append(s, e)) = OriginalsIn(s)
    BY OriginalsInAppend DEF Before
<1> QED BY <1>1, <1>2 DEF Before

\* Running a word of the image adds its instruction.
LEMMA WordSeen ==
    ASSUME Forward, NEW s, NEW a, NEW w \in Words, Before(s, w, a), NEW e \in Seen, e[1] = "code",
           Originals(w) = <<e>> \o Originals(w + 1)
    PROVE  w + 1 \in 0 .. CodeWords /\ Before(Append(s, e), w + 1, a)
<1>1. Append(s, e) \in Seq(Seen)
    BY DEF Before
<1>2. OriginalsIn(Append(s, e)) = Append(OriginalsIn(s), e)
    BY OriginalsInAppend DEF Before
<1>3. w + 1 \in 0 .. CodeWords
    BY SizesAssumption DEF Words
<1>4. Originals(w + 1) \in Seq(Seen)
    BY <1>3, OriginalsSeq
<1>5. /\ Append(OriginalsIn(s), e) \in Seq(Seen)
      /\ Append(OriginalsIn(s), e) \o Originals(w + 1) = OriginalsIn(s) \o (<<e>> \o Originals(w + 1))
    <2>1. OriginalsIn(s) \in Seq(Seen)
        BY DEF Before
    <2> QED BY <1>4, <2>1, OneMore
<1> QED BY <1>1, <1>2, <1>3, <1>5 DEF Before

\* At a word of the image.
LEMMA StepInImage ==
    ASSUME Forward, EngineOK, NEW x17, NEW s, NEW a, NEW w \in Words, Before(s, w, a)
    PROVE  MachineOK(Step(Machine(At(w), x17, s)), a)
<1> DEFINE m == Machine(At(w), x17, s)
           i == code[w]
<1>1. m.at = At(w) /\ m.x17 = x17 /\ m.seen = s /\ m = Machine(At(w), x17, s) /\ w \in 0 .. CodeWords
    BY SizesAssumption DEF Machine, Words
<1> HIDE DEF m
<1>2. Step(m) = Execute(m, i, At(w + 1))
    BY <1>1 DEF Step, Stopped, At
<1>3. GoodWord(w, i)
    BY DEF EngineOK
<1> HIDE DEF i
<1>4. CASE /\ i.op \in {"other"} \cup Unimplemented
           /\ i.to \in Seen /\ i.to[1] = "code"
           /\ Originals(w) = <<i.to>> \o Originals(w + 1)
    <2>1. Step(m) = Machine(At(w + 1), x17, Append(s, i.to))
        BY <1>1, <1>2, <1>4, ExecuteIs
    <2>2. w + 1 \in 0 .. CodeWords /\ Before(Append(s, i.to), w + 1, a)
        BY <1>4, WordSeen
    <2>3. Stands(Machine(At(w + 1), x17, Append(s, i.to)), w + 1)
        BY DEF Stands, Machine
    <2> QED BY <2>1, <2>2, <2>3, StandsOK DEF m
<1>5. ASSUME i.op = "b", NEW u \in 0 .. CodeWords, i.to = At(u), Originals(w) = Originals(u)
      PROVE  MachineOK(Step(m), a)
    <2>1. Step(m) = Machine(At(u), x17, s)
        BY <1>1, <1>2, <1>5, ExecuteIs
    <2>2. Before(s, u, a)
        BY <1>5 DEF Before
    <2>3. Stands(Machine(At(u), x17, s), u)
        BY DEF Stands, Machine
    <2> QED BY <2>1, <2>2, <2>3, StandsOK
<1>6. CASE i.op = "b" /\ GoodTarget(w, i.to)
    <2>1. Step(m) = Machine(i.to, x17, s)
        BY <1>1, <1>2, <1>6, ExecuteIs
    <2>2. Stands(Machine(i.to, x17, s), w)
        BY <1>6 DEF Stands, Machine
    <2> QED BY <1>1, <2>1, <2>2, StandsOK
<1> QED BY <1>3, <1>4, <1>5, <1>6, WordKinds DEF m

\* In a hook.
LEMMA StepInHook ==
    ASSUME EngineOK, NEW at, NEW x17, NEW s, NEW a, NEW w \in 0 .. CodeWords, Before(s, w, a), GoodTarget(w, at)
    PROVE  MachineOK(Step(Machine(at, x17, s)), a)
<1> DEFINE m == Machine(at, x17, s)
<1>1. m.at = at /\ m.x17 = x17 /\ m.seen = s /\ m = Machine(at, x17, s)
    BY DEF Machine
<1> HIDE DEF m
<1>2. ASSUME NEW n \in 1 .. made, entry[n].addr = w, Step(m) = Machine(Relocated(n), x17, Append(s, at)),
             at \in Seen, at[1] \notin {"code", "lost"}
      PROVE  MachineOK(Step(m), a)
    <2>1. Before(Append(s, at), w, a)
        BY <1>2, HookSeen
    <2>2. Stands(Machine(Relocated(n), x17, Append(s, at)), w)
        BY <1>2 DEF Stands, Machine
    <2> QED BY <1>2, <2>1, <2>2, StandsOK
<1>3. \A n : [m EXCEPT !.seen = Append(@, m.at), !.at = Relocated(n)] = Machine(Relocated(n), x17, Append(s, at))
    <2> SUFFICES ASSUME NEW n PROVE [m EXCEPT !.seen = Append(@, m.at), !.at = Relocated(n)]
                                        = Machine(Relocated(n), x17, Append(s, at))
        OBVIOUS
    <2>1. PICK v : v = Append(s, at)
        OBVIOUS
    <2>2. PICK p : p = Relocated(n)
        OBVIOUS
    <2>3. [m EXCEPT !.seen = v, !.at = p] = Machine(p, x17, v)
        <3>1. [m EXCEPT !.seen = v] = Machine(at, x17, v)
            BY <1>1 DEF Machine
        <3>2. [Machine(at, x17, v) EXCEPT !.at = p] = Machine(p, x17, v)
            BY DEF Machine
        <3> QED BY <3>1, <3>2
    <2> QED BY <1>1, <2>1, <2>2, <2>3
<1>4. ASSUME NEW n \in 1 .. made, entry[n].addr = w, at = Closure(n)
      PROVE  MachineOK(Step(m), a)
    <2>1. n \in Entries
        BY SizesAssumption DEF EngineOK, Entries
    <2>2. at \in Seen /\ at[1] \notin {"code", "lost"}
        BY <1>4, <2>1 DEF Seen, Closure
    <2>3. Step(m) = [m EXCEPT !.seen = Append(@, m.at), !.at = Relocated(m.at[2])]
        BY <1>1, <1>4 DEF Step, Stopped, Closure
    <2>4. m.at[2] = n
        BY <1>1, <1>4 DEF Closure
    <2>5. Step(m) = Machine(Relocated(n), x17, Append(s, at))
        BY <1>3, <2>3, <2>4
    <2> QED BY <1>2, <1>4, <2>2, <2>5
<1>5. ASSUME NEW f \in Replacements, at = Call(w, f), w \in Sites,
             origin[w][f] \in 1 .. made, entry[origin[w][f]].addr = w
      PROVE  MachineOK(Step(m), a)
    <2>1. at \in Seen /\ at[1] \notin {"code", "lost"}
        BY <1>5 DEF Seen, Call
    <2>2. Step(m) = [m EXCEPT !.seen = Append(@, m.at),
                              !.at = IF origin[m.at[2]][m.at[3]] = 0 THEN NoAddr
                                     ELSE Relocated(origin[m.at[2]][m.at[3]])]
        BY <1>1, <1>5 DEF Step, Stopped, Call
    <2>3. m.at[2] = w /\ m.at[3] = f /\ origin[w][f] # 0
        BY <1>1, <1>5 DEF Call, EngineOK
    <2>4. Step(m) = [m EXCEPT !.seen = Append(@, m.at), !.at = Relocated(origin[w][f])]
        BY <2>2, <2>3
    <2>5. Step(m) = Machine(Relocated(origin[w][f]), x17, Append(s, at))
        BY <1>3, <2>4
    <2> QED BY <1>2, <1>5, <2>1, <2>5
<1> QED BY <1>4, <1>5 DEF GoodTarget, m

\* One step in a relocated copy executes its word.
LEMMA CopyStep ==
    ASSUME NEW n, NEW k, NEW j, NEW x17, NEW s
    PROVE  LET m == Machine(<<"relocated", n, k, j>>, x17, s)
           IN  Step(m) = Execute(m, entry[n].relocated[k][j], Following(n, k, j))
<1> DEFINE m == Machine(<<"relocated", n, k, j>>, x17, s)
<1>1. m.at = <<"relocated", n, k, j>>
    BY DEF Machine
<1> HIDE DEF m
<1>2. m.at[1] = "relocated" /\ m.at[2] = n /\ m.at[3] = k /\ m.at[4] = j
    BY <1>1
<1>3. ~Stopped(m)
    BY <1>2 DEF Stopped
<1>4. Step(m) = Execute(m, entry[m.at[2]].relocated[m.at[3]][m.at[4]],
                        Following(m.at[2], m.at[3], m.at[4]))
    BY <1>2, <1>3 DEF Step
<1>5. Step(m) = Execute(m, entry[n].relocated[k][j], Following(n, k, j))
    BY <1>2, <1>4
<1> QED BY <1>5 DEF m

\* At the copy of the saved word.
LEMMA StepInCopy ==
    ASSUME Forward, EngineOK, NEW n \in 1 .. made, NEW x17, NEW s, NEW a,
           NEW w, w = entry[n].addr, Before(s, w, a)
    PROVE  MachineOK(Step(Machine(Relocated(n), x17, s)), a)
<1> DEFINE m == Machine(<<"relocated", n, 1, 1>>, x17, s)
           i == entry[n].saved[1]
<1>1. /\ w \in Sites /\ GoodWord(w, i) /\ i.op \notin Unimplemented
      /\ entry[n].relocated[1] = Relocate(i)
    BY DEF EngineOK, EntryOK
<1>2. w \in Words /\ w \in 0 .. CodeWords /\ w + 1 \in 0 .. CodeWords
    BY <1>1, SiteWords
<1>3. Step(m) = Execute(m, Relocate(i)[1], Following(n, 1, 1))
    BY <1>1, CopyStep
<1> HIDE DEF m, i
<1>4. CASE /\ i.op \in {"other"} \cup Unimplemented
           /\ i.to \in Seen /\ i.to[1] = "code"
           /\ Originals(w) = <<i.to>> \o Originals(w + 1)
    <2>1. i.op = "other"
        BY <1>1, <1>4
    <2>2. Relocate(i) = <<i>>
        BY <2>1 DEF Relocate
    <2>3. Following(n, 1, 1) = <<"relocated", n, 2, 1>>
        BY <1>1, <2>2 DEF Following
    <2>4. Step(m) = Execute(m, i, <<"relocated", n, 2, 1>>)
        BY <1>3, <2>2, <2>3
    <2>5. Step(m) = Machine(<<"relocated", n, 2, 1>>, x17, Append(s, i.to))
        BY <2>1, <2>4, ExecuteIs DEF m
    <2>6. Before(Append(s, i.to), w + 1, a)
        BY <1>2, <1>4, WordSeen
    <2>7. Stands(Machine(<<"relocated", n, 2, 1>>, x17, Append(s, i.to)), w + 1)
        BY DEF Stands, Machine
    <2> QED BY <1>2, <2>5, <2>6, <2>7, StandsOK DEF m, Relocated
<1>5. CASE i.op = "b"
    <2>1. Relocate(i) = <<Insn("set17", i.to), Insn("br17", NoAddr)>>
        BY <1>5 DEF Relocate, Jump
    <2>2. Following(n, 1, 1) = <<"relocated", n, 1, 2>>
        BY <1>1, <2>1 DEF Following
    <2>3. Step(m) = Execute(m, Insn("set17", i.to), <<"relocated", n, 1, 2>>)
        BY <1>3, <2>1, <2>2
    <2>4. Insn("set17", i.to).op = "set17" /\ Insn("set17", i.to).to = i.to
        BY DEF Insn
    <2>5. Step(m) = Machine(<<"relocated", n, 1, 2>>, i.to, s)
        BY <2>3, <2>4, ExecuteIs DEF m
    <2>6. Stands(Machine(<<"relocated", n, 1, 2>>, i.to, s), w)
        BY <1>5 DEF Stands, Machine, i
    <2> QED BY <1>2, <2>5, <2>6, StandsOK DEF m, Relocated
<1> QED BY <1>1, <1>2, <1>4, <1>5, WordKinds

\* At the second word of the jump that a branch is copied to.
LEMMA StepInJump ==
    ASSUME Forward, EngineOK, NEW n \in 1 .. made, NEW s, NEW a,
           NEW w, w = entry[n].addr, Before(s, w, a), entry[n].saved[1].op = "b",
           NEW x17, x17 = entry[n].saved[1].to
    PROVE  MachineOK(Step(Machine(<<"relocated", n, 1, 2>>, x17, s)), a)
<1> DEFINE m == Machine(<<"relocated", n, 1, 2>>, x17, s)
           i == entry[n].saved[1]
<1>1. w \in Sites /\ GoodWord(w, i) /\ entry[n].relocated[1] = Relocate(i)
    BY DEF EngineOK, EntryOK
<1>2. w \in Words /\ w \in 0 .. CodeWords
    BY <1>1, SiteWords
<1>3. Relocate(i)[2] = Insn("br17", NoAddr)
    BY DEF Relocate, Jump
<1>4. Step(m) = Execute(m, Insn("br17", NoAddr), Following(n, 1, 2))
    BY <1>1, <1>3, CopyStep
<1>5. Insn("br17", NoAddr).op = "br17"
    BY DEF Insn
<1> HIDE DEF m
<1>6. Step(m) = Machine(x17, x17, s)
    BY <1>4, <1>5, ExecuteIs DEF m
<1>7. ASSUME NEW u \in 0 .. CodeWords, i.to = At(u), Originals(w) = Originals(u)
      PROVE  MachineOK(Step(m), a)
    <2>1. Before(s, u, a)
        BY <1>7 DEF Before
    <2>2. Stands(Machine(x17, x17, s), u)
        BY <1>7 DEF Stands, Machine
    <2> QED BY <1>6, <2>1, <2>2, StandsOK
<1>8. CASE GoodTarget(w, i.to)
    <2>1. Stands(Machine(x17, x17, s), w)
        BY <1>8 DEF Stands, Machine
    <2> QED BY <1>2, <1>6, <2>1, StandsOK DEF m
<1>9. i.op \notin {"other"} \cup Unimplemented
    BY DEF Unimplemented
<1> QED BY <1>1, <1>2, <1>7, <1>8, <1>9, WordKinds DEF m

\* In the jump that ends the copy.
LEMMA StepInEnd ==
    ASSUME EngineOK, NEW n \in 1 .. made, NEW s, NEW a, NEW x17,
           NEW w, w = entry[n].addr + 1, Before(s, w, a)
    PROVE  /\ MachineOK(Step(Machine(<<"relocated", n, 2, 1>>, x17, s)), a)
           /\ x17 = At(w) => MachineOK(Step(Machine(<<"relocated", n, 2, 2>>, x17, s)), a)
<1>1. entry[n].addr \in Sites /\ entry[n].relocated[2] = Jump(At(w))
    BY DEF EngineOK, EntryOK
<1>2. w \in 0 .. CodeWords
    BY <1>1, SiteWords
<1>3. /\ Len(Jump(At(w))) = 2
      /\ Jump(At(w))[1] = Insn("set17", At(w)) /\ Jump(At(w))[2] = Insn("br17", NoAddr)
    BY DEF Jump
<1>4. /\ Insn("set17", At(w)).op = "set17" /\ Insn("set17", At(w)).to = At(w)
      /\ Insn("br17", NoAddr).op = "br17"
    BY DEF Insn
<1>5. MachineOK(Step(Machine(<<"relocated", n, 2, 1>>, x17, s)), a)
    <2> DEFINE m == Machine(<<"relocated", n, 2, 1>>, x17, s)
    <2>1. Following(n, 2, 1) = <<"relocated", n, 2, 2>>
        BY <1>1, <1>3 DEF Following
    <2>2. Step(m) = Execute(m, Insn("set17", At(w)), <<"relocated", n, 2, 2>>)
        BY <1>1, <1>3, <2>1, CopyStep
    <2> HIDE DEF m
    <2>3. Step(m) = Machine(<<"relocated", n, 2, 2>>, At(w), s)
        BY <1>4, <2>2, ExecuteIs DEF m
    <2>4. Stands(Machine(<<"relocated", n, 2, 2>>, At(w), s), w)
        BY DEF Stands, Machine
    <2> QED BY <1>2, <2>3, <2>4, StandsOK DEF m
<1>6. ASSUME x17 = At(w)
      PROVE  MachineOK(Step(Machine(<<"relocated", n, 2, 2>>, x17, s)), a)
    <2> DEFINE m == Machine(<<"relocated", n, 2, 2>>, x17, s)
    <2>1. Step(m) = Execute(m, Insn("br17", NoAddr), Following(n, 2, 2))
        BY <1>1, <1>3, CopyStep
    <2> HIDE DEF m
    <2>2. Step(m) = Machine(x17, x17, s)
        BY <1>4, <2>1, ExecuteIs DEF m
    <2>3. Stands(Machine(x17, x17, s), w)
        BY <1>6 DEF Stands, Machine
    <2> QED BY <1>2, <2>2, <2>3, StandsOK DEF m
<1> QED BY <1>5, <1>6

\* Whatever a thread executes, it goes on with the function it has called.
LEMMA ThreadStep ==
    ASSUME Forward, EngineOK, NEW m, NEW a, MachineOK(m, a), ~Stopped(m)
    PROVE  MachineOK(Step(m), a)
<1> DEFINE at == m.at
           x17 == m.x17
           s == m.seen
<1>1. m = Machine(at, x17, s)
    BY DEF MachineOK, Machine
<1>2. PICK w \in 0 .. CodeWords : Stands(m, w) /\ Before(s, w, a)
    BY DEF MachineOK, Before
<1>3. CASE at = At(w)
    <2>1. w \in Words
        BY <1>3 DEF Stopped, At
    <2> QED BY <1>1, <1>2, <1>3, <2>1, StepInImage
<1>4. CASE GoodTarget(w, at)
    BY <1>1, <1>2, <1>4, StepInHook
<1>5. ASSUME NEW n \in 1 .. made, entry[n].addr = w, at = Relocated(n)
      PROVE  MachineOK(Step(m), a)
    BY <1>1, <1>2, <1>5, StepInCopy
<1>6. ASSUME NEW n \in 1 .. made, entry[n].addr = w, at = <<"relocated", n, 1, 2>>,
             entry[n].saved[1].op = "b", x17 = entry[n].saved[1].to
      PROVE  MachineOK(Step(m), a)
    BY <1>1, <1>2, <1>6, StepInJump
<1>7. ASSUME NEW n \in 1 .. made, entry[n].addr + 1 = w,
             \/ at = <<"relocated", n, 2, 1>>
             \/ at = <<"relocated", n, 2, 2>> /\ x17 = At(w)
      PROVE  MachineOK(Step(m), a)
    BY <1>1, <1>2, <1>7, StepInEnd
<1> QED BY <1>2, <1>3, <1>4, <1>5, <1>6, <1>7 DEF Stands

\* A thread stops only behind the function.
LEMMA StoppedIsDone ==
    ASSUME Forward, NEW m, NEW a, MachineOK(m, a), Stopped(m)
    PROVE  m.at = At(CodeWords) /\ OriginalsIn(m.seen) = Originals(a)
<1>1. PICK w \in 0 .. CodeWords : Stands(m, w) /\ OriginalsIn(m.seen) \o Originals(w) = Originals(a)
    BY DEF MachineOK
<1>2. m.at = At(w)
    BY <1>1 DEF Stands, Stopped, GoodTarget, Closure, Call, Relocated
<1>3. w = CodeWords
    BY <1>2, SizesAssumption DEF Stopped, At, Words
<1>4. Originals(w) = <<>>
    BY <1>3, OriginalsRule
<1>5. OriginalsIn(m.seen) \in Seq(Seen)
    BY DEF MachineOK
<1>6. OriginalsIn(m.seen) \o <<>> = OriginalsIn(m.seen)
    BY <1>5, ConcatEmptySeq
<1> QED BY <1>1, <1>2, <1>3, <1>4, <1>6

\* A call begins with nothing run.
LEMMA RestingOK ==
    ASSUME Forward, NEW w \in 0 .. CodeWords
    PROVE  MachineOK(Machine(At(w), NoAddr, <<>>), w)
<1>1. Originals(w) \in Seq(Seen)
    BY OriginalsSeq
<1>2. <<>> \o Originals(w) = Originals(w)
    BY <1>1, ConcatEmptySeq
<1>3. <<>> \in Seq(Seen)
    OBVIOUS
<1>4. Before(<<>>, w, w)
    BY <1>2, <1>3, OriginalsInEmpty DEF Before
<1>5. Stands(Machine(At(w), NoAddr, <<>>), w)
    BY DEF Stands, Machine
<1> QED BY <1>4, <1>5, StandsOK

---------------------------------------------------------------------------

\* At first no thread is in hooked code.
LEMMA InitTInv == Forward /\ AllNear /\ ThreadsInit => TInv
<1> SUFFICES ASSUME Forward, AllNear, ThreadsInit PROVE TInv
    OBVIOUS
<1>1. Init /\ CodeWords \in Nat /\ MaxHooks \in Nat
    BY SizesAssumption DEF ThreadsInit
<1>2. OpOK
    BY <1>1 DEF Init, OpOK, Idle
<1>3. \A w \in Words : GoodWord(w, code[w])
    BY <1>1 DEF Init, GoodWord
<1>4. EngineOK
    BY <1>1, <1>2, <1>3, SitesAssumption DEF Init, EngineOK, AllNear
<1>5. \A t \in Threads : thread[t] = Machine(At(CodeWords), NoAddr, <<>>) /\ from[t] = CodeWords
    BY DEF ThreadsInit, Resting, Machine
<1>6. \A t \in Threads : MachineOK(thread[t], from[t])
    BY <1>1, <1>5, RestingOK
<1>7. ThreadsOK
    BY <1>6 DEF ThreadsOK, ThreadsInit
<1> QED BY <1>4, <1>7 DEF TInv

\* Every step of the engine and of a thread keeps the invariant.
LEMMA NextTInv ==
    ASSUME Forward, AllNear, TInv, [ThreadsNext]_allVars
    PROVE  TInv'
<1>1. EngineOK /\ ThreadsOK /\ made \in Nat
    BY DEF TInv, EngineOK
<1>2. [Next]_vars
    BY DEF ThreadsNext, allVars, CallSite, RunOne
<1>3. Grows /\ EngineOK'
    BY <1>1, <1>2, EngineStep
<1>4. \A m, a : MachineOK(m, a) => MachineOK(m, a)'
    BY <1>1, <1>3, MachineStays
<1>5. CASE UNCHANGED <<thread, from, calls>>
    <2>1. \A t \in Threads : MachineOK(thread[t], from[t])'
        <3> SUFFICES ASSUME NEW t \in Threads PROVE MachineOK(thread[t], from[t])'
            OBVIOUS
        <3>1. PICK m, a : m = thread[t] /\ a = from[t]
            OBVIOUS
        <3>2. MachineOK(m, a)'
            BY <1>1, <1>4, <3>1 DEF ThreadsOK
        <3> QED BY <1>5, <3>1, <3>2
    <2> QED BY <1>1, <1>3, <1>5, <2>1 DEF TInv, ThreadsOK
<1>6. ASSUME NEW t \in Threads, NEW r, NEW b, MachineOK(r, b), DOMAIN thread' = Threads, DOMAIN from' = Threads,
             thread'[t] = r, from'[t] = b,
             \A q \in Threads \ {t} : thread'[q] = thread[q] /\ from'[q] = from[q]
      PROVE  TInv'
    <2>1. \A q \in Threads : MachineOK(thread[q], from[q])'
        <3> SUFFICES ASSUME NEW q \in Threads PROVE MachineOK(thread[q], from[q])'
            OBVIOUS
        <3>1. PICK m, a : m = thread'[q] /\ a = from'[q]
            OBVIOUS
        <3>2. MachineOK(m, a)
            BY <1>1, <1>6, <3>1 DEF ThreadsOK
        <3>3. MachineOK(m, a)'
            BY <1>4, <3>2
        <3> QED BY <3>1, <3>3
    <2> QED BY <1>3, <1>6, <2>1 DEF TInv, ThreadsOK
<1>7. ASSUME NEW t \in Threads, NEW a \in Sites, CallSite(t, a)
      PROVE  TInv'
    <2>1. thread' = [thread EXCEPT ![t] = [Resting EXCEPT !.at = At(a)]] /\ from' = [from EXCEPT ![t] = a]
        BY <1>7 DEF CallSite
    <2>2. [Resting EXCEPT !.at = At(a)] = Machine(At(a), NoAddr, <<>>)
        BY DEF Resting, Machine
    <2>3. MachineOK(Machine(At(a), NoAddr, <<>>), a)
        BY RestingOK, SiteWords
    <2> QED BY <1>1, <1>6, <2>1, <2>2, <2>3 DEF ThreadsOK
<1>8. ASSUME NEW t \in Threads, RunOne(t)
      PROVE  TInv'
    <2>1. ~Stopped(thread[t]) /\ thread' = [thread EXCEPT ![t] = Step(@)] /\ from' = from
        BY <1>8 DEF RunOne
    <2>2. MachineOK(Step(thread[t]), from[t])
        BY <1>1, <2>1, ThreadStep DEF ThreadsOK
    <2> QED BY <1>1, <1>6, <2>1, <2>2 DEF ThreadsOK
<1> QED BY <1>5, <1>7, <1>8 DEF ThreadsNext, allVars

\* With near trampolines, a thread that calls hooked code, of any length and
\* with any number of hooks set and removed under its feet, runs the whole
\* original function, every instruction once and in order.
THEOREM CallsComplete == Forward /\ AllNear => (ThreadsSpec => []EveryCallCompletes)
<1> SUFFICES ASSUME Forward, AllNear PROVE ThreadsSpec => []EveryCallCompletes
    OBVIOUS
<1>1. ThreadsInit => TInv
    BY InitTInv
<1>2. TInv /\ [ThreadsNext]_allVars => TInv'
    BY NextTInv
<1>3. TInv => EveryCallCompletes
    BY StoppedIsDone DEF TInv, ThreadsOK, EveryCallCompletes
<1> QED BY <1>1, <1>2, <1>3, PTL DEF ThreadsSpec

---------------------------------------------------------------------------
(* Where hooks and their copies lead                                       *)

\* Calling the target of entry n leads to the relocated copy of entry q.
Leads(n, q) ==
    \/ entry[n].target = Closure(n) /\ q = n
    \/ \E f \in Replacements :
        /\ entry[n].target = Call(entry[n].addr, f)
        /\ origin[entry[n].addr][f] = q /\ q # 0

\* Entry e has saved words of the image, or the trampoline of entry p.
OverImage(e) == \A k \in 1 .. Size(e) : entry[e].saved[k] = Image[entry[e].addr + k - 1]
Over(e, p) ==
    /\ p # e /\ entry[p].addr = entry[e].addr
    /\ Size(p) = Size(e)
    /\ \A k \in 1 .. Size(e) : entry[e].saved[k] = entry[p].tramp[k]

\* Entry x is destroyed after entry e, where d is the order in which the
\* destroyed ones were.
Outlives(d, x, e) ==
    IF e \in live THEN x \in live /\ x < e ELSE x \in live \/ d[e] < d[x]

\* What Routing has left in an entry.
FormOK(n) ==
    LET e == entry[n]
    IN  /\ e.target = Closure(n) \/ \E f \in Replacements : e.target = Call(e.addr, f)
        /\ e.tramp \in {GenerateNearTrampolineBuffer(e.target), AdrpAddBr(e.target),
                        LiteralLdrBranch(e.addr, e.target)}
        /\ \A k \in 1 .. Size(n) : e.relocated[k] = Relocate(e.saved[k])
        /\ e.relocated[Size(n) + 1] = Jump(At(e.addr + Size(n)))

\* The origin_call of the hooks on the list are their own.
OriginsOK ==
    /\ op.pc = "origin" => \E f \in Replacements : entry[op.n].target = Call(entry[op.n].addr, f)
    /\ \A n \in live : (op.n = n /\ op.pc = "origin") \/ Leads(n, n)
    /\ \A a \in Sites, f \in Replacements :
        origin[a][f] # 0 => origin[a][f] \in 1 .. made /\ entry[origin[a][f]].addr = a

\* The copy of a destroyed entry leads to one that was destroyed after it.
LinkOK(d, e) ==
    \/ e \in live
    \/ OverImage(e)
    \/ \E p, q \in 1 .. made : Over(e, p) /\ Leads(p, q) /\ Outlives(d, q, e)

LinksOK == Even => \E last \in Nat : \E d \in [Entries -> 0 .. last] : \A e \in 1 .. made : LinkOK(d, e)

WInv ==
    /\ \A n \in 1 .. made : FormOK(n)
    /\ \A m, n \in live : entry[m].target = entry[n].target => m = n
    /\ OriginsOK
    /\ LinksOK

\* A hook is the first of its address, or the trampoline of the newest one
\* below it is what it has saved.
LEMMA HookBelow ==
    ASSUME IInv, Even, NEW n \in live
    PROVE  \/ OverImage(n) /\ ~\E m \in live : m < n /\ entry[m].addr = entry[n].addr
           \/ \E m \in live :
                /\ m < n /\ Over(n, m)
                /\ \A j \in live : j < n /\ entry[j].addr = entry[n].addr => j <= m
<1>1. /\ made \in Nat /\ live \subseteq 1 .. made
      /\ \A m \in live : Size(m) \in 1 .. MaxTrampoline
    BY DEF IInv, TypeOK
<1>2. \A m \in live : m < n /\ entry[m].addr = entry[n].addr => Size(m) = Size(n)
    BY <1>1 DEF Even
<1>3. \A k \in 1 .. Size(n), m \in live : Below(n, k, m) <=> m < n /\ entry[m].addr = entry[n].addr
    BY <1>1, <1>2 DEF Below, MaxTrampoline
<1>4. \A k \in 1 .. Size(n) : SavedWord(n, k)
    BY DEF IInv, SavedInv
<1>5. CASE ~\E m \in live : m < n /\ entry[m].addr = entry[n].addr
    <2>1. OverImage(n)
        BY <1>3, <1>4, <1>5 DEF OverImage, SavedWord
    <2> QED BY <1>5, <2>1
<1>6. CASE \E m \in live : m < n /\ entry[m].addr = entry[n].addr
    <2> DEFINE T == {made - m : m \in {j \in live : j < n /\ entry[j].addr = entry[n].addr}}
    <2>1. T \in SUBSET Nat /\ T # {}
        BY <1>1, <1>6
    <2>2. PICK t \in T : \A u \in T : t <= u
        BY <2>1, LeastNat
    <2>3. PICK m \in live : m < n /\ entry[m].addr = entry[n].addr /\ t = made - m
        OBVIOUS
    <2>4. ASSUME NEW j \in live, j < n, entry[j].addr = entry[n].addr PROVE j <= m
        <3>1. made - j \in T
            BY <2>4
        <3>2. made - m <= made - j
            BY <2>2, <2>3, <3>1
        <3> QED BY <1>1, <3>2
    <2>5. Over(n, m)
        <3>1. m # n /\ Size(m) = Size(n)
            BY <1>1, <1>2, <2>3
        <3>2. \A k \in 1 .. Size(n) : entry[n].saved[k] = entry[m].tramp[k]
            BY <1>3, <1>4, <2>3, <2>4 DEF SavedWord
        <3> QED BY <2>3, <3>1, <3>2 DEF Over
    <2> QED BY <2>3, <2>4, <2>5
<1> QED BY <1>5, <1>6

\* At first there is no entry.
LEMMA InitWInv == Init => WInv
<1> SUFFICES ASSUME Init PROVE WInv
    OBVIOUS
<1>1. made = 0 /\ live = {} /\ op.pc = "idle" /\ \A a \in Sites, f \in Replacements : origin[a][f] = 0
    BY DEF Init, Idle
<1>2. OriginsOK
    BY <1>1 DEF OriginsOK
<1>3. LinksOK
    <2>1. [n \in Entries |-> 0] \in [Entries -> 0 .. 0] /\ 0 \in Nat
        OBVIOUS
    <2>2. 1 .. made = {}
        BY <1>1
    <2>3. \E d \in [Entries -> 0 .. 0] : \A e \in 1 .. made : LinkOK(d, e)
        BY <2>1, <2>2
    <2> QED BY <2>3 DEF LinksOK
<1> QED BY <1>1, <1>2, <1>3 DEF WInv

\* A step that keeps entries, list and origins.
LEMMA QuietKeepsWalks ==
    ASSUME WInv, UNCHANGED <<made, entry, live, origin>>,
           \/ op' = op
           \/ op'.pc # "origin" /\ op.pc # "origin"
    PROVE  WInv'
<1>1. \A n \in 1 .. made : FormOK(n)'
    BY DEF WInv, FormOK, Size
<1>2. OriginsOK'
    BY DEF WInv, OriginsOK, Leads
<1>3. LinksOK'
    <2>1. Even' <=> Even
        BY DEF Even, Size
    <2>2. \A d, e : LinkOK(d, e)' <=> LinkOK(d, e)
        BY DEF LinkOK, OverImage, Over, Leads, Outlives, Size
    <2>3. LinksOK
        BY DEF WInv
    <2> QED BY <2>1, <2>2, <2>3 DEF LinksOK
<1> QED BY <1>1, <1>2, <1>3 DEF WInv

\* A new entry changes none of those there are.
LEMMA AddKeepsWalks ==
    ASSUME IInv, WInv, Ready, made < MaxHooks, NEW a \in Sites, NEW h, NEW far,
           NEW to, NEW pc \in {"origin", "commit"}, NEW tramp \in GenerateTrampolineBuffer(a, to, far),
           \/ pc = "commit" /\ to = Closure(made + 1)
           \/ pc = "origin" /\ \E f \in Replacements : to = Call(a, f) /\ ~InUse(a, f),
           AddHookEntry(a, to, h, tramp, pc)
    PROVE  WInv'
<1>1. PICK n \in Nat : n = made + 1
    BY DEF IInv, TypeOK
<1>2. /\ n \in Entries /\ made \in Nat /\ made' = n /\ live \subseteq 1 .. made /\ DOMAIN entry = Entries
      /\ \A m \in 1 .. made : m # n /\ m \in 1 .. made'
      /\ \A m \in 1 .. n : m = n \/ m \in 1 .. made
    BY <1>1, SizesAssumption DEF IInv, TypeOK, Entries, AddHookEntry
<1>3. /\ entry'[n] = DispatchRouting(a, to, h, tramp)
      /\ \A m \in 1 .. made : entry'[m] = entry[m] /\ Size(m)' = Size(m)
      /\ live' = live \cup {n}
      /\ op' = [pc |-> pc, n |-> n, i |-> 0]
      /\ origin' = origin
    BY <1>1, <1>2, SizesAssumption DEF AddHookEntry, Entries, Size
<1>4. /\ entry'[n].addr = a /\ entry'[n].target = to /\ entry'[n].tramp = tramp
      /\ entry'[n].saved = [k \in 1 .. Len(tramp) |-> code[a + k - 1]]
      /\ entry'[n].relocated = GenRelocateCodeAndBranch(code, a, Len(tramp))
      /\ Size(n)' = Len(tramp)
    BY <1>3 DEF DispatchRouting, Size
<1>5. FormOK(n)'
    <2>1. entry'[n].target = Closure(n) \/ \E f \in Replacements : entry'[n].target = Call(entry'[n].addr, f)
        BY <1>1, <1>4
    <2>2. tramp \in {GenerateNearTrampolineBuffer(to), AdrpAddBr(to), LiteralLdrBranch(a, to)}
        BY DEF GenerateTrampolineBuffer, GenerateNormalTrampolineBuffer
    <2>3. PICK s \in 1 .. MaxTrampoline : s = Len(tramp)
        BY TrampolineLengths
    <2>4. \A k \in 1 .. s : entry'[n].relocated[k] = Relocate(entry'[n].saved[k])
        BY <1>4, <2>3 DEF GenRelocateCodeAndBranch, MaxTrampoline
    <2>5. entry'[n].relocated[s + 1] = Jump(At(a + s))
        BY <1>4, <2>3 DEF GenRelocateCodeAndBranch, MaxTrampoline
    <2> QED BY <1>4, <2>1, <2>2, <2>3, <2>4, <2>5 DEF FormOK
<1>6. \A m \in 1 .. made : FormOK(m)'
    <2> SUFFICES ASSUME NEW m \in 1 .. made PROVE FormOK(m)'
        OBVIOUS
    <2>1. FormOK(m) /\ entry'[m] = entry[m] /\ Size(m)' = Size(m)
        BY <1>3 DEF WInv
    <2> QED BY <2>1 DEF FormOK
<1>7. \A m \in live : entry[m].target # to
    <2> SUFFICES ASSUME NEW m \in live PROVE entry[m].target # to
        OBVIOUS
    <2>1. m \in 1 .. made /\ m # made + 1
        BY <1>1, <1>2
    <2>2. CASE to = Closure(made + 1)
        BY <2>1, <2>2 DEF WInv, FormOK, Closure, Call
    <2>3. ASSUME NEW f \in Replacements, to = Call(a, f), ~InUse(a, f) PROVE entry[m].target # to
        BY <2>3 DEF InUse
    <2> QED BY <2>2, <2>3
<1>8. \A i, j \in live' : entry'[i].target = entry'[j].target => i = j
    <2>1. \A i, j \in live : entry'[i].target = entry'[j].target => i = j
        BY <1>2, <1>3 DEF WInv
    <2>2. \A i \in live : entry'[i].target # entry'[n].target
        BY <1>2, <1>3, <1>4, <1>7
    <2> QED BY <1>3, <2>1, <2>2
<1>9. OriginsOK'
    <2>1. op = Idle
        BY DEF Ready
    <2>2. \A m \in live : Leads(m, m) /\ m \in 1 .. made
        BY <1>2, <2>1 DEF WInv, OriginsOK, Idle
    <2>3. \A m \in live : Leads(m, m)'
        BY <1>3, <2>2 DEF Leads
    <2>4. pc = "commit" => Leads(n, n)'
        BY <1>1, <1>4 DEF Leads, Call, Closure
    <2>5. \A m \in live' : (op'.n = m /\ op'.pc = "origin") \/ Leads(m, m)'
        BY <1>3, <2>3, <2>4
    <2>6. \A b \in Sites, f \in Replacements :
            origin'[b][f] # 0 => origin'[b][f] \in 1 .. made' /\ entry'[origin'[b][f]].addr = b
        BY <1>2, <1>3 DEF WInv, OriginsOK
    <2>7. op'.pc = "origin" => \E f \in Replacements : entry'[op'.n].target = Call(entry'[op'.n].addr, f)
        BY <1>3, <1>4
    <2> QED BY <2>5, <2>6, <2>7 DEF OriginsOK
<1>10. LinksOK'
    <2> SUFFICES ASSUME Even' PROVE \E last \in Nat : \E d \in [Entries -> 0 .. last] : \A e \in 1 .. made' : LinkOK(d, e)'
        BY DEF LinksOK
    <2>1. Even
        BY <1>2, <1>3 DEF Even
    <2>2. PICK last \in Nat : \E d \in [Entries -> 0 .. last] : \A e \in 1 .. made : LinkOK(d, e)
        BY <2>1 DEF WInv, LinksOK
    <2>3. PICK d \in [Entries -> 0 .. last] : \A e \in 1 .. made : LinkOK(d, e)
        BY <2>2
    <2>4. ASSUME NEW e \in 1 .. made, e \notin live PROVE LinkOK(d, e)'
        <3>1. CASE OverImage(e)
            BY <1>3, <3>1 DEF LinkOK, OverImage
        <3>2. CASE ~OverImage(e)
            <4>1. PICK p \in 1 .. made, q \in 1 .. made : Over(e, p) /\ Leads(p, q) /\ Outlives(d, q, e)
                BY <2>3, <2>4, <3>2 DEF LinkOK
            <4>2. Over(e, p)' /\ Leads(p, q)'
                BY <1>3, <4>1 DEF Over, Leads
            <4>3. Outlives(d, q, e)'
                BY <1>2, <1>3, <2>4, <4>1 DEF Outlives
            <4> QED BY <1>2, <4>2, <4>3 DEF LinkOK
        <3> QED BY <3>1, <3>2
    <2>5. \A e \in 1 .. made' : LinkOK(d, e)'
        BY <1>2, <1>3, <2>4 DEF LinkOK
    <2> QED BY <2>5
<1> QED BY <1>2, <1>5, <1>6, <1>8, <1>9, <1>10 DEF WInv

\* DobbyHook sets *origin_call: copies that jumped to the replacement through
\* an earlier value lead to the new entry from now on.
LEMMA OriginKeepsWalks ==
    ASSUME IInv, WInv, SetOriginCall
    PROVE  WInv'
<1> DEFINE N == op.n
           b == entry[N].addr
<1>1. /\ op.pc = "origin" /\ N \in live /\ N \in 1 .. made /\ made \in 0 .. MaxHooks /\ b \in Sites
      /\ live \subseteq 1 .. made /\ N # 0 /\ N \in 0 .. MaxHooks
    BY SizesAssumption DEF SetOriginCall, IInv, OpInv, TypeOK
<1>2. PICK f \in Replacements : entry[N].target = Call(b, f)
    BY <1>1 DEF WInv, OriginsOK
<1>3. PICK n \in live, a \in Sites : n = N /\ a = b
    BY <1>1
<1>4. /\ n \in 1 .. made /\ entry[n].addr = a /\ entry[n].target = Call(a, f) /\ n # 0 /\ n = op.n
      /\ UNCHANGED <<code, made, entry, live, near, fate>> /\ op'.pc = "commit"
    BY <1>1, <1>2, <1>3 DEF SetOriginCall, IInv, TypeOK
<1>5. origin' = [origin EXCEPT ![a][f] = n]
    <2>1. Call(a, f)[3] = f
        BY DEF Call
    <2> QED BY <1>4, <2>1 DEF SetOriginCall
<1> HIDE DEF N, b
<1>6. /\ origin'[a][f] = n
      /\ \A c \in Sites, g \in Replacements : origin'[c][g] = origin[c][g] \/ (c = a /\ g = f)
    BY <1>2, <1>5 DEF IInv, TypeOK
<1>7. \A m \in 1 .. made : entry[m].addr \in Sites
    BY DEF IInv, TypeOK
<1>8. \A p \in 1 .. made : \A q : Leads(p, q) => Leads(p, q)' \/ Leads(p, n)'
    <2> SUFFICES ASSUME NEW p \in 1 .. made, NEW q, Leads(p, q) PROVE Leads(p, q)' \/ Leads(p, n)'
        OBVIOUS
    <2>1. CASE entry[p].target = Closure(p) /\ q = p
        BY <1>4, <2>1 DEF Leads
    <2>2. ASSUME NEW g \in Replacements, entry[p].target = Call(entry[p].addr, g),
                 origin[entry[p].addr][g] = q, q # 0
          PROVE  Leads(p, q)' \/ Leads(p, n)'
        <3>1. PICK c \in Sites : c = entry[p].addr
            BY <1>7
        <3>2. CASE origin'[c][g] = origin[c][g]
            BY <1>4, <2>2, <3>1, <3>2 DEF Leads
        <3>3. CASE c = a /\ g = f
            BY <1>4, <1>6, <2>2, <3>1, <3>3 DEF Leads
        <3> QED BY <1>6, <3>1, <3>2, <3>3
    <2> QED BY <2>1, <2>2 DEF Leads
<1>9. \A m \in 1 .. made : FormOK(m)'
    BY <1>4 DEF WInv, FormOK, Size
<1>10. OriginsOK'
    <2>1. Leads(n, n)'
        BY <1>4, <1>6 DEF Leads
    <2>2. ASSUME NEW m \in live, m # n PROVE Leads(m, m)'
        <3>1. Leads(m, m) /\ entry[m].target # entry[n].target /\ m \in 1 .. made
            BY <1>1, <1>4, <2>2 DEF WInv, OriginsOK
        <3>2. CASE entry[m].target = Closure(m)
            BY <1>4, <3>2 DEF Leads
        <3>3. ASSUME NEW g \in Replacements, entry[m].target = Call(entry[m].addr, g),
                     origin[entry[m].addr][g] = m, m # 0
              PROVE  Leads(m, m)'
            <4>1. PICK c \in Sites : c = entry[m].addr
                BY <1>7, <3>1
            <4>2. ~(c = a /\ g = f)
                BY <1>4, <3>1, <3>3, <4>1
            <4>3. origin'[c][g] = origin[c][g]
                BY <1>6, <4>2
            <4> QED BY <1>4, <3>3, <4>1, <4>3 DEF Leads
        <3> QED BY <3>1, <3>2, <3>3 DEF Leads
    <2>3. \A c \in Sites, g \in Replacements :
            origin'[c][g] # 0 => origin'[c][g] \in 1 .. made' /\ entry'[origin'[c][g]].addr = c
        BY <1>4, <1>6 DEF WInv, OriginsOK
    <2> QED BY <1>4, <2>1, <2>2, <2>3 DEF OriginsOK
<1>11. LinksOK'
    <2> SUFFICES ASSUME Even' PROVE \E last \in Nat : \E d \in [Entries -> 0 .. last] : \A e \in 1 .. made' : LinkOK(d, e)'
        BY DEF LinksOK
    <2>1. Even
        BY <1>4 DEF Even, Size
    <2>2. PICK last \in Nat : \E d \in [Entries -> 0 .. last] : \A e \in 1 .. made : LinkOK(d, e)
        BY <2>1 DEF WInv, LinksOK
    <2>3. PICK d \in [Entries -> 0 .. last] : \A e \in 1 .. made : LinkOK(d, e)
        BY <2>2
    <2>4. ASSUME NEW e \in 1 .. made, e \notin live PROVE LinkOK(d, e)'
        <3>1. CASE OverImage(e)
            BY <1>4, <3>1 DEF LinkOK, OverImage, Size
        <3>2. CASE ~OverImage(e)
            <4>1. PICK p \in 1 .. made, q \in 1 .. made : Over(e, p) /\ Leads(p, q) /\ Outlives(d, q, e)
                BY <2>3, <2>4, <3>2 DEF LinkOK
            <4>2. Over(e, p)' /\ Outlives(d, q, e)' /\ Outlives(d, n, e)'
                BY <1>4, <2>4, <4>1 DEF Over, Outlives, Size
            <4>3. Leads(p, q)' \/ Leads(p, n)'
                BY <1>8, <4>1
            <4> QED BY <1>4, <4>2, <4>3 DEF LinkOK
        <3> QED BY <3>1, <3>2
    <2>5. \A e \in 1 .. made' : LinkOK(d, e)'
        BY <1>4, <2>4 DEF LinkOK
    <2> QED BY <2>5
<1> QED BY <1>4, <1>9, <1>10, <1>11 DEF WInv

\* DobbyDestroy removes the newest hook of an address: all that is destroyed
\* was destroyed before it, and what it leads to is still on the list.
LEMMA RemoveKeepsWalks ==
    ASSUME IInv, WInv, RemoveHookEntry
    PROVE  WInv'
<1>1. PICK n \in live :
        /\ op.pc = "restore" /\ op.n = n
        /\ live' = live \ {n} /\ op' = Idle
        /\ UNCHANGED <<code, made, entry, origin, near, fate>>
    <2>1. PICK n \in Entries : Finds(entry[op.n].addr, n) /\ live' = live \ {n}
        BY DEF RemoveHookEntry
    <2>2. op.pc = "restore" /\ op.n \in live /\ \A m \in live : entry[m].addr = entry[op.n].addr => m <= op.n
        BY DEF RemoveHookEntry, IInv, OpInv
    <2>3. n \in live /\ entry[n].addr = entry[op.n].addr /\ op.n <= n /\ n <= op.n
        BY <2>1, <2>2 DEF Finds
    <2>4. n \in Int /\ op.n \in Int
        BY <2>2, <2>3 DEF IInv, TypeOK
    <2>5. op.n = n
        BY <2>3, <2>4
    <2> QED BY <2>1, <2>2, <2>3, <2>5 DEF RemoveHookEntry
<1>2. live \subseteq 1 .. made /\ made \in 0 .. MaxHooks /\ n \in Entries
    BY SizesAssumption DEF IInv, TypeOK, Entries
<1>3. \A m \in 1 .. made : FormOK(m)'
    BY <1>1 DEF WInv, FormOK, Size
<1>4. \A m \in live : Leads(m, m)
    BY <1>1 DEF WInv, OriginsOK
<1>5. OriginsOK'
    BY <1>1, <1>4 DEF WInv, OriginsOK, Idle, Leads
<1>6. LinksOK'
    <2> SUFFICES ASSUME Even' PROVE \E last \in Nat : \E d \in [Entries -> 0 .. last] : \A e \in 1 .. made' : LinkOK(d, e)'
        BY DEF LinksOK
    <2>1. Even
        BY <1>1 DEF Even, Size
    <2>2. PICK last \in Nat : \E d \in [Entries -> 0 .. last] : \A e \in 1 .. made : LinkOK(d, e)
        BY <2>1 DEF WInv, LinksOK
    <2>3. PICK d \in [Entries -> 0 .. last] : \A e \in 1 .. made : LinkOK(d, e)
        BY <2>2
    <2> DEFINE b == [d EXCEPT ![n] = last + 1]
    <2>4. /\ b \in [Entries -> 0 .. last + 1] /\ b[n] = last + 1
          /\ \A e \in 1 .. made : e # n => b[e] = d[e] /\ d[e] <= last /\ d[e] < last + 1
        BY <1>2, SizesAssumption DEF Entries
    <2> HIDE DEF b
    <2>5. ASSUME NEW e \in 1 .. made, e \notin live PROVE LinkOK(b, e)'
        <3>1. CASE OverImage(e)
            BY <1>1, <3>1 DEF LinkOK, OverImage, Size
        <3>2. CASE ~OverImage(e)
            <4>1. PICK p \in 1 .. made, q \in 1 .. made : Over(e, p) /\ Leads(p, q) /\ Outlives(d, q, e)
                BY <2>3, <2>5, <3>2 DEF LinkOK
            <4>2. Over(e, p)' /\ Leads(p, q)'
                BY <1>1, <4>1 DEF Over, Leads, Size
            <4>3. Outlives(b, q, e)'
                BY <1>1, <2>4, <2>5, <4>1 DEF Outlives
            <4> QED BY <1>1, <4>2, <4>3 DEF LinkOK
        <3> QED BY <3>1, <3>2
    <2>6. LinkOK(b, n)'
        <3>1. CASE OverImage(n)
            BY <1>1, <3>1 DEF LinkOK, OverImage, Size
        <3>2. CASE ~OverImage(n)
            <4>1. PICK m \in live : m < n /\ Over(n, m)
                BY <2>1, <3>2, HookBelow
            <4>2. m \in live' /\ n \notin live' /\ m \in 1 .. made'
                BY <1>1, <1>2, <4>1
            <4>3. Over(n, m)' /\ Leads(m, m)' /\ Outlives(b, m, n)'
                BY <1>1, <1>4, <4>1, <4>2 DEF Over, Leads, Outlives, Size
            <4> QED BY <4>2, <4>3 DEF LinkOK
        <3> QED BY <3>1, <3>2
    <2>7. \A e \in 1 .. made' : LinkOK(b, e)'
        BY <1>1, <2>5, <2>6 DEF LinkOK
    <2> QED BY <2>4, <2>7
<1> QED BY <1>1, <1>3, <1>5, <1>6 DEF WInv

\* Routing adds an entry or dies.
LEMMA RouteKeepsWalks ==
    ASSUME IInv, WInv, Ready, made < MaxHooks, NEW a \in Sites, NEW h, NEW far,
           NEW to, NEW pc \in {"origin", "commit"},
           \/ pc = "commit" /\ to = Closure(made + 1)
           \/ pc = "origin" /\ \E f \in Replacements : to = Call(a, f) /\ ~InUse(a, f),
           Route(a, to, h, far, pc)
    PROVE  WInv'
<1>1. PICK tramp \in GenerateTrampolineBuffer(a, to, far) :
        AddHookEntry(a, to, h, tramp, pc) \/ RoutingDies(a, tramp)
    BY DEF Route
<1>2. CASE AddHookEntry(a, to, h, tramp, pc)
    BY <1>2, AddKeepsWalks
<1>3. CASE RoutingDies(a, tramp)
    BY <1>3, QuietKeepsWalks DEF RoutingDies
<1> QED BY <1>1, <1>2, <1>3

\* Every operation of Dobby keeps what the copies lead to.
LEMMA NextWInv ==
    ASSUME ~Reuse, IInv, WInv, [Next]_vars
    PROVE  WInv'
<1>1. ASSUME NEW a \in Sites, NEW f \in Replacements, DobbyHook(a, f) PROVE WInv'
    <2>1. PICK to : to = Call(a, f)
        OBVIOUS
    <2>2. Ready /\ made < MaxHooks /\ ~InUse(a, f) /\ Route(a, to, to, f \in Far, "origin")
        BY <1>1, <2>1 DEF DobbyHook
    <2> QED BY <2>1, <2>2, RouteKeepsWalks
<1>2. ASSUME NEW a \in Sites, NEW h \in Handlers, DobbyInstrument(a, h) PROVE WInv'
    <2>1. PICK to : to = Closure(made + 1)
        OBVIOUS
    <2>2. Ready /\ made < MaxHooks /\ Route(a, to, <<"handler", h>>, "closure" \in Far, "commit")
        BY <1>2, <2>1 DEF DobbyInstrument
    <2> QED BY <2>1, <2>2, RouteKeepsWalks
<1>3. ASSUME NEW a \in Sites, DobbyDestroy(a) PROVE WInv'
    <2>1. op = Idle /\ op'.pc = "restore"
        BY <1>3 DEF DobbyDestroy, Ready
    <2> QED BY <1>3, <2>1, QuietKeepsWalks DEF DobbyDestroy, Idle
<1>4. CASE PatchWord
    <2>1. op.pc # "origin" /\ op'.pc = op.pc
        BY <1>4 DEF PatchWord, IInv, TypeOK
    <2> QED BY <1>4, <2>1, QuietKeepsWalks DEF PatchWord
<1>5. CASE CommitReturns
    BY <1>5, QuietKeepsWalks DEF CommitReturns, Idle
<1>6. CASE \/ dobby_enable_near_branch_trampoline \/ dobby_disable_near_branch_trampoline
           \/ UNCHANGED vars
    BY <1>6, QuietKeepsWalks DEF dobby_enable_near_branch_trampoline, dobby_disable_near_branch_trampoline, vars
<1> QED BY <1>1, <1>2, <1>3, <1>4, <1>5, <1>6, OriginKeepsWalks, RemoveKeepsWalks DEF Next

---------------------------------------------------------------------------
(* Hooks stacked on a word                                                 *)

\* The hooks stacked on a word are defined by the list.
LEMMA StacksUnique ==
    ASSUME NEW w, NEW m \in Nat, NEW n \in Nat, m <= n, NEW f, NEW g, Stacks(f, w, m), Stacks(g, w, n)
    PROVE  \A i \in 0 .. m : f[i] = g[i]
<1>1. Recurs("stack", f, w, m) /\ Recurs("stack", g, w, n) /\ "stack" \in Kinds
    BY RecursIs DEF Kinds
<1> QED BY <1>1, RecursUnique

\* HooksBelow is a value of the function that stacks them.
LEMMA HooksBelowIs ==
    ASSUME NEW w, NEW n \in Nat, NEW f, Stacks(f, w, n)
    PROVE  \A k \in 0 .. n : HooksBelow(w, k) = f[k]
<1> SUFFICES ASSUME NEW k \in 0 .. n PROVE HooksBelow(w, k) = f[k]
    OBVIOUS
<1> DEFINE g == CHOOSE g : Stacks(g, w, k)
<1>1. Stacks(g, w, k)
    BY RecursExists, RecursIs DEF Kinds
<1>2. HooksBelow(w, k) = g[k]
    BY DEF HooksBelow, Stacks, Stack
<1> HIDE DEF g
<1> QED BY <1>1, <1>2, StacksUnique

\* HooksBelow, entry by entry.
LEMMA HooksBelowRule ==
    ASSUME NEW w
    PROVE  /\ HooksBelow(w, 0) = <<>>
           /\ \A n \in Nat \ {0} : HooksBelow(w, n) =
                IF n \in Installed /\ entry[n].addr = w THEN <<entry[n].target>> \o HooksBelow(w, n - 1)
                ELSE HooksBelow(w, n - 1)
<1>1. ASSUME NEW n \in Nat PROVE HooksBelow(w, n) = Stack(w, n, HooksBelow(w, n - 1))
    <2>1. PICK f : Stacks(f, w, n)
        BY RecursExists, RecursIs DEF Kinds
    <2>2. f[n] = Stack(w, n, f[n - 1])
        BY <2>1 DEF Stacks
    <2>3. HooksBelow(w, n) = f[n]
        BY <2>1, HooksBelowIs
    <2>4. CASE n = 0
        BY <2>2, <2>3, <2>4 DEF Stack
    <2>5. CASE n # 0
        <3>1. n - 1 \in 0 .. n
            BY <2>5
        <3>2. HooksBelow(w, n - 1) = f[n - 1]
            BY <2>1, <3>1, HooksBelowIs
        <3> QED BY <2>2, <2>3, <3>2
    <2> QED BY <2>4, <2>5
<1> QED BY <1>1 DEF Stack

\* Entries that are not hooks of the word add nothing.
LEMMA HooksSkip ==
    ASSUME NEW w, NEW m \in Nat, NEW n \in Nat, m <= n,
           ~\E k \in m + 1 .. n : k \in Installed /\ entry[k].addr = w
    PROVE  HooksBelow(w, n) = HooksBelow(w, m)
<1> DEFINE T == {k \in m .. n : HooksBelow(w, k) # HooksBelow(w, m)}
<1>1. SUFFICES ASSUME T # {} PROVE FALSE
    OBVIOUS
<1>2. T \in SUBSET Nat
    OBVIOUS
<1>3. PICK k \in T : \A j \in T : k <= j
    BY <1>1, <1>2, LeastNat
<1>4. k \in m .. n /\ HooksBelow(w, k) # HooksBelow(w, m) /\ k # m
    OBVIOUS
<1>5. k \in Nat \ {0} /\ k \in m + 1 .. n /\ k - 1 \in m .. n /\ ~(k <= k - 1)
    BY <1>4
<1>6. HooksBelow(w, k - 1) = HooksBelow(w, m)
    BY <1>3, <1>5
<1> QED BY <1>4, <1>5, <1>6, HooksBelowRule

\* The newest hook below an entry comes first.
LEMMA HooksTop ==
    ASSUME NEW w, NEW n \in Nat \ {0}, NEW top \in Nat, n <= top, n \in Installed, entry[n].addr = w,
           \A k \in Installed : k <= top /\ entry[k].addr = w => k <= n
    PROVE  HooksBelow(w, top) = <<entry[n].target>> \o HooksBelow(w, n - 1)
<1>1. HooksBelow(w, top) = HooksBelow(w, n)
    <2>1. ~\E k \in n + 1 .. top : k \in Installed /\ entry[k].addr = w
        OBVIOUS
    <2> QED BY <2>1, HooksSkip
<1> QED BY <1>1, HooksBelowRule

\* The targets of entries are not instructions of the image.
LEMMA TargetSeen ==
    ASSUME IInv, WInv, NEW n \in 1 .. made
    PROVE  entry[n].target \in Seen /\ entry[n].target[1] \notin {"code", "lost"}
<1>1. n \in Entries /\ entry[n].addr \in Sites
    BY SizesAssumption DEF IInv, TypeOK, Entries
<1>2. CASE entry[n].target = Closure(n)
    BY <1>1, <1>2 DEF Seen, Closure
<1>3. ASSUME NEW f \in Replacements, entry[n].target = Call(entry[n].addr, f)
      PROVE  entry[n].target \in Seen /\ entry[n].target[1] \notin {"code", "lost"}
    BY <1>1, <1>3 DEF Seen, Call
<1> QED BY <1>2, <1>3 DEF WInv, FormOK

\* Installed entries are on the list.
LEMMA InstalledMade == ASSUME IInv PROVE Installed \subseteq 1 .. made /\ Installed \subseteq live /\ made \in Nat
<1>1. Installed \subseteq live
    BY DEF Installed
<1>2. live \subseteq 1 .. made /\ made \in Nat
    BY DEF IInv, TypeOK
<1> QED BY <1>1, <1>2

\* The hooks below an entry are a sequence of targets.
LEMMA HooksSeq ==
    ASSUME IInv, WInv, NEW w
    PROVE  \A n \in Nat : HooksBelow(w, n) \in Seq(Seen)
<1> DEFINE T == {n \in Nat : HooksBelow(w, n) \notin Seq(Seen)}
<1>1. SUFFICES ASSUME T # {} PROVE FALSE
    OBVIOUS
<1>2. PICK n \in T : \A j \in T : n <= j
    BY <1>1, LeastNat
<1>3. n \in Nat /\ HooksBelow(w, n) \notin Seq(Seen)
    OBVIOUS
<1>4. n # 0
    <2>1. <<>> \in Seq(Seen)
        OBVIOUS
    <2> QED BY <1>3, <2>1, HooksBelowRule
<1>5. n - 1 \in Nat /\ ~(n <= n - 1)
    BY <1>3, <1>4
<1>6. HooksBelow(w, n - 1) \in Seq(Seen)
    BY <1>2, <1>5
<1>7. n \in Installed => <<entry[n].target>> \in Seq(Seen)
    BY TargetSeen, InstalledMade
<1>8. CASE n \in Installed /\ entry[n].addr = w
    <2>1. HooksBelow(w, n) = <<entry[n].target>> \o HooksBelow(w, n - 1)
        BY <1>3, <1>4, <1>8, HooksBelowRule
    <2> QED BY <1>3, <1>6, <1>7, <1>8, <2>1, ConcatProperties
<1>9. CASE ~(n \in Installed /\ entry[n].addr = w)
    <2>1. HooksBelow(w, n) = HooksBelow(w, n - 1)
        BY <1>3, <1>4, <1>9, HooksBelowRule
    <2> QED BY <1>3, <1>6, <2>1
<1> QED BY <1>8, <1>9

\* So are those of a word.
LEMMA HooksAtSeq ==
    ASSUME IInv, WInv
    PROVE  \A w : HooksAt(w) \in Seq(Seen)
BY HooksSeq, InstalledMade DEF HooksAt

---------------------------------------------------------------------------
(* What is expected                                                        *)

\* What is expected from word w on, after its hooks.
Onward(w) == IF Image[w].op = "b" THEN Expected(Image[w].to[2]) ELSE <<Image[w].to>> \o Expected(w + 1)

\* Expected, word by word.
LEMMA ExpectedRule ==
    ASSUME Forward
    PROVE  /\ Expected(CodeWords) = <<>>
           /\ \A w \in Words : Expected(w) = HooksAt(w) \o Onward(w)
<1> DEFINE g == CHOOSE g : Rests(TRUE, g, 0)
<1>1. Rests(TRUE, g, 0)
    BY RestsExists
<1>2. \A u : Expected(u) = g[u]
    BY DEF Expected, Rests, RestOf, Go
<1> HIDE DEF g
<1>3. CodeWords \in Nat /\ CodeWords \in 0 .. CodeWords /\ \A w \in Words : w \in 0 .. CodeWords /\ w # CodeWords
    BY SizesAssumption DEF Words
<1>4. \A w \in 0 .. CodeWords : g[w] = RestOf(TRUE, w, g)
    BY <1>1 DEF Rests
<1> QED BY <1>2, <1>3, <1>4 DEF RestOf, Go, Onward

\* What is expected is a sequence.
LEMMA ExpectedSeq ==
    ASSUME Forward, IInv, WInv
    PROVE  \A w \in 0 .. CodeWords : Expected(w) \in Seq(Seen)
<1> DEFINE g == CHOOSE g : Rests(TRUE, g, 0)
<1>1. Rests(TRUE, g, 0)
    BY RestsExists
<1>2. \A u : Expected(u) = g[u]
    BY DEF Expected, Rests, RestOf, Go
<1> HIDE DEF g
<1> QED BY <1>1, <1>2, HooksAtSeq, RestsSeq

\* The kinds of words of the image and what follows them.
LEMMA ImageWord ==
    ASSUME Forward, IInv, WInv, NEW w \in Words
    PROVE  /\ Onward(w) \in Seq(Seen)
           /\ \/ /\ Image[w].op \in {"other"} \cup Unimplemented
                 /\ Image[w].to \in Seen /\ Image[w].to[1] = "code" /\ w + 1 \in 0 .. CodeWords
                 /\ Originals(w) = <<Image[w].to>> \o Originals(w + 1)
                 /\ Onward(w) = <<Image[w].to>> \o Expected(w + 1)
              \/ /\ Image[w].op = "b"
                 /\ \E u \in w + 1 .. CodeWords :
                        /\ Image[w].to = At(u) /\ Image[w].to[2] = u
                        /\ Originals(w) = Originals(u) /\ Onward(w) = Expected(u)
<1>1. w \in 0 .. CodeWords /\ w + 1 \in 0 .. CodeWords
    BY SizesAssumption DEF Words
<1>2. CASE Image[w].op = "b"
    <2>1. PICK u \in w + 1 .. CodeWords : Image[w].to = At(u)
        BY <1>2 DEF Forward, Unimplemented
    <2>2. u \in 0 .. CodeWords /\ Image[w].to[2] = u
        BY <1>1, <2>1, SizesAssumption DEF At
    <2>3. Onward(w) = Expected(u) /\ Expected(u) \in Seq(Seen)
        BY <1>2, <2>2, ExpectedSeq DEF Onward
    <2> QED BY <1>1, <1>2, <2>1, <2>2, <2>3, OriginalsRule
<1>3. CASE Image[w].op # "b"
    <2>1. Image[w].op \in {"other"} \cup Unimplemented /\ Image[w].to[1] = "code"
        BY <1>3 DEF Forward
    <2>2. Image[w].to \in Seen /\ <<Image[w].to>> \in Seq(Seen)
        BY DEF Seen
    <2>3. Onward(w) = <<Image[w].to>> \o Expected(w + 1) /\ Expected(w + 1) \in Seq(Seen)
        BY <1>1, <1>3, ExpectedSeq DEF Onward
    <2>4. Onward(w) \in Seq(Seen)
        BY <2>2, <2>3, ConcatProperties
    <2> QED BY <1>1, <1>3, <2>1, <2>2, <2>3, <2>4, OriginalsRule
<1> QED BY <1>2, <1>3

---------------------------------------------------------------------------
(* The code between two patches                                            *)

\* The states the two properties are about.
Settled == Spaced /\ Forward /\ NoBranchInside /\ IInv /\ WInv /\ Whole /\ Even

\* Word w is not behind the first word of a trampoline.
Open(w) == \A n \in Installed : w \notin entry[n].addr + 1 .. entry[n].addr + Size(n) - 1

\* A trampoline lies in the image.
LEMMA EntryFacts ==
    ASSUME Settled, NEW n \in 1 .. made
    PROVE  /\ entry[n].addr \in Sites /\ entry[n].addr \in Words
           /\ Size(n) \in 1 .. MaxTrampoline
           /\ entry[n].addr + Size(n) \in 0 .. CodeWords
           /\ \A k \in 1 .. Size(n) : entry[n].addr + k - 1 \in Words
<1>1. entry[n].addr \in Sites /\ Size(n) \in 1 .. MaxTrampoline
    BY DEF Settled, IInv, TypeOK
<1>2. PICK a \in Sites : a = entry[n].addr
    BY <1>1
<1>3. a \in 0 .. CodeWords - MaxTrampoline /\ CodeWords \in Nat
    BY <1>2, SitesAssumption, SizesAssumption
<1> QED BY <1>1, <1>2, <1>3 DEF Words, MaxTrampoline

\* Between two patches a trampoline is there with all its words, or not.
LEMMA WholeHolds ==
    ASSUME Settled, NEW a, NEW k \in 1 .. MaxTrampoline, NEW n \in live
    PROVE  Holds(a, k, n) <=> n \in Installed /\ entry[n].addr = a /\ k <= Size(n)
<1>1. Size(n) \in 1 .. MaxTrampoline /\ n \in 1 .. made
    BY DEF Settled, IInv, TypeOK
<1>2. /\ op.pc = "idle" => op.n = 0
      /\ op.i \in Int /\ op.pc \in {"idle", "origin", "commit", "restore"}
      /\ op.pc \in {"idle", "origin"} \/ op.i = 0 \/ op.i = Size(op.n)
    BY DEF Settled, IInv, OpInv, TypeOK, Whole, Idle
<1>3. CASE op.n # n
    BY <1>1, <1>3 DEF Holds, Written, Installed
<1>4. CASE op.n = n
    BY <1>1, <1>2, <1>4 DEF Holds, Written, Installed, MaxTrampoline
<1> QED BY <1>3, <1>4

\* The newest hook of a word has all of its trampoline there.
LEMMA TopWords ==
    ASSUME Settled, NEW n \in Installed, \A m \in Installed : entry[m].addr = entry[n].addr => m <= n
    PROVE  \A k \in 1 .. Size(n) : code[entry[n].addr + k - 1] = entry[n].tramp[k]
<1> SUFFICES ASSUME NEW k \in 1 .. Size(n) PROVE code[entry[n].addr + k - 1] = entry[n].tramp[k]
    OBVIOUS
<1>1. n \in live /\ n \in 1 .. made /\ k \in 1 .. MaxTrampoline /\ entry[n].addr \in Sites
    BY InstalledMade, EntryFacts DEF Settled, MaxTrampoline
<1>2. PICK a \in Sites : a = entry[n].addr
    BY <1>1
<1>3. SiteWord(a, k)
    BY <1>1 DEF Settled, IInv, SiteInv
<1>4. Holds(a, k, n)
    BY <1>1, <1>2, WholeHolds
<1>5. \A m \in live : Holds(a, k, m) => m <= n
    BY <1>1, <1>2, WholeHolds
<1> QED BY <1>1, <1>2, <1>3, <1>4, <1>5 DEF SiteWord

\* An open word without a hook is original, and the next word is open.
LEMMA PlainWord ==
    ASSUME Settled, NEW w \in Words, Open(w), ~\E n \in Installed : entry[n].addr = w
    PROVE  code[w] = Image[w] /\ Open(w + 1)
<1>1. w \in Int
    BY DEF Words
<1>2. \A n \in Installed : n \in live /\ entry[n].addr \in Int /\ Size(n) \in Int
    <2> SUFFICES ASSUME NEW n \in Installed PROVE n \in live /\ entry[n].addr \in Int /\ Size(n) \in Int
        OBVIOUS
    <2>1. n \in 1 .. made /\ n \in live
        BY InstalledMade DEF Settled
    <2> QED BY <2>1, EntryFacts DEF Words, MaxTrampoline
<1>3. Open(w + 1)
    BY <1>1, <1>2 DEF Open
<1>4. ASSUME NEW a \in Sites, w \in a .. a + MaxTrampoline - 1 PROVE code[w] = Image[w]
    <2>1. PICK k \in 1 .. MaxTrampoline : k = w - a + 1 /\ a + k - 1 = w
        <3>1. a \in Int
            BY SitesAssumption
        <3> QED BY <1>1, <1>4, <3>1 DEF MaxTrampoline
    <2>2. a \in Int /\ SiteWord(a, k)
        BY SitesAssumption DEF Settled, IInv, SiteInv
    <2>3. ASSUME NEW n \in live, Holds(a, k, n) PROVE FALSE
        <3>1. n \in Installed /\ entry[n].addr = a /\ k <= Size(n)
            BY <2>3, WholeHolds
        <3>2. a # w
            BY <3>1
        <3>3. w \in a + 1 .. a + Size(n) - 1
            BY <1>1, <1>2, <2>1, <2>2, <3>1, <3>2
        <3> QED BY <3>1, <3>3 DEF Open
    <2> QED BY <2>1, <2>2, <2>3 DEF SiteWord
<1>5. CASE \A a \in Sites : w \notin a .. a + MaxTrampoline - 1
    BY <1>3, <1>5 DEF Settled, IInv, ElsewhereInv
<1> QED BY <1>3, <1>4, <1>5

\* A branch of the image leads to an open word.
LEMMA BranchOpen ==
    ASSUME Settled, NEW w \in Words, Image[w].op = "b"
    PROVE  Open(Image[w].to[2])
<1> SUFFICES ASSUME NEW n \in Installed PROVE Image[w].to[2] \notin entry[n].addr + 1 .. entry[n].addr + Size(n) - 1
    BY DEF Open
<1>1. n \in 1 .. made
    BY InstalledMade DEF Settled
<1>2. PICK a \in Sites : a = entry[n].addr
    BY <1>1, EntryFacts
<1>3. a \in Int
    BY SitesAssumption
<1>4. PICK s \in 1 .. MaxTrampoline : s = Size(n)
    BY <1>1, EntryFacts
<1>5. Image[w].to[2] \notin a + 1 .. a + MaxTrampoline - 1
    BY DEF Settled, NoBranchInside
<1>6. a + 1 .. a + s - 1 \subseteq a + 1 .. a + MaxTrampoline - 1
    BY <1>4, <1>3 DEF MaxTrampoline
<1> QED BY <1>2, <1>4, <1>5, <1>6

\* A site is open, and so is the word behind the trampoline of an entry.
LEMMA SiteOpen ==
    ASSUME Settled, NEW a \in Sites, NEW s \in 0 .. MaxTrampoline,
           s # 0 => \E e \in 1 .. made : entry[e].addr = a /\ Size(e) = s
    PROVE  Open(a + s)
<1> SUFFICES ASSUME NEW n \in Installed PROVE a + s \notin entry[n].addr + 1 .. entry[n].addr + Size(n) - 1
    BY DEF Open
<1>1. n \in 1 .. made
    BY InstalledMade DEF Settled
<1>2. PICK b \in Sites : b = entry[n].addr
    BY <1>1, EntryFacts
<1>3. PICK z \in 1 .. MaxTrampoline : z = Size(n)
    BY <1>1, EntryFacts
<1>4. a \in Int /\ b \in Int
    BY SitesAssumption
<1>5. CASE b = a
    <2>1. s # 0 => s = z
        <3>1. SUFFICES ASSUME s # 0 PROVE s = z
            OBVIOUS
        <3>2. PICK e \in 1 .. made : entry[e].addr = a /\ Size(e) = s
            BY <3>1
        <3>3. e < n \/ e = n \/ n < e
            BY <1>1, <3>2
        <3> QED BY <1>1, <1>2, <1>3, <1>5, <3>2, <3>3 DEF Settled, Even
    <2> QED BY <1>2, <1>3, <1>4, <1>5, <2>1 DEF MaxTrampoline
<1>6. CASE b # a
    <2>1. a + MaxTrampoline <= b \/ b + MaxTrampoline <= a
        BY <1>2, <1>4, <1>6 DEF Settled, Spaced
    <2> QED BY <1>2, <1>3, <1>4, <2>1 DEF MaxTrampoline
<1> QED BY <1>2, <1>3, <1>5, <1>6

---------------------------------------------------------------------------
(* Where the copy of an entry leads                                        *)

\* The order d of the destroyed entries.
Ordered(d) == \A e \in 1 .. made : LinkOK(d, e)

\* What remains to be run of the hooks below an entry.
LEMMA Continues ==
    ASSUME Settled, NEW d, Ordered(d), NEW e \in 1 .. made
    PROVE  \/ OverImage(e) /\ (e \in Installed => HooksBelow(entry[e].addr, e - 1) = <<>>)
           \/ \E p, q \in 1 .. made :
                /\ Over(e, p) /\ Leads(p, q) /\ Outlives(d, q, e)
                /\ e \in Installed =>
                    /\ q \in Installed
                    /\ HooksBelow(entry[e].addr, e - 1) = <<entry[p].target>> \o HooksBelow(entry[e].addr, q - 1)
<1>1. /\ Installed \subseteq live /\ live \subseteq 1 .. made /\ made \in Nat
    BY InstalledMade DEF Settled, IInv, TypeOK
<1>2. CASE e \notin live
    BY <1>1, <1>2 DEF Ordered, LinkOK
<1>3. CASE e \in live /\ OverImage(e) /\ ~\E m \in live : m < e /\ entry[m].addr = entry[e].addr
    <2>1. PICK a : a = entry[e].addr
        OBVIOUS
    <2>2. e - 1 \in Nat /\ ~\E k \in 0 + 1 .. e - 1 : k \in Installed /\ entry[k].addr = a
        BY <1>1, <1>3, <2>1
    <2>3. HooksBelow(a, e - 1) = HooksBelow(a, 0)
        BY <2>2, HooksSkip
    <2> QED BY <1>3, <2>1, <2>3, HooksBelowRule
<1>4. ASSUME NEW m \in live, e \in live, m < e, Over(e, m),
             \A j \in live : j < e /\ entry[j].addr = entry[e].addr => j <= m
      PROVE  \E p, q \in 1 .. made :
                /\ Over(e, p) /\ Leads(p, q) /\ Outlives(d, q, e)
                /\ e \in Installed =>
                    /\ q \in Installed
                    /\ HooksBelow(entry[e].addr, e - 1) = <<entry[p].target>> \o HooksBelow(entry[e].addr, q - 1)
    <2>1. m \in 1 .. made /\ entry[m].addr = entry[e].addr /\ Outlives(d, m, e)
        BY <1>1, <1>4 DEF Over, Outlives
    <2>2. op.pc = "idle" \/ op.n # m
        BY <1>1, <1>4, <2>1 DEF Settled, IInv, OpInv
    <2>3. Leads(m, m) /\ m \in Installed
        BY <1>4, <2>2 DEF Settled, WInv, OriginsOK, Installed
    <2>4. HooksBelow(entry[e].addr, e - 1) = <<entry[m].target>> \o HooksBelow(entry[e].addr, m - 1)
        <3>1. PICK a : a = entry[e].addr
            OBVIOUS
        <3>2. m \in Nat \ {0} /\ e - 1 \in Nat /\ m <= e - 1 /\ entry[m].addr = a
            BY <1>1, <1>4, <2>1, <3>1
        <3>3. \A k \in Installed : k <= e - 1 /\ entry[k].addr = a => k <= m
            BY <1>1, <1>4, <3>1
        <3> QED BY <2>3, <3>1, <3>2, <3>3, HooksTop
    <2> QED BY <1>4, <2>1, <2>3, <2>4
<1>5. CASE e \in live
    BY <1>3, <1>4, <1>5, HookBelow DEF Settled
<1> QED BY <1>2, <1>5

---------------------------------------------------------------------------
(* Pieces of a walk                                                        *)

\* The machine j instructions later.
Twice(m) == Step(Step(m))
Steps(m, j) ==
    CASE j = 1 -> Step(m)
      [] j = 2 -> Twice(m)
      [] j = 3 -> Step(Twice(m))
      [] j = 4 -> Twice(Twice(m))

\* The machine goes on one instruction at a time.
LEMMA StepsRule ==
    ASSUME NEW m
    PROVE  Steps(m, 1) = Step(m) /\ \A j \in 1 .. 3 : Steps(m, j + 1) = Step(Steps(m, j))
<1>1. ASSUME NEW j \in 1 .. 3 PROVE Steps(m, j + 1) = Step(Steps(m, j))
    <2>1. j = 1 \/ j = 2 \/ j = 3
        OBVIOUS
    <2> QED BY <2>1 DEF Steps, Twice
<1> QED BY <1>1 DEF Steps, Twice

\* The two instructions of a trampoline that form an address in x17.
LEMMA ExecuteX17 ==
    ASSUME NEW at, NEW x17, NEW s, NEW m, m = Machine(at, x17, s), NEW i, NEW next
    PROVE  /\ i.op = "adrp17" => Execute(m, i, next) = Machine(next, <<"page", i.to>>, s)
           /\ i.op = "add17" /\ x17 = <<"page", i.to>> => Execute(m, i, next) = Machine(next, i.to, s)
<1>1. ASSUME NEW v PROVE [m EXCEPT !.x17 = v, !.at = next] = Machine(next, v, s)
    <2>1. [m EXCEPT !.x17 = v] = Machine(at, v, s)
        BY DEF Machine
    <2>2. [Machine(at, v, s) EXCEPT !.at = next] = Machine(next, v, s)
        BY DEF Machine
    <2> QED BY <2>1, <2>2
<1>2. i.op = "adrp17" => Execute(m, i, next) = [m EXCEPT !.x17 = <<"page", i.to>>, !.at = next]
    BY DEF Execute, Unimplemented
<1>3. i.op = "add17" /\ x17 = <<"page", i.to>> => Execute(m, i, next) = Machine(next, i.to, s)
    <2> SUFFICES ASSUME i.op = "add17", x17 = <<"page", i.to>>
                 PROVE  Execute(m, i, next) = Machine(next, i.to, s)
        OBVIOUS
    <2>1. PICK p, v : p = <<"page", i.to>> /\ v = i.to
        OBVIOUS
    <2>2. m.x17 = p
        BY <2>1 DEF Machine
    <2>3. PICK r : r = Execute(m, i, next)
        OBVIOUS
    <2>4. r = [m EXCEPT !.at = next, !.x17 = IF @ = p THEN v ELSE NoAddr]
        BY <2>1, <2>3 DEF Execute, Unimplemented
    <2>5. r = [m EXCEPT !.at = next, !.x17 = v]
        BY <2>2, <2>4
    <2>6. r = Machine(next, v, s)
        BY <2>5 DEF Machine
    <2> QED BY <2>1, <2>3, <2>6
<1> QED BY <1>1, <1>2, <1>3

\* The one that loads it from the trampoline itself.
LEMMA ExecuteLdr17 ==
    ASSUME NEW at, NEW x17, NEW s, NEW m, m = Machine(at, x17, s), NEW next,
           NEW i, i.op = "ldr17", NEW v, v = Literal(i.to)
    PROVE  Execute(m, i, next) = Machine(next, v, s)
<1>1. Execute(m, i, next) = [m EXCEPT !.x17 = v, !.at = next]
    BY DEF Execute, Unimplemented
<1>2. [m EXCEPT !.x17 = v] = Machine(at, v, s)
    BY DEF Machine
<1>3. [Machine(at, v, s) EXCEPT !.at = next] = Machine(next, v, s)
    BY DEF Machine
<1> QED BY <1>1, <1>2, <1>3

\* One step, by where the machine is.
LEMMA StepInCode ==
    ASSUME NEW m, m.at[1] = "code", m.at[2] \in Words
    PROVE  Step(m) = Execute(m, code[m.at[2]], At(m.at[2] + 1))
BY DEF Step, Stopped

\* At a closure trampoline.
LEMMA StepInClosure ==
    ASSUME NEW m, m.at[1] = "closure"
    PROVE  Step(m) = [m EXCEPT !.seen = Append(@, m.at), !.at = Relocated(m.at[2])]
BY DEF Step, Stopped

\* In a replacement, which calls its origin_call.
LEMMA StepInCall ==
    ASSUME NEW m, m.at[1] = "call", origin[m.at[2]][m.at[3]] # 0
    PROVE  Step(m) = [m EXCEPT !.seen = Append(@, m.at), !.at = Relocated(origin[m.at[2]][m.at[3]])]
BY DEF Step, Stopped

\* The copies of the instructions of a trampoline.
LEMMA RelocateRule ==
    ASSUME NEW to
    PROVE  /\ Relocate(Insn("b", to)) = Jump(to)
           /\ Relocate(Insn("adrp17", to)) = <<Insn("set17", <<"page", to>>)>>
           /\ Relocate(Insn("add17", to)) = <<Insn("add17", to)>>
           /\ Relocate(Insn("br17", to)) = <<Insn("br17", to)>>
<1>1. \A o : Insn(o, to).op = o /\ Insn(o, to).to = to
    BY DEF Insn
<1>2. ASSUME NEW i
      PROVE  /\ i.op = "b" => Relocate(i) = Jump(i.to)
             /\ i.op = "adrp17" => Relocate(i) = <<Insn("set17", <<"page", i.to>>)>>
             /\ i.op = "add17" \/ i.op = "br17" => Relocate(i) = <<i>>
    BY DEF Relocate
<1> QED BY <1>1, <1>2

\* At a word of the image.
LEMMA CodeStep ==
    ASSUME NEW w \in Words, NEW x17, NEW s, NEW m, m = Machine(At(w), x17, s)
    PROVE  Step(m) = Execute(m, code[w], At(w + 1))
<1>1. m.at = At(w)
    BY DEF Machine
<1>2. m.at[1] = "code" /\ m.at[2] = w
    BY <1>1 DEF At
<1> QED BY <1>2, StepInCode

\* Word j of element k of a copy.
LEMMA CopyWord ==
    ASSUME NEW n, NEW k, NEW j, NEW x17, NEW s, NEW i, entry[n].relocated[k][j] = i,
           NEW m, m = Machine(<<"relocated", n, k, j>>, x17, s)
    PROVE  Step(m) = Execute(m, i, Following(n, k, j))
BY CopyStep

\* A jump in a copy.
LEMMA JumpRuns ==
    ASSUME NEW n, NEW k, NEW x17, NEW s, NEW to, entry[n].relocated[k] = Jump(to)
    PROVE  Steps(Machine(<<"relocated", n, k, 1>>, x17, s), 2) = Machine(to, to, s)
<1> DEFINE m == Machine(<<"relocated", n, k, 1>>, x17, s)
           m2 == Machine(<<"relocated", n, k, 2>>, to, s)
<1>1. /\ Len(Jump(to)) = 2
      /\ Jump(to)[1] = Insn("set17", to) /\ Jump(to)[2] = Insn("br17", NoAddr)
    BY DEF Jump
<1>2. /\ Insn("set17", to).op = "set17" /\ Insn("set17", to).to = to
      /\ Insn("br17", NoAddr).op = "br17"
    BY DEF Insn
<1>3. Following(n, k, 1) = <<"relocated", n, k, 2>>
    BY <1>1 DEF Following
<1>4. Step(m) = Execute(m, Insn("set17", to), <<"relocated", n, k, 2>>)
    BY <1>1, <1>3, CopyStep
<1>5. Step(m2) = Execute(m2, Insn("br17", NoAddr), Following(n, k, 2))
    BY <1>1, CopyStep
<1>6. m = Machine(<<"relocated", n, k, 1>>, x17, s) /\ m2 = Machine(<<"relocated", n, k, 2>>, to, s)
    OBVIOUS
<1> HIDE DEF m, m2
<1>7. Step(m) = m2
    BY <1>2, <1>4, <1>6, ExecuteIs
<1>8. Step(m2) = Machine(to, to, s)
    BY <1>2, <1>5, <1>6, ExecuteIs
<1> QED BY <1>6, <1>7, <1>8 DEF Steps, Twice

\* The trampolines that Dobby generates.
LEMMA TrampolineForm ==
    ASSUME Settled, NEW n \in 1 .. made, NEW a, a = entry[n].addr, NEW to, to = entry[n].target,
           NEW t, t = entry[n].tramp
    PROVE  \/ Len(t) = 1 /\ t[1] = Insn("b", to)
           \/ Len(t) = 3 /\ t[1] = Insn("adrp17", to) /\ t[2] = Insn("add17", to) /\ t[3] = Insn("br17", NoAddr)
           \/ /\ Len(t) = 4 /\ t[1] = Insn("ldr17", At(a + 2)) /\ t[2] = Insn("br17", NoAddr)
              /\ t[3] = Insn("low", to) /\ t[4] = Insn("high", to)
<1>1. t \in {GenerateNearTrampolineBuffer(to), AdrpAddBr(to), LiteralLdrBranch(a, to)}
    BY DEF Settled, WInv, FormOK
<1> QED BY <1>1 DEF GenerateNearTrampolineBuffer, AdrpAddBr, LiteralLdrBranch

\* The trampoline of the newest hook of a word leads to its target.
LEMMA TrampolineRuns ==
    ASSUME Settled, NEW n \in Installed, \A m \in Installed : entry[m].addr = entry[n].addr => m <= n,
           NEW w, w = entry[n].addr, NEW to, to = entry[n].target, NEW x17, NEW s
    PROVE  \E x : \E j \in 1 .. 3 : Steps(Machine(At(w), x17, s), j) = Machine(to, x, s)
<1>1. /\ n \in 1 .. made /\ w \in Words /\ w \in Int
      /\ \A k \in 1 .. Size(n) : w + k - 1 \in Words /\ code[w + k - 1] = entry[n].tramp[k]
    BY InstalledMade, EntryFacts, TopWords DEF Settled, Words
<1> DEFINE m == Machine(At(w), x17, s)
<1>2. m = Machine(At(w), x17, s)
    OBVIOUS
<1> HIDE DEF m
<1>3. Step(m) = Execute(m, code[w], At(w + 1))
    BY <1>1, <1>2, CodeStep
<1>4. \A o, v : Insn(o, v).op = o /\ Insn(o, v).to = v
    BY DEF Insn
<1> DEFINE t == entry[n].tramp
<1>5. CASE Len(t) = 1 /\ t[1] = Insn("b", to)
    <2>1. code[w] = Insn("b", to)
        BY <1>1, <1>5 DEF Size
    <2>2. Step(m) = Machine(to, x17, s)
        BY <1>2, <1>3, <1>4, <2>1, ExecuteIs
    <2> QED BY <1>2, <2>2 DEF Steps, Twice
<1>6. CASE Len(t) = 3 /\ t[1] = Insn("adrp17", to) /\ t[2] = Insn("add17", to) /\ t[3] = Insn("br17", NoAddr)
    <2>1. /\ code[w] = Insn("adrp17", to) /\ code[w + 1] = Insn("add17", to) /\ code[w + 2] = Insn("br17", NoAddr)
          /\ w + 1 \in Words /\ w + 2 \in Words /\ (w + 1) + 1 = w + 2
        <3>1. /\ 1 \in 1 .. Size(n) /\ 2 \in 1 .. Size(n) /\ 3 \in 1 .. Size(n)
              /\ w + 1 - 1 = w /\ w + 2 - 1 = w + 1 /\ w + 3 - 1 = w + 2 /\ (w + 1) + 1 = w + 2
            BY <1>1, <1>6 DEF Size
        <3> QED BY <1>1, <1>6, <3>1
    <2>2. Step(m) = Machine(At(w + 1), <<"page", to>>, s)
        BY <1>2, <1>3, <1>4, <2>1, ExecuteX17
    <2>3. PICK m2 : m2 = Machine(At(w + 1), <<"page", to>>, s)
        OBVIOUS
    <2>4. Step(m2) = Execute(m2, Insn("add17", to), At(w + 2))
        BY <2>1, <2>3, CodeStep
    <2>5. Step(m2) = Machine(At(w + 2), to, s)
        BY <1>4, <2>3, <2>4, ExecuteX17
    <2>6. PICK m3 : m3 = Machine(At(w + 2), to, s)
        OBVIOUS
    <2>7. Step(m3) = Execute(m3, Insn("br17", NoAddr), At((w + 2) + 1))
        BY <2>1, <2>6, CodeStep
    <2>8. Step(m3) = Machine(to, to, s)
        BY <1>4, <2>6, <2>7, ExecuteIs
    <2>9. Steps(m, 3) = Machine(to, to, s)
        BY <2>2, <2>3, <2>5, <2>6, <2>8 DEF Steps, Twice
    <2> QED BY <1>2, <2>9
<1>7. CASE /\ Len(t) = 4 /\ t[1] = Insn("ldr17", At(w + 2)) /\ t[2] = Insn("br17", NoAddr)
           /\ t[3] = Insn("low", to) /\ t[4] = Insn("high", to)
    <2>1. /\ code[w] = Insn("ldr17", At(w + 2)) /\ code[w + 1] = Insn("br17", NoAddr)
          /\ code[w + 2] = Insn("low", to) /\ code[w + 3] = Insn("high", to)
          /\ w + 1 \in Words /\ w + 3 \in Words /\ (w + 2) + 1 = w + 3
        <3>1. /\ 1 \in 1 .. Size(n) /\ 2 \in 1 .. Size(n) /\ 3 \in 1 .. Size(n) /\ 4 \in 1 .. Size(n)
              /\ w + 1 - 1 = w /\ w + 2 - 1 = w + 1 /\ w + 3 - 1 = w + 2 /\ w + 4 - 1 = w + 3 /\ (w + 2) + 1 = w + 3
            BY <1>1, <1>7 DEF Size
        <3> QED BY <1>1, <1>7, <3>1
    <2>2. Literal(At(w + 2)) = to
        <3>1. At(w + 2)[1] = "code" /\ At(w + 2)[2] = w + 2
            BY DEF At
        <3> QED BY <1>4, <2>1, <3>1 DEF Literal
    <2>3. Step(m) = Machine(At(w + 1), to, s)
        <3>1. PICK b : b = At(w + 1)
            OBVIOUS
        <3>2. PICK l : l = At(w + 2)
            OBVIOUS
        <3>3. PICK i : i = Insn("ldr17", l)
            OBVIOUS
        <3>4. i.op = "ldr17" /\ i.to = l
            BY <1>4, <3>3
        <3>5. Step(m) = Execute(m, i, b)
            BY <1>3, <2>1, <3>1, <3>2, <3>3
        <3>6. PICK v : v = Literal(i.to)
            OBVIOUS
        <3>7. Execute(m, i, b) = Machine(b, v, s)
            BY <1>2, <3>4, <3>6, ExecuteLdr17
        <3> QED BY <2>2, <3>1, <3>2, <3>4, <3>5, <3>6, <3>7
    <2>4. PICK m2 : m2 = Machine(At(w + 1), to, s)
        OBVIOUS
    <2>5. Step(m2) = Execute(m2, Insn("br17", NoAddr), At((w + 1) + 1))
        BY <2>1, <2>4, CodeStep
    <2>6. Step(m2) = Machine(to, to, s)
        BY <1>4, <2>4, <2>5, ExecuteIs
    <2>7. Steps(m, 2) = Machine(to, to, s)
        BY <2>3, <2>4, <2>6 DEF Steps, Twice
    <2> QED BY <1>2, <2>7
<1> QED BY <1>1, <1>5, <1>6, <1>7, TrampolineForm

\* So does its relocated copy in the entry above it.
LEMMA CopiedTrampolineRuns ==
    ASSUME Settled, NEW e \in 1 .. made, NEW p \in 1 .. made, Over(e, p),
           NEW to, to = entry[p].target, NEW x17, NEW s
    PROVE  \E x : \E j \in 2 .. 3 : Steps(Machine(Relocated(e), x17, s), j) = Machine(to, x, s)
<1> DEFINE t == entry[p].tramp
           r == entry[e].relocated
<1>1. /\ Size(e) = Len(t) /\ Size(e) \in 1 .. MaxTrampoline
      /\ \A k \in 1 .. Len(t) : r[k] = Relocate(t[k])
    BY EntryFacts DEF Over, Size, Settled, WInv, FormOK
<1>2. Len(t) # 4
    <2>1. e < p \/ p < e
        BY DEF Over
    <2>2. Size(p) < MaxTrampoline
        BY <2>1 DEF Over, Settled, Even
    <2> QED BY <2>2 DEF Size, MaxTrampoline
<1>3. \A o, v : Insn(o, v).op = o /\ Insn(o, v).to = v
    BY DEF Insn
<1>4. CASE Len(t) = 1 /\ t[1] = Insn("b", to)
    <2>1. r[1] = Relocate(Insn("b", to))
        BY <1>1, <1>4
    <2>2. r[1] = Jump(to)
        BY <2>1, RelocateRule
    <2>3. Steps(Machine(<<"relocated", e, 1, 1>>, x17, s), 2) = Machine(to, to, s)
        BY <2>2, JumpRuns
    <2> QED BY <2>3 DEF Relocated
<1>5. CASE Len(t) = 3 /\ t[1] = Insn("adrp17", to) /\ t[2] = Insn("add17", to) /\ t[3] = Insn("br17", NoAddr)
    <2>1. /\ r[1] = Relocate(Insn("adrp17", to)) /\ r[2] = Relocate(Insn("add17", to))
          /\ r[3] = Relocate(Insn("br17", NoAddr))
        BY <1>1, <1>5
    <2>2. /\ r[1] = <<Insn("set17", <<"page", to>>)>> /\ r[2] = <<Insn("add17", to)>>
          /\ r[3] = <<Insn("br17", NoAddr)>>
        BY <2>1, RelocateRule
    <2>3. /\ Len(r[1]) = 1 /\ Len(r[2]) = 1 /\ r[1][1] = Insn("set17", <<"page", to>>)
          /\ r[2][1] = Insn("add17", to) /\ r[3][1] = Insn("br17", NoAddr)
        BY <2>2
    <2>4. Following(e, 1, 1) = <<"relocated", e, 2, 1>> /\ Following(e, 2, 1) = <<"relocated", e, 3, 1>>
        BY <2>3 DEF Following
    <2>5. PICK m, m2, m3 : /\ m = Machine(<<"relocated", e, 1, 1>>, x17, s)
                           /\ m2 = Machine(<<"relocated", e, 2, 1>>, <<"page", to>>, s)
                           /\ m3 = Machine(<<"relocated", e, 3, 1>>, to, s)
        OBVIOUS
    <2>6. Step(m) = Execute(m, Insn("set17", <<"page", to>>), <<"relocated", e, 2, 1>>)
        BY <2>3, <2>4, <2>5, CopyWord
    <2>7. Step(m) = m2
        BY <1>3, <2>5, <2>6, ExecuteIs
    <2>8. Step(m2) = Execute(m2, Insn("add17", to), <<"relocated", e, 3, 1>>)
        BY <2>3, <2>4, <2>5, CopyWord
    <2>9. Step(m2) = m3
        BY <1>3, <2>5, <2>8, ExecuteX17
    <2>10. Step(m3) = Execute(m3, Insn("br17", NoAddr), Following(e, 3, 1))
        BY <2>3, <2>5, CopyWord
    <2>11. Step(m3) = Machine(to, to, s)
        BY <1>3, <2>5, <2>10, ExecuteIs
    <2>12. Steps(m, 3) = Machine(to, to, s)
        BY <2>7, <2>9, <2>11 DEF Steps, Twice
    <2> QED BY <2>5, <2>12 DEF Relocated
<1> QED BY <1>2, <1>4, <1>5, TrampolineForm

\* A target runs, and goes on with the copy it leads to.
LEMMA TargetRuns ==
    ASSUME NEW p, NEW q, Leads(p, q), NEW x17, NEW s, NEW to, to = entry[p].target
    PROVE  Step(Machine(to, x17, s)) = Machine(Relocated(q), x17, Append(s, to))
<1> DEFINE m == Machine(to, x17, s)
<1>1. m.at = to /\ m.x17 = x17 /\ m.seen = s /\ m = Machine(to, x17, s)
    BY DEF Machine
<1> HIDE DEF m
<1>2. ASSUME NEW l PROVE [m EXCEPT !.seen = Append(@, m.at), !.at = l] = Machine(l, x17, Append(s, to))
    <2>1. PICK v : v = Append(s, to)
        OBVIOUS
    <2>2. [m EXCEPT !.seen = v] = Machine(to, x17, v)
        BY <1>1 DEF Machine
    <2>3. [Machine(to, x17, v) EXCEPT !.at = l] = Machine(l, x17, v)
        BY DEF Machine
    <2> QED BY <1>1, <2>1, <2>2, <2>3
<1>3. CASE to = Closure(p) /\ q = p
    <2>1. m.at[1] = "closure" /\ m.at[2] = p
        BY <1>1, <1>3 DEF Closure
    <2>2. Step(m) = [m EXCEPT !.seen = Append(@, m.at), !.at = Relocated(q)]
        BY <1>3, <2>1, StepInClosure
    <2> QED BY <1>1, <1>2, <2>2
<1>4. ASSUME NEW f \in Replacements, to = Call(entry[p].addr, f), origin[entry[p].addr][f] = q, q # 0
      PROVE  Step(m) = Machine(Relocated(q), x17, Append(s, to))
    <2>1. m.at[1] = "call" /\ m.at[2] = entry[p].addr /\ m.at[3] = f
        BY <1>1, <1>4 DEF Call
    <2>2. Step(m) = [m EXCEPT !.seen = Append(@, m.at), !.at = Relocated(q)]
        BY <1>4, <2>1, StepInCall
    <2> QED BY <1>2, <2>2
<1> QED BY <1>1, <1>3, <1>4 DEF Leads

\* Word k of a copy of the image.
LEMMA CopiedWordRuns ==
    ASSUME Settled, NEW e \in 1 .. made, OverImage(e), NEW k \in 1 .. Size(e),
           NEW w, w = entry[e].addr + k - 1, Image[w].op \in {"other"} \cup Unimplemented,
           NEW x17, NEW s, NEW m, m = Machine(<<"relocated", e, k, 1>>, x17, s)
    PROVE  Step(m) = Machine(<<"relocated", e, k + 1, 1>>, x17, Append(s, Image[w].to))
<1>1. entry[e].relocated[k] = Relocate(Image[w])
    BY DEF OverImage, Settled, WInv, FormOK
<1>2. PICK i : i = Image[w]
    OBVIOUS
<1>3. Relocate(i) = <<i>>
    BY <1>2 DEF Relocate, Unimplemented
<1>4. entry[e].relocated[k][1] = i /\ Len(entry[e].relocated[k]) = 1
    BY <1>1, <1>2, <1>3
<1>5. Following(e, k, 1) = <<"relocated", e, k + 1, 1>>
    BY <1>4 DEF Following
<1>6. Step(m) = Execute(m, i, <<"relocated", e, k + 1, 1>>)
    BY <1>4, <1>5, CopyWord
<1>7. Step(m) = Machine(<<"relocated", e, k + 1, 1>>, x17, Append(s, i.to))
    BY <1>2, <1>6, ExecuteIs
<1> QED BY <1>2, <1>7

\* Where it is a branch, the copy is a jump to the same word.
LEMMA CopiedBranchRuns ==
    ASSUME Settled, NEW e \in 1 .. made, OverImage(e), NEW k \in 1 .. Size(e),
           NEW w, w = entry[e].addr + k - 1, Image[w].op = "b",
           NEW x17, NEW s, NEW m, m = Machine(<<"relocated", e, k, 1>>, x17, s)
    PROVE  Steps(m, 2) = Machine(Image[w].to, Image[w].to, s)
<1>1. entry[e].relocated[k] = Relocate(Image[w])
    BY DEF OverImage, Settled, WInv, FormOK
<1>2. PICK i : i = Image[w]
    OBVIOUS
<1>3. Relocate(i) = Jump(i.to)
    BY <1>2 DEF Relocate
<1>4. Steps(m, 2) = Machine(i.to, i.to, s)
    BY <1>1, <1>2, <1>3, JumpRuns
<1> QED BY <1>2, <1>4

\* Behind the copies there is a jump behind the trampoline.
LEMMA CopyEndRuns ==
    ASSUME Settled, NEW e \in 1 .. made, NEW k, k = Size(e) + 1, NEW w, w = entry[e].addr + Size(e), NEW x17, NEW s
    PROVE  Steps(Machine(<<"relocated", e, k, 1>>, x17, s), 2) = Machine(At(w), At(w), s)
<1>1. entry[e].relocated[k] = Jump(At(w))
    BY DEF Settled, WInv, FormOK
<1> QED BY <1>1, JumpRuns

---------------------------------------------------------------------------
(* How far a walk has come                                                 *)

\* With s run since word a, orig and exp are still to come: the original
\* instructions, and, if ex, all that is expected.
History(ex, s, a, orig, exp) ==
    /\ s \in Seq(Seen)
    /\ OriginalsIn(s) \in Seq(Seen)
    /\ OriginalsIn(s) \o orig = Originals(a)
    /\ ex => s \o exp = Expected(a)

\* A hook that has run is no longer to come.
LEMMA HistoryOfHook ==
    ASSUME NEW ex, NEW s, NEW a, NEW orig, NEW e0, NEW e1, NEW t \in Seen, t[1] \notin {"code", "lost"},
           History(ex, s, a, orig, e0), ex => e1 \in Seq(Seen) /\ e0 = <<t>> \o e1
    PROVE  History(ex, Append(s, t), a, orig, e1)
<1>1. s \in Seq(Seen)
    BY DEF History
<1>2. Append(s, t) \in Seq(Seen) /\ OriginalsIn(Append(s, t)) = OriginalsIn(s)
    BY <1>1, OriginalsInAppend
<1>3. ASSUME ex PROVE Append(s, t) \o e1 = s \o e0
    <2>1. e1 \in Seq(Seen) /\ e0 = <<t>> \o e1
        BY <1>3
    <2>2. Append(s, t) \o e1 = s \o (<<t>> \o e1)
        BY <1>1, <2>1, OneMore
    <2>3. s \o e0 = s \o (<<t>> \o e1)
        BY <2>1, Zenon
    <2> QED BY <2>2, <2>3, Zenon
<1> QED BY <1>2, <1>3 DEF History

\* Nor is an instruction that has run.
LEMMA HistoryOfWord ==
    ASSUME NEW ex, NEW s, NEW a, NEW o0, NEW o1 \in Seq(Seen), NEW e0, NEW e1, NEW t \in Seen, t[1] = "code",
           History(ex, s, a, o0, e0), o0 = <<t>> \o o1, ex => e1 \in Seq(Seen) /\ e0 = <<t>> \o e1
    PROVE  History(ex, Append(s, t), a, o1, e1)
<1>1. s \in Seq(Seen) /\ OriginalsIn(s) \in Seq(Seen)
    BY DEF History
<1>2. Append(s, t) \in Seq(Seen) /\ OriginalsIn(Append(s, t)) = Append(OriginalsIn(s), t)
    BY <1>1, OriginalsInAppend
<1>3. ASSUME ex PROVE Append(s, t) \o e1 = s \o e0
    <2>1. e1 \in Seq(Seen) /\ e0 = <<t>> \o e1
        BY <1>3
    <2>2. Append(s, t) \o e1 = s \o (<<t>> \o e1)
        BY <1>1, <2>1, OneMore
    <2>3. s \o e0 = s \o (<<t>> \o e1)
        BY <2>1, Zenon
    <2> QED BY <2>2, <2>3, Zenon
<1>4. /\ Append(OriginalsIn(s), t) \in Seq(Seen)
      /\ Append(OriginalsIn(s), t) \o o1 = OriginalsIn(s) \o o0
    <2>1. PICK r \in Seq(Seen) : r = OriginalsIn(s)
        BY <1>1
    <2>2. Append(r, t) \in Seq(Seen)
        OBVIOUS
    <2>3. Append(r, t) \o o1 = r \o (<<t>> \o o1)
        BY OneMore
    <2> QED BY <2>1, <2>2, <2>3
<1> QED BY <1>2, <1>3, <1>4 DEF History

---------------------------------------------------------------------------
(* How many steps a walk may still take                                    *)

\* Subsets of entries are smaller.
LEMMA Fewer ==
    ASSUME NEW n \in Nat, NEW B \in SUBSET (1 .. n), NEW A \in SUBSET B
    PROVE  /\ Cardinality(A) \in Nat /\ Cardinality(B) \in Nat
           /\ Cardinality(A) <= Cardinality(B) /\ Cardinality(B) <= n
           /\ \A x \in B : x \notin A => Cardinality(A) <= Cardinality(B) - 1
           /\ \A x \in 1 .. n : x \notin B => Cardinality(B) <= n - 1
<1>1. IsFiniteSet(1 .. n) /\ Cardinality(1 .. n) = n
    BY FS_Interval
<1>2. IsFiniteSet(B) /\ Cardinality(B) <= n
    BY <1>1, FS_Subset
<1>3. IsFiniteSet(A) /\ Cardinality(A) <= Cardinality(B)
    BY <1>2, FS_Subset
<1>4. Cardinality(A) \in Nat /\ Cardinality(B) \in Nat
    BY <1>2, <1>3, FS_CardinalityType
<1>5. ASSUME NEW x \in B, x \notin A PROVE Cardinality(A) <= Cardinality(B) - 1
    <2>1. PICK R : R = B \ {x}
        OBVIOUS
    <2>2. IsFiniteSet(R) /\ Cardinality(R) = Cardinality(B) - 1
        BY <1>2, <2>1, FS_RemoveElement
    <2>3. A \in SUBSET R
        BY <1>5, <2>1
    <2>4. Cardinality(A) <= Cardinality(R)
        BY <2>2, <2>3, FS_Subset
    <2> QED BY <2>2, <2>4
<1>6. ASSUME NEW x \in 1 .. n, x \notin B PROVE Cardinality(B) <= n - 1
    <2>1. PICK N : N = 1 .. n
        OBVIOUS
    <2>2. IsFiniteSet(N) /\ Cardinality(N) = n /\ x \in N
        BY <1>1, <2>1
    <2>3. PICK R : R = N \ {x}
        OBVIOUS
    <2>4. IsFiniteSet(R) /\ Cardinality(R) = n - 1
        BY <2>2, <2>3, FS_RemoveElement
    <2>5. B \in SUBSET R
        BY <1>6, <2>1, <2>3
    <2> QED BY <2>4, <2>5, FS_Subset
<1> QED BY <1>2, <1>3, <1>4, <1>5, <1>6

\* The entries a walk may still meet from a word on, and from the copy of an
\* entry on.
Ahead(w) == {x \in 1 .. made : entry[x].addr >= w}
After(d, e) ==
    {x \in 1 .. made : \/ entry[x].addr > entry[e].addr
                       \/ entry[x].addr = entry[e].addr /\ Outlives(d, x, e)}

WordCost(w) == CodeWords - w + Cost * Cardinality(Ahead(w))
CopyCost(d, e, k) == CodeWords - (entry[e].addr + k - 1) + 3 + Cost * Cardinality(After(d, e))

\* Outlives is a strict order.
LEMMA OutlivesOrder ==
    ASSUME NEW last \in Nat, NEW d \in [Entries -> 0 .. last], 1 .. made \subseteq Entries,
           NEW x \in 1 .. made, NEW q \in 1 .. made, NEW e \in 1 .. made, made \in Nat
    PROVE  /\ ~Outlives(d, x, x)
           /\ Outlives(d, x, q) /\ Outlives(d, q, e) => Outlives(d, x, e)
<1>1. d[x] \in Nat /\ d[q] \in Nat /\ d[e] \in Nat /\ x \in Nat /\ q \in Nat /\ e \in Nat
    OBVIOUS
<1> QED BY <1>1 DEF Outlives

\* The numbers costs are made of.
LEMMA Numbers ==
    ASSUME Settled
    PROVE  /\ CodeWords \in Nat /\ made \in Nat /\ MaxHooks \in Nat /\ made <= MaxHooks
           /\ 1 .. made \subseteq Entries /\ Cost = 8
           /\ \A x \in 1 .. made : entry[x].addr \in Int
<1>1. \A x \in 1 .. made : entry[x].addr \in Int
    BY EntryFacts DEF Words
<1>2. made \in 0 .. MaxHooks /\ MaxHooks \in Nat
    BY SizesAssumption DEF Settled, IInv, TypeOK
<1> QED BY <1>1, <1>2, SizesAssumption DEF Entries, Cost, MaxTrampoline

\* A word further on costs less.
LEMMA WordCosts ==
    ASSUME Settled, NEW w \in 0 .. CodeWords
    PROVE  /\ WordCost(w) \in Nat
           /\ WordCost(w) <= CodeWords + Cost * made
           /\ WordCost(w) = 0 => w = CodeWords
           /\ \A u \in w + 1 .. CodeWords : WordCost(u) <= WordCost(w) - 1
<1>1. /\ CodeWords \in Nat /\ made \in Nat /\ Cost = 8
      /\ \A x \in 1 .. made : entry[x].addr \in Int
    BY Numbers
<1>2. PICK A : A = Ahead(w)
    OBVIOUS
<1>3. A \in SUBSET (1 .. made)
    BY <1>2 DEF Ahead
<1>4. PICK n : n = Cardinality(A)
    OBVIOUS
<1>5. n \in Nat /\ n <= made
    BY <1>1, <1>3, <1>4, Fewer
<1>6. WordCost(w) = CodeWords - w + 8 * n
    BY <1>1, <1>2, <1>4 DEF WordCost
<1>7. ASSUME NEW u \in w + 1 .. CodeWords PROVE WordCost(u) <= WordCost(w) - 1
    <2>1. Ahead(u) \in SUBSET A
        BY <1>1, <1>2, <1>7 DEF Ahead
    <2>2. Cardinality(Ahead(u)) \in Nat /\ Cardinality(Ahead(u)) <= n
        BY <1>1, <1>3, <1>4, <2>1, Fewer
    <2>3. PICK l : l = Cardinality(Ahead(u))
        OBVIOUS
    <2>4. WordCost(u) = CodeWords - u + 8 * l
        BY <1>1, <2>3 DEF WordCost
    <2> QED BY <1>1, <1>5, <1>6, <1>7, <2>2, <2>3, <2>4
<1> QED BY <1>1, <1>5, <1>6, <1>7

\* What entering a copy costs.
LEMMA CopyCosts ==
    ASSUME Settled, NEW last \in Nat, NEW d \in [Entries -> 0 .. last], NEW e \in 1 .. made,
           NEW k \in 1 .. Size(e) + 1
    PROVE  /\ CopyCost(d, e, k) \in Nat /\ CopyCost(d, e, k) >= 3
           /\ CopyCost(d, e, 1) <= CodeWords + 3 + Cost * (made - 1)
           /\ CopyCost(d, e, k + 1) = CopyCost(d, e, k) - 1
           /\ e \in Installed => CopyCost(d, e, 1) <= WordCost(entry[e].addr) - 5
           /\ \A u \in 0 .. CodeWords : u >= entry[e].addr + k - 1 /\ u > entry[e].addr
                => WordCost(u) <= CopyCost(d, e, k) - 3 - (u - (entry[e].addr + k - 1))
           /\ \A q \in 1 .. made : entry[q].addr = entry[e].addr /\ Outlives(d, q, e)
                => CopyCost(d, q, 1) <= CopyCost(d, e, 1) - 8
<1>1. /\ CodeWords \in Nat /\ made \in Nat /\ Cost = 8 /\ 1 .. made \subseteq Entries
      /\ \A x \in 1 .. made : entry[x].addr \in Int
    BY Numbers
<1>2. PICK a \in Words : a = entry[e].addr
    BY EntryFacts
<1>3. a \in 0 .. CodeWords /\ Size(e) \in 1 .. MaxTrampoline /\ a + Size(e) <= CodeWords /\ a \in Nat /\ k \in Nat /\ k >= 1
    BY <1>1, <1>2, EntryFacts DEF Words, MaxTrampoline
<1>4. PICK A : A = After(d, e)
    OBVIOUS
<1>5. A \in SUBSET (1 .. made) /\ e \notin A
    BY <1>1, <1>4, OutlivesOrder DEF After
<1>6. PICK n : n = Cardinality(A)
    OBVIOUS
<1>7. n \in Nat /\ n <= made - 1
    BY <1>1, <1>5, <1>6, Fewer
<1>8. \A j : CopyCost(d, e, j) = CodeWords - (a + j - 1) + 3 + 8 * n
    BY <1>1, <1>2, <1>4, <1>6 DEF CopyCost
<1>9. CopyCost(d, e, k) \in Nat /\ CopyCost(d, e, k) >= 3
    BY <1>1, <1>3, <1>7, <1>8 DEF MaxTrampoline
<1>10. CopyCost(d, e, 1) <= CodeWords + 3 + Cost * (made - 1)
    BY <1>1, <1>3, <1>7, <1>8
<1>11. CopyCost(d, e, k + 1) = CopyCost(d, e, k) - 1
    BY <1>1, <1>3, <1>7, <1>8
<1>12. ASSUME e \in Installed PROVE CopyCost(d, e, 1) <= WordCost(entry[e].addr) - 5
    <2>1. PICK B : B = Ahead(a)
        OBVIOUS
    <2>2. B \in SUBSET (1 .. made) /\ e \in B /\ A \in SUBSET B
        BY <1>1, <1>2, <1>4, <2>1 DEF Ahead, After
    <2>3. Cardinality(B) \in Nat /\ n <= Cardinality(B) - 1
        BY <1>1, <1>5, <1>6, <2>2, Fewer
    <2>4. PICK l : l = Cardinality(B)
        OBVIOUS
    <2>5. WordCost(a) = CodeWords - a + 8 * l
        BY <1>1, <2>1, <2>4 DEF WordCost
    <2> QED BY <1>1, <1>2, <1>3, <1>7, <1>8, <2>3, <2>4, <2>5
<1>13. ASSUME NEW u \in 0 .. CodeWords, u >= a + k - 1, u > a
       PROVE  WordCost(u) <= CopyCost(d, e, k) - 3 - (u - (a + k - 1))
    <2>1. PICK B : B = Ahead(u)
        OBVIOUS
    <2>2. B \in SUBSET A
        BY <1>1, <1>2, <1>3, <1>4, <1>13, <2>1 DEF Ahead, After
    <2>3. Cardinality(B) \in Nat /\ Cardinality(B) <= n
        BY <1>1, <1>5, <1>6, <2>2, Fewer
    <2>4. PICK l : l = Cardinality(B)
        OBVIOUS
    <2>5. WordCost(u) = CodeWords - u + 8 * l
        BY <1>1, <2>1, <2>4 DEF WordCost
    <2> QED BY <1>1, <1>3, <1>7, <1>8, <1>13, <2>3, <2>4, <2>5
<1>14. ASSUME NEW q \in 1 .. made, entry[q].addr = a, Outlives(d, q, e)
       PROVE  CopyCost(d, q, 1) <= CopyCost(d, e, 1) - 8
    <2>1. PICK B : B = After(d, q)
        OBVIOUS
    <2>2. B \in SUBSET A /\ q \notin B /\ q \in A
        <3>1. q \notin B
            BY <1>1, <1>14, <2>1, OutlivesOrder DEF After
        <3>2. q \in A
            BY <1>1, <1>2, <1>4, <1>14 DEF After
        <3>3. ASSUME NEW x \in B PROVE x \in A
            <4>1. /\ x \in 1 .. made
                  /\ \/ entry[x].addr > entry[q].addr
                     \/ entry[x].addr = entry[q].addr /\ Outlives(d, x, q)
                BY <2>1, <3>3 DEF After
            <4>2. Outlives(d, x, q) => Outlives(d, x, e)
                BY <1>1, <1>14, <4>1, OutlivesOrder
            <4> QED BY <1>2, <1>4, <1>14, <4>1, <4>2 DEF After
        <3> QED BY <3>1, <3>2, <3>3
    <2>3. Cardinality(B) \in Nat /\ Cardinality(B) <= n - 1
        BY <1>1, <1>5, <1>6, <2>2, Fewer
    <2>4. PICK l : l = Cardinality(B)
        OBVIOUS
    <2>5. CopyCost(d, q, 1) = CodeWords - (a + 1 - 1) + 3 + 8 * l
        BY <1>1, <1>14, <2>1, <2>4 DEF CopyCost
    <2> QED BY <1>1, <1>3, <1>7, <1>8, <2>3, <2>4, <2>5
<1> QED BY <1>2, <1>9, <1>10, <1>11, <1>12, <1>13, <1>14

---------------------------------------------------------------------------
(* The states of a walk                                                    *)

\* All that is expected from element k of the copy of entry e on.
ToCome(e, k) ==
    IF k = 1 THEN HooksBelow(entry[e].addr, e - 1) \o Onward(entry[e].addr)
    ELSE Expected(entry[e].addr + k - 1)

\* Machine m is on a walk from a, with at most c steps to go: before an open
\* word or before an element of a copy.
OnWord(ex, a, m, c) ==
    \E w \in 0 .. CodeWords : \E x17, s :
        /\ m = Machine(At(w), x17, s)
        /\ Open(w) /\ WordCost(w) <= c
        /\ History(ex, s, a, Originals(w), Expected(w))

OnCopy(ex, d, a, m, c) ==
    \E e \in 1 .. made : \E k \in 1 .. Size(e) + 1 : \E x17, s :
        /\ m = Machine(<<"relocated", e, k, 1>>, x17, s)
        /\ k > 1 => OverImage(e)
        /\ ex => e \in Installed
        /\ CopyCost(d, e, k) <= c
        /\ History(ex, s, a, Originals(entry[e].addr + k - 1), ToCome(e, k))

OnWalk(ex, d, a, m, c) == OnWord(ex, a, m, c) \/ OnCopy(ex, d, a, m, c)

\* A few instructions later it is again.
Moves(ex, d, a, m, c) == \E j \in 1 .. 4 : j <= c /\ OnWalk(ex, d, a, Steps(m, j), c - j)

\* The order of destruction is given.
Given(d) == Settled /\ Ordered(d) /\ \E last \in Nat : d \in [Entries -> 0 .. last]

\* A walk that comes to an open word is on its way.
LEMMA WordReached ==
    ASSUME Settled, NEW ex, NEW d, NEW a, NEW m, NEW c \in Nat, NEW j \in 1 .. 4,
           NEW w \in 0 .. CodeWords, NEW x17, NEW s, Steps(m, j) = Machine(At(w), x17, s),
           Open(w), WordCost(w) <= c - j, History(ex, s, a, Originals(w), Expected(w))
    PROVE  Moves(ex, d, a, m, c)
<1>1. OnWord(ex, a, Steps(m, j), c - j)
    BY DEF OnWord
<1>2. WordCost(w) \in Nat
    BY WordCosts
<1>3. j <= c
    BY <1>2
<1> QED BY <1>1, <1>3 DEF OnWalk, Moves

\* So is one that comes to an element of a copy.
LEMMA CopyReached ==
    ASSUME NEW d, Given(d), NEW ex, NEW a, NEW m, NEW c \in Nat, NEW j \in 1 .. 4,
           NEW e \in 1 .. made, NEW k \in 1 .. Size(e) + 1, NEW x17, NEW s,
           Steps(m, j) = Machine(<<"relocated", e, k, 1>>, x17, s),
           k > 1 => OverImage(e), ex => e \in Installed, CopyCost(d, e, k) <= c - j,
           History(ex, s, a, Originals(entry[e].addr + k - 1), ToCome(e, k))
    PROVE  Moves(ex, d, a, m, c)
<1>1. OnCopy(ex, d, a, Steps(m, j), c - j)
    BY DEF OnCopy
<1>2. PICK last \in Nat : d \in [Entries -> 0 .. last]
    BY DEF Given
<1>3. CopyCost(d, e, k) \in Nat
    BY <1>2, CopyCosts DEF Given
<1>4. j <= c
    BY <1>3
<1> QED BY <1>1, <1>4 DEF OnWalk, Moves

---------------------------------------------------------------------------
(* From a word of the image                                                *)

\* Where there is no hook, only the code is expected.
LEMMA NoHooks ==
    ASSUME Settled, NEW w \in Words, ~\E n \in Installed : entry[n].addr = w
    PROVE  Expected(w) = Onward(w)
<1>1. made \in Nat
    BY Numbers
<1>2. HooksBelow(w, made) = HooksBelow(w, 0)
    BY <1>1, HooksSkip
<1>3. HooksAt(w) = <<>>
    BY <1>2, HooksBelowRule DEF HooksAt
<1>4. Onward(w) \in Seq(Seen)
    BY ImageWord DEF Settled
<1>5. Expected(w) = HooksAt(w) \o Onward(w)
    BY ExpectedRule DEF Settled
<1>6. <<>> \o Onward(w) = Onward(w)
    BY <1>4
<1> QED BY <1>3, <1>5, <1>6

\* Of the hooks of a word one is the newest.
LEMMA NewestHook ==
    ASSUME Settled, NEW w, \E n \in Installed : entry[n].addr = w
    PROVE  \E n \in Installed :
                /\ entry[n].addr = w /\ Leads(n, n)
                /\ \A k \in Installed : entry[k].addr = w => k <= n
                /\ HooksAt(w) = <<entry[n].target>> \o HooksBelow(w, n - 1)
<1>1. made \in Nat /\ Installed \subseteq 1 .. made /\ Installed \subseteq live
    BY InstalledMade DEF Settled
<1> DEFINE T == {made - n : n \in {k \in Installed : entry[k].addr = w}}
<1>2. T \in SUBSET Nat /\ T # {}
    BY <1>1
<1>3. PICK t \in T : \A u \in T : t <= u
    BY <1>2, LeastNat
<1>4. PICK n \in Installed : entry[n].addr = w /\ t = made - n
    OBVIOUS
<1>5. ASSUME NEW k \in Installed, entry[k].addr = w PROVE k <= n
    <2>1. made - k \in T
        BY <1>5
    <2>2. made - n <= made - k
        BY <1>3, <1>4, <2>1
    <2> QED BY <1>1, <2>2
<1>6. Leads(n, n)
    BY <1>1, <1>4 DEF Settled, WInv, OriginsOK, Installed
<1>7. HooksAt(w) = <<entry[n].target>> \o HooksBelow(w, n - 1)
    <2>1. n \in Nat \ {0} /\ n <= made
        BY <1>1
    <2> QED BY <1>1, <1>4, <1>5, <2>1, HooksTop DEF HooksAt
<1> QED BY <1>4, <1>5, <1>6, <1>7

\* From a word without hooks a walk goes on with the image.
LEMMA PlainMoves ==
    ASSUME NEW d, Given(d), NEW ex, NEW a, NEW c \in Nat, NEW w \in Words, NEW x17, NEW s,
           NEW m, m = Machine(At(w), x17, s), Open(w), WordCost(w) <= c,
           History(ex, s, a, Originals(w), Expected(w)), ~\E n \in Installed : entry[n].addr = w
    PROVE  Moves(ex, d, a, m, c)
<1>1. Settled /\ w \in 0 .. CodeWords /\ CodeWords \in Nat
    BY SizesAssumption DEF Given, Words
<1>2. code[w] = Image[w] /\ Open(w + 1) /\ Expected(w) = Onward(w)
    BY <1>1, PlainWord, NoHooks
<1>3. Step(m) = Execute(m, code[w], At(w + 1)) /\ Steps(m, 1) = Step(m)
    BY CodeStep, StepsRule
<1>4. WordCost(w) \in Nat /\ \A u \in w + 1 .. CodeWords : WordCost(u) \in Nat /\ WordCost(u) <= WordCost(w) - 1
    <2>1. \A u \in w + 1 .. CodeWords : u \in 0 .. CodeWords
        BY <1>1
    <2> QED BY <1>1, <2>1, WordCosts
<1> DEFINE i == Image[w]
<1>5. CASE /\ i.op \in {"other"} \cup Unimplemented
           /\ i.to \in Seen /\ i.to[1] = "code" /\ w + 1 \in 0 .. CodeWords
           /\ Originals(w) = <<i.to>> \o Originals(w + 1)
           /\ Onward(w) = <<i.to>> \o Expected(w + 1)
    <2>1. Step(m) = Machine(At(w + 1), x17, Append(s, i.to))
        BY <1>2, <1>3, <1>5, ExecuteIs
    <2>2. Originals(w + 1) \in Seq(Seen) /\ Expected(w + 1) \in Seq(Seen)
        BY <1>1, <1>5, OriginalsSeq, ExpectedSeq DEF Settled
    <2>3. History(ex, Append(s, i.to), a, Originals(w + 1), Expected(w + 1))
        BY <1>2, <1>5, <2>2, HistoryOfWord
    <2>4. WordCost(w + 1) <= c - 1
        <3>1. w + 1 \in w + 1 .. CodeWords
            BY <1>1, <1>5
        <3> QED BY <1>4, <3>1
    <2> QED BY <1>1, <1>2, <1>3, <1>5, <2>1, <2>3, <2>4, WordReached
<1>6. ASSUME i.op = "b", NEW u \in w + 1 .. CodeWords, i.to = At(u), i.to[2] = u,
             Originals(w) = Originals(u), Onward(w) = Expected(u)
      PROVE  Moves(ex, d, a, m, c)
    <2>1. Step(m) = Machine(At(u), x17, s)
        BY <1>2, <1>3, <1>6, ExecuteIs
    <2>2. u \in 0 .. CodeWords /\ Open(u)
        BY <1>1, <1>6, BranchOpen
    <2>3. History(ex, s, a, Originals(u), Expected(u))
        BY <1>2, <1>6
    <2>4. WordCost(u) <= c - 1
        BY <1>4
    <2> QED BY <1>1, <1>3, <2>1, <2>2, <2>3, <2>4, WordReached
<1> QED BY <1>1, <1>5, <1>6, ImageWord DEF Settled

\* From a hooked word a walk comes to the copy of its newest hook.
LEMMA HookedMoves ==
    ASSUME NEW d, Given(d), NEW ex, NEW a, NEW c \in Nat, NEW w \in Words, NEW x17, NEW s,
           NEW m, m = Machine(At(w), x17, s), WordCost(w) <= c,
           History(ex, s, a, Originals(w), Expected(w)), \E n \in Installed : entry[n].addr = w
    PROVE  Moves(ex, d, a, m, c)
<1>1. Settled /\ IInv /\ WInv
    BY DEF Given, Settled
<1>2. PICK n \in Installed :
        /\ entry[n].addr = w /\ Leads(n, n)
        /\ \A k \in Installed : entry[k].addr = w => k <= n
        /\ HooksAt(w) = <<entry[n].target>> \o HooksBelow(w, n - 1)
    BY <1>1, NewestHook
<1>3. n \in 1 .. made /\ n - 1 \in Nat
    BY <1>1, InstalledMade
<1>4. PICK to : to = entry[n].target
    OBVIOUS
<1>5. to \in Seen /\ to[1] \notin {"code", "lost"}
    BY <1>1, <1>3, <1>4, TargetSeen
<1>6. PICK x : \E j \in 1 .. 3 : Steps(m, j) = Machine(to, x, s)
    BY <1>1, <1>2, <1>4, TrampolineRuns
<1>7. PICK j \in 1 .. 3 : Steps(m, j) = Machine(to, x, s)
    BY <1>6
<1>8. Step(Machine(to, x, s)) = Machine(Relocated(n), x, Append(s, to))
    <2>1. Leads(n, n)
        BY <1>2
    <2> QED BY <1>4, <2>1, TargetRuns
<1>9. j + 1 \in 1 .. 4 /\ Steps(m, j + 1) = Machine(<<"relocated", n, 1, 1>>, x, Append(s, to))
    BY <1>7, <1>8, StepsRule DEF Relocated
<1>10. Expected(w) = <<to>> \o ToCome(n, 1) /\ ToCome(n, 1) \in Seq(Seen)
    <2>1. PICK h : h = HooksBelow(w, n - 1)
        OBVIOUS
    <2>2. PICK r : r = Onward(w)
        OBVIOUS
    <2>3. h \in Seq(Seen)
        BY <1>1, <1>3, <2>1, HooksSeq
    <2>4. r \in Seq(Seen)
        BY <1>1, <2>2, ImageWord DEF Settled
    <2>5. <<to>> \in Seq(Seen)
        BY <1>5
    <2>6. Expected(w) = (<<to>> \o h) \o r
        BY <1>1, <1>2, <1>4, <2>1, <2>2, ExpectedRule DEF Settled
    <2>7. (<<to>> \o h) \o r = <<to>> \o (h \o r) /\ h \o r \in Seq(Seen)
        BY <2>3, <2>4, <2>5, ConcatAssociative, ConcatProperties
    <2>8. ToCome(n, 1) = h \o r
        BY <1>2, <2>1, <2>2 DEF ToCome
    <2> QED BY <2>6, <2>7, <2>8
<1>11. History(ex, Append(s, to), a, Originals(entry[n].addr + 1 - 1), ToCome(n, 1))
    <2>1. entry[n].addr + 1 - 1 = w
        BY <1>2 DEF Words
    <2>2. History(ex, Append(s, to), a, Originals(w), ToCome(n, 1))
        BY <1>5, <1>10, HistoryOfHook
    <2> QED BY <2>1, <2>2
<1>12. 1 \in 1 .. Size(n) + 1
    BY <1>1, <1>3, EntryFacts DEF MaxTrampoline
<1>13. CopyCost(d, n, 1) <= c - (j + 1)
    <2>1. PICK last \in Nat : d \in [Entries -> 0 .. last]
        BY DEF Given
    <2>2. CopyCost(d, n, 1) \in Nat /\ CopyCost(d, n, 1) <= WordCost(w) - 5
        BY <1>1, <1>2, <1>3, <1>12, <2>1, CopyCosts
    <2>3. WordCost(w) \in Nat
        BY <1>1, WordCosts, SizesAssumption DEF Words
    <2> QED BY <2>2, <2>3
<1> QED BY <1>2, <1>3, <1>9, <1>11, <1>12, <1>13, CopyReached

---------------------------------------------------------------------------
(* From the copy of an entry                                               *)

\* A hook leads back to its address.
LEMMA LeadsHome ==
    ASSUME Settled, NEW p \in 1 .. made, NEW q, Leads(p, q)
    PROVE  entry[q].addr = entry[p].addr
<1>1. OriginsOK /\ entry[p].addr \in Sites
    BY EntryFacts DEF Settled, WInv
<1>2. CASE q = p
    BY <1>2
<1>3. ASSUME NEW f \in Replacements, origin[entry[p].addr][f] = q, q # 0
      PROVE  entry[q].addr = entry[p].addr
    BY <1>1, <1>3 DEF OriginsOK
<1> QED BY <1>2, <1>3 DEF Leads

\* The copy of a trampoline leads to its target, and on to a copy.
LEMMA StackRuns ==
    ASSUME Settled, NEW e \in 1 .. made, NEW p \in 1 .. made, NEW q, Over(e, p), Leads(p, q),
           NEW to, to = entry[p].target, NEW x17, NEW s
    PROVE  \E x : \E j \in 3 .. 4 : Steps(Machine(Relocated(e), x17, s), j)
                                    = Machine(<<"relocated", q, 1, 1>>, x, Append(s, to))
<1>1. PICK x : \E j \in 2 .. 3 : Steps(Machine(Relocated(e), x17, s), j) = Machine(to, x, s)
    BY CopiedTrampolineRuns
<1>2. PICK j \in 2 .. 3 : Steps(Machine(Relocated(e), x17, s), j) = Machine(to, x, s)
    BY <1>1
<1>3. Step(Machine(to, x, s)) = Machine(Relocated(q), x, Append(s, to))
    BY TargetRuns
<1>4. j \in 1 .. 3 /\ j + 1 \in 3 .. 4 /\ Relocated(q) = <<"relocated", q, 1, 1>>
    BY DEF Relocated
<1>5. Steps(Machine(Relocated(e), x17, s), j + 1) = Step(Steps(Machine(Relocated(e), x17, s), j))
    BY <1>4, StepsRule
<1> QED BY <1>2, <1>3, <1>4, <1>5

\* From a copy of a trampoline a walk comes to an entry destroyed later, or
\* to one that is still on the list.
LEMMA StackedMoves ==
    ASSUME NEW d, Given(d), NEW ex, NEW a, NEW c \in Nat, NEW e \in 1 .. made, NEW x17, NEW s,
           NEW m, m = Machine(Relocated(e), x17, s), ex => e \in Installed, CopyCost(d, e, 1) <= c,
           NEW w, w = entry[e].addr, History(ex, s, a, Originals(w), ToCome(e, 1)),
           NEW p \in 1 .. made, NEW q \in 1 .. made, Over(e, p), Leads(p, q), Outlives(d, q, e),
           e \in Installed =>
                /\ q \in Installed
                /\ HooksBelow(w, e - 1) = <<entry[p].target>> \o HooksBelow(w, q - 1)
    PROVE  Moves(ex, d, a, m, c)
<1>1. Settled /\ IInv /\ WInv
    BY DEF Given, Settled
<1>2. w \in Words /\ w \in Int /\ entry[q].addr = w
    <2>1. w \in Words
        BY <1>1, EntryFacts
    <2>2. entry[q].addr = entry[p].addr
        BY <1>1, LeadsHome
    <2> QED BY <2>1, <2>2 DEF Over, Words
<1>3. PICK to : to = entry[p].target
    OBVIOUS
<1>4. to \in Seen /\ to[1] \notin {"code", "lost"}
    BY <1>1, <1>3, TargetSeen
<1>5. PICK x : \E j \in 3 .. 4 : Steps(m, j) = Machine(<<"relocated", q, 1, 1>>, x, Append(s, to))
    BY <1>1, <1>3, StackRuns
<1>6. PICK j \in 3 .. 4 : Steps(m, j) = Machine(<<"relocated", q, 1, 1>>, x, Append(s, to))
    BY <1>5
<1>7. ASSUME ex PROVE ToCome(e, 1) = <<to>> \o ToCome(q, 1) /\ ToCome(q, 1) \in Seq(Seen)
    <2>1. PICK h : h = HooksBelow(w, q - 1)
        OBVIOUS
    <2>2. PICK r : r = Onward(w)
        OBVIOUS
    <2>3. h \in Seq(Seen)
        <3>1. q - 1 \in Nat
            OBVIOUS
        <3> QED BY <1>1, <2>1, <3>1, HooksSeq
    <2>4. r \in Seq(Seen)
        BY <1>1, <1>2, <2>2, ImageWord DEF Settled
    <2>5. <<to>> \in Seq(Seen)
        BY <1>4
    <2>6. ToCome(e, 1) = (<<to>> \o h) \o r
        BY <1>3, <1>7, <2>1, <2>2 DEF ToCome
    <2>7. (<<to>> \o h) \o r = <<to>> \o (h \o r) /\ h \o r \in Seq(Seen)
        BY <2>3, <2>4, <2>5, ConcatAssociative, ConcatProperties
    <2>8. ToCome(q, 1) = h \o r
        BY <1>2, <2>1, <2>2 DEF ToCome
    <2> QED BY <2>6, <2>7, <2>8
<1>8. History(ex, Append(s, to), a, Originals(entry[q].addr + 1 - 1), ToCome(q, 1))
    <2>1. entry[q].addr + 1 - 1 = w
        BY <1>2
    <2>2. History(ex, Append(s, to), a, Originals(w), ToCome(q, 1))
        BY <1>4, <1>7, HistoryOfHook
    <2> QED BY <2>1, <2>2
<1>9. 1 \in 1 .. Size(q) + 1 /\ 1 \in 1 .. Size(e) + 1
    BY <1>1, EntryFacts DEF MaxTrampoline
<1>10. CopyCost(d, q, 1) <= c - j
    <2>1. PICK last \in Nat : d \in [Entries -> 0 .. last]
        BY DEF Given
    <2>2. CopyCost(d, q, 1) \in Nat /\ CopyCost(d, e, 1) \in Nat
        BY <1>1, <1>9, <2>1, CopyCosts
    <2>3. CopyCost(d, q, 1) <= CopyCost(d, e, 1) - 8
        BY <1>1, <1>2, <1>9, <2>1, CopyCosts
    <2> QED BY <2>2, <2>3
<1>11. ex => q \in Installed
    OBVIOUS
<1>12. j \in 1 .. 4
    OBVIOUS
<1> QED BY <1>6, <1>8, <1>9, <1>10, <1>11, <1>12, CopyReached

\* From a copy of the image a walk goes on with the copy, or branches.
LEMMA ImageMoves ==
    ASSUME NEW d, Given(d), NEW ex, NEW a, NEW c \in Nat, NEW e \in 1 .. made, NEW k \in 1 .. Size(e),
           NEW x17, NEW s, NEW m, m = Machine(<<"relocated", e, k, 1>>, x17, s),
           OverImage(e), ex => e \in Installed, CopyCost(d, e, k) <= c,
           NEW w, w = entry[e].addr + k - 1, History(ex, s, a, Originals(w), ToCome(e, k)),
           k = 1 /\ e \in Installed => HooksBelow(entry[e].addr, e - 1) = <<>>
    PROVE  Moves(ex, d, a, m, c)
<1>1. Settled /\ IInv /\ WInv
    BY DEF Given, Settled
<1>2. /\ w \in Words /\ w \in 0 .. CodeWords /\ CodeWords \in Nat /\ Size(e) \in 1 .. MaxTrampoline
      /\ entry[e].addr \in Sites /\ entry[e].addr \in Nat /\ k \in Nat \ {0}
    BY <1>1, EntryFacts, SizesAssumption DEF Words, MaxTrampoline
<1>3. k + 1 \in 1 .. Size(e) + 1 /\ k \in 1 .. Size(e) + 1
      /\ entry[e].addr + (k + 1) - 1 = w + 1 /\ w + 1 \in 0 .. CodeWords
    <2>1. w \in Int /\ CodeWords \in Int /\ w < CodeWords /\ w >= 0
        BY <1>2 DEF Words
    <2>2. PICK z \in 1 .. MaxTrampoline : z = Size(e)
        BY <1>2
    <2>3. k + 1 \in 1 .. z + 1 /\ k \in 1 .. z + 1
        BY <2>2 DEF MaxTrampoline
    <2>4. PICK b \in Nat : b = entry[e].addr
        BY <1>2
    <2>5. b + (k + 1) - 1 = w + 1
        BY <2>4
    <2>6. w + 1 \in 0 .. CodeWords
        BY <2>1
    <2>7. k + 1 \in 1 .. Size(e) + 1 /\ k \in 1 .. Size(e) + 1
        BY <2>2, <2>3
    <2>8. entry[e].addr + (k + 1) - 1 = w + 1
        BY <2>4, <2>5
    <2> QED BY <2>6, <2>7, <2>8
<1>4. ASSUME ex PROVE ToCome(e, k) = Onward(w)
    <2>1. Onward(w) \in Seq(Seen)
        BY <1>1, <1>2, ImageWord DEF Settled
    <2>2. CASE k = 1
        <3>1. entry[e].addr = w
            BY <1>2, <2>2
        <3>2. ToCome(e, k) = <<>> \o Onward(w)
            BY <1>4, <2>2, <3>1 DEF ToCome
        <3>3. <<>> \o Onward(w) = Onward(w)
            BY <2>1
        <3> QED BY <3>2, <3>3
    <2>3. CASE k # 1
        <3>1. ASSUME NEW n \in Installed PROVE entry[n].addr # w
            <4>1. PICK b \in Sites : b = entry[n].addr
                BY <1>1, InstalledMade, EntryFacts
            <4>2. PICK b2 \in Sites : b2 = entry[e].addr
                BY <1>2
            <4>3. b \in Int /\ b2 \in Int
                BY SitesAssumption
            <4>4. b2 < b => b2 + MaxTrampoline <= b
                BY <1>1, <4>1, <4>2 DEF Settled, Spaced
            <4>5. w = b2 + k - 1 /\ k \in 2 .. MaxTrampoline
                BY <1>2, <2>3, <4>2 DEF MaxTrampoline
            <4>6. w \in b2 + 1 .. b2 + MaxTrampoline - 1
                BY <4>3, <4>5 DEF MaxTrampoline
            <4>7. b # w
                BY <4>3, <4>4, <4>6 DEF MaxTrampoline
            <4> QED BY <4>1, <4>7
        <3>2. Expected(w) = Onward(w)
            BY <1>1, <1>2, <3>1, NoHooks
        <3> QED BY <2>3, <3>2 DEF ToCome
    <2> QED BY <2>2, <2>3
<1>5. PICK last \in Nat : d \in [Entries -> 0 .. last]
    BY DEF Given
<1>6. PICK i : i = Image[w]
    OBVIOUS
<1>7. CASE /\ i.op \in {"other"} \cup Unimplemented
           /\ i.to \in Seen /\ i.to[1] = "code" /\ w + 1 \in 0 .. CodeWords
           /\ Originals(w) = <<i.to>> \o Originals(w + 1)
           /\ Onward(w) = <<i.to>> \o Expected(w + 1)
    <2>1. Steps(m, 1) = Machine(<<"relocated", e, k + 1, 1>>, x17, Append(s, i.to))
        <3>1. Image[w].op \in {"other"} \cup Unimplemented
            BY <1>6, <1>7
        <3>2. Step(m) = Machine(<<"relocated", e, k + 1, 1>>, x17, Append(s, Image[w].to))
            BY <1>1, <3>1, CopiedWordRuns
        <3> QED BY <1>6, <3>2, StepsRule
    <2>2. Originals(w + 1) \in Seq(Seen) /\ Expected(w + 1) \in Seq(Seen)
        BY <1>1, <1>3, OriginalsSeq, ExpectedSeq DEF Settled
    <2>3. ToCome(e, k + 1) = Expected(w + 1)
        <3>1. k + 1 # 1
            BY <1>2
        <3> QED BY <1>3, <3>1 DEF ToCome
    <2>4. History(ex, Append(s, i.to), a, Originals(w + 1), ToCome(e, k + 1))
        <3>1. ASSUME ex PROVE ToCome(e, k) = <<i.to>> \o Expected(w + 1)
            BY <1>4, <1>7, <3>1
        <3> QED BY <1>7, <2>2, <2>3, <3>1, HistoryOfWord
    <2>5. CopyCost(d, e, k + 1) <= c - 1
        <3>1. CopyCost(d, e, k) \in Nat /\ CopyCost(d, e, k + 1) = CopyCost(d, e, k) - 1
            BY <1>1, <1>3, <1>5, CopyCosts
        <3> QED BY <3>1
    <2>6. PICK k1 \in 1 .. Size(e) + 1 : k1 = k + 1
        BY <1>3
    <2>7. History(ex, Append(s, i.to), a, Originals(entry[e].addr + k1 - 1), ToCome(e, k1))
        BY <1>3, <2>4, <2>6
    <2>8. Steps(m, 1) = Machine(<<"relocated", e, k1, 1>>, x17, Append(s, i.to)) /\ CopyCost(d, e, k1) <= c - 1
        BY <2>1, <2>5, <2>6
    <2> QED BY <2>7, <2>8, CopyReached
<1>8. ASSUME i.op = "b", NEW u \in w + 1 .. CodeWords, i.to = At(u), i.to[2] = u,
             Originals(w) = Originals(u), Onward(w) = Expected(u)
      PROVE  Moves(ex, d, a, m, c)
    <2>1. Steps(m, 2) = Machine(i.to, i.to, s)
        <3>1. Image[w].op = "b"
            BY <1>8, <1>6
        <3>2. Steps(m, 2) = Machine(Image[w].to, Image[w].to, s)
            BY <1>1, <3>1, CopiedBranchRuns
        <3> QED BY <1>6, <3>2
    <2>2. PICK x : Steps(m, 2) = Machine(At(u), x, s)
        BY <1>8, <2>1
    <2>3. u \in 0 .. CodeWords /\ Open(u)
        BY <1>1, <1>2, <1>8, <1>6, BranchOpen
    <2>4. History(ex, s, a, Originals(u), Expected(u))
        <3>1. ASSUME ex PROVE ToCome(e, k) = Expected(u)
            BY <1>4, <1>8, <3>1
        <3> QED BY <1>8, <3>1 DEF History
    <2>5. WordCost(u) <= c - 2
        <3>1. CopyCost(d, e, k) \in Nat
            BY <1>1, <1>3, <1>5, CopyCosts
        <3>2. u >= entry[e].addr + k - 1 /\ u > entry[e].addr
            <4>1. PICK b \in Nat : b = entry[e].addr
                BY <1>2
            <4>2. PICK v \in Nat : v = w
                BY <1>2
            <4>3. u \in Int /\ u > v
                BY <1>2, <1>8, <4>2
            <4>4. v = b + k - 1 /\ k \in Nat \ {0}
                BY <1>2, <4>1, <4>2
            <4>5. u >= b + k - 1 /\ u > b
                BY <4>3, <4>4
            <4> QED BY <4>1, <4>5
        <3>3. WordCost(u) <= CopyCost(d, e, k) - 3 - (u - (entry[e].addr + k - 1))
            <4>1. \A v \in 0 .. CodeWords : v >= entry[e].addr + k - 1 /\ v > entry[e].addr
                        => WordCost(v) <= CopyCost(d, e, k) - 3 - (v - (entry[e].addr + k - 1))
                BY <1>1, <1>3, <1>5, CopyCosts
            <4> QED BY <2>3, <3>2, <4>1
        <3>4. WordCost(u) <= CopyCost(d, e, k) - 3 - (u - w)
            <4>1. entry[e].addr + k - 1 = w
                OBVIOUS
            <4> QED BY <3>3, <4>1
        <3>5. WordCost(u) \in Nat
            BY <1>1, <2>3, WordCosts
        <3>6. u \in Int /\ w \in Int /\ u > w
            BY <1>2, <1>8 DEF Words
        <3>7. PICK wc, cc : wc = WordCost(u) /\ cc = CopyCost(d, e, k)
            OBVIOUS
        <3>8. wc \in Nat /\ cc \in Nat /\ wc <= cc - 3 - (u - w) /\ cc <= c
            BY <3>1, <3>4, <3>5, <3>7
        <3>9. u - w >= 1
            BY <3>6
        <3>10. wc <= c - 2
            BY <3>8, <3>9, SMTT(30)
        <3> QED BY <3>7, <3>10
    <2> QED BY <1>1, <2>2, <2>3, <2>4, <2>5, WordReached
<1> QED BY <1>1, <1>2, <1>7, <1>8, <1>6, ImageWord DEF Settled

\* The jump behind a copy.
LEMMA EndMoves ==
    ASSUME NEW d, Given(d), NEW ex, NEW a, NEW c \in Nat, NEW e \in 1 .. made, NEW k, k = Size(e) + 1,
           NEW x17, NEW s, NEW m, m = Machine(<<"relocated", e, k, 1>>, x17, s), CopyCost(d, e, k) <= c,
           NEW w, w = entry[e].addr + k - 1, History(ex, s, a, Originals(w), ToCome(e, k))
    PROVE  Moves(ex, d, a, m, c)
<1>1. Settled /\ IInv /\ WInv
    BY DEF Given, Settled
<1>2. /\ Size(e) \in 1 .. MaxTrampoline /\ entry[e].addr \in Sites /\ entry[e].addr \in Int
      /\ entry[e].addr + Size(e) \in 0 .. CodeWords
    BY <1>1, EntryFacts DEF Words
<1>3. w = entry[e].addr + Size(e) /\ k > 1 /\ k \in 1 .. Size(e) + 1
    BY <1>2 DEF MaxTrampoline
<1>4. PICK x : Steps(m, 2) = Machine(At(w), x, s)
    BY <1>1, <1>3, CopyEndRuns
<1>5. Open(w)
    <2>1. PICK b \in Sites : b = entry[e].addr
        BY <1>2
    <2>2. PICK z \in 0 .. MaxTrampoline : z = Size(e)
        BY <1>2
    <2>3. Open(b + z)
        BY <1>1, <2>1, <2>2, SiteOpen
    <2> QED BY <1>3, <2>1, <2>2, <2>3
<1>6. History(ex, s, a, Originals(w), Expected(w))
    BY <1>3 DEF ToCome
<1>7. WordCost(w) <= c - 2
    <2>1. PICK last \in Nat : d \in [Entries -> 0 .. last]
        BY DEF Given
    <2>2. CopyCost(d, e, k) \in Nat
        BY <1>1, <1>3, <2>1, CopyCosts
    <2>3. WordCost(w) <= CopyCost(d, e, k) - 3 - (w - w)
        <3>1. w \in 0 .. CodeWords /\ w >= entry[e].addr + k - 1 /\ w > entry[e].addr
            BY <1>2, <1>3 DEF MaxTrampoline
        <3> QED BY <1>1, <1>3, <2>1, <3>1, CopyCosts
    <2>4. WordCost(w) \in Nat /\ w \in Int
        BY <1>1, <1>2, <1>3, WordCosts
    <2> QED BY <2>2, <2>3, <2>4
<1> QED BY <1>1, <1>2, <1>3, <1>4, <1>5, <1>6, <1>7, WordReached

\* A walk goes on until it leaves the image at its end.
LEMMA AllMove ==
    ASSUME NEW d, Given(d), NEW ex, NEW a, NEW c \in Nat, NEW m, OnWalk(ex, d, a, m, c), m.at # At(CodeWords)
    PROVE  Moves(ex, d, a, m, c)
<1>1. Settled /\ CodeWords \in Nat
    BY SizesAssumption DEF Given
<1>2. ASSUME NEW w \in 0 .. CodeWords, NEW x17, NEW s, m = Machine(At(w), x17, s), Open(w), WordCost(w) <= c,
             History(ex, s, a, Originals(w), Expected(w))
      PROVE  Moves(ex, d, a, m, c)
    <2>1. m.at = At(w)
        BY <1>2 DEF Machine
    <2>2. w # CodeWords
        BY <2>1
    <2>3. w \in Words
        BY <1>1, <2>2 DEF Words
    <2> QED BY <1>2, <2>3, PlainMoves, HookedMoves
<1>3. ASSUME NEW e \in 1 .. made, NEW k \in 1 .. Size(e) + 1, NEW x17, NEW s,
             m = Machine(<<"relocated", e, k, 1>>, x17, s), k > 1 => OverImage(e),
             ex => e \in Installed, CopyCost(d, e, k) <= c,
             History(ex, s, a, Originals(entry[e].addr + k - 1), ToCome(e, k))
      PROVE  Moves(ex, d, a, m, c)
    <2>1. Size(e) \in 1 .. MaxTrampoline /\ entry[e].addr \in Int /\ Ordered(d)
        BY <1>1, EntryFacts DEF Given, Words
    <2>2. CASE k = Size(e) + 1
        BY <1>3, <2>2, EndMoves
    <2>3. CASE k \in 1 .. Size(e) /\ OverImage(e) /\ (k = 1 /\ e \in Installed => HooksBelow(entry[e].addr, e - 1) = <<>>)
        BY <1>3, <2>3, ImageMoves
    <2>4. ASSUME k = 1, NEW p \in 1 .. made, NEW q \in 1 .. made, Over(e, p), Leads(p, q), Outlives(d, q, e),
                 e \in Installed =>
                    /\ q \in Installed
                    /\ HooksBelow(entry[e].addr, e - 1) = <<entry[p].target>> \o HooksBelow(entry[e].addr, q - 1)
          PROVE  Moves(ex, d, a, m, c)
        <3>1. PICK w : w = entry[e].addr
            OBVIOUS
        <3>2. entry[e].addr + k - 1 = w /\ m = Machine(Relocated(e), x17, s) /\ CopyCost(d, e, 1) <= c
            BY <1>3, <2>1, <2>4, <3>1 DEF Relocated
        <3>3. History(ex, s, a, Originals(w), ToCome(e, 1))
            BY <1>3, <2>4, <3>2
        <3> QED BY <1>3, <2>4, <3>1, <3>2, <3>3, StackedMoves
    <2>5. k = Size(e) + 1 \/ (k \in 1 .. Size(e) /\ k > 1) \/ (k \in 1 .. Size(e) /\ k = 1)
        BY <2>1 DEF MaxTrampoline
    <2> QED BY <1>1, <1>3, <2>1, <2>2, <2>3, <2>4, <2>5, Continues
<1> QED BY <1>2, <1>3 DEF OnWalk, OnWord, OnCopy

---------------------------------------------------------------------------
(* Whole walks                                                             *)

\* The fuel of a walk.
LEMMA FuelNat == Fuel \in Nat /\ Fuel = CodeWords + MaxHooks * 8 /\ Cost = 8
BY SizesAssumption DEF Fuel, Cost, MaxTrampoline

\* A walk is a sequence of states of the machine.
LEMMA WalkIs ==
    ASSUME NEW start
    PROVE  \E run : /\ Walks(run, Machine(start, NoAddr, <<>>), Fuel)
                    /\ Walk(start) = IF run[Fuel].at = At(CodeWords) THEN run[Fuel].seen
                                     ELSE Append(run[Fuel].seen, <<"lost">>)
<1> DEFINE m == Machine(start, NoAddr, <<>>)
           g == CHOOSE g : Walks(g, m, Fuel)
<1>1. \E f : Walks(f, m, Fuel)
    BY FuelNat, RecursExists, RecursIs DEF Kinds
<1>2. Walks(g, m, Fuel)
    BY <1>1
<1>3. Walk(start) = IF g[Fuel].at = At(CodeWords) THEN g[Fuel].seen ELSE Append(g[Fuel].seen, <<"lost">>)
    BY DEF Walk, Walks, Advance, Machine
<1> QED BY <1>2, <1>3

\* Each is a step from the one before it.
LEMMA RunSteps ==
    ASSUME NEW m, NEW run, Walks(run, m, Fuel), NEW i \in 0 .. Fuel
    PROVE  /\ run[0] = m
           /\ i # Fuel => run[i + 1] = Step(run[i])
           /\ \A j \in 1 .. 4 : i + j <= Fuel => run[i + j] = Steps(run[i], j)
<1>1. run[0] = m
    BY FuelNat DEF Walks, Advance
<1>2. \A k \in 0 .. Fuel : k # Fuel => run[k + 1] = Step(run[k])
    <2> SUFFICES ASSUME NEW k \in 0 .. Fuel, k # Fuel PROVE run[k + 1] = Step(run[k])
        OBVIOUS
    <2>1. k + 1 \in 0 .. Fuel /\ k + 1 # 0 /\ (k + 1) - 1 = k
        BY FuelNat
    <2> QED BY <2>1 DEF Walks, Advance
<1>3. ASSUME NEW j \in 1 .. 4, i + j <= Fuel PROVE run[i + j] = Steps(run[i], j)
    <2>1. \A l \in 1 .. 3 : i + l < Fuel =>
                i + l \in 0 .. Fuel /\ run[i + (l + 1)] = Step(run[i + l])
        <3> SUFFICES ASSUME NEW l \in 1 .. 3, i + l < Fuel
                     PROVE  i + l \in 0 .. Fuel /\ run[i + (l + 1)] = Step(run[i + l])
            OBVIOUS
        <3>1. i + l \in 0 .. Fuel /\ i + l # Fuel /\ (i + l) + 1 = i + (l + 1)
            BY FuelNat
        <3> QED BY <1>2, <3>1
    <2>2. run[i + 1] = Steps(run[i], 1)
        BY <1>2, <1>3, FuelNat, StepsRule
    <2>3. i + 2 <= Fuel => run[i + 2] = Steps(run[i], 2)
        <3>1. i + 2 <= Fuel => run[i + 2] = Step(run[i + 1])
            BY <2>1, FuelNat
        <3>2. Steps(run[i], 2) = Step(Steps(run[i], 1))
            BY StepsRule
        <3> QED BY <2>2, <3>1, <3>2
    <2>4. i + 3 <= Fuel => run[i + 3] = Steps(run[i], 3)
        <3>1. i + 3 <= Fuel => i + 2 <= Fuel /\ run[i + 3] = Step(run[i + 2])
            BY <2>1, FuelNat
        <3>2. Steps(run[i], 3) = Step(Steps(run[i], 2))
            BY StepsRule
        <3> QED BY <2>3, <3>1, <3>2
    <2>5. i + 4 <= Fuel => run[i + 4] = Steps(run[i], 4)
        <3>1. i + 4 <= Fuel => i + 3 <= Fuel /\ run[i + 4] = Step(run[i + 3])
            BY <2>1, FuelNat
        <3>2. Steps(run[i], 4) = Step(Steps(run[i], 3))
            BY StepsRule
        <3> QED BY <2>4, <3>1, <3>2
    <2>6. j = 1 \/ j = 2 \/ j = 3 \/ j = 4
        OBVIOUS
    <2> QED BY <1>3, <2>2, <2>3, <2>4, <2>5, <2>6
<1> QED BY <1>1, <1>2, <1>3

\* A thread that has left the image stays where it is.
LEMMA StoppedStays ==
    ASSUME NEW m, Stopped(m)
    PROVE  Step(m) = m
BY DEF Step, Stopped

\* The end of the image is the end of the walk.
LEMMA RunStays ==
    ASSUME NEW m, NEW run, Walks(run, m, Fuel), NEW i \in 0 .. Fuel, run[i].at = At(CodeWords)
    PROVE  run[Fuel] = run[i]
<1> DEFINE T == {k \in i .. Fuel : run[k] # run[i]}
<1>1. SUFFICES ASSUME T # {} PROVE FALSE
    BY FuelNat
<1>2. T \in SUBSET Nat
    BY FuelNat
<1>3. PICK k \in T : \A l \in T : k <= l
    BY <1>1, <1>2, LeastNat
<1>4. k \in i .. Fuel /\ run[k] # run[i] /\ k # i
    OBVIOUS
<1>5. k - 1 \in 0 .. Fuel /\ k - 1 \in i .. Fuel /\ ~(k <= k - 1) /\ (k - 1) + 1 = k /\ k - 1 # Fuel
    BY <1>4, FuelNat
<1>6. run[k - 1] = run[i]
    BY <1>3, <1>5
<1>7. run[k] = Step(run[k - 1])
    BY <1>5, RunSteps
<1>8. Stopped(run[i])
    <2>1. At(CodeWords)[1] = "code" /\ At(CodeWords)[2] = CodeWords
        BY DEF At
    <2>2. CodeWords \notin Words
        BY SizesAssumption DEF Words
    <2> QED BY <2>1, <2>2 DEF Stopped
<1>9. Step(run[i]) = run[i]
    BY <1>8, StoppedStays
<1> QED BY <1>4, <1>6, <1>7, <1>9

\* A walk with enough fuel runs all it should.
LEMMA WalkEnds ==
    ASSUME NEW d, Given(d), NEW ex, NEW a, NEW start, OnWalk(ex, d, a, Machine(start, NoAddr, <<>>), Fuel)
    PROVE  OriginalsIn(Walk(start)) = Originals(a) /\ (ex => Walk(start) = Expected(a))
<1>1. PICK run : /\ Walks(run, Machine(start, NoAddr, <<>>), Fuel)
                 /\ Walk(start) = IF run[Fuel].at = At(CodeWords) THEN run[Fuel].seen
                                  ELSE Append(run[Fuel].seen, <<"lost">>)
    BY WalkIs
<1> DEFINE T == {c \in 0 .. Fuel : OnWalk(ex, d, a, run[Fuel - c], c)}
<1>2. T \in SUBSET Nat /\ Fuel \in T
    <2>1. run[0] = Machine(start, NoAddr, <<>>) /\ Fuel - Fuel = 0 /\ Fuel \in 0 .. Fuel
        BY <1>1, FuelNat, RunSteps
    <2> QED BY <2>1, FuelNat
<1>3. PICK c \in T : \A l \in T : c <= l
    BY <1>2, LeastNat
<1>4. PICK i \in 0 .. Fuel : i = Fuel - c
    BY FuelNat
<1>5. c \in 0 .. Fuel /\ c \in Nat /\ c = Fuel - i /\ OnWalk(ex, d, a, run[i], c)
    BY <1>4, FuelNat
<1>6. run[i].at = At(CodeWords)
    <2> SUFFICES ASSUME run[i].at # At(CodeWords) PROVE FALSE
        OBVIOUS
    <2>1. PICK j \in 1 .. 4 : j <= c /\ OnWalk(ex, d, a, Steps(run[i], j), c - j)
        BY <1>5, AllMove DEF Moves
    <2>2. c - j \in 0 .. Fuel /\ ~(c <= c - j) /\ i + j <= Fuel /\ Fuel - (c - j) = i + j
        <3>1. j <= c
            BY <2>1
        <3>2. Fuel \in Nat
            BY FuelNat
        <3> QED BY <1>5, <3>1, <3>2
    <2>3. run[i + j] = Steps(run[i], j)
        BY <1>1, <2>2, RunSteps
    <2>4. c - j \in T
        BY <2>1, <2>2, <2>3
    <2> QED BY <1>3, <2>2, <2>4
<1>7. run[Fuel] = run[i]
    BY <1>1, <1>6, RunStays
<1>8. Walk(start) = run[i].seen
    BY <1>1, <1>6, <1>7
<1>9. ASSUME NEW w \in 0 .. CodeWords, NEW x17, NEW s, run[i] = Machine(At(w), x17, s),
             History(ex, s, a, Originals(w), Expected(w))
      PROVE  OriginalsIn(Walk(start)) = Originals(a) /\ (ex => Walk(start) = Expected(a))
    <2>1. At(w) = At(CodeWords) /\ Walk(start) = s
        BY <1>6, <1>8, <1>9 DEF Machine
    <2>2. w = CodeWords
        BY <2>1 DEF At
    <2>3. Originals(w) = <<>> /\ Expected(w) = <<>>
        BY <2>2, SizesAssumption, OriginalsRule, ExpectedRule DEF Given, Settled
    <2>4. s \in Seq(Seen) /\ OriginalsIn(s) \in Seq(Seen)
        BY <1>9 DEF History
    <2>5. s \o <<>> = s /\ OriginalsIn(s) \o <<>> = OriginalsIn(s)
        BY <2>4
    <2>6. OriginalsIn(s) = Originals(a)
        BY <1>9, <2>3, <2>5 DEF History
    <2>7. ASSUME ex PROVE s = Expected(a)
        BY <1>9, <2>3, <2>5, <2>7 DEF History
    <2> QED BY <2>1, <2>6, <2>7
<1>10. ASSUME NEW e, NEW k, NEW x17, NEW s, run[i] = Machine(<<"relocated", e, k, 1>>, x17, s) PROVE FALSE
    <2>1. run[i].at = <<"relocated", e, k, 1>>
        BY <1>10 DEF Machine
    <2>2. run[i].at[1] = "relocated" /\ At(CodeWords)[1] = "code"
        BY <2>1 DEF At
    <2> QED BY <1>6, <2>2
<1>11. CASE OnWord(ex, a, run[i], c)
    <2>1. PICK w \in 0 .. CodeWords : \E x17, s :
            /\ run[i] = Machine(At(w), x17, s)
            /\ History(ex, s, a, Originals(w), Expected(w))
        BY <1>11 DEF OnWord
    <2> QED BY <1>9, <2>1
<1>12. CASE OnCopy(ex, d, a, run[i], c)
    <2>1. PICK e \in 1 .. made : \E k \in 1 .. Size(e) + 1 : \E x17, s :
            run[i] = Machine(<<"relocated", e, k, 1>>, x17, s)
        BY <1>12 DEF OnCopy
    <2> QED BY <1>10, <2>1
<1> QED BY <1>5, <1>11, <1>12 DEF OnWalk

\* Before a walk, all is still to come.
LEMMA EmptyHistory ==
    ASSUME Settled, NEW ex, NEW a \in 0 .. CodeWords, NEW exp, ex => exp = Expected(a)
    PROVE  History(ex, <<>>, a, Originals(a), exp)
<1>1. Originals(a) \in Seq(Seen) /\ Expected(a) \in Seq(Seen)
    BY OriginalsSeq, ExpectedSeq DEF Settled
<1>2. <<>> \in Seq(Seen) /\ <<>> \o Originals(a) = Originals(a) /\ <<>> \o Expected(a) = Expected(a)
    BY <1>1
<1>3. ASSUME ex PROVE <<>> \o exp = Expected(a)
    BY <1>2, <1>3
<1> QED BY <1>2, <1>3, OriginalsInEmpty DEF History

\* A call of a hooked address.
LEMMA CallStarts ==
    ASSUME NEW d, Given(d), NEW a \in Sites
    PROVE  OnWalk(TRUE, d, a, Machine(At(a), NoAddr, <<>>), Fuel)
<1>1. Settled /\ MaxTrampoline = 4
    BY DEF Given, MaxTrampoline
<1>2. a \in 0 .. CodeWords /\ a \in Int
    BY <1>1, SitesAssumption, SizesAssumption
<1>3. Open(a)
    <2>1. 0 \in 0 .. MaxTrampoline /\ a + 0 = a
        BY <1>1, <1>2
    <2>2. Open(a + 0)
        BY <1>1, <2>1, SiteOpen
    <2> QED BY <2>1, <2>2
<1>4. WordCost(a) <= Fuel
    <2>1. WordCost(a) \in Nat /\ WordCost(a) <= CodeWords + Cost * made
        BY <1>1, <1>2, WordCosts
    <2>2. PICK c \in Nat : c = WordCost(a)
        BY <2>1
    <2>3. c <= CodeWords + 8 * made
        BY <2>1, <2>2, FuelNat
    <2>4. made \in Nat /\ MaxHooks \in Nat /\ made <= MaxHooks /\ CodeWords \in Nat
        BY <1>1, Numbers
    <2>5. c <= CodeWords + MaxHooks * 8
        BY <2>3, <2>4
    <2> QED BY <2>2, <2>5, FuelNat
<1>5. History(TRUE, <<>>, a, Originals(a), Expected(a))
    BY <1>1, <1>2, EmptyHistory
<1> QED BY <1>2, <1>3, <1>4, <1>5 DEF OnWalk, OnWord

\* A call through the origin_call of an entry.
LEMMA OriginCallStarts ==
    ASSUME NEW d, Given(d), NEW n \in 1 .. made
    PROVE  OnWalk(FALSE, d, entry[n].addr, Machine(Relocated(n), NoAddr, <<>>), Fuel)
<1>1. Settled
    BY DEF Given
<1>2. PICK a \in Words : a = entry[n].addr
    BY <1>1, EntryFacts
<1>3. a \in 0 .. CodeWords /\ a + 1 - 1 = a
    BY <1>2, SizesAssumption DEF Words
<1>4. 1 \in 1 .. Size(n) + 1
    BY <1>1, EntryFacts DEF MaxTrampoline
<1>5. CopyCost(d, n, 1) <= Fuel
    <2>1. PICK last \in Nat : d \in [Entries -> 0 .. last]
        BY DEF Given
    <2>2. CopyCost(d, n, 1) \in Nat /\ CopyCost(d, n, 1) <= CodeWords + 3 + Cost * (made - 1)
        BY <1>1, <1>4, <2>1, CopyCosts
    <2>3. PICK c \in Nat : c = CopyCost(d, n, 1)
        BY <2>2
    <2>4. c <= CodeWords + 3 + 8 * (made - 1)
        BY <2>2, <2>3, FuelNat
    <2>5. made \in Nat /\ MaxHooks \in Nat /\ made <= MaxHooks /\ CodeWords \in Nat
        BY <1>1, Numbers
    <2>6. c <= CodeWords + MaxHooks * 8
        BY <2>4, <2>5
    <2> QED BY <2>3, <2>6, FuelNat
<1>6. History(FALSE, <<>>, entry[n].addr, Originals(entry[n].addr + 1 - 1), ToCome(n, 1))
    <2>1. History(FALSE, <<>>, a, Originals(a), ToCome(n, 1))
        BY <1>1, <1>3, EmptyHistory
    <2> QED BY <1>2, <1>3, <2>1
<1>7. Machine(Relocated(n), NoAddr, <<>>) = Machine(<<"relocated", n, 1, 1>>, NoAddr, <<>>)
    BY DEF Relocated
<1>8. ~(1 > 1)
    OBVIOUS
<1> QED BY <1>4, <1>5, <1>6, <1>7, <1>8 DEF OnWalk, OnCopy

\* The invariants imply both properties.
LEMMA WalksComplete ==
    ASSUME Spaced, Forward, NoBranchInside, IInv, WInv
    PROVE  CallsRunHooksThenOriginal /\ OriginCallStaysGood
<1> SUFFICES ASSUME Whole, Even
             PROVE  /\ \A a \in Sites : Walk(At(a)) = Expected(a)
                    /\ \A n \in 1 .. made : OriginalsIn(Walk(Relocated(n))) = Originals(entry[n].addr)
    BY DEF CallsRunHooksThenOriginal, OriginCallStaysGood
<1>1. PICK last \in Nat : \E d \in [Entries -> 0 .. last] : \A e \in 1 .. made : LinkOK(d, e)
    BY DEF WInv, LinksOK
<1>2. PICK d \in [Entries -> 0 .. last] : \A e \in 1 .. made : LinkOK(d, e)
    BY <1>1
<1>3. Given(d)
    BY <1>2 DEF Given, Settled, Ordered
<1>4. ASSUME NEW a \in Sites PROVE Walk(At(a)) = Expected(a)
    BY <1>3, CallStarts, WalkEnds
<1>5. ASSUME NEW n \in 1 .. made PROVE OriginalsIn(Walk(Relocated(n))) = Originals(entry[n].addr)
    BY <1>3, OriginCallStarts, WalkEnds
<1> QED BY <1>4, <1>5

\* A thread that calls a hooked address runs the hooks of that address, newest
\* first, then the original function with the hooks on its way, each once,
\* however DobbyHook, DobbyInstrument and DobbyDestroy have been called before
\* and between any two of their patches: with trampolines of any of the three
\* forms, for code of any length, and with any number of hooks.
THEOREM CallsRunHooks ==
    Spaced /\ Forward /\ NoBranchInside /\ ~Reuse => (Spec => []CallsRunHooksThenOriginal)
<1> SUFFICES ASSUME Spaced, Forward, NoBranchInside, ~Reuse PROVE Spec => []CallsRunHooksThenOriginal
    OBVIOUS
<1>1. Init => IInv /\ WInv
    BY InitIInv, InitWInv
<1>2. IInv /\ WInv /\ [Next]_vars => (IInv /\ WInv)'
    BY NextPreserves, NextWInv
<1>3. IInv /\ WInv => CallsRunHooksThenOriginal
    BY WalksComplete
<1> QED BY <1>1, <1>2, <1>3, PTL DEF Spec

\* The relocated code that *origin_call points to runs the whole original
\* function for as long as the process runs, also that of a hook that
\* DobbyDestroy has removed while its replacement was running, whatever was
\* hooked and destroyed at its address before and since.
THEOREM OriginCallsWork ==
    Spaced /\ Forward /\ NoBranchInside /\ ~Reuse => (Spec => []OriginCallStaysGood)
<1> SUFFICES ASSUME Spaced, Forward, NoBranchInside, ~Reuse PROVE Spec => []OriginCallStaysGood
    OBVIOUS
<1>1. Init => IInv /\ WInv
    BY InitIInv, InitWInv
<1>2. IInv /\ WInv /\ [Next]_vars => (IInv /\ WInv)'
    BY NextPreserves, NextWInv
<1>3. IInv /\ WInv => OriginCallStaysGood
    BY WalksComplete
<1> QED BY <1>1, <1>2, <1>3, PTL DEF Spec
===========================================================================
