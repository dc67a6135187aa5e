----------------------------- MODULE HookEngine -----------------------------
(***************************************************************************)
(* Dobby's interceptor on ARM64: DobbyHook, DobbyInstrument, DobbyDestroy  *)
(* and the near-branch plugin, called by one thread while other threads    *)
(* may execute the hooked code at any moment.                              *)
(*                                                                         *)
(* Hook entries are numbered in the order of their creation.  AddHookEntry *)
(* puts an entry at the head of the list, so the order of the list is the  *)
(* descending order of the numbers, and the first entry found for an       *)
(* address is the one with the largest number.  Nothing Dobby allocates    *)
(* for an entry is ever freed.                                             *)
(***************************************************************************)
EXTENDS Arm64Code, FiniteSets

CONSTANTS
    Image,          \* the hooked code, a function from words to instructions
    CodeWords,      \* its length
    PageWords,      \* words per memory page
    Sites,          \* the addresses passed to Dobby
    Replacements,   \* names for the replacement functions written for a site
    Handlers,       \* instrumentation handlers
    Far,            \* targets beyond the range of adrp: replacements, "closure"
    MaxHooks,       \* bound on the number of entries ever created
    NearAtStart,    \* the near-branch plugin is enabled before the first hook
    Toggle,         \* the plugin is enabled and disabled later on
    Failures,       \* what may fail: "near" memory for a near branch, "arena"
    Reuse           \* a replacement may be given again while still in use

Words == 0 .. CodeWords - 1
Entries == 1 .. MaxHooks

ASSUME SizesAssumption ==
    /\ CodeWords \in Nat
    /\ PageWords \in Nat \ {0}
    /\ MaxHooks \in Nat

ASSUME SitesAssumption ==
    /\ Sites \subseteq 0 .. CodeWords - MaxTrampoline
    /\ DOMAIN Image = Words

ASSUME FlagsAssumption ==
    /\ {NearAtStart, Toggle, Reuse} \subseteq BOOLEAN
    /\ Failures \subseteq {"near", "arena"}

VARIABLES
    code,     \* the words of the image
    made,     \* number of entries created so far
    entry,    \* the HookEntry of each number
    live,     \* the entries on hook_entry_list_
    origin,   \* what *origin_call holds, per site and replacement: 0 is null
    near,     \* RoutingPluginManager::near_branch_trampoline is set
    op,       \* what the hooking thread is doing
    fate      \* "running", or how the process ended: "fault", "abort"

vars == <<code, made, entry, live, origin, near, op, fate>>

Call(a, f) == <<"call", a, f>>
Closure(n) == <<"closure", n>>

NoEntry == [addr |-> 0, target |-> NoAddr, handler |-> NoAddr, id |-> 0,
            tramp |-> <<>>, saved |-> <<>>, relocated |-> <<>>]
Idle == [pc |-> "idle", n |-> 0, i |-> 0]
Size(n) == Len(entry[n].tramp)

Init ==
    /\ code = Image
    /\ made = 0
    /\ entry = [n \in Entries |-> NoEntry]
    /\ live = {}
    /\ origin = [a \in Sites |-> [f \in Replacements |-> 0]]
    /\ near = NearAtStart
    /\ op = Idle
    /\ fate = "running"

---------------------------------------------------------------------------
(* Interceptor                                                             *)

\* Mutant: the list is searched from its oldest entry.
FindsOldest(a, n) ==
    /\ n \in live
    /\ entry[n].addr = a
    /\ \A m \in live : entry[m].addr = a => n <= m

\* find_hook_entry_node: n is the first entry of the list for address a.
Finds(a, n) ==
    /\ n \in live
    /\ entry[n].addr = a
    /\ \A m \in live : entry[m].addr = a => m <= n

GetHookEntryCount == Cardinality(live)

---------------------------------------------------------------------------
(* Hooking                                                                 *)

Ready == op = Idle /\ fate = "running"

\* The trampolines GenerateTrampolineBuffer may choose for a target.
GenerateTrampolineBuffer(a, target, far) ==
    (IF near THEN {GenerateNearTrampolineBuffer(target)} ELSE {})
    \cup (IF near /\ "near" \notin Failures THEN {}
          ELSE {GenerateNormalTrampolineBuffer(a, target, far)})

\* The HookEntry that DispatchRouting leaves behind.
DispatchRouting(a, target, handler, tramp) ==
    [addr |-> a, target |-> target, handler |-> handler,
     id |-> GetHookEntryCount, tramp |-> tramp,
     saved |-> [k \in 1 .. Len(tramp) |-> code[a + k - 1]],
     relocated |-> GenRelocateCodeAndBranch(code, a, Len(tramp))]

\* Routing and AddHookEntry; the thread goes on at pc.
AddHookEntry(a, target, handler, tramp, pc) ==
    /\ made' = made + 1
    /\ entry' = [entry EXCEPT ![made + 1] =
                    DispatchRouting(a, target, handler, tramp)]
    /\ live' = live \cup {made + 1}
    /\ op' = [pc |-> pc, n |-> made + 1, i |-> 0]
    /\ UNCHANGED <<code, origin, near, fate>>

\* Routing that ends the process: an instruction that cannot be relocated
\* aborts, and the null chunk of a full arena is dereferenced.
RoutingDies(a, tramp) ==
    /\ \/ /\ \E k \in 1 .. Len(tramp) : code[a + k - 1].op \in Unimplemented
          /\ fate' = "abort"
       \/ /\ "arena" \in Failures
          /\ fate' = "fault"
    /\ UNCHANGED <<code, made, entry, live, origin, near, op>>

Route(a, target, handler, far, pc) ==
    \E tramp \in GenerateTrampolineBuffer(a, target, far) :
        \/ /\ \A k \in 1 .. Len(tramp) : code[a + k - 1].op \notin Unimplemented
           /\ AddHookEntry(a, target, handler, tramp, pc)
        \/ RoutingDies(a, tramp)

\* Unless Reuse, the caller does not give a replacement that is in use.
InUse(a, f) == \E n \in live : entry[n].target = Call(a, f)

\* Mutant: the code is patched before *origin_call is written.
OriginForgotten(a, f) ==
    /\ Ready
    /\ made < MaxHooks
    /\ ~\E n \in Entries : Finds(a, n) /\ entry[n].target = Call(a, f)
    /\ InUse(a, f) => Reuse
    /\ Route(a, Call(a, f), Call(a, f), f \in Far, "commit")

\* DobbyHook up to AddHookEntry.  It refuses a replacement that is the
\* target of the newest entry of the address.
DobbyHook(a, f) ==
    /\ Ready
    /\ made < MaxHooks
    /\ ~\E n \in Entries : Finds(a, n) /\ entry[n].target = Call(a, f)
    /\ InUse(a, f) => Reuse
    /\ Route(a, Call(a, f), Call(a, f), f \in Far, "origin")

\* DobbyInstrument up to AddHookEntry.  The target is a closure trampoline
\* made for the entry.  The handler of the newest entry is compared, which
\* for a DobbyHook entry is the replacement at the same place.
DobbyInstrument(a, h) ==
    /\ Ready
    /\ made < MaxHooks
    /\ ~\E n \in Entries : Finds(a, n) /\ entry[n].handler = <<"handler", h>>
    /\ Route(a, Closure(made + 1), <<"handler", h>>, "closure" \in Far, "commit")

\* *origin_call = entry->relocated_origin_function
SetOriginCall ==
    /\ op.pc = "origin"
    /\ origin' = [origin EXCEPT ![entry[op.n].addr][entry[op.n].target[3]] = op.n]
    /\ op' = [op EXCEPT !.pc = "commit"]
    /\ UNCHANGED <<code, made, entry, live, near, fate>>

\* DobbyDestroy up to CodePatch: it finds the newest entry of the address.
DobbyDestroy(a) ==
    /\ Ready
    /\ \E n \in Entries :
        /\ Finds(a, n)
        /\ op' = [pc |-> "restore", n |-> n, i |-> 0]
    /\ UNCHANGED <<code, made, entry, live, origin, near, fate>>

---------------------------------------------------------------------------
(* CodePatch                                                               *)

\* What the thread copies: the trampoline (Commit) or the saved words.
PatchBuffer == IF op.pc = "commit" THEN entry[op.n].tramp ELSE entry[op.n].saved

\* Mutant: the page is computed from the end of the word.
WritableFromEnd(w) == (w + 1) \div PageWords = entry[op.n].addr \div PageWords

\* mprotect makes the page of the first word writable, and only that one.
Writable(w) == w \div PageWords = entry[op.n].addr \div PageWords

\* One word of memcpy; other threads run in between.  After the last word
\* Commit returns and DobbyDestroy goes on to RemoveHookEntry.
PatchWord ==
    LET w == entry[op.n].addr + op.i
    IN  /\ op.pc \in {"commit", "restore"}
        /\ op.i < Size(op.n)
        /\ fate = "running"
        /\ IF Writable(w)
           THEN /\ code' = [code EXCEPT ![w] = PatchBuffer[op.i + 1]]
                /\ op' = [op EXCEPT !.i = @ + 1]
                /\ UNCHANGED fate
           ELSE /\ fate' = "fault"
                /\ UNCHANGED <<code, op>>
        /\ UNCHANGED <<made, entry, live, origin, near>>

CommitReturns ==
    /\ op.pc = "commit"
    /\ op.i = Size(op.n)
    /\ op' = Idle
    /\ UNCHANGED <<code, made, entry, live, origin, near, fate>>

\* RemoveHookEntry looks the address up again.
RemoveHookEntry ==
    /\ op.pc = "restore"
    /\ op.i = Size(op.n)
    /\ \E n \in Entries :
        /\ Finds(entry[op.n].addr, n)
        /\ live' = live \ {n}
    /\ op' = Idle
    /\ UNCHANGED <<code, made, entry, origin, near, fate>>

---------------------------------------------------------------------------
(* The near-branch plugin                                                  *)

dobby_enable_near_branch_trampoline ==
    /\ Toggle /\ Ready
    /\ near' = TRUE
    /\ UNCHANGED <<code, made, entry, live, origin, op, fate>>

dobby_disable_near_branch_trampoline ==
    /\ Toggle /\ Ready
    /\ near' = FALSE
    /\ UNCHANGED <<code, made, entry, live, origin, op, fate>>

---------------------------------------------------------------------------

Next ==
    \/ \E a \in Sites, f \in Replacements : DobbyHook(a, f)
    \/ \E a \in Sites, h \in Handlers : DobbyInstrument(a, h)
    \/ \E a \in Sites : DobbyDestroy(a)
    \/ SetOriginCall
    \/ PatchWord
    \/ CommitReturns
    \/ RemoveHookEntry
    \/ dobby_enable_near_branch_trampoline
    \/ dobby_disable_near_branch_trampoline

Spec == Init /\ [][Next]_vars

---------------------------------------------------------------------------
(* Properties                                                              *)

\* The bookkeeping of the interceptor: what each variable ranges over.
TypeOK ==
    /\ DOMAIN code = Words
    /\ made \in 0 .. MaxHooks
    /\ DOMAIN entry = Entries
    /\ \A n \in 1 .. made :
        /\ entry[n].addr \in Sites
        /\ Size(n) \in 1 .. MaxTrampoline
        /\ DOMAIN entry[n].saved = 1 .. Size(n)
        /\ DOMAIN entry[n].relocated = 1 .. Size(n) + 1
    /\ live \subseteq 1 .. made
    /\ origin \in [Sites -> [Replacements -> 0 .. MaxHooks]]
    /\ near \in BOOLEAN
    /\ op \in [pc : {"idle", "origin", "commit", "restore"}, n : 0 .. made,
              i : 0 .. MaxTrampoline]
    /\ fate \in {"running", "fault", "abort"}

\* Entry n has overwritten, or is about to overwrite, word w.
Covers(n, w) == w \in entry[n].addr .. entry[n].addr + Size(n) - 1

\* Two sites are far enough apart for two trampolines.
Spaced == \A a, b \in Sites : a < b => a + MaxTrampoline <= b

\* A word that no entry of the list covers is the original word: whatever
\* DobbyHook and DobbyInstrument wrote, with trampolines of any lengths on
\* top of each other, DobbyDestroy has put back ("destory and restore hook").
NoHookNoPatch ==
    \A w \in Words : (\A n \in live : ~Covers(n, w)) => code[w] = Image[w]

\* Between two calls of Dobby every hooked address holds the whole
\* trampoline of its newest entry, so that entry is the one that gets
\* control, after DobbyDestroy as much as after DobbyHook.
NewestHasControl ==
    op = Idle => \A a \in Sites, n \in Entries :
        Finds(a, n) => \A k \in 1 .. Size(n) : code[a + k - 1] = entry[n].tramp[k]

\* The page of a word.
Page(w) == w \div PageWords

\* A trampoline that reaches into the next page, which CodePatch has not made
\* writable, ends the process in the middle of Commit: its words in the first
\* page are written, those behind it are what was there before.  Restoring the
\* code faults never, in whatever order entries of other lengths came and went.
FaultsAtPageEnd ==
    fate = "fault" /\ op # Idle =>
        LET e == entry[op.n]
            Across(k) == Page(e.addr + k - 1) # Page(e.addr)
        IN  /\ op.pc = "commit"
            /\ Across(Size(op.n))
            /\ \A k \in 1 .. Size(op.n) :
                    code[e.addr + k - 1] = IF Across(k) THEN e.saved[k] ELSE e.tramp[k]
===========================================================================
