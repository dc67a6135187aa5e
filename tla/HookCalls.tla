----------------------------- MODULE HookCalls -----------------------------
(***************************************************************************)
(* What a thread that calls hooked code runs.  Walk executes the words of  *)
(* the image, the relocated copies, the closure trampolines and the        *)
(* replacement functions, each of which is taken to call the original      *)
(* function through its origin_call pointer.  Expected says what should    *)
(* have run: at every address its hooks, newest first, then the original   *)
(* instruction.                                                            *)
(***************************************************************************)
EXTENDS HookEngine

\* Every word of the image is executed at most once, and a hook adds at most
\* Cost steps: its trampoline, its target and the jumps of its relocated code.
Cost == MaxTrampoline + 4
Fuel == CodeWords + MaxHooks * Cost

\* The 64-bit word at an address of the image, read at run time.
Literal(at) ==
    IF /\ at[1] = "code" /\ at[2] + 1 \in Words
       /\ code[at[2]].op = "low" /\ code[at[2] + 1].op = "high"
       /\ code[at[2]].to = code[at[2] + 1].to
    THEN code[at[2]].to
    ELSE NoAddr

\* A state of the machine is where it is, x17, and what it has run so far.
\* This is what instruction i, followed in memory by the one at next, makes
\* of state m.
Execute(m, i, next) ==
    CASE i.op \in {"other"} \cup Unimplemented -> [m EXCEPT !.seen = Append(@, i.to), !.at = next]
      [] i.op = "b" -> [m EXCEPT !.at = i.to]
      [] i.op = "adrp17" -> [m EXCEPT !.x17 = <<"page", i.to>>, !.at = next]
      [] i.op = "add17" -> [m EXCEPT !.at = next,
                                !.x17 = IF @ = <<"page", i.to>> THEN i.to ELSE NoAddr]
      [] i.op = "ldr17" -> [m EXCEPT !.x17 = Literal(i.to), !.at = next]
      [] i.op = "set17" -> [m EXCEPT !.x17 = i.to, !.at = next]
      [] i.op = "load17" -> [m EXCEPT !.x17 = Literal(@), !.at = next]
      [] i.op = "br17" -> [m EXCEPT !.at = m.x17]
      [] OTHER -> [m EXCEPT !.at = NoAddr]

Relocated(n) == <<"relocated", n, 1, 1>>

\* The word after word j of element k of the relocated copy of entry n.
Following(n, k, j) ==
    IF j < Len(entry[n].relocated[k]) THEN <<"relocated", n, k, j + 1>>
    ELSE <<"relocated", n, k + 1, 1>>

\* The thread stops beyond the image, and where it would run no code.
Stopped(m) == m.at[1] \in {"none", "page"} \/ (m.at[1] = "code" /\ m.at[2] \notin Words)

Step(m) ==
    CASE Stopped(m) -> m
      [] m.at[1] = "code" /\ m.at[2] \in Words ->
            Execute(m, code[m.at[2]], At(m.at[2] + 1))
      [] m.at[1] = "relocated" ->
            Execute(m, entry[m.at[2]].relocated[m.at[3]][m.at[4]],
                    Following(m.at[2], m.at[3], m.at[4]))
      [] m.at[1] = "call" ->
            [m EXCEPT !.seen = Append(@, m.at),
                      !.at = IF origin[m.at[2]][m.at[3]] = 0 THEN NoAddr
                             ELSE Relocated(origin[m.at[2]][m.at[3]])]
      [] m.at[1] = "closure" ->
            [m EXCEPT !.seen = Append(@, m.at), !.at = Relocated(m.at[2])]

\* Everything that runs from an address; <<"lost">> ends a walk that leaves
\* the code it should run or never gets out of the hooks.
Walk(start) ==
    LET run[i \in 0 .. Fuel] ==
            IF i = 0 THEN [at |-> start, x17 |-> NoAddr, seen |-> <<>>]
            ELSE Step(run[i - 1])
        last == run[Fuel]
    IN  IF last.at = At(CodeWords) THEN last.seen ELSE Append(last.seen, <<"lost">>)

\* The entries whose trampoline has been written and not been removed.
Installed ==
    {n \in live : ~(op.n = n /\ \/ op.pc = "origin"
                                \/ op.pc = "commit" /\ op.i < Size(n)
                                \/ op.pc = "restore" /\ op.i = Size(n))}

\* The targets of the entries for a word up to entry n, newest first.
HooksBelow(w, n) ==
    LET below[k \in 0 .. n] ==
            IF k = 0 THEN <<>>
            ELSE IF k \in Installed /\ entry[k].addr = w THEN <<entry[k].target>> \o below[k - 1]
            ELSE below[k - 1]
    IN  below[n]

HooksAt(w) == HooksBelow(w, made)

\* What should run from each word on.
Expected(start) ==
    LET from[w \in 0 .. CodeWords] ==
            IF w = CodeWords THEN <<>>
            ELSE HooksAt(w) \o (IF Image[w].op = "b" THEN from[Image[w].to[2]]
                                ELSE <<Image[w].to>> \o from[w + 1])
    IN  from[start]

\* The original instructions from a word on, without any hook.
Originals(start) ==
    LET from[w \in 0 .. CodeWords] ==
            IF w = CodeWords THEN <<>>
            ELSE IF Image[w].op = "b" THEN from[Image[w].to[2]]
            ELSE <<Image[w].to>> \o from[w + 1]
    IN  from[start]

\* The instructions of the function among what a thread has run, and where
\* it got lost.
OriginalsIn(seen) ==
    LET ran[i \in 0 .. Len(seen)] ==
            IF i = 0 THEN <<>>
            ELSE IF seen[i][1] \in {"code", "lost"} THEN Append(ran[i - 1], seen[i])
            ELSE ran[i - 1]
    IN  ran[Len(seen)]

\* The code has no loops: branches go forward.
Forward ==
    \A w \in Words :
        \/ Image[w].op \in {"other"} \cup Unimplemented /\ Image[w].to[1] = "code"
        \/ Image[w].op = "b" /\ \E u \in w + 1 .. CodeWords : Image[w].to = At(u)

\* No branch of the code leads into the words behind a site that a
\* trampoline may overwrite.
NoBranchInside ==
    \A w \in Words, a \in Sites :
        Image[w].op = "b" => Image[w].to[2] \notin a + 1 .. a + MaxTrampoline - 1

\* The hooks of every address have trampolines of one length, and more than
\* one of them only if they do not read their target from their own words.
Even ==
    \A m, n \in 1 .. made :
        m < n /\ entry[m].addr = entry[n].addr => Size(m) = Size(n) /\ Size(n) < MaxTrampoline

\* No patch is half done.
Whole == op.pc \in {"idle", "origin"} \/ op.i \in {0, Size(op.n)}

---------------------------------------------------------------------------
(* Properties                                                              *)

\* A thread that calls a hooked address runs the hooks of the address,
\* newest first, and then the original code with the hooks of the addresses
\* on its way, each exactly once: at every moment between two patched words
\* at which no patch is half done, also inside DobbyHook and DobbyDestroy, as
\* long as the hooks are Even.
\* It needs origin_call to be set before Commit, the relocated code to be
\* that of the code it replaces, and DobbyDestroy to put back what was there.
CallsRunHooksThenOriginal ==
    (fate = "running" /\ Whole /\ Even) => \A a \in Sites : Walk(At(a)) = Expected(a)

\* The relocated code of every entry, also of one that has been destroyed
\* and whose replacement is still running, executes all of the original
\* function (origin_call stays good: nothing is freed).
OriginCallStaysGood ==
    (fate = "running" /\ Whole /\ Even) => \A n \in 1 .. made :
        OriginalsIn(Walk(Relocated(n))) = Originals(entry[n].addr)
===========================================================================
