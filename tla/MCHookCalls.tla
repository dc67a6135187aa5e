---------------------------- MODULE MCHookCalls ----------------------------
EXTENDS HookCalls

\* Code with a branch from the first site over a word to the second one, and
\* a literal load that cannot be relocated in the fourth word of the third.
JumpImage ==
    [w \in Words |-> CASE w = 3 -> Insn("b", At(5))
                      [] w = 12 -> Insn("ldrsw", At(w))
                      [] OTHER -> Insn("other", At(w))]

\* What CallsRunHooks and OriginCallsWork suppose.
ASSUME CallsAssumption == Spaced /\ Forward /\ NoBranchInside /\ ~Reuse
===========================================================================
