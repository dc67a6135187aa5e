--------------------------- MODULE MCHookThreads ---------------------------
EXTENDS HookThreads

MCImage == [w \in Words |-> Insn("other", At(w))]

\* What the theorem about EveryCallCompletes asks for.
ASSUME ThreadsAssumption == Forward /\ AllNear
===========================================================================
