---------------------------- MODULE WorkerTurns ----------------------------
(***************************************************************************)
(* What the baton of threads-lib.cpp promises: the POSIX workers of all    *)
(* sessions take turns.  A turn belongs to one worker from its creation to *)
(* its unlock, a session hands its turns to its workers in the order of    *)
(* their index, and a turn that is never given back is the last one.       *)
(***************************************************************************)
EXTENDS Naturals

CONSTANTS Sessions, MaxThreads

VARIABLES
    running,  \* the workers whose turn it is: at most one
    started,  \* the indices of the workers each session has started
    lost      \* a turn was not given back

turnVars == <<running, started, lost>>

Init ==
    /\ running = {}
    /\ started = [s \in Sessions |-> {}]
    /\ lost = FALSE

Begin(s, i) ==
    /\ running = {}
    /\ ~lost
    /\ started[s] = 0 .. i - 1
    /\ running' = {<<s, i>>}
    /\ started' = [started EXCEPT ![s] = 0 .. i]
    /\ UNCHANGED lost

End ==
    /\ running # {}
    /\ running' = {}
    /\ UNCHANGED <<started, lost>>

Lose ==
    /\ ~lost
    /\ lost' = TRUE
    /\ running' = {}
    /\ UNCHANGED started

Next ==
    \/ \E s \in Sessions, i \in 0 .. MaxThreads - 1 : Begin(s, i)
    \/ End
    \/ Lose

Spec == Init /\ [][Next]_turnVars
=============================================================================
