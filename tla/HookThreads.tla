---------------------------- MODULE HookThreads ----------------------------
(***************************************************************************)
(* Threads that run hooked code while another thread hooks and unhooks it. *)
(* A thread calls a site, executes one instruction word at a time and may  *)
(* be suspended anywhere: in the image, in a relocated copy, in a closure  *)
(* trampoline or inside a replacement that has not yet called the original *)
(* function.                                                               *)
(***************************************************************************)
EXTENDS HookCalls

CONSTANTS Threads, MaxCalls

VARIABLES
    thread,   \* the machine state of each thread
    from,     \* the site it has called
    calls     \* calls made so far, all threads together

allVars == <<vars, thread, from, calls>>

Resting == [at |-> At(CodeWords), x17 |-> NoAddr, seen |-> <<>>]

ThreadsInit ==
    /\ Init
    /\ thread = [t \in Threads |-> Resting]
    /\ from = [t \in Threads |-> CodeWords]
    /\ calls = 0

\* A thread calls the function at a site.
CallSite(t, a) ==
    /\ fate = "running"
    /\ calls < MaxCalls
    /\ Stopped(thread[t])
    /\ thread' = [thread EXCEPT ![t] = [Resting EXCEPT !.at = At(a)]]
    /\ from' = [from EXCEPT ![t] = a]
    /\ calls' = calls + 1
    /\ UNCHANGED vars

\* It executes one instruction.
RunOne(t) ==
    /\ fate = "running"
    /\ ~Stopped(thread[t])
    /\ thread' = [thread EXCEPT ![t] = Step(@)]
    /\ UNCHANGED <<vars, from, calls>>

ThreadsNext ==
    \/ Next /\ UNCHANGED <<thread, from, calls>>
    \/ \E t \in Threads, a \in Sites : CallSite(t, a)
    \/ \E t \in Threads : RunOne(t)

ThreadsSpec == ThreadsInit /\ [][ThreadsNext]_allVars

---------------------------------------------------------------------------

\* Every trampoline is a near one: the plugin is enabled and finds memory.
AllNear == NearAtStart /\ ~Toggle /\ "near" \notin Failures

\* A call of a hooked function runs the whole original function, every
\* instruction once and in order, whatever DobbyHook, DobbyInstrument and
\* DobbyDestroy do while the call is under way: no instruction is skipped or
\* run twice, and no thread ends up where there is no code.
EveryCallCompletes ==
    \A t \in Threads : Stopped(thread[t]) =>
        /\ thread[t].at = At(CodeWords)
        /\ OriginalsIn(thread[t].seen) = Originals(from[t])
===========================================================================
