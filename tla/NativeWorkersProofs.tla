------------------------ MODULE NativeWorkersProofs ------------------------
(***************************************************************************)
(* Proofs about NativeWorkers, for every number of activities, sessions,   *)
(* threads and iterations and every set of failing calls.                  *)
(***************************************************************************)
EXTENDS NativeWorkers, TLAPS

\* The loop counters are inside their loops and nativeInit knows its activity:
\* without this the steps that use them would leave the types.
LoopBounds ==
    /\ ui.pc = "initRef" => ui.act \in Activities
    /\ \A s \in Sessions :
          /\ cpc[s] \in {"idle", "start"} => ci[s] = 0
          /\ cpc[s] \in {"lock", "create", "join", "report"}
                => ci[s] < args[s].threads
    /\ \A w \in Workers : wpc[w] = "loop" => wleft[w] > 0

TypeInv == TypeOK /\ LoopBounds

\* Indices and bounds.
LEMMA IdsFacts ==
    /\ Ids \subseteq Nat
    /\ 0 \in Ids
    /\ \A n \in 1 .. MaxThreads, i \in 0 .. MaxThreads :
          i < n => i \in Ids /\ i + 1 \in 0 .. MaxThreads
BY BoundsAssumption DEF Ids

LEMMA InitType == Init => TypeInv
<1> SUFFICES ASSUME Init PROVE TypeInv
  OBVIOUS
<1>1. args \in [Sessions -> ArgsType]
  BY BoundsAssumption, IdsFacts DEF Init, ArgsType
<1>2. wid \in [Workers -> Ids]
  BY IdsFacts DEF Init
<1>3. ui \in UiStates
  BY Zenon DEF Init, UiStates
<1>4. wleft \in [Workers -> 0 .. MaxIterations] /\ ci \in [Sessions -> 0 .. MaxThreads]
  BY BoundsAssumption DEF Init
<1>5. jleft \in [Workers -> 0 .. MaxIterations]
  BY BoundsAssumption DEF Init
<1>6. /\ exc \in [Sessions -> BOOLEAN]
      /\ wexc \in [Workers -> BOOLEAN]
      /\ cpc \in [Sessions -> CoordStates]
      /\ wpc \in [Workers -> WorkerStates]
  BY DEF Init, CoordStates, WorkerStates
<1>7. TypeOK
  BY <1>1, <1>2, <1>3, <1>4, <1>5, <1>6 DEF Init, TypeOK, Fates
<1>8. LoopBounds
  BY DEF Init, LoopBounds
<1> QED
  BY <1>7, <1>8 DEF TypeInv

\* The UI thread's steps keep the types.
LEMMA UiType == TypeInv /\ UiNext => TypeInv'
<1> SUFFICES ASSUME TypeInv, UiNext PROVE TypeInv'
  OBVIOUS
<1> USE DEF TypeInv, TypeOK, LoopBounds, uiVars, jniVars, coordVars, workerVars
<1>1. ASSUME NEW a \in Activities, NativeInitMutex(a) PROVE TypeInv'
  <2>1. rearmed' \in BOOLEAN
    BY <1>1, Zenon DEF NativeInitMutex, Die
  <2>2. life' \in [Activities -> {"none", "live", "gone"}]
    BY <1>1 DEF NativeInitMutex, Die
  <2>3. ui' \in UiStates
    <3>1. CASE ui' = [pc |-> "initRef", act |-> a, exc |-> FALSE]
      BY <3>1 DEF UiStates
    <3>2. CASE ui' = ui
      BY <3>2
    <3> QED
      BY <1>1, <3>1, <3>2 DEF NativeInitMutex, Die
  <2>4. mutex' \in {"unlocked", "locked", "destroyed"} /\ fate' \in Fates
    BY <1>1 DEF NativeInitMutex, Die, Fates
  <2> QED
    BY <1>1, <2>1, <2>2, <2>3, <2>4 DEF NativeInitMutex, Die
<1>2. ASSUME NEW a \in Activities, NativeFreeMutex(a) PROVE TypeInv'
  BY <1>2 DEF NativeFreeMutex, UiIdle, UiStates
<1>3. CASE NativeInitRef
  <2>1. gObj' \in Activities \cup {NoRef} /\ refs' \in SUBSET Activities
    BY <1>3 DEF NativeInitRef, UiStates
  <2>2. method' \in BOOLEAN
    BY <1>3 DEF NativeInitRef
  <2>3. ui' \in UiStates /\ fate' \in Fates
    BY <1>3 DEF NativeInitRef, UiStates, Fates
  <2> QED
    BY <1>3, <2>1, <2>2, <2>3 DEF NativeInitRef
<1>4. CASE NativeFreeRef
  <2>1. ui' \in UiStates /\ ui'.pc # "initRef"
    BY <1>4 DEF NativeFreeRef, ReturnFromFree, UiStates
  <2>2. fate' \in Fates /\ refs' \in SUBSET Activities
    BY <1>4 DEF NativeFreeRef, ReturnFromFree, Fates
  <2> QED
    BY <1>4, <2>1, <2>2 DEF NativeFreeRef
<1>5. CASE NativeFreeClear
  BY <1>5 DEF NativeFreeClear, ReturnFromFree, UiStates, Fates
<1>6. ASSUME NEW a \in Activities, NEW s \in Sessions,
             NEW n \in 1 .. MaxThreads, NEW k \in 1 .. MaxIterations,
             OnClick(a, s, n, k)
      PROVE  TypeInv'
  <2>1. args' \in [Sessions -> ArgsType]
    <3>1. args \in [Sessions -> ArgsType]
      OBVIOUS
    <3>2. args' = [args EXCEPT ![s].threads = n, ![s].iterations = k]
      BY <1>6 DEF OnClick
    <3> HIDE DEF TypeInv, TypeOK, LoopBounds
    <3> QED
      BY <3>1, <3>2 DEF ArgsType
  <2>2. jleft' \in [Workers -> 0 .. MaxIterations]
    BY <1>6, BoundsAssumption DEF OnClick
  <2>3. cpc' \in [Sessions -> CoordStates] /\ fate' \in Fates
    BY <1>6 DEF OnClick, CoordStates, Fates
  <2>4. heap' \in [Sessions -> {"none", "live", "deleted"}]
    BY <1>6 DEF OnClick
  <2>5. TypeOK'
    BY <1>6, <2>1, <2>2, <2>3, <2>4 DEF OnClick
  <2>6. LoopBounds'
    BY <1>6, <2>5 DEF OnClick
  <2> QED
    BY <2>5, <2>6
<1> QED
  BY <1>1, <1>2, <1>3, <1>4, <1>5, <1>6 DEF UiNext

\* A coordinator's steps keep the types.
LEMMA CoordType ==
    ASSUME TypeInv, NEW s \in Sessions, CoordNext(s) PROVE TypeInv'
<1> USE DEF TypeInv, TypeOK, LoopBounds, uiVars, jniVars, coordVars, workerVars,
            CoordGoes, CoordStates
<1>1. CASE CoordAttach(s)
  BY <1>1 DEF CoordAttach, ArgsType
<1>2. CASE CoordLock(s)
  BY <1>2 DEF CoordLock
<1>3. CASE CoordLockDestroyed(s)
  BY <1>3 DEF CoordLockDestroyed, Fates
<1>4. CASE CoordCreate(s)
  <2> DEFINE i == ci[s]
  <2>1. i \in Ids /\ i + 1 \in 0 .. MaxThreads /\ <<s, i>> \in Workers
    BY <1>4, IdsFacts DEF CoordCreate, Workers, ArgsType
  <2>2. args' = [args EXCEPT ![s].id = i]
    BY <1>4 DEF CoordCreate
  <2>3. args' \in [Sessions -> ArgsType]
    BY <2>1, <2>2 DEF ArgsType
  <2>4. \A t \in Sessions : args'[t].threads = args[t].threads
    BY <2>2 DEF ArgsType
  <2>5. ci' \in [Sessions -> 0 .. MaxThreads]
    BY <1>4, <2>1, BoundsAssumption DEF CoordCreate
  <2>6. wpc' \in [Workers -> WorkerStates]
    BY <1>4, <2>1 DEF CoordCreate, WorkerStates
  <2>7. TypeOK'
    BY <1>4, <2>3, <2>5, <2>6 DEF CoordCreate
  <2>8. ASSUME NEW t \in Sessions,
               cpc'[t] \in {"lock", "create", "join", "report"}
        PROVE  ci'[t] < args'[t].threads
    <3>1. args[t].threads \in 1 .. MaxThreads /\ ci[t] \in 0 .. MaxThreads
      BY DEF ArgsType
    <3>2. CASE t = s
      <4>1. ci[s] < args[s].threads
        BY <1>4 DEF CoordCreate
      <4>2. cpc'[s] # "exit"
        BY <2>8, <3>2
      <4>3. ci'[s] = IF ci[s] + 1 = args[s].threads THEN 0 ELSE ci[s] + 1
        BY <1>4, <4>2 DEF CoordCreate
      <4> HIDE DEF TypeInv, TypeOK, LoopBounds
      <4> QED
        BY <2>4, <3>1, <3>2, <4>1, <4>3
    <3>3. CASE t # s
      BY <1>4, <2>4, <2>8, <3>3 DEF CoordCreate
    <3> QED
      BY <3>2, <3>3
  <2>9. \A t \in Sessions : cpc'[t] \in {"idle", "start"} => ci'[t] = 0
    BY <1>4 DEF CoordCreate
  <2>10. LoopBounds'
    BY <1>4, <2>8, <2>9 DEF CoordCreate
  <2> QED
    BY <2>7, <2>10
<1>5. CASE CoordJoin(s)
  <2>1. ci[s] + 1 \in 0 .. MaxThreads
    BY <1>5, IdsFacts DEF CoordJoin, ArgsType
  <2>2. \/ UNCHANGED ci
        \/ ci' = [ci EXCEPT ![s] = ci[s] + 1]
    BY <1>5 DEF CoordJoin, NextJoin
  <2>3. ci' \in [Sessions -> 0 .. MaxThreads]
    BY <2>1, <2>2
  <2>4. \/ UNCHANGED cpc
        \/ \E to \in {"report", "exit", "join"} : cpc' = [cpc EXCEPT ![s] = to]
    BY <1>5 DEF CoordJoin, NextJoin
  <2>5. exc' \in [Sessions -> BOOLEAN]
    BY <1>5 DEF CoordJoin
  <2>6. TypeOK'
    BY <1>5, <2>3, <2>4, <2>5 DEF CoordJoin
  <2>7. ASSUME NEW t \in Sessions,
               cpc'[t] \in {"lock", "create", "join", "report"}
        PROVE  ci'[t] < args'[t].threads
    <3>1. args[t].threads \in 1 .. MaxThreads /\ ci[t] \in 0 .. MaxThreads
      BY DEF ArgsType
    <3>2. ci[s] < args[s].threads /\ args' = args
      BY <1>5 DEF CoordJoin
    <3>3. \/ ci' = ci
          \/ ci[s] + 1 # args[s].threads /\ ci' = [ci EXCEPT ![s] = ci[s] + 1]
      BY <1>5 DEF CoordJoin, NextJoin
    <3>4. t # s => cpc[t] = cpc'[t]
      BY <1>5 DEF CoordJoin, NextJoin
    <3>5. ci[t] < args[t].threads
      BY <2>7, <3>2, <3>4
    <3>6. CASE t = s
      <4>1. \/ ci'[s] = ci[s]
            \/ ci'[s] = ci[s] + 1 /\ ci[s] + 1 # args[s].threads
        BY <3>3
      <4> HIDE DEF TypeInv, TypeOK, LoopBounds
      <4> QED
        BY <3>1, <3>2, <3>6, <4>1
    <3>7. CASE t # s
      BY <3>2, <3>3, <3>5, <3>7
    <3> QED
      BY <3>6, <3>7
  <2>8. \A t \in Sessions : cpc'[t] \in {"idle", "start"} => ci'[t] = 0
    BY <1>5 DEF CoordJoin, NextJoin
  <2>9. LoopBounds'
    BY <1>5, <2>7, <2>8 DEF CoordJoin
  <2> QED
    BY <2>6, <2>9
<1>6. CASE CoordReport(s)
  <2>1. ci[s] + 1 \in 0 .. MaxThreads
    BY <1>6, IdsFacts DEF CoordReport, ArgsType
  <2>2. \/ UNCHANGED ci
        \/ ci' = [ci EXCEPT ![s] = ci[s] + 1]
    BY <1>6 DEF CoordReport, NextJoin
  <2>3. ci' \in [Sessions -> 0 .. MaxThreads]
    BY <2>1, <2>2
  <2>4. \/ UNCHANGED cpc
        \/ \E to \in {"report", "exit", "join"} : cpc' = [cpc EXCEPT ![s] = to]
    BY <1>6 DEF CoordReport, NextJoin
  <2>5. exc' \in [Sessions -> BOOLEAN] /\ fate' \in Fates
    BY <1>6 DEF CoordReport, Fates
  <2>6. TypeOK'
    BY <1>6, <2>3, <2>4, <2>5 DEF CoordReport
  <2>7. ASSUME NEW t \in Sessions,
               cpc'[t] \in {"lock", "create", "join", "report"}
        PROVE  ci'[t] < args'[t].threads
    <3>1. args[t].threads \in 1 .. MaxThreads /\ ci[t] \in 0 .. MaxThreads
      BY DEF ArgsType
    <3>2. ci[s] < args[s].threads /\ args' = args
      BY <1>6 DEF CoordReport
    <3>3. \/ ci' = ci
          \/ ci[s] + 1 # args[s].threads /\ ci' = [ci EXCEPT ![s] = ci[s] + 1]
      BY <1>6 DEF CoordReport, NextJoin
    <3>4. t # s => cpc[t] = cpc'[t]
      BY <1>6 DEF CoordReport, NextJoin
    <3>5. ci[t] < args[t].threads
      BY <2>7, <3>2, <3>4
    <3>6. CASE t = s
      <4>1. \/ ci'[s] = ci[s]
            \/ ci'[s] = ci[s] + 1 /\ ci[s] + 1 # args[s].threads
        BY <3>3
      <4> HIDE DEF TypeInv, TypeOK, LoopBounds
      <4> QED
        BY <3>1, <3>2, <3>6, <4>1
    <3>7. CASE t # s
      BY <3>2, <3>3, <3>5, <3>7
    <3> QED
      BY <3>6, <3>7
  <2>8. \A t \in Sessions : cpc'[t] \in {"idle", "start"} => ci'[t] = 0
    BY <1>6 DEF CoordReport, NextJoin
  <2>9. LoopBounds'
    BY <1>6, <2>7, <2>8 DEF CoordReport
  <2> QED
    BY <2>6, <2>9
<1>7. CASE CoordExit(s)
  BY <1>7 DEF CoordExit
<1>8. CASE CoordDetach(s)
  BY <1>8 DEF CoordDetach, Fates
<1> QED
  BY <1>1, <1>2, <1>3, <1>4, <1>5, <1>6, <1>7, <1>8 DEF CoordNext

\* The steps of a POSIX worker and of a Java worker keep the types.
LEMMA WorkerType ==
    ASSUME TypeInv, NEW w \in Workers, WorkerNext(w) \/ JavaIterate(w)
    PROVE  TypeInv'
<1> USE DEF TypeInv, TypeOK, LoopBounds, uiVars, jniVars, coordVars, workerVars,
            WorkerGoes, WorkerStates
<1>1. CASE WorkerAttach(w)
  BY <1>1 DEF WorkerAttach
<1>2. CASE WorkerRead(w)
  <2>1. w[1] \in Sessions
    BY DEF Workers
  <2>2. /\ args[w[1]].id \in Ids
        /\ args[w[1]].iterations \in 0 .. MaxIterations
        /\ args[w[1]].iterations > 0
    BY <2>1, BoundsAssumption DEF ArgsType
  <2> QED
    BY <1>2, <2>2 DEF WorkerRead, Fates
<1>3. CASE WorkerIterate(w)
  <2>1. wleft' \in [Workers -> 0 .. MaxIterations]
    BY <1>3, BoundsAssumption DEF WorkerIterate
  <2>2. wpc' \in [Workers -> WorkerStates] /\ wexc' \in [Workers -> BOOLEAN]
    BY <1>3 DEF WorkerIterate
  <2>3. TypeOK'
    BY <1>3, <2>1, <2>2 DEF WorkerIterate, Fates
  <2>4. LoopBounds'
    BY <1>3, <2>1 DEF WorkerIterate
  <2> QED
    BY <2>3, <2>4
<1>4. CASE WorkerUnlock(w)
  BY <1>4 DEF WorkerUnlock, Fates
<1>5. CASE WorkerDetach(w)
  BY <1>5 DEF WorkerDetach, Fates
<1>6. CASE JavaIterate(w)
  BY <1>6, BoundsAssumption DEF JavaIterate, Fates
<1> QED
  BY <1>1, <1>2, <1>3, <1>4, <1>5, <1>6 DEF WorkerNext

LEMMA NextType == TypeInv /\ [Next]_vars => TypeInv'
<1> SUFFICES ASSUME TypeInv, [Next]_vars PROVE TypeInv'
  OBVIOUS
<1>1. CASE UNCHANGED vars
  BY <1>1 DEF vars, uiVars, jniVars, coordVars, workerVars, TypeInv, TypeOK,
              LoopBounds
<1>2. CASE Next
  BY <1>2, UiType, CoordType, WorkerType DEF Next
<1> QED
  BY <1>1, <1>2

\* Every variable keeps its type: in particular the loop counters of the
\* coordinator and of the workers never leave their ranges.
THEOREM TypeCorrect == Spec => []TypeOK
<1>1. TypeInv => TypeOK
  BY DEF TypeInv
<1> QED
  BY <1>1, InitType, NextType, PTL DEF Spec

-----------------------------------------------------------------------------
(* The baton.                                                              *)

\* A step that leaves the baton's state alone keeps Baton.
LEMMA BatonFrame ==
    ASSUME Baton, UNCHANGED <<cpc, wpc, mutex, leaked, rearmed>>
    PROVE  Baton'
BY DEF Baton

LEMMA UiBaton == TypeInv /\ Baton /\ UiNext => Baton'
<1> SUFFICES ASSUME TypeInv, Baton, UiNext PROVE Baton'
  OBVIOUS
<1> USE DEF uiVars, jniVars, coordVars, workerVars
<1>1. ASSUME NEW a \in Activities, NativeInitMutex(a) PROVE Baton'
  <2>1. CASE Die("uncaught")
    BY <2>1, BatonFrame DEF Die
  <2>2. CASE rearmed' = (rearmed \/ mutex = "locked")
    <3>1. ~rearmed' => ~rearmed /\ mutex # "locked"
      BY <2>2, Zenon
    <3>2. UNCHANGED <<cpc, wpc, leaked>>
      BY <1>1 DEF NativeInitMutex, Die
    <3> QED
      BY <3>1, <3>2 DEF Baton
  <2> QED
    BY <1>1, <2>1, <2>2 DEF NativeInitMutex
<1>2. ASSUME NEW a \in Activities, NativeFreeMutex(a) PROVE Baton'
  BY <1>2 DEF NativeFreeMutex, Baton
<1>3. CASE NativeInitRef \/ NativeFreeRef \/ NativeFreeClear
  BY <1>3, BatonFrame DEF NativeInitRef, NativeFreeRef, NativeFreeClear
<1>4. ASSUME NEW a \in Activities, NEW s \in Sessions,
             NEW n \in 1 .. MaxThreads, NEW k \in 1 .. MaxIterations,
             OnClick(a, s, n, k)
      PROVE  Baton'
  <2>1. cpc \in [Sessions -> CoordStates]
    BY DEF TypeInv, TypeOK
  <2> QED
    BY <1>4, <2>1 DEF OnClick, Baton
<1> QED
  BY <1>1, <1>2, <1>3, <1>4 DEF UiNext

LEMMA CoordBaton ==
    ASSUME TypeInv, Baton, NEW s \in Sessions, CoordNext(s) PROVE Baton'
<1> USE DEF uiVars, jniVars, coordVars, workerVars, CoordGoes
<1>0. cpc \in [Sessions -> CoordStates] /\ wpc \in [Workers -> WorkerStates]
  BY DEF TypeInv, TypeOK
<1>1. CASE CoordAttach(s)
  BY <1>0, <1>1 DEF CoordAttach, Baton
<1>2. CASE CoordLock(s)
  BY <1>0, <1>2 DEF CoordLock, Baton
<1>3. CASE CoordLockDestroyed(s)
  BY <1>0, <1>3 DEF CoordLockDestroyed, Baton
<1>4. CASE CoordCreate(s)
  <2>1. <<s, ci[s]>> \in Workers
    BY <1>4, IdsFacts DEF CoordCreate, TypeInv, TypeOK, LoopBounds, ArgsType,
                          Workers
  <2> QED
    BY <1>0, <1>4, <2>1 DEF CoordCreate, Baton, Busy
<1>5. CASE CoordJoin(s) \/ CoordReport(s)
  <2>1. \A t \in Sessions : cpc'[t] = "create" => cpc[t] = "create"
    BY <1>0, <1>5 DEF CoordJoin, CoordReport, NextJoin
  <2>2. UNCHANGED <<wpc, mutex, leaked, rearmed>>
    BY <1>5 DEF CoordJoin, CoordReport
  <2> QED
    BY <2>1, <2>2 DEF Baton
<1>6. CASE CoordExit(s)
  BY <1>0, <1>6 DEF CoordExit, Baton
<1>7. CASE CoordDetach(s)
  BY <1>0, <1>7 DEF CoordDetach, Baton
<1> QED
  BY <1>1, <1>2, <1>3, <1>4, <1>5, <1>6, <1>7 DEF CoordNext

LEMMA WorkerBaton ==
    ASSUME TypeInv, Baton, NEW w \in Workers, WorkerNext(w) \/ JavaIterate(w)
    PROVE  Baton'
<1> USE DEF uiVars, jniVars, coordVars, workerVars, WorkerGoes
<1>0. cpc \in [Sessions -> CoordStates] /\ wpc \in [Workers -> WorkerStates]
  BY DEF TypeInv, TypeOK
<1>1. CASE WorkerAttach(w)
  BY <1>0, <1>1 DEF WorkerAttach, Baton, Busy
<1>2. CASE WorkerRead(w)
  BY <1>0, <1>2 DEF WorkerRead, Baton, Busy
<1>3. CASE WorkerIterate(w)
  BY <1>0, <1>3 DEF WorkerIterate, Baton, Busy
<1>4. CASE WorkerUnlock(w)
  BY <1>0, <1>4 DEF WorkerUnlock, Baton, Busy
<1>5. CASE WorkerDetach(w)
  BY <1>0, <1>5 DEF WorkerDetach, Baton, Busy
<1>6. CASE JavaIterate(w)
  BY <1>6, BatonFrame DEF JavaIterate
<1> QED
  BY <1>1, <1>2, <1>3, <1>4, <1>5, <1>6 DEF WorkerNext

LEMMA NextBaton == TypeInv /\ Baton /\ [Next]_vars => Baton'
<1> SUFFICES ASSUME TypeInv, Baton, [Next]_vars PROVE Baton'
  OBVIOUS
<1>1. CASE UNCHANGED vars
  BY <1>1, BatonFrame DEF vars, coordVars, workerVars
<1>2. CASE Next
  BY <1>2, UiBaton, CoordBaton, WorkerBaton DEF Next
<1> QED
  BY <1>1, <1>2

\* Mutual exclusion: of all coordinators about to create a thread and all
\* POSIX workers, whatever session they belong to, one at most is between the
\* lock and the unlock of the mutex, unless nativeInit ran while it was locked.
THEOREM MutualExclusion == Spec => []Baton
<1>1. Init => Baton
  BY DEF Init, Baton, Busy
<1> QED
  BY <1>1, InitType, NextType, NextBaton, PTL DEF Spec

-----------------------------------------------------------------------------
(* What the workers of a session read.                                     *)

\* The workers of a session that exist are the ones its coordinator has
\* counted.
Created ==
    \A s \in Sessions, i \in Ids :
        /\ cpc[s] \in {"idle", "start"} => wpc[<<s, i>>] = "none"
        /\ cpc[s] \in {"lock", "create"} => (wpc[<<s, i>>] # "none" <=> i < ci[s])
        /\ cpc[s] \in {"join", "report"}
              => (wpc[<<s, i>>] # "none" <=> i < args[s].threads)

\* The arguments live as long as the coordinator has not deleted them.
HeapLive ==
    \A s \in Sessions :
        cpc[s] \in {"start", "lock", "create", "join", "report", "exit"}
            => heap[s] = "live"

\* A coordinator that leaves leaves no worker behind that has still to read
\* the arguments, as long as no join and no callback fails.
NoReaderLeft ==
    ~rearmed /\ ~MayFail("join") /\ ~MayFail("callback") =>
        \A s \in Sessions, i \in Ids :
            /\ cpc[s] \in {"join", "report"} /\ i < ci[s]
                  => wpc[<<s, i>>] = "ended"
            /\ cpc[s] = "report" => wpc[<<s, ci[s]>>] = "ended"
            /\ cpc[s] \in {"exit", "detach", "done"}
                  => wpc[<<s, i>>] \notin {"born", "ready"}

\* No exception is pending in a coordinator that is still in its loops, as
\* long as no join fails.
CleanLoops ==
    ~MayFail("join") =>
        \A s \in Sessions :
            cpc[s] \in {"idle", "start", "lock", "create", "join", "report"}
                => ~exc[s]

\* The inductive invariant.
IInv ==
    /\ TypeInv
    /\ Baton
    /\ CleanLoops
    /\ IdHandOff /\ Created /\ HeapLive /\ NoReaderLeft /\ ArgsOutliveReaders

LEMMA NextCleanLoops == TypeInv /\ CleanLoops /\ [Next]_vars => CleanLoops'
<1> SUFFICES ASSUME TypeInv, CleanLoops, [Next]_vars PROVE CleanLoops'
  OBVIOUS
<1> USE DEF uiVars, jniVars, coordVars, workerVars, CleanLoops, MayFail
<1>0. cpc \in [Sessions -> CoordStates] /\ exc \in [Sessions -> BOOLEAN]
  BY DEF TypeInv, TypeOK
<1>1. CASE UNCHANGED vars
  BY <1>1 DEF vars
<1>2. CASE UiNext
  BY <1>0, <1>2 DEF UiNext, NativeInitMutex, NativeInitRef, NativeFreeMutex,
     NativeFreeRef, NativeFreeClear, Die, OnClick
<1>3. ASSUME NEW s \in Sessions, CoordNext(s) PROVE CleanLoops'
  <2>1. CASE CoordJoin(s) \/ CoordReport(s)
    BY <1>0, <2>1 DEF CoordJoin, CoordReport, NextJoin, CoordGoes
  <2>2. CASE ~(CoordJoin(s) \/ CoordReport(s))
    BY <1>0, <1>3, <2>2 DEF CoordNext, CoordAttach, CoordLock, CoordLockDestroyed,
       CoordCreate, CoordExit, CoordDetach, CoordGoes
  <2> QED
    BY <2>1, <2>2
<1>4. ASSUME NEW w \in Workers, WorkerNext(w) \/ JavaIterate(w)
      PROVE  CleanLoops'
  BY <1>4 DEF WorkerNext, WorkerAttach, WorkerRead, WorkerIterate, WorkerUnlock,
     WorkerDetach, JavaIterate
<1> QED
  BY <1>1, <1>2, <1>3, <1>4 DEF Next

\* The parts of IInv about what the workers of a session read.
Reads == IdHandOff /\ Created /\ HeapLive /\ NoReaderLeft /\ ArgsOutliveReaders

\* The types these proofs need.
LEMMA Shapes ==
    ASSUME TypeInv
    PROVE  /\ cpc \in [Sessions -> CoordStates]
           /\ ci \in [Sessions -> 0 .. MaxThreads]
           /\ heap \in [Sessions -> {"none", "live", "deleted"}]
           /\ wpc \in [Workers -> WorkerStates]
           /\ wid \in [Workers -> Ids]
           /\ \A s \in Sessions : args[s].threads \in 1 .. MaxThreads
           /\ \A w \in Workers : w[1] \in Sessions /\ w[2] \in Ids /\ w = <<w[1], w[2]>>
           /\ \A s \in Sessions, i \in Ids : <<s, i>> \in Workers
BY DEF TypeInv, TypeOK, ArgsType, Workers

\* A step that leaves the sessions and the workers alone keeps Reads, if it
\* does not reach a use after free.
LEMMA ReadsFrame ==
    ASSUME Reads,
           UNCHANGED <<cpc, ci, heap, args, wpc, wid>>,
           rearmed => rearmed',
           fate' = fate \/ fate' # "useAfterFree"
    PROVE  Reads'
BY DEF Reads, IdHandOff, Created, HeapLive, NoReaderLeft, ArgsOutliveReaders

LEMMA UiReads == IInv /\ UiNext => Reads'
<1> SUFFICES ASSUME IInv, UiNext PROVE Reads'
  OBVIOUS
<1> USE DEF uiVars, jniVars, coordVars, workerVars
<1>0. Reads /\ TypeInv
  BY DEF IInv, Reads
<1>1. ASSUME NEW a \in Activities, NativeInitMutex(a) PROVE Reads'
  <2>1. rearmed => rearmed'
    BY <1>1, Zenon DEF NativeInitMutex, Die
  <2> QED
    BY <1>0, <1>1, <2>1, ReadsFrame DEF NativeInitMutex, Die
<1>2. ASSUME NEW a \in Activities, NativeFreeMutex(a) PROVE Reads'
  BY <1>0, <1>2, ReadsFrame DEF NativeFreeMutex
<1>3. CASE NativeInitRef
  BY <1>0, <1>3, ReadsFrame DEF NativeInitRef
<1>4. CASE NativeFreeRef \/ NativeFreeClear
  BY <1>0, <1>4, ReadsFrame DEF NativeFreeRef, NativeFreeClear, ReturnFromFree
<1>5. ASSUME NEW a \in Activities, NEW s \in Sessions,
             NEW n \in 1 .. MaxThreads, NEW k \in 1 .. MaxIterations,
             OnClick(a, s, n, k)
      PROVE  Reads'
  <2>1. \A t \in Sessions : args'[t].id = args[t].id
    BY <1>0, <1>5 DEF OnClick, TypeInv, TypeOK, ArgsType
  <2>2. \A t \in Sessions : t # s => args'[t] = args[t] /\ cpc'[t] = cpc[t]
    BY <1>0, <1>5 DEF OnClick, TypeInv, TypeOK, ArgsType
  <2>3. cpc[s] = "idle" /\ cpc'[s] \in {"idle", "start"}
    BY <1>0, <1>5, Shapes DEF OnClick
  <2>4. UNCHANGED <<ci, wpc, wid, rearmed>>
    BY <1>5 DEF OnClick
  <2>5. IdHandOff'
    BY <1>0, <2>1, <2>4, Shapes DEF Reads, IdHandOff
  <2>6. Created'
    BY <1>0, <2>2, <2>3, <2>4 DEF Reads, Created
  <2>7. HeapLive'
    BY <1>0, <1>5, <2>2, <2>3, Shapes DEF Reads, HeapLive, OnClick
  <2>8. NoReaderLeft'
    BY <1>0, <2>2, <2>3, <2>4 DEF Reads, NoReaderLeft
  <2>9. ArgsOutliveReaders'
    BY <1>0, <1>5 DEF Reads, ArgsOutliveReaders, OnClick
  <2> QED
    BY <2>5, <2>6, <2>7, <2>8, <2>9 DEF Reads
<1> QED
  BY <1>1, <1>2, <1>3, <1>4, <1>5 DEF UiNext

LEMMA CoordReads ==
    ASSUME IInv, NEW s \in Sessions, CoordNext(s) PROVE Reads'
<1> USE DEF uiVars, jniVars, coordVars, workerVars, CoordGoes
<1>0. Reads /\ TypeInv /\ Baton /\ CleanLoops
  BY DEF IInv, Reads
<1>1. CASE CoordAttach(s)
  <2>1. /\ cpc[s] = "start" /\ ci[s] = 0
        /\ cpc'[s] \in {"lock", "exit"}
        /\ \A t \in Sessions : t # s => cpc'[t] = cpc[t]
        /\ UNCHANGED <<ci, args, heap, wpc, wid, rearmed, fate>>
    BY <1>0, <1>1, Shapes DEF CoordAttach, TypeInv, LoopBounds
  <2>2. IdHandOff' /\ HeapLive' /\ ArgsOutliveReaders'
    BY <1>0, <2>1 DEF Reads, IdHandOff, HeapLive, ArgsOutliveReaders
  <2>3. \A i \in Ids : wpc[<<s, i>>] = "none" /\ ~(i < 0)
    <3>1. \A i \in Ids : wpc[<<s, i>>] = "none"
      BY <1>0, <2>1 DEF Reads, Created
    <3>2. \A i \in Ids : ~(i < 0)
      BY IdsFacts
    <3> QED
      BY <3>1, <3>2
  <2>4. Created'
    BY <1>0, <2>1, <2>3 DEF Reads, Created
  <2>5. NoReaderLeft'
    BY <1>0, <2>1, <2>3 DEF Reads, NoReaderLeft
  <2> QED
    BY <2>2, <2>4, <2>5 DEF Reads
<1>2. CASE CoordLock(s)
  BY <1>0, <1>2, Shapes DEF CoordLock, Reads, IdHandOff, Created, HeapLive,
     NoReaderLeft, ArgsOutliveReaders
<1>3. CASE CoordLockDestroyed(s)
  <2>1. ~rearmed => \A w \in Workers : wpc[w] \notin Busy
    BY <1>0, <1>3 DEF CoordLockDestroyed, Baton
  <2> QED
    BY <1>0, <1>3, <2>1, Shapes DEF CoordLockDestroyed, Reads, IdHandOff,
       Created, HeapLive, NoReaderLeft, ArgsOutliveReaders, Busy
<1>4. CASE CoordCreate(s)
  <2> DEFINE i == ci[s]
  <2>1. i \in Ids /\ <<s, i>> \in Workers /\ i < args[s].threads
    BY <1>0, <1>4, IdsFacts DEF CoordCreate, TypeInv, TypeOK, LoopBounds,
                                ArgsType, Workers
  <2>2. ~rearmed => \A w \in Workers : wpc[w] \notin Busy
    BY <1>0, <1>4 DEF CoordCreate, Baton
  <2>3. /\ args'[s].id = i
        /\ args'[s].threads = args[s].threads
        /\ \A t \in Sessions : t # s => args'[t] = args[t]
    BY <1>0, <1>4 DEF CoordCreate, TypeInv, TypeOK, ArgsType
  <2>4. /\ \A t \in Sessions : t # s => cpc'[t] = cpc[t] /\ ci'[t] = ci[t]
        /\ \A w \in Workers : w # <<s, i>> => wpc'[w] = wpc[w]
        /\ cpc[s] = "create"
        /\ \/ /\ cpc'[s] \in {"lock", "join"}
              /\ cpc'[s] = "lock" => ci'[s] = i + 1
              /\ cpc'[s] = "join" => args[s].threads = i + 1 /\ ci'[s] = 0
              /\ wpc'[<<s, i>>] = "born"
           \/ cpc'[s] = "exit" /\ wpc' = wpc
        /\ UNCHANGED <<heap, wid, rearmed, fate>>
    BY <1>0, <1>4, <2>1, Shapes DEF CoordCreate
  <2>5. IdHandOff'
    <3> SUFFICES ASSUME ~rearmed, NEW w \in Workers
                 PROVE  IdHandOff!2!(w)'
      BY <2>4 DEF IdHandOff
    <3>1. CASE w = <<s, i>>
      <4>1. w[1] = s /\ w[2] = i
        BY <3>1
      <4>2. wpc'[w] \notin {"loop", "unlock", "detach"}
        BY <1>0, <2>1, <2>4, <3>1, Shapes DEF Reads, Created
      <4> QED
        BY <2>3, <4>1, <4>2
    <3>2. CASE w # <<s, i>>
      <4>1. wpc'[w] = wpc[w] /\ wid'[w] = wid[w] /\ wpc[w] \notin Busy
        BY <2>2, <2>4, <3>2
      <4> QED
        BY <1>0, <4>1 DEF Reads, IdHandOff, Busy
    <3> QED
      BY <3>1, <3>2
  <2>6. Created'
    <3> SUFFICES ASSUME NEW t \in Sessions, NEW j \in Ids
                 PROVE  Created!(t, j)'
      BY DEF Created
    <3>1. CASE t # s
      BY <1>0, <2>3, <2>4, <3>1, Shapes DEF Reads, Created
    <3>2. CASE t = s
      <4>1. j \in Nat /\ i \in Nat /\ (wpc[<<s, j>>] # "none" <=> j < i)
        BY <1>0, <2>1, <2>4, IdsFacts DEF Reads, Created
      <4>2. CASE cpc'[s] = "exit"
        BY <3>2, <4>2
      <4>3. CASE cpc'[s] \in {"lock", "join"}
        <5>1. wpc'[<<s, j>>] # "none" <=> j < i + 1
          <6>1. CASE j = i
            BY <2>4, <4>1, <4>3, <6>1
          <6>2. CASE j # i
            <7>1. wpc'[<<s, j>>] = wpc[<<s, j>>]
              BY <1>0, <2>4, <6>2, Shapes
            <7> QED
              BY <4>1, <6>2, <7>1
          <6> QED
            BY <6>1, <6>2
        <5> QED
          BY <2>3, <2>4, <3>2, <4>3, <5>1
      <4> QED
        BY <2>4, <4>2, <4>3
    <3> QED
      BY <3>1, <3>2
  <2>7. HeapLive'
    BY <1>0, <2>4 DEF Reads, HeapLive
  <2>8. NoReaderLeft'
    <3>1. cpc'[s] = "join" => \A j \in Ids : ~(j < ci'[s])
      BY <2>4, IdsFacts
    <3>2. ~rearmed /\ cpc'[s] = "exit" =>
             \A j \in Ids : wpc'[<<s, j>>] \notin {"born", "ready"}
      BY <1>0, <2>2, <2>4, Shapes DEF Busy
    <3>3. \A t \in Sessions, j \in Ids :
             t # s => wpc'[<<t, j>>] = wpc[<<t, j>>]
      BY <1>0, <2>4, Shapes
    <3>4. \A t \in Sessions : cpc[t] = "report" => ci[t] \in Ids
      BY <1>0, IdsFacts, Shapes DEF TypeInv, LoopBounds
    <3> SUFFICES ASSUME ~rearmed, ~MayFail("join"), ~MayFail("callback"),
                        NEW t \in Sessions, NEW j \in Ids
                 PROVE  NoReaderLeft!2!(t, j)'
      BY <2>4 DEF NoReaderLeft, MayFail
    <3>5. NoReaderLeft!2!(t, j)
      BY <1>0 DEF Reads, NoReaderLeft
    <3>6. CASE t = s
      BY <2>4, <3>1, <3>2, <3>6
    <3>7. CASE t # s
      BY <2>4, <3>3, <3>4, <3>5, <3>7
    <3> QED
      BY <3>6, <3>7
  <2>9. ArgsOutliveReaders'
    BY <1>0, <2>4 DEF Reads, ArgsOutliveReaders
  <2> QED
    BY <2>5, <2>6, <2>7, <2>8, <2>9 DEF Reads
<1>5. CASE CoordJoin(s)
  <2>1. /\ cpc[s] = "join"
        /\ cpc'[s] \in {"report", "join", "exit"}
        /\ \A t \in Sessions : t # s => cpc'[t] = cpc[t] /\ ci'[t] = ci[t]
        /\ ~MayFail("join") => cpc'[s] = "report" /\ ci' = ci
                                 /\ wpc[<<s, ci[s]>>] = "ended"
        /\ UNCHANGED <<heap, args, wpc, wid, rearmed, fate>>
    BY <1>0, <1>5, Shapes DEF CoordJoin, NextJoin
  <2>2. IdHandOff' /\ HeapLive' /\ ArgsOutliveReaders' /\ Created'
    BY <1>0, <2>1 DEF Reads, IdHandOff, HeapLive, ArgsOutliveReaders, Created
  <2>3. NoReaderLeft'
    BY <1>0, <2>1 DEF Reads, NoReaderLeft, MayFail
  <2> QED
    BY <2>2, <2>3 DEF Reads
<1>6. CASE CoordReport(s)
  <2>1. /\ cpc[s] = "report"
        /\ cpc'[s] \in {"report", "join", "exit"}
        /\ \A t \in Sessions : t # s => cpc'[t] = cpc[t] /\ ci'[t] = ci[t]
        /\ UNCHANGED <<heap, args, wpc, wid, rearmed>>
        /\ fate' = fate \/ fate' # "useAfterFree"
    BY <1>0, <1>6, Shapes DEF CoordReport, NextJoin
  <2>2. IdHandOff' /\ HeapLive' /\ ArgsOutliveReaders' /\ Created'
    BY <1>0, <2>1 DEF Reads, IdHandOff, HeapLive, ArgsOutliveReaders, Created
  <2>3. NoReaderLeft'
    <3> SUFFICES ASSUME ~rearmed, ~MayFail("join"), ~MayFail("callback"),
                        NEW t \in Sessions, NEW j \in Ids
                 PROVE  NoReaderLeft!2!(t, j)'
      BY <2>1 DEF NoReaderLeft, MayFail
    <3>1. NoReaderLeft!2!(t, j)
      BY <1>0 DEF Reads, NoReaderLeft
    <3>2. CASE t # s
      BY <2>1, <3>1, <3>2
    <3>3. CASE t = s
      <4>1. ~exc[s]
        BY <1>0, <2>1 DEF CleanLoops
      <4>2. \/ cpc'[s] = "report" /\ ci'[s] = ci[s]
            \/ cpc'[s] = "exit" /\ ci[s] + 1 = args[s].threads
            \/ cpc'[s] = "join" /\ ci'[s] = ci[s] + 1
        BY <1>0, <1>6, <4>1, Shapes DEF CoordReport, NextJoin
      <4>3. j \in Nat /\ ci[s] \in Nat
        BY <1>0, IdsFacts, Shapes
      <4>4. \/ j < ci[s] /\ wpc[<<s, j>>] = "ended"
            \/ j = ci[s] /\ wpc[<<s, j>>] = "ended"
            \/ j > ci[s]
        BY <2>1, <3>1, <3>3, <4>3
      <4>5. wpc[<<s, j>>] # "none" <=> j < args[s].threads
        BY <1>0, <2>1 DEF Reads, Created
      <4>6. args[s].threads \in Nat
        BY <1>0, Shapes
      <4>7. cpc'[s] = "exit" => wpc[<<s, j>>] \in {"ended", "none"}
        BY <4>2, <4>3, <4>4, <4>5, <4>6
      <4> QED
        BY <2>1, <3>1, <3>3, <4>2, <4>3, <4>4, <4>7
    <3> QED
      BY <3>2, <3>3
  <2> QED
    BY <2>2, <2>3 DEF Reads
<1>7. CASE CoordExit(s)
  <2>1. /\ cpc[s] = "exit" /\ cpc'[s] = "detach"
        /\ \A t \in Sessions : t # s => cpc'[t] = cpc[t] /\ heap'[t] = heap[t]
        /\ UNCHANGED <<ci, args, wpc, wid, rearmed, fate>>
    BY <1>0, <1>7, Shapes DEF CoordExit
  <2> QED
    BY <1>0, <2>1 DEF Reads, IdHandOff, HeapLive, ArgsOutliveReaders, Created,
       NoReaderLeft
<1>8. CASE CoordDetach(s)
  <2>1. /\ cpc[s] = "detach" /\ cpc'[s] = "done"
        /\ \A t \in Sessions : t # s => cpc'[t] = cpc[t]
        /\ UNCHANGED <<ci, args, heap, wpc, wid, rearmed>>
        /\ fate' = fate \/ fate' # "useAfterFree"
    BY <1>0, <1>8, Shapes DEF CoordDetach
  <2> QED
    BY <1>0, <2>1 DEF Reads, IdHandOff, HeapLive, ArgsOutliveReaders, Created,
       NoReaderLeft
<1> QED
  BY <1>1, <1>2, <1>3, <1>4, <1>5, <1>6, <1>7, <1>8 DEF CoordNext

LEMMA WorkerReads ==
    ASSUME IInv, NEW w \in Workers, WorkerNext(w) \/ JavaIterate(w)
    PROVE  Reads'
<1> USE DEF uiVars, jniVars, coordVars, workerVars, WorkerGoes
<1>0. Reads /\ TypeInv /\ Baton
  BY DEF IInv, Reads
<1>1. CASE WorkerRead(w)
  <2> DEFINE s == w[1]
  <2>1. s \in Sessions /\ w[2] \in Ids /\ w = <<s, w[2]>>
    BY <1>0, Shapes
  <2>2. UNCHANGED <<cpc, ci, heap, args, rearmed>>
    BY <1>1 DEF WorkerRead
  <2>3. CASE heap[s] = "live"
    <3>1. /\ wpc[w] = "ready" /\ wpc'[w] = "loop" /\ wid'[w] = args[s].id
          /\ \A v \in Workers : v # w => wpc'[v] = wpc[v] /\ wid'[v] = wid[v]
          /\ UNCHANGED fate
      BY <1>0, <1>1, <2>3, Shapes DEF WorkerRead
    <3>2. IdHandOff'
      BY <1>0, <2>1, <2>2, <3>1 DEF Reads, IdHandOff
    <3>3. \A v \in Workers : /\ wpc'[v] = "none" <=> wpc[v] = "none"
                             /\ wpc'[v] = "ended" <=> wpc[v] = "ended"
                             /\ wpc'[v] \in {"born", "ready"}
                                  => wpc[v] \in {"born", "ready"}
      BY <3>1
    <3>4. \A t \in Sessions : cpc[t] = "report" => ci[t] \in Ids
      BY <1>0, IdsFacts, Shapes DEF TypeInv, LoopBounds
    <3> QED
      BY <1>0, <2>2, <3>1, <3>2, <3>3, <3>4, Shapes
         DEF Reads, HeapLive, ArgsOutliveReaders, Created, NoReaderLeft
  <2>4. CASE heap[s] # "live"
    <3>1. wpc[w] = "ready" /\ UNCHANGED <<wpc, wid>>
      BY <1>1, <2>4 DEF WorkerRead
    <3>2. cpc[s] \notin {"start", "lock", "create", "join", "report", "exit"}
      BY <1>0, <2>1, <2>4 DEF Reads, HeapLive
    <3>3. cpc[s] # "idle"
      BY <1>0, <2>1, <3>1 DEF Reads, Created
    <3>4. cpc[s] \in {"detach", "done"}
      BY <1>0, <2>1, <3>2, <3>3, Shapes DEF CoordStates
    <3>5. ~(~rearmed /\ ~MayFail("join") /\ ~MayFail("callback"))
      BY <1>0, <2>1, <3>1, <3>4 DEF Reads, NoReaderLeft
    <3> QED
      BY <1>0, <2>2, <3>1, <3>5
         DEF Reads, IdHandOff, HeapLive, ArgsOutliveReaders, Created,
             NoReaderLeft, MayFail
  <2> QED
    BY <2>3, <2>4
<1>2. CASE JavaIterate(w)
  BY <1>0, <1>2, ReadsFrame DEF JavaIterate
<1>3. CASE \/ WorkerAttach(w) \/ WorkerIterate(w)
           \/ WorkerUnlock(w) \/ WorkerDetach(w)
  <2>1. /\ wpc[w] \in {"born", "loop", "unlock", "detach"}
        /\ wpc'[w] \in {"born", "loop", "unlock", "detach"}
              \/ wpc'[w] \in {"ready", "ended"}
        /\ wpc'[w] = "ready" => wpc[w] = "born"
        /\ wpc'[w] = "born" => wpc[w] = "born"
        /\ wpc'[w] \in {"loop", "unlock", "detach"} =>
             wpc[w] \in {"loop", "unlock", "detach"}
        /\ \A v \in Workers : v # w => wpc'[v] = wpc[v]
        /\ UNCHANGED <<cpc, ci, heap, args, wid, rearmed>>
        /\ fate' = fate \/ fate' # "useAfterFree"
    BY <1>0, <1>3, Shapes DEF WorkerAttach, WorkerIterate, WorkerUnlock, WorkerDetach
  <2>2. \A v \in Workers : /\ wpc'[v] = "none" <=> wpc[v] = "none"
                           /\ wpc[v] = "ended" => wpc'[v] = "ended"
                           /\ wpc'[v] \in {"born", "ready"}
                                => wpc[v] \in {"born", "ready"}
                           /\ wpc'[v] \in {"loop", "unlock", "detach"}
                                => wpc[v] \in {"loop", "unlock", "detach"}
    BY <2>1
  <2>3. \A t \in Sessions : cpc[t] = "report" => ci[t] \in Ids
    BY <1>0, IdsFacts, Shapes DEF TypeInv, LoopBounds
  <2>4. IdHandOff'
    BY <1>0, <2>1, <2>2 DEF Reads, IdHandOff
  <2>5. Created'
    BY <1>0, <2>1, <2>2, Shapes DEF Reads, Created
  <2>6. HeapLive' /\ ArgsOutliveReaders'
    BY <1>0, <2>1 DEF Reads, HeapLive, ArgsOutliveReaders
  <2>7. NoReaderLeft'
    <3>1. \A t \in Sessions, j \in Ids : <<t, j>> \in Workers
      BY <1>0, Shapes
    <3>2. NoReaderLeft
      BY <1>0 DEF Reads
    <3> QED
      BY <2>1, <2>2, <2>3, <3>1, <3>2 DEF NoReaderLeft
  <2> QED
    BY <2>4, <2>5, <2>6, <2>7 DEF Reads
<1> QED
  BY <1>1, <1>2, <1>3 DEF WorkerNext

LEMMA InitIInv == Init => IInv
<1> SUFFICES ASSUME Init PROVE IInv
  OBVIOUS
<1>1. Baton /\ CleanLoops /\ IdHandOff /\ Created /\ HeapLive /\ NoReaderLeft
        /\ ArgsOutliveReaders
  BY DEF Init, Baton, Busy, CleanLoops, IdHandOff, Created, HeapLive,
         NoReaderLeft, ArgsOutliveReaders, Workers
<1> QED
  BY <1>1, InitType DEF IInv

LEMMA NextIInv == IInv /\ [Next]_vars => IInv'
<1> SUFFICES ASSUME IInv, [Next]_vars PROVE IInv'
  OBVIOUS
<1>1. TypeInv' /\ Baton' /\ CleanLoops'
  BY NextType, NextBaton, NextCleanLoops DEF IInv
<1>2. Reads'
  <2>1. Reads
    BY DEF IInv, Reads
  <2>2. CASE UNCHANGED vars
    BY <2>1, <2>2, ReadsFrame DEF vars, coordVars, workerVars
  <2>3. CASE Next
    BY <2>3, UiReads, CoordReads, WorkerReads DEF Next
  <2> QED
    BY <2>2, <2>3
<1> QED
  BY <1>1, <1>2 DEF IInv, Reads

\* Every POSIX worker reports under its own index although all the workers of
\* a session read it from one shared field.
THEOREM IdsHandedOver == Spec => []IdHandOff
<1>1. IInv => IdHandOff
  BY DEF IInv
<1> QED
  BY <1>1, InitIInv, NextIInv, PTL DEF Spec

\* No worker reads the arguments after the coordinator has deleted them, as
\* long as no join and no callback fails and no relaunch re-initialised the
\* locked mutex.
THEOREM NoReadAfterDelete == Spec => []ArgsOutliveReaders
<1>1. IInv => ArgsOutliveReaders
  BY DEF IInv
<1> QED
  BY <1>1, InitIInv, NextIInv, PTL DEF Spec

-----------------------------------------------------------------------------
(* The callbacks.                                                          *)

Calm ==
    /\ \A a \in Activities : life[a] # "gone"
    /\ ~MayFail("globalRef") /\ ~MayFail("join")

\* Somebody may call back, now or later.
Active ==
    \/ \E s \in Sessions : cpc[s] # "idle"
    \/ \E w \in Workers : wpc[w] # "none" \/ jleft[w] > 0

UiCalm == ui.pc \in {"idle", "initRef"} /\ (ui.pc = "initRef" => ui.act \in Activities)

\* gObj is a global reference that is alive.
RefAlive == gObj # NoRef => gObj \in refs

\* nativeInit returns before the button can be pressed.
ReadyToStart == UiIdle /\ (\E a \in Activities : life[a] = "live") => Callable(gObj)

ActiveCanCall == Active => Callable(gObj)

RefRead == \A w \in Workers : wpc[w] = "loop" => wref[w] = gObj

\* A coordinator with an exception pending has left its loops.
LeavesWithException == \A s \in Sessions : exc[s] => cpc[s] \in {"exit", "detach", "done"}

GoodInv ==
    Calm => /\ fate # "badCall"
            /\ UiCalm /\ RefAlive /\ ReadyToStart /\ ActiveCanCall /\ RefRead
            /\ LeavesWithException

LEMMA InitGood == Init => GoodInv
<1> SUFFICES ASSUME Init PROVE GoodInv
  OBVIOUS
<1>1. UiCalm /\ RefAlive
  BY DEF Init, UiCalm, RefAlive
<1>2. ReadyToStart
  BY DEF Init, ReadyToStart
<1>3. ~Active
  <2>1. \A s \in Sessions : cpc[s] = "idle"
    BY DEF Init
  <2>2. \A w \in Workers : wpc[w] = "none" /\ jleft[w] = 0
    BY DEF Init
  <2> QED
    BY <2>1, <2>2 DEF Active
<1>4. RefRead /\ LeavesWithException
  BY DEF Init, RefRead, LeavesWithException
<1>5. fate # "badCall"
  BY DEF Init
<1> QED
  BY <1>1, <1>2, <1>3, <1>4, <1>5 DEF GoodInv, ActiveCanCall

LEMMA UiGood == TypeInv /\ GoodInv /\ UiNext => GoodInv'
<1> SUFFICES ASSUME TypeInv, GoodInv, UiNext, Calm' PROVE GoodInv'
  BY DEF GoodInv
<1> USE DEF uiVars, jniVars, coordVars, workerVars
<1>0. /\ life \in [Activities -> {"none", "live", "gone"}] /\ refs \subseteq Activities
      /\ NoRef \notin Activities /\ gObj \in Activities \cup {NoRef}
  BY NamesAssumption DEF TypeInv, TypeOK
<1>1. ASSUME NEW a \in Activities, NativeInitMutex(a) PROVE GoodInv'
  <2>1. Calm
    BY <1>0, <1>1 DEF Calm, NativeInitMutex, Die, UiIdle
  <2>2. CASE Die("uncaught")
    <3>1. /\ fate' = "uncaught"
          /\ UNCHANGED <<life, ui, gObj, refs, method, cpc, exc, wpc, wref, jleft>>
      BY <2>2 DEF Die
    <3> QED
      BY <2>1, <3>1 DEF GoodInv, UiCalm, RefAlive, ReadyToStart, UiIdle, ActiveCanCall, Active,
                        Callable, RefRead, LeavesWithException
  <2>3. CASE ui' = [pc |-> "initRef", act |-> a, exc |-> FALSE]
    <3>1. UNCHANGED <<gObj, refs, method, fate, cpc, exc, wpc, wref, jleft>>
      BY <1>1, <2>3 DEF NativeInitMutex, Die, UiIdle
    <3> QED
      BY <2>1, <2>3, <3>1 DEF GoodInv, UiCalm, RefAlive, ReadyToStart, UiIdle, ActiveCanCall, Active,
                        Callable, RefRead, LeavesWithException
  <2> QED
    BY <1>1, <2>2, <2>3 DEF NativeInitMutex
<1>2. ASSUME NEW a \in Activities, NativeFreeMutex(a) PROVE FALSE
  BY <1>0, <1>2 DEF NativeFreeMutex, Calm
<1>3. CASE NativeInitRef
  <2>1. UNCHANGED <<life, cpc, exc, wpc, wref, jleft>> /\ fate = "running" /\ ui.pc = "initRef"
    BY <1>3 DEF NativeInitRef
  <2>2. Calm
    BY <2>1 DEF Calm
  <2>3. ui.act \in Activities /\ RefAlive
    BY <2>1, <2>2 DEF GoodInv, UiCalm
  <2>4. gObj' \in refs'
    BY <1>0, <1>3, <2>2, <2>3 DEF NativeInitRef, Calm, MayFail, RefAlive
  <2>5. gObj # NoRef => gObj' = gObj
    BY <1>3 DEF NativeInitRef
  <2>6. method => method'
    BY <1>3 DEF NativeInitRef
  <2>7. (fate' = "running" /\ method') \/ fate' = "uncaught"
    BY <1>3, <2>1, <2>2 DEF NativeInitRef, Calm, MayFail
  <2>8. ui'.pc = "idle"
    BY <1>3 DEF NativeInitRef, TypeInv, TypeOK, UiStates
  <2>9. Active => Callable(gObj)
    BY <2>2 DEF GoodInv, ActiveCanCall
  <2>10. Active' <=> Active
    BY <2>1 DEF Active
  <2>11. ActiveCanCall'
    BY <2>4, <2>6, <2>9, <2>10 DEF ActiveCanCall, Callable
  <2>12. ReadyToStart'
    BY <2>4, <2>7 DEF ReadyToStart, UiIdle, Callable
  <2>13. RefRead'
    <3> SUFFICES ASSUME NEW w \in Workers, wpc[w] = "loop" PROVE wref[w] = gObj'
      BY <2>1 DEF RefRead
    <3>1. wref[w] = gObj /\ Active
      BY <2>2 DEF GoodInv, RefRead, Active
    <3>2. gObj # NoRef
      BY <1>0, <2>9, <3>1 DEF Callable
    <3> QED
      BY <2>5, <3>1, <3>2
  <2>14. LeavesWithException'
    BY <2>1, <2>2 DEF GoodInv, LeavesWithException
  <2>15. fate' # "badCall" /\ UiCalm' /\ RefAlive'
    BY <2>4, <2>7, <2>8 DEF UiCalm, RefAlive
  <2> QED
    BY <2>11, <2>12, <2>13, <2>14, <2>15 DEF GoodInv
<1>4. CASE NativeFreeRef \/ NativeFreeClear
  <2>1. UNCHANGED life /\ ui.pc \in {"freeRef", "clearRef"}
    BY <1>4 DEF NativeFreeRef, NativeFreeClear
  <2>2. Calm
    BY <2>1 DEF Calm
  <2> QED
    BY <2>1, <2>2 DEF GoodInv, UiCalm
<1>5. ASSUME NEW a \in Activities, NEW s \in Sessions, NEW n \in 1 .. MaxThreads,
             NEW k \in 1 .. MaxIterations, OnClick(a, s, n, k)
      PROVE  GoodInv'
  <2>1. /\ UNCHANGED <<life, ui, gObj, refs, method, exc, wpc, wref>> /\ UiIdle /\ life[a] = "live"
        /\ fate' \in {fate, "uncaught"}
        /\ cpc[s] = "idle" /\ cpc' \in {cpc, [cpc EXCEPT ![s] = "start"]}
    BY <1>5 DEF OnClick
  <2>2. Calm
    BY <2>1 DEF Calm
  <2>3. Callable(gObj)
    BY <2>1, <2>2 DEF GoodInv, ReadyToStart
  <2>4. Callable(gObj)'
    BY <2>1, <2>3 DEF Callable
  <2>5. LeavesWithException'
    <3> SUFFICES ASSUME NEW r \in Sessions, exc[r] PROVE cpc'[r] \in {"exit", "detach", "done"}
      BY <2>1 DEF LeavesWithException
    <3>1. cpc[r] \in {"exit", "detach", "done"}
      BY <2>2 DEF GoodInv, LeavesWithException
    <3>2. r # s
      BY <2>1, <3>1
    <3> QED
      BY <2>1, <3>1, <3>2 DEF TypeInv, TypeOK
  <2>6. fate' # "badCall" /\ UiCalm' /\ RefAlive' /\ RefRead'
    BY <2>1, <2>2 DEF GoodInv, UiCalm, RefAlive, RefRead
  <2> QED
    BY <2>4, <2>5, <2>6 DEF GoodInv, ReadyToStart, ActiveCanCall
<1> QED
  BY <1>1, <1>2, <1>3, <1>4, <1>5 DEF UiNext

\* A step of a thread that was active before: the references stay as they are.
LEMMA ThreadGood ==
    ASSUME GoodInv, Active, UNCHANGED <<life, ui, gObj, refs, method>>,
           Calm => fate' # "badCall" /\ RefRead' /\ LeavesWithException'
    PROVE  GoodInv'
<1> SUFFICES ASSUME Calm' PROVE GoodInv'
  BY DEF GoodInv
<1>1. Calm
  BY DEF Calm
<1>2. Callable(gObj)
  BY <1>1 DEF GoodInv, ActiveCanCall
<1>3. Callable(gObj)'
  BY <1>2 DEF Callable
<1>4. UiCalm' /\ RefAlive'
  BY <1>1 DEF GoodInv, UiCalm, RefAlive
<1> QED
  BY <1>1, <1>3, <1>4 DEF GoodInv, ReadyToStart, ActiveCanCall

LEMMA CoordGood ==
    ASSUME TypeInv, GoodInv, NEW s \in Sessions, CoordNext(s) PROVE GoodInv'
<1> USE DEF uiVars, jniVars, coordVars, workerVars
<1>0. cpc \in [Sessions -> CoordStates] /\ exc \in [Sessions -> BOOLEAN]
  BY DEF TypeInv, TypeOK
<1>1. cpc[s] # "idle" /\ UNCHANGED <<life, ui, gObj, refs, method, wref>>
  BY DEF CoordNext, CoordGoes, NextJoin, CoordAttach, CoordLock, CoordLockDestroyed, CoordCreate, CoordJoin,
         CoordReport, CoordExit, CoordDetach
<1>2. Active
  BY <1>1 DEF Active
<1>3. \A w \in Workers : wpc'[w] = wpc[w] \/ wpc'[w] # "loop"
  <2>1. UNCHANGED wpc \/ wpc' = [wpc EXCEPT ![<<s, ci[s]>>] = "born"]
    BY DEF CoordNext, CoordAttach, CoordLock, CoordLockDestroyed, CoordCreate, CoordJoin,
           CoordReport, CoordExit, CoordDetach
  <2> QED
    BY <2>1 DEF TypeInv, TypeOK
<1> SUFFICES ASSUME Calm PROVE fate' # "badCall" /\ LeavesWithException'
  <2>1. Calm => RefRead'
    BY <1>1, <1>3 DEF GoodInv, RefRead
  <2> QED
    BY <1>1, <1>2, <2>1, ThreadGood
<1>4. /\ fate # "badCall" /\ Callable(gObj) /\ ~MayFail("join")
      /\ \A r \in Sessions : exc[r] => cpc[r] \in {"exit", "detach", "done"}
  BY <1>2 DEF GoodInv, ActiveCanCall, LeavesWithException, Calm
<1>5. ASSUME NEW to, cpc' = [cpc EXCEPT ![s] = to], UNCHANGED exc,
             exc[s] => to \in {"exit", "detach", "done"}
      PROVE  LeavesWithException'
  BY <1>0, <1>4, <1>5 DEF LeavesWithException
<1>6. ASSUME cpc' = [cpc EXCEPT ![s] = "exit"], exc' = [exc EXCEPT ![s] = TRUE]
      PROVE  LeavesWithException'
  BY <1>0, <1>4, <1>6 DEF LeavesWithException
<1>7. CASE CoordAttach(s) \/ CoordLock(s)
  BY <1>4, <1>5, <1>7 DEF CoordAttach, CoordLock, CoordGoes
<1>8. CASE CoordLockDestroyed(s)
  BY <1>6, <1>8 DEF CoordLockDestroyed, CoordGoes
<1>9. CASE CoordCreate(s)
  <2>1. fate' = fate /\ cpc[s] = "create"
    BY <1>9 DEF CoordCreate, CoordGoes
  <2>2. \/ \E to : cpc' = [cpc EXCEPT ![s] = to] /\ UNCHANGED exc
        \/ cpc' = [cpc EXCEPT ![s] = "exit"] /\ exc' = [exc EXCEPT ![s] = TRUE]
    BY <1>9 DEF CoordCreate, CoordGoes
  <2> QED
    BY <1>4, <1>5, <1>6, <2>1, <2>2
<1>10. CASE CoordJoin(s)
  BY <1>4, <1>5, <1>10 DEF CoordJoin, CoordGoes
<1>11. CASE CoordReport(s)
  <2>1. ~exc[s]
    BY <1>4, <1>11 DEF CoordReport
  <2>2. CASE ~exc[s] /\ NextJoin(s) /\ UNCHANGED <<fate, exc>>
    <3>1. \E to : cpc' = [cpc EXCEPT ![s] = to]
      BY <2>2 DEF NextJoin, CoordGoes
    <3> QED
      BY <1>4, <1>5, <2>1, <2>2, <3>1
  <2>3. CASE exc' = [exc EXCEPT ![s] = TRUE] /\ CoordGoes(s, "report", "exit")
             /\ fate' \in {"running"} \cup {f \in {"badCall"} : exc[s]}
    BY <1>6, <2>1, <2>3 DEF CoordGoes
  <2> QED
    BY <1>4, <1>11, <2>2, <2>3 DEF CoordReport
<1>12. CASE CoordExit(s)
  BY <1>4, <1>5, <1>12 DEF CoordExit, CoordGoes
<1>13. CASE CoordDetach(s)
  BY <1>4, <1>5, <1>13 DEF CoordDetach, CoordGoes
<1> QED
  BY <1>7, <1>8, <1>9, <1>10, <1>11, <1>12, <1>13 DEF CoordNext

LEMMA WorkerGood ==
    ASSUME TypeInv, GoodInv, NEW w \in Workers, WorkerNext(w) \/ JavaIterate(w)
    PROVE  GoodInv'
<1> USE DEF uiVars, jniVars, coordVars, workerVars
<1>0. wpc \in [Workers -> WorkerStates] /\ wref \in [Workers -> Activities \cup {NoRef}]
  BY DEF TypeInv, TypeOK
<1>1. /\ wpc[w] # "none" \/ jleft[w] > 0
      /\ UNCHANGED <<life, ui, gObj, refs, method, cpc, exc>>
  BY DEF WorkerNext, WorkerGoes, WorkerAttach, WorkerRead, WorkerIterate, WorkerUnlock,
         WorkerDetach, JavaIterate
<1>2. Active
  BY <1>1 DEF Active
<1>3. Calm => LeavesWithException'
  BY <1>1 DEF GoodInv, LeavesWithException
<1> SUFFICES ASSUME Calm PROVE fate' # "badCall" /\ RefRead'
  BY <1>1, <1>2, <1>3, ThreadGood
<1>4. fate # "badCall" /\ Callable(gObj) /\ method /\ \A v \in Workers : wpc[v] = "loop" => wref[v] = gObj
  BY <1>2 DEF GoodInv, ActiveCanCall, RefRead, Callable
<1>5. ASSUME UNCHANGED wref, \A v \in Workers : wpc'[v] = "loop" => wpc[v] = "loop"
      PROVE  RefRead'
  BY <1>1, <1>4, <1>5 DEF RefRead
<1>6. ASSUME NEW to, wpc' = [wpc EXCEPT ![w] = to], UNCHANGED wref, to = "loop" => wpc[w] = "loop"
      PROVE  RefRead'
  BY <1>0, <1>5, <1>6
<1>7. CASE WorkerAttach(w)
  BY <1>4, <1>6, <1>7 DEF WorkerAttach, WorkerGoes
<1>8. CASE WorkerRead(w)
  <2>1. CASE WorkerGoes(w, "ready", "loop") /\ wref' = [wref EXCEPT ![w] = gObj] /\ UNCHANGED fate
    BY <1>0, <1>1, <1>4, <2>1 DEF WorkerGoes, RefRead
  <2>2. CASE fate' = "useAfterFree" /\ UNCHANGED <<wpc, wref>>
    BY <1>5, <2>2
  <2> QED
    BY <1>8, <2>1, <2>2 DEF WorkerRead
<1>9. CASE WorkerIterate(w)
  <2>1. wpc[w] = "loop" /\ UNCHANGED wref
    BY <1>9 DEF WorkerIterate, WorkerGoes
  <2>2. Callable(wref[w])
    BY <1>4, <2>1
  <2>3. UNCHANGED fate /\ \E to : wpc' = [wpc EXCEPT ![w] = to]
    BY <1>9, <2>2 DEF WorkerIterate, WorkerGoes
  <2> QED
    BY <1>4, <1>6, <2>1, <2>3
<1>10. CASE WorkerUnlock(w)
  BY <1>4, <1>6, <1>10 DEF WorkerUnlock, WorkerGoes
<1>11. CASE WorkerDetach(w)
  BY <1>4, <1>6, <1>11 DEF WorkerDetach, WorkerGoes
<1>12. CASE JavaIterate(w)
  <2>1. fate' # "badCall" /\ UNCHANGED <<wpc, wref>>
    BY <1>4, <1>12 DEF JavaIterate
  <2> QED
    BY <1>5, <2>1
<1> QED
  BY <1>7, <1>8, <1>9, <1>10, <1>11, <1>12 DEF WorkerNext

LEMMA NextGood == TypeInv /\ GoodInv /\ [Next]_vars => GoodInv'
<1> SUFFICES ASSUME TypeInv, GoodInv, [Next]_vars PROVE GoodInv'
  OBVIOUS
<1>1. CASE UNCHANGED vars
  BY <1>1 DEF vars, uiVars, jniVars, coordVars, workerVars, GoodInv, Calm, UiCalm, RefAlive,
              ReadyToStart, UiIdle, ActiveCanCall, Active, Callable, RefRead, LeavesWithException
<1>2. CASE Next
  BY <1>2, UiGood, CoordGood, WorkerGood DEF Next
<1> QED
  BY <1>1, <1>2

\* No callback is aborted by the VM as long as no activity has been destroyed
\* and neither NewGlobalRef nor pthread_join fails, for any number of
\* activities, sessions and workers: gObj stays the reference made first.
THEOREM GoodCalls == Spec => []CallsAreGood
<1>1. GoodInv => CallsAreGood
  BY DEF GoodInv, Calm, CallsAreGood
<1> QED
  BY <1>1, InitType, NextType, InitGood, NextGood, PTL DEF Spec

-----------------------------------------------------------------------------
(* The workers take turns.                                                 *)

\* A step that leaves the workers and leaked alone is a stuttering step of
\* WorkerTurns.
LEMMA TurnStutter ==
    ASSUME UNCHANGED <<wpc, leaked>>
    PROVE  UNCHANGED Turns!turnVars
BY DEF Turns!turnVars

LEMMA CoordTurn ==
    ASSUME IInv, ~rearmed, NEW s \in Sessions, CoordNext(s)
    PROVE  [Turns!Next]_(Turns!turnVars)
<1> USE DEF uiVars, jniVars, coordVars, workerVars, CoordGoes
<1>0. TypeInv /\ Baton /\ Created
  BY DEF IInv
<1>1. CASE CoordCreate(s)
  <2>0. ci[s] \in Ids
    BY <1>0, <1>1, IdsFacts DEF CoordCreate, TypeInv, TypeOK, LoopBounds, ArgsType
  <2>1. PICK i \in Ids : i = ci[s] /\ <<s, i>> \in Workers
    BY <2>0 DEF Workers
  <2>2. (\A w \in Workers : wpc[w] \notin Busy) /\ ~leaked
    BY <1>0, <1>1 DEF CoordCreate, Baton
  <2>3. CASE wpc' = [wpc EXCEPT ![<<s, i>>] = "born"] /\ leaked' = leaked
    <3>1. \A t \in Sessions, j \in Ids :
             wpc'[<<t, j>>] # "none" <=> (wpc[<<t, j>>] # "none" \/ <<t, j>> = <<s, i>>)
      BY <1>0, <2>3, Shapes
    <3>2. {j \in Ids : wpc[<<s, j>>] # "none"} = 0 .. i - 1
      BY <1>0, <1>1, <2>1, BoundsAssumption DEF CoordCreate, Created, Ids
    <3>3. {j \in Ids : wpc'[<<s, j>>] # "none"} = 0 .. i
      BY <2>1, <3>1, <3>2, BoundsAssumption DEF Ids
    <3>4. {w \in Workers : wpc[w] \in Busy} = {}
      BY <2>2
    <3>5. {w \in Workers : wpc'[w] \in Busy} = {<<s, i>>}
      BY <1>0, <2>1, <2>2, <2>3, Shapes DEF Busy
    <3>6. [t \in Sessions |-> {j \in Ids : wpc'[<<t, j>>] # "none"}]
            = [[t \in Sessions |-> {j \in Ids : wpc[<<t, j>>] # "none"}]
                 EXCEPT ![s] = 0 .. i]
      BY <3>1, <3>3
    <3>7. Turns!Begin(s, i)
      BY <2>2, <2>3, <3>2, <3>4, <3>5, <3>6 DEF Turns!Begin
    <3> QED
      <4>1. i \in 0 .. MaxThreads - 1
        BY <2>1 DEF Ids
      <4>2. \E t \in Sessions, j \in 0 .. MaxThreads - 1 : Turns!Begin(t, j)
        BY <3>7, <4>1
      <4> QED
        BY <4>2 DEF Turns!Next
  <2>4. CASE wpc' = wpc /\ leaked' = TRUE
    <3>1. {w \in Workers : wpc'[w] \in Busy} = {}
      BY <2>2, <2>4
    <3> QED
      BY <2>2, <2>4, <3>1 DEF Turns!Next, Turns!Lose
  <2> QED
    BY <1>1, <2>1, <2>3, <2>4 DEF CoordCreate
<1>2. CASE ~CoordCreate(s)
  BY <1>2, TurnStutter DEF CoordNext, CoordAttach, CoordLock, CoordLockDestroyed,
     CoordJoin, CoordReport, CoordExit, CoordDetach
<1> QED
  BY <1>1, <1>2

LEMMA WorkerTurn ==
    ASSUME IInv, ~rearmed, NEW w \in Workers, WorkerNext(w) \/ JavaIterate(w)
    PROVE  [Turns!Next]_(Turns!turnVars)
<1> USE DEF uiVars, jniVars, coordVars, workerVars, WorkerGoes
<1>0. TypeInv /\ Baton
  BY DEF IInv
<1>1. \/ UNCHANGED <<wpc, leaked>>
      \/ /\ wpc[w] # "none"
         /\ \E to \in WorkerStates \ {"none"} : wpc' = [wpc EXCEPT ![w] = to]
  BY DEF WorkerNext, WorkerAttach, WorkerRead, WorkerIterate, WorkerUnlock,
         WorkerDetach, JavaIterate, WorkerStates
<1>2. CASE UNCHANGED <<wpc, leaked>>
  BY <1>2, TurnStutter
<1>3. CASE ~UNCHANGED <<wpc, leaked>>
  <2>1. PICK to \in WorkerStates \ {"none"} : wpc' = [wpc EXCEPT ![w] = to]
    BY <1>1, <1>3
  <2>2. \A v \in Workers : wpc'[v] # "none" <=> wpc[v] # "none"
    BY <1>0, <1>1, <1>3, <2>1, Shapes
  <2>3. [t \in Sessions |-> {j \in Ids : wpc'[<<t, j>>] # "none"}]
          = [t \in Sessions |-> {j \in Ids : wpc[<<t, j>>] # "none"}]
    BY <2>2 DEF Workers
  <2>4. CASE wpc[w] \in Busy /\ wpc'[w] \in Busy
    <3>1. {v \in Workers : wpc'[v] \in Busy} = {v \in Workers : wpc[v] \in Busy}
      BY <1>0, <2>1, <2>4, Shapes
    <3>2. leaked' = leaked
      BY <1>0, <2>4, Shapes DEF WorkerNext, WorkerAttach, WorkerRead, WorkerIterate,
         WorkerUnlock, WorkerDetach, JavaIterate, Busy
    <3> QED
      BY <2>3, <3>1, <3>2 DEF Turns!turnVars
  <2>5. CASE wpc[w] \in Busy /\ wpc'[w] \notin Busy
    <3>1. {v \in Workers : wpc[v] \in Busy} = {w} /\ ~leaked
      BY <1>0, <2>5 DEF Baton
    <3>2. {v \in Workers : wpc'[v] \in Busy} = {}
      BY <1>0, <2>1, <2>5, <3>1, Shapes
    <3>3. leaked' = leaked \/ leaked' = TRUE
      BY DEF WorkerNext, WorkerAttach, WorkerRead, WorkerIterate,
         WorkerUnlock, WorkerDetach, JavaIterate
    <3>4. CASE leaked' = leaked
      <4>1. Turns!End
        BY <2>3, <3>1, <3>2, <3>4 DEF Turns!End
      <4> QED
        BY <4>1 DEF Turns!Next
    <3>5. CASE leaked' = TRUE
      <4>1. Turns!Lose
        BY <2>3, <3>1, <3>2, <3>5 DEF Turns!Lose
      <4> QED
        BY <4>1 DEF Turns!Next
    <3> QED
      BY <3>3, <3>4, <3>5
  <2>6. CASE wpc[w] \notin Busy
    <3>1. wpc[w] = "detach" /\ wpc'[w] = "ended" /\ leaked' = leaked
      BY <1>0, <1>3, <2>6, Shapes DEF WorkerNext, WorkerAttach, WorkerRead,
         WorkerIterate, WorkerUnlock, WorkerDetach, JavaIterate, Busy
    <3>2. {v \in Workers : wpc'[v] \in Busy} = {v \in Workers : wpc[v] \in Busy}
      BY <1>0, <2>1, <2>6, <3>1, Shapes DEF Busy
    <3> QED
      BY <2>3, <3>1, <3>2 DEF Turns!turnVars
  <2> QED
    BY <2>4, <2>5, <2>6
<1> QED
  BY <1>2, <1>3

\* The threads implement WorkerTurns as long as nativeInit does not run while
\* the mutex is locked: one turn at a time over all sessions, in the order of
\* the index within a session, and none after one that was not given back.
THEOREM WorkersTakeTurns == Spec /\ [](~rearmed) => TakeTurns
<1>1. Init => Turns!Init
  BY DEF Init, Turns!Init, Busy, Workers
<1>2. IInv /\ ~rearmed /\ [Next]_vars => [Turns!Next]_(Turns!turnVars)
  <2> SUFFICES ASSUME IInv, ~rearmed, [Next]_vars
               PROVE  [Turns!Next]_(Turns!turnVars)
    OBVIOUS
  <2>1. CASE UNCHANGED vars
    BY <2>1, TurnStutter DEF vars, workerVars
  <2>2. CASE UiNext
    BY <2>2, TurnStutter DEF UiNext, NativeInitMutex, NativeInitRef,
       NativeFreeMutex, NativeFreeRef, NativeFreeClear, Die, OnClick, workerVars
  <2>3. ASSUME NEW s \in Sessions, CoordNext(s)
        PROVE  [Turns!Next]_(Turns!turnVars)
    BY <2>3, CoordTurn
  <2>4. ASSUME NEW w \in Workers, WorkerNext(w) \/ JavaIterate(w)
        PROVE  [Turns!Next]_(Turns!turnVars)
    BY <2>4, WorkerTurn
  <2> QED
    BY <2>1, <2>2, <2>3, <2>4 DEF Next
<1> QED
  BY <1>1, <1>2, InitIInv, NextIInv, PTL DEF Spec, TakeTurns, Turns!Spec
=============================================================================
