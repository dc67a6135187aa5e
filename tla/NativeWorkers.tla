--------------------------- MODULE NativeWorkers ---------------------------
(***************************************************************************)
(* threads-lib.cpp and the part of MainActivity.java that drives it: the   *)
(* UI thread creates and destroys activity instances and starts sessions   *)
(* (a press of the start button); a session has Java workers, a            *)
(* coordinator thread (startThreads) and POSIX workers                     *)
(* (nativeWorkerThread).  The single global mutex is a baton: the          *)
(* coordinator locks it before it writes args->id and creates worker i,    *)
(* and worker i, another thread, unlocks it when it is finished.           *)
(*                                                                         *)
(* Failures names the calls that may fail in a run.  A JNI or pthread      *)
(* misuse and an exception nobody catches end the process: fate says how.  *)
(***************************************************************************)
EXTENDS Integers, FiniteSets

CONSTANTS
    Activities,     \* instances of MainActivity, each created at most once
    Sessions,       \* one per press of the start button, and its NativeWorkerArgs
    MaxThreads,     \* bound on the number typed in threads_edit
    MaxIterations,  \* bound on the number typed in iterations_edit
    Failures,       \* the calls that may fail
    NoRef           \* nullptr

FailureKinds == {"mutexInit", "globalRef", "methodId", "coordThread",
                 "coordAttach", "workerThread", "workerAttach", "join",
                 "callback"}

ASSUME BoundsAssumption ==
    /\ MaxThreads \in Nat \ {0}
    /\ MaxIterations \in Nat \ {0}

ASSUME NamesAssumption ==
    /\ NoRef \notin Activities
    /\ Failures \subseteq FailureKinds

Ids == 0 .. MaxThreads - 1
Workers == Sessions \X Ids

VARIABLES
    life,     \* lifecycle of each activity instance
    ui,       \* where the UI thread is inside nativeInit or nativeFree
    mutex,    \* the global pthread mutex
    gObj,     \* the global reference the native threads call back through
    refs,     \* the global references that are alive in the VM
    method,   \* gOnNativeMessage # nullptr
    fate,     \* "running", or how the process ended
    cpc,      \* control state of each session's coordinator
    ci,       \* its loop counter i
    exc,      \* a Java exception is pending in the coordinator
    heap,     \* the session's NativeWorkerArgs: not allocated, live, deleted
    args,     \* its fields
    wpc,      \* control state of each POSIX worker
    wid,      \* the id it read from args
    wref,     \* the value of gObj it was called with
    wleft,    \* iterations it has still to do
    wexc,     \* a Java exception is pending in the worker
    jleft,    \* iterations each Java worker has still to do
    rearmed,  \* history: nativeInit re-initialised a locked mutex
    leaked    \* history: a thread gave up without unlocking

uiVars == <<life, ui>>
jniVars == <<gObj, refs, method>>
coordVars == <<cpc, ci, exc, heap, args>>
workerVars == <<wpc, wid, wref, wleft, wexc>>
vars == <<uiVars, mutex, jniVars, fate, coordVars, workerVars, jleft,
          rearmed, leaked>>

Fates == {"running", "uncaught", "badCall", "badMutex", "useAfterFree"}

\* The fields of NativeWorkerArgs.
ArgsType == [id : Ids, threads : 1 .. MaxThreads, iterations : 1 .. MaxIterations]

UiStates == [pc : {"idle", "initRef", "freeRef", "clearRef"},
             act : Activities \cup {NoRef}, exc : BOOLEAN]

CoordStates == {"idle", "start", "lock", "create", "join", "report",
                "exit", "detach", "done"}
WorkerStates == {"none", "born", "ready", "loop", "unlock", "detach", "ended"}

\* The control states in which a worker owns the baton.
Busy == {"born", "ready", "loop", "unlock"}

\* What every variable ranges over.
TypeOK ==
    /\ life \in [Activities -> {"none", "live", "gone"}]
    /\ ui \in UiStates
    /\ mutex \in {"unlocked", "locked", "destroyed"}
    /\ gObj \in Activities \cup {NoRef}
    /\ refs \in SUBSET Activities
    /\ method \in BOOLEAN
    /\ fate \in Fates
    /\ cpc \in [Sessions -> CoordStates]
    /\ ci \in [Sessions -> 0 .. MaxThreads]
    /\ exc \in [Sessions -> BOOLEAN]
    /\ heap \in [Sessions -> {"none", "live", "deleted"}]
    /\ args \in [Sessions -> ArgsType]
    /\ wpc \in [Workers -> WorkerStates]
    /\ wid \in [Workers -> Ids]
    /\ wref \in [Workers -> Activities \cup {NoRef}]
    /\ wleft \in [Workers -> 0 .. MaxIterations]
    /\ wexc \in [Workers -> BOOLEAN]
    /\ jleft \in [Workers -> 0 .. MaxIterations]
    /\ rearmed \in BOOLEAN
    /\ leaked \in BOOLEAN

\* The library has been loaded and no activity exists yet.  A mutex in
\* static storage is all zero, which is an unlocked mutex.
Init ==
    /\ life = [a \in Activities |-> "none"]
    /\ ui = [pc |-> "idle", act |-> NoRef, exc |-> FALSE]
    /\ mutex = "unlocked"
    /\ gObj = NoRef
    /\ refs = {}
    /\ method = FALSE
    /\ fate = "running"
    /\ cpc = [s \in Sessions |-> "idle"]
    /\ ci = [s \in Sessions |-> 0]
    /\ exc = [s \in Sessions |-> FALSE]
    /\ heap = [s \in Sessions |-> "none"]
    /\ args = [s \in Sessions |-> [id |-> 0, threads |-> 1, iterations |-> 1]]
    /\ wpc = [w \in Workers |-> "none"]
    /\ wid = [w \in Workers |-> 0]
    /\ wref = [w \in Workers |-> NoRef]
    /\ wleft = [w \in Workers |-> 0]
    /\ wexc = [w \in Workers |-> FALSE]
    /\ jleft = [w \in Workers |-> 0]
    /\ rearmed = FALSE
    /\ leaked = FALSE

-----------------------------------------------------------------------------
(* The UI thread.                                                          *)

MayFail(what) == what \in Failures

\* A process that has ended takes no step.
Die(how) ==
    /\ fate' = how
    /\ UNCHANGED <<uiVars, mutex, jniVars, coordVars, workerVars, jleft,
                   rearmed, leaked>>

UiIdle == fate = "running" /\ ui.pc = "idle"

\* onCreate calls nativeInit, which initialises the mutex whatever its state.
NativeInitMutex(a) ==
    /\ UiIdle
    /\ life[a] = "none"
    /\ \/ /\ mutex' = "unlocked"
          /\ rearmed' = (rearmed \/ mutex = "locked")
          /\ ui' = [pc |-> "initRef", act |-> a, exc |-> FALSE]
          /\ life' = [life EXCEPT ![a] = "live"]
          /\ UNCHANGED <<jniVars, fate, coordVars, workerVars, jleft, leaked>>
       \/ /\ MayFail("mutexInit")
          /\ Die("uncaught")

\* Fault: gObj keeps the local reference, which does not outlive the call.
LocalRefKept ==
    /\ fate = "running"
    /\ ui.pc = "initRef"
    /\ ui' = [ui EXCEPT !.pc = "idle", !.act = NoRef]
    /\ gObj' = IF gObj = NoRef THEN ui.act ELSE gObj
    /\ method' = TRUE
    /\ UNCHANGED <<life, mutex, refs, fate, coordVars, workerVars, jleft,
                   rearmed, leaked>>

\* The rest of nativeInit: the global reference is made only when there is
\* none, and a failure to make it skips the lookup of onNativeMessage, which
\* is also done once.
NativeInitRef ==
    LET found == method' = TRUE /\ UNCHANGED fate
        notFound == /\ ~method
                    /\ MayFail("methodId")
                    /\ fate' = "uncaught"
                    /\ UNCHANGED method
    IN  /\ fate = "running"
        /\ ui.pc = "initRef"
        /\ ui' = [ui EXCEPT !.pc = "idle", !.act = NoRef]
        /\ \/ /\ gObj # NoRef
              /\ UNCHANGED <<gObj, refs>>
              /\ found \/ notFound
           \/ /\ gObj = NoRef
              /\ gObj' = ui.act
              /\ refs' = refs \cup {ui.act}
              /\ found \/ notFound
           \/ /\ gObj = NoRef
              /\ MayFail("globalRef")
              /\ UNCHANGED <<jniVars, fate>>
        /\ UNCHANGED <<life, mutex, coordVars, workerVars, jleft, rearmed, leaked>>

\* onDestroy calls nativeFree.  pthread_mutex_destroy refuses a mutex that is
\* locked or destroyed; nativeFree throws and goes on.
NativeFreeMutex(a) ==
    /\ UiIdle
    /\ life[a] = "live"
    /\ life' = [life EXCEPT ![a] = "gone"]
    /\ ui' = [pc |-> "freeRef", act |-> a, exc |-> mutex # "unlocked"]
    /\ mutex' = IF mutex = "unlocked" THEN "destroyed" ELSE mutex
    /\ UNCHANGED <<jniVars, fate, coordVars, workerVars, jleft, rearmed, leaked>>

\* What leaving nativeFree does: a pending exception leaves onDestroy and
\* nobody catches it.
ReturnFromFree ==
    /\ ui' = [ui EXCEPT !.pc = "idle", !.act = NoRef, !.exc = FALSE]
    /\ fate' = IF ui.exc THEN "uncaught" ELSE fate

\* nativeFree deletes the global reference and then clears gObj.
NativeFreeRef ==
    /\ fate = "running"
    /\ ui.pc = "freeRef"
    /\ IF gObj = NoRef
         THEN /\ ReturnFromFree
              /\ UNCHANGED refs
         ELSE /\ refs' = refs \ {gObj}
              /\ ui' = [ui EXCEPT !.pc = "clearRef"]
              /\ UNCHANGED fate
    /\ UNCHANGED <<life, mutex, gObj, method, coordVars, workerVars, jleft,
                   rearmed, leaked>>

NativeFreeClear ==
    /\ fate = "running"
    /\ ui.pc = "clearRef"
    /\ gObj' = NoRef
    /\ ReturnFromFree
    /\ UNCHANGED <<life, mutex, refs, method, coordVars, workerVars, jleft,
                   rearmed, leaked>>

\* The start button, with n threads and k iterations: javaThreads starts n
\* Java workers, then posixThreads allocates the arguments and creates the
\* coordinator.  When it cannot, the exception leaves onClick.
OnClick(a, s, n, k) ==
    /\ UiIdle
    /\ life[a] = "live"
    /\ cpc[s] = "idle"
    /\ jleft' = [w \in Workers |->
                    IF w[1] = s /\ w[2] < n THEN k ELSE jleft[w]]
    /\ heap' = [heap EXCEPT ![s] = "live"]
    /\ args' = [args EXCEPT ![s].threads = n, ![s].iterations = k]
    /\ \/ /\ cpc' = [cpc EXCEPT ![s] = "start"]
          /\ UNCHANGED fate
       \/ /\ MayFail("coordThread")
          /\ fate' = "uncaught"
          /\ UNCHANGED cpc
    /\ UNCHANGED <<uiVars, mutex, jniVars, ci, exc, workerVars, rearmed, leaked>>

-----------------------------------------------------------------------------
(* The coordinator of session s.                                           *)

CoordGoes(s, from, to) ==
    /\ fate = "running"
    /\ cpc[s] = from
    /\ cpc' = [cpc EXCEPT ![s] = to]

CoordAttach(s) ==
    /\ \/ CoordGoes(s, "start", "lock")
       \/ MayFail("coordAttach") /\ CoordGoes(s, "start", "exit")
    /\ UNCHANGED <<uiVars, mutex, jniVars, fate, ci, exc, heap, args,
                   workerVars, jleft, rearmed, leaked>>

\* pthread_mutex_lock waits while the mutex is locked.
CoordLock(s) ==
    /\ mutex = "unlocked"
    /\ mutex' = "locked"
    /\ CoordGoes(s, "lock", "create")
    /\ UNCHANGED <<uiVars, jniVars, fate, ci, exc, heap, args, workerVars,
                   jleft, rearmed, leaked>>

\* Bionic answers a lock of a destroyed mutex with an error, or aborts.
CoordLockDestroyed(s) ==
    /\ mutex = "destroyed"
    /\ CoordGoes(s, "lock", "exit")
    /\ exc' = [exc EXCEPT ![s] = TRUE]
    /\ fate' \in {"running", "badMutex"}
    /\ UNCHANGED <<uiVars, mutex, jniVars, ci, heap, args, workerVars, jleft,
                   rearmed, leaked>>

\* Fault: the coordinator unlocks the mutex itself, once the thread exists.
CreatorUnlocks(s) ==
    LET i == ci[s]
        last == i + 1 = args[s].threads
    IN  /\ args' = [args EXCEPT ![s].id = i]
        /\ CoordGoes(s, "create", IF last THEN "join" ELSE "lock")
        /\ ci' = [ci EXCEPT ![s] = IF last THEN 0 ELSE i + 1]
        /\ wpc' = [wpc EXCEPT ![<<s, i>>] = "born"]
        /\ mutex' = "unlocked"
        /\ UNCHANGED <<uiVars, jniVars, fate, exc, heap, wid, wref, wleft,
                       wexc, jleft, rearmed, leaked>>

\* The coordinator writes the shared id and creates worker i; after the last
\* one it turns to joining them.  When it cannot create the thread it throws
\* and leaves with the mutex locked.
CoordCreate(s) ==
    LET i == ci[s]
        last == i + 1 = args[s].threads
    IN  /\ args' = [args EXCEPT ![s].id = i]
        /\ \/ /\ CoordGoes(s, "create", IF last THEN "join" ELSE "lock")
              /\ ci' = [ci EXCEPT ![s] = IF last THEN 0 ELSE i + 1]
              /\ wpc' = [wpc EXCEPT ![<<s, i>>] = "born"]
              /\ UNCHANGED <<exc, leaked>>
           \/ /\ MayFail("workerThread")
              /\ CoordGoes(s, "create", "exit")
              /\ exc' = [exc EXCEPT ![s] = TRUE]
              /\ leaked' = TRUE
              /\ UNCHANGED <<ci, wpc>>
        /\ UNCHANGED <<uiVars, mutex, jniVars, fate, heap, wid, wref, wleft,
                       wexc, jleft, rearmed>>

\* The next index to join, or the end of the loop.
NextJoin(s) ==
    IF ci[s] + 1 = args[s].threads
      THEN /\ CoordGoes(s, cpc[s], "exit")
           /\ UNCHANGED ci
      ELSE /\ CoordGoes(s, cpc[s], "join")
           /\ ci' = [ci EXCEPT ![s] = ci[s] + 1]

\* Fault: the last worker is not joined.
LastNotJoined(s) ==
    /\ cpc[s] = "join"
    /\ IF ci[s] + 1 = args[s].threads
         THEN CoordGoes(s, "join", "exit")
         ELSE wpc[<<s, ci[s]>>] = "ended" /\ CoordGoes(s, "join", "report")
    /\ UNCHANGED <<uiVars, mutex, jniVars, fate, ci, exc, heap, args, workerVars,
                   jleft, rearmed, leaked>>

\* pthread_join returns when worker i has ended; when it fails the loop goes
\* on with the exception pending.
CoordJoin(s) ==
    /\ cpc[s] = "join"
    /\ \/ /\ wpc[<<s, ci[s]>>] = "ended"
          /\ CoordGoes(s, "join", "report")
          /\ UNCHANGED <<ci, exc>>
       \/ /\ MayFail("join")
          /\ exc' = [exc EXCEPT ![s] = TRUE]
          /\ NextJoin(s)
    /\ UNCHANGED <<uiVars, mutex, jniVars, fate, heap, args, workerVars, jleft,
                   rearmed, leaked>>

\* CallVoidMethod aborts unless the object is a live reference and the method
\* was found.
Callable(ref) == ref \in refs /\ method

\* "Worker %d returned %d" is sent through gObj as it is now.  A call made
\* with an exception pending is aborted by a checking VM; another VM makes it,
\* and the coordinator finds the exception and leaves.
CoordReport(s) ==
    /\ cpc[s] = "report"
    /\ \/ /\ Callable(gObj)
          /\ ~exc[s]
          /\ NextJoin(s)
          /\ UNCHANGED <<fate, exc>>
       \/ /\ Callable(gObj)
          /\ exc[s] \/ MayFail("callback")
          /\ exc' = [exc EXCEPT ![s] = TRUE]
          /\ CoordGoes(s, "report", "exit")
          /\ fate' \in {"running"} \cup {f \in {"badCall"} : exc[s]}
          /\ UNCHANGED ci
       \/ /\ fate = "running"
          /\ ~Callable(gObj)
          /\ fate' = "badCall"
          /\ UNCHANGED <<cpc, ci, exc>>
    /\ UNCHANGED <<uiVars, mutex, jniVars, heap, args, workerVars, jleft,
                   rearmed, leaked>>

CoordExit(s) ==
    /\ CoordGoes(s, "exit", "detach")
    /\ heap' = [heap EXCEPT ![s] = "deleted"]
    /\ UNCHANGED <<uiVars, mutex, jniVars, fate, ci, exc, args, workerVars,
                   jleft, rearmed, leaked>>

\* Detaching a thread with a pending exception reports it as uncaught, which
\* ends the process.
CoordDetach(s) ==
    /\ CoordGoes(s, "detach", "done")
    /\ fate' = IF exc[s] THEN "uncaught" ELSE fate
    /\ UNCHANGED <<uiVars, mutex, jniVars, ci, exc, heap, args, workerVars,
                   jleft, rearmed, leaked>>

-----------------------------------------------------------------------------
(* POSIX worker w = <<s, i>>.                                              *)

WorkerGoes(w, from, to) ==
    /\ fate = "running"
    /\ wpc[w] = from
    /\ wpc' = [wpc EXCEPT ![w] = to]

\* A worker that cannot attach returns at once and does not unlock.
WorkerAttach(w) ==
    /\ \/ /\ WorkerGoes(w, "born", "ready")
          /\ UNCHANGED leaked
       \/ /\ MayFail("workerAttach")
          /\ WorkerGoes(w, "born", "ended")
          /\ leaked' = TRUE
    /\ UNCHANGED <<uiVars, mutex, jniVars, fate, coordVars, wid, wref, wleft,
                   wexc, jleft, rearmed>>

\* The call of nativeWorker evaluates gObj, args->id and args->iterations.
WorkerRead(w) ==
    LET s == w[1]
    IN  /\ IF heap[s] = "live"
             THEN /\ WorkerGoes(w, "ready", "loop")
                  /\ wid' = [wid EXCEPT ![w] = args[s].id]
                  /\ wref' = [wref EXCEPT ![w] = gObj]
                  /\ wleft' = [wleft EXCEPT ![w] = args[s].iterations]
                  /\ UNCHANGED fate
             ELSE /\ fate = "running"
                  /\ wpc[w] = "ready"
                  /\ fate' = "useAfterFree"
                  /\ UNCHANGED <<wpc, wid, wref, wleft>>
        /\ UNCHANGED <<uiVars, mutex, jniVars, coordVars, wexc, jleft, rearmed,
                       leaked>>

\* Fault: the loop runs while i <= iterations.
OneIterationTooMany(w) ==
    /\ Callable(wref[w])
    /\ wleft' = [wleft EXCEPT ![w] = wleft[w] - 1]
    /\ WorkerGoes(w, "loop", IF wleft[w] = 0 THEN "unlock" ELSE "loop")
    /\ UNCHANGED <<uiVars, mutex, jniVars, fate, coordVars, wid, wref, wexc,
                   jleft, rearmed, leaked>>

\* One turn of the loop of nativeWorker, called on the reference read above.
WorkerIterate(w) ==
    /\ \/ /\ Callable(wref[w])
          /\ wleft' = [wleft EXCEPT ![w] = wleft[w] - 1]
          /\ WorkerGoes(w, "loop", IF wleft[w] = 1 THEN "unlock" ELSE "loop")
          /\ UNCHANGED <<fate, wexc>>
       \/ /\ Callable(wref[w])
          /\ MayFail("callback")
          /\ WorkerGoes(w, "loop", "unlock")
          /\ wexc' = [wexc EXCEPT ![w] = TRUE]
          /\ UNCHANGED <<fate, wleft>>
       \/ /\ fate = "running"
          /\ wpc[w] = "loop"
          /\ ~Callable(wref[w])
          /\ fate' = "badCall"
          /\ UNCHANGED <<wpc, wleft, wexc>>
    /\ UNCHANGED <<uiVars, mutex, jniVars, coordVars, wid, wref, jleft, rearmed,
                   leaked>>

\* Fault: the worker ends without unlocking.
UnlockForgotten(w) ==
    /\ WorkerGoes(w, "unlock", "detach")
    /\ UNCHANGED <<uiVars, mutex, jniVars, fate, coordVars, wid, wref, wleft,
                   wexc, jleft, rearmed, leaked>>

\* A normal mutex may be unlocked by a thread that did not lock it, and also
\* when it is not locked; a destroyed one is an error or an abort.
WorkerUnlock(w) ==
    /\ WorkerGoes(w, "unlock", "detach")
    /\ \/ /\ mutex # "destroyed"
          /\ mutex' = "unlocked"
          /\ UNCHANGED <<fate, wexc>>
       \/ /\ mutex = "destroyed"
          /\ wexc' = [wexc EXCEPT ![w] = TRUE]
          /\ fate' \in {"running", "badMutex"}
          /\ UNCHANGED mutex
    /\ UNCHANGED <<uiVars, jniVars, coordVars, wid, wref, wleft, jleft, rearmed,
                   leaked>>

WorkerDetach(w) ==
    /\ WorkerGoes(w, "detach", "ended")
    /\ fate' = IF wexc[w] THEN "uncaught" ELSE fate
    /\ UNCHANGED <<uiVars, mutex, jniVars, coordVars, wid, wref, wleft, wexc,
                   jleft, rearmed, leaked>>

\* A Java worker runs the same loop on its own activity, which is alive as
\* long as the thread is; it needs gOnNativeMessage and never the mutex.  An
\* exception leaves Thread.run and nobody catches it.
JavaIterate(w) ==
    /\ fate = "running"
    /\ jleft[w] > 0
    /\ \/ /\ method
          /\ jleft' = [jleft EXCEPT ![w] = jleft[w] - 1]
          /\ UNCHANGED fate
       \/ /\ method
          /\ MayFail("callback")
          /\ fate' = "uncaught"
          /\ UNCHANGED jleft
       \/ /\ ~method
          /\ fate' = "badCall"
          /\ UNCHANGED jleft
    /\ UNCHANGED <<uiVars, mutex, jniVars, coordVars, workerVars, rearmed, leaked>>

-----------------------------------------------------------------------------
UiNext ==
    \/ \E a \in Activities : NativeInitMutex(a) \/ NativeFreeMutex(a)
    \/ NativeInitRef \/ NativeFreeRef \/ NativeFreeClear
    \/ \E a \in Activities, s \in Sessions,
          n \in 1 .. MaxThreads, k \in 1 .. MaxIterations : OnClick(a, s, n, k)

CoordNext(s) ==
    \/ CoordAttach(s) \/ CoordLock(s) \/ CoordLockDestroyed(s)
    \/ CoordCreate(s) \/ CoordJoin(s) \/ CoordReport(s)
    \/ CoordExit(s) \/ CoordDetach(s)

WorkerNext(w) ==
    \/ WorkerAttach(w) \/ WorkerRead(w) \/ WorkerIterate(w)
    \/ WorkerUnlock(w) \/ WorkerDetach(w)

Next ==
    \/ UiNext
    \/ \E s \in Sessions : CoordNext(s)
    \/ \E w \in Workers : WorkerNext(w) \/ JavaIterate(w)

Spec == Init /\ [][Next]_vars

\* The kernel runs every thread that can run; the user owes us nothing, but a
\* nativeInit or nativeFree that has begun is finished.
Fairness ==
    /\ WF_vars(NativeInitRef \/ NativeFreeRef \/ NativeFreeClear)
    /\ \A s \in Sessions : WF_vars(CoordNext(s))
    /\ \A w \in Workers : WF_vars(WorkerNext(w)) /\ WF_vars(JavaIterate(w))

FairSpec == Spec /\ Fairness
-----------------------------------------------------------------------------
(* Properties.                                                             *)

\* The baton.  As long as nativeInit has not re-initialised a locked mutex,
\* of all coordinators between lock and create and all POSIX workers between
\* their creation and their unlock, over all sessions, at most one exists;
\* while it does the mutex is locked and nobody has lost it.  A thread that
\* gave up with the baton leaves the mutex locked for ever.
Baton ==
    ~rearmed =>
        /\ \A s, t \in Sessions :
              cpc[s] = "create" /\ cpc[t] = "create" => s = t
        /\ \A v, w \in Workers : wpc[v] \in Busy /\ wpc[w] \in Busy => v = w
        /\ \A s \in Sessions, w \in Workers :
              ~(cpc[s] = "create" /\ wpc[w] \in Busy)
        /\ ((\E s \in Sessions : cpc[s] = "create")
              \/ (\E w \in Workers : wpc[w] \in Busy))
              => mutex = "locked" /\ ~leaked
        /\ leaked => mutex = "locked"

\* The id a worker reports under is its own, although all the workers of a
\* session read it from the same field of the same NativeWorkerArgs.
IdHandOff ==
    ~rearmed =>
        \A w \in Workers :
            /\ wpc[w] \in {"born", "ready"} => args[w[1]].id = w[2]
            /\ wpc[w] \in {"loop", "unlock", "detach"} => wid[w] = w[2]

\* The coordinator deletes the arguments only when no worker can still read
\* them, unless a failed join or callback made it leave its loop early.
ArgsOutliveReaders ==
    ~rearmed /\ ~MayFail("join") /\ ~MayFail("callback")
        => fate # "useAfterFree"

\* The VM never aborts a callback for a bad object or method as long as no
\* activity has been destroyed and no call failed in nativeInit or in a join.
CallsAreGood ==
    /\ \A a \in Activities : life[a] # "gone"
    /\ ~MayFail("globalRef") /\ ~MayFail("join")
    => fate # "badCall"

\* The workers take turns, as WorkerTurns says: the workers that own the baton
\* are the running ones, and the created ones have been started.
Turns == INSTANCE WorkerTurns WITH
            running <- {w \in Workers : wpc[w] \in Busy},
            started <- [s \in Sessions |-> {i \in Ids : wpc[<<s, i>>] # "none"}],
            lost <- leaked

\* Checked where there is one activity, so that the mutex is initialised once.
TakeTurns == Turns!Spec

\* A worker has returned without unlocking; a coordinator that gave up would
\* have an exception pending.
LostByWorker == leaked /\ \A s \in Sessions : ~exc[s]

\* Every session that starts comes to its end, or the process does, unless a
\* worker that could not attach has taken the mutex with it.
EverySessionEnds ==
    \A s \in Sessions :
        (cpc[s] = "start") ~> (cpc[s] = "done" \/ LostByWorker \/ fate # "running")
=============================================================================
