--------------------------- MODULE LuaHookProofs ---------------------------
(***************************************************************************)
(* The properties of module LuaHook for any threads, scripts and limits.   *)
(***************************************************************************)
EXTENDS LuaHook, FiniteSetTheorems, TLAPS

ThreadsOK == thread \in [Threads -> ThreadStates] /\ DOMAIN given = Threads

\* A thread that is not idle has the name of a script.
NamesInv == \A t \in Threads : thread[t].pc # "free" => thread[t].name \in Names

\* Before its first call and inside of a call a thread has passed nothing on,
\* after a call one script.
GivenInv ==
    \A t \in Threads :
        \/ given[t] = <<>> /\ (thread[t].pc # "free" \/ thread[t].name = NoName)
        \/ /\ thread[t].pc = "free" /\ thread[t].name # NoName
           /\ \/ given[t] = <<Script(thread[t].name)>>
              \/ given[t] = <<Modified(File(t))>> /\ Mods[File(t)] = "text"

\* Only a thread whose modified file could be read replaces the script.
ReplaceInv == \A t \in Threads : thread[t].pc = "replace" => Mods[File(t)] = "text"

IInv == ThreadsOK /\ NamesInv /\ GivenInv /\ ReplaceInv

\* What a move of thread t to pc changes.
Moves(t, pc) ==
    /\ thread' \in [Threads -> ThreadStates]
    /\ thread'[t].pc = pc
    /\ thread'[t].name = thread[t].name
    /\ \A u \in Threads \ {t} : thread'[u] = thread[u]

LEMMA GoToMoves ==
    ASSUME ThreadsOK, NEW t \in Threads, NEW pc \in Places, GoTo(t, pc)
    PROVE  Moves(t, pc)
BY DEF GoTo, Moves, ThreadsOK, ThreadStates

LEMMA LoggingMoves ==
    ASSUME ThreadsOK, NEW t \in Threads, NEW pc \in Places, NEW what \in Logs,
           GoToLogging(t, pc, what)
    PROVE  Moves(t, pc)
<1>1. thread[t].log \cup {what} \in SUBSET Logs
    BY DEF ThreadsOK, ThreadStates
<1> QED BY <1>1 DEF GoToLogging, Moves, ThreadsOK, ThreadStates

\* A thread that only moves on keeps IInv.
LEMMA MovingOn ==
    ASSUME IInv, NEW t \in Threads, NEW pc \in Places, Moves(t, pc),
           thread[t].pc # "free", pc # "free",
           pc = "replace" => Mods[File(t)] = "text",
           UNCHANGED given
    PROVE  IInv'
<1>1. ThreadsOK'
    BY DEF IInv, ThreadsOK, Moves
<1>2. given[t] = <<>>
    BY DEF IInv, GivenInv
<1>3. GivenInv'
    BY <1>2 DEF IInv, GivenInv, File, FileOf, Moves
<1>4. ReplaceInv'
    BY DEF IInv, ReplaceInv, File, FileOf, Moves
<1>5. NamesInv'
    BY DEF IInv, NamesInv, Moves
<1> QED BY <1>1, <1>3, <1>4, <1>5 DEF IInv

\* A thread that passes its one script on and returns keeps IInv.
LEMMA Returning ==
    ASSUME IInv, NEW t \in Threads, NEW script,
           GoTo(t, "free"), thread[t].pc # "free",
           given' = [given EXCEPT ![t] = Append(@, script)],
           \/ script = Script(thread[t].name)
           \/ script = Modified(File(t)) /\ Mods[File(t)] = "text"
    PROVE  IInv'
<1>1. Moves(t, "free")
    BY GoToMoves DEF IInv, Places
<1>2. ThreadsOK'
    BY <1>1 DEF IInv, ThreadsOK, Moves
<1>3. given[t] = <<>>
    BY DEF IInv, GivenInv
<1>4. Append(given[t], script) = <<script>>
    BY <1>3
<1>5. given'[t] = <<script>> /\ \A u \in Threads \ {t} : given'[u] = given[u]
    BY <1>4 DEF IInv, ThreadsOK
<1>6. thread[t].name # NoName
    BY LuaAssumption DEF IInv, NamesInv
<1>7. GivenInv'
    BY <1>1, <1>5, <1>6 DEF IInv, GivenInv, File, FileOf, Moves
<1>8. ReplaceInv' /\ NamesInv'
    BY <1>1 DEF IInv, ReplaceInv, NamesInv, File, FileOf, Moves
<1> QED BY <1>2, <1>7, <1>8 DEF IInv

LEMMA InitIInv == Init => IInv
<1> SUFFICES ASSUME Init PROVE IInv
    OBVIOUS
<1>1. Free \in ThreadStates /\ Free.pc = "free"
    BY DEF Free, NoName, ThreadStates, Places
<1>2. ThreadsOK
    BY <1>1 DEF Init, ThreadsOK
<1>3. GivenInv
    BY DEF Init, GivenInv, Free
<1>4. ReplaceInv /\ NamesInv
    BY <1>1 DEF Init, ReplaceInv, NamesInv
<1> QED BY <1>2, <1>3, <1>4 DEF IInv

LEMMA NextIInv == IInv /\ [Next]_vars => IInv'
<1> SUFFICES ASSUME IInv, [Next]_vars PROVE IInv'
    OBVIOUS
<1> USE DEF Places
<1>1. CASE Hook
    BY <1>1 DEF Hook, IInv, ThreadsOK, NamesInv, GivenInv, ReplaceInv, File
<1>2. CASE Restart
    BY <1>2 DEF Restart, IInv, ThreadsOK, NamesInv, GivenInv, ReplaceInv, Free, NoName, ThreadStates
<1>3. ASSUME NEW t \in Threads, Step(t) PROVE IInv'
    <2>0. ThreadsOK
        BY DEF IInv
    <2>1. ASSUME NEW n \in Names, Load(t, n) PROVE IInv'
        <3>1. PICK pc \in {"dirs", "original"} :
                thread' = [thread EXCEPT ![t] = [pc |-> pc, name |-> n, log |-> {}]]
            BY <2>1 DEF Load
        <3>2. ThreadsOK'
            BY <2>0, <2>1, <3>1 DEF Load, ThreadsOK, ThreadStates
        <3>3. GivenInv' /\ ReplaceInv' /\ NamesInv'
            BY <2>0, <2>1, <3>1 DEF Load, IInv, ThreadsOK, NamesInv, GivenInv, ReplaceInv, File, FileOf
        <3> QED BY <3>2, <3>3 DEF IInv
    <2>2. CASE CreateDirectories(t)
        <3>1. CASE GoTo(t, "check")
            BY <2>0, <2>2, <3>1, GoToMoves, MovingOn DEF CreateDirectories, At
        <3>2. CASE UNCHANGED thread
            BY <2>2, <3>2 DEF CreateDirectories, IInv, ThreadsOK, NamesInv, GivenInv, ReplaceInv, File
        <3> QED BY <2>2, <3>1, <3>2 DEF CreateDirectories
    <2>3. CASE CheckDump(t)
        BY <2>0, <2>3, GoToMoves, LoggingMoves, MovingOn DEF CheckDump, At, Logs
    <2>4. CASE OpenDump(t)
        BY <2>0, <2>4, GoToMoves, MovingOn DEF OpenDump, At
    <2>5. CASE WriteDump(t)
        BY <2>0, <2>5, GoToMoves, MovingOn DEF WriteDump, At
    <2>6. CASE CheckModified(t)
        <3>1. PICK pc \in {"original", "read"} : GoTo(t, pc)
            BY <2>6 DEF CheckModified
        <3> QED BY <2>0, <2>6, <3>1, GoToMoves, MovingOn DEF CheckModified, At
    <2>7. CASE ReadModified(t)
        BY <2>0, <2>7, LoggingMoves, MovingOn DEF ReadModified, At, Logs
    <2>8. CASE LoadModified(t)
        <3>1. Mods[File(t)] = "text"
            BY <2>8 DEF LoadModified, At, IInv, ReplaceInv
        <3> QED BY <2>8, <3>1, Returning DEF LoadModified, At
    <2>9. CASE LoadOriginal(t)
        BY <2>9, Returning DEF LoadOriginal, At
    <2> QED BY <1>3, <2>1, <2>2, <2>3, <2>4, <2>5, <2>6, <2>7, <2>8, <2>9 DEF Step
<1>4. CASE UNCHANGED vars
    BY <1>4 DEF vars, IInv, ThreadsOK, NamesInv, GivenInv, ReplaceInv, File
<1> QED BY <1>1, <1>2, <1>3, <1>4 DEF Next

LEMMA IInvGivesOneScript == IInv => OneScriptPerLoad
<1> SUFFICES ASSUME IInv, NEW t \in Threads
             PROVE  /\ Len(given[t]) = (IF thread[t].pc = "free" /\ thread[t].name # NoName THEN 1 ELSE 0)
                    /\ \A k \in DOMAIN given[t] :
                        \/ given[t][k] = Script(thread[t].name)
                        \/ given[t][k] = Modified(File(t)) /\ Mods[File(t)] = "text"
    BY DEF OneScriptPerLoad
<1>1. CASE given[t] = <<>> /\ (thread[t].pc # "free" \/ thread[t].name = NoName)
    BY <1>1
<1>2. CASE /\ thread[t].pc = "free" /\ thread[t].name # NoName
           /\ \/ given[t] = <<Script(thread[t].name)>>
              \/ given[t] = <<Modified(File(t))>> /\ Mods[File(t)] = "text"
    <2>1. PICK script : /\ given[t] = <<script>>
                        /\ \/ script = Script(thread[t].name)
                           \/ script = Modified(File(t)) /\ Mods[File(t)] = "text"
        BY <1>2
    <2>2. Len(<<script>>) = 1 /\ DOMAIN <<script>> = {1} /\ <<script>>[1] = script
        OBVIOUS
    <2> QED BY <1>2, <2>1, <2>2
<1> QED BY <1>1, <1>2 DEF IInv, GivenInv

\* Every call of the hooked loader that returns has handed the game exactly one
\* script, its own or the modified one, for any number of threads, files and
\* failures.
THEOREM OneScript == Spec => []OneScriptPerLoad
<1>1. Spec => []IInv
    BY InitIInv, NextIInv, PTL DEF Spec
<1> QED BY <1>1, IInvGivesOneScript, PTL

---------------------------------------------------------------------------

\* Only OpenDump and WriteDump change a file, and only a file being written.
LEMMA NextKeepsSaved ==
    ASSUME [Next]_vars, DOMAIN dump = Bases, NEW f \in Bases, ~Writing(f)
    PROVE  dump'[f] = dump[f]
<1>1. ASSUME NEW t \in Threads, OpenDump(t) PROVE dump'[f] = dump[f]
    <2>1. File(t) # f
        BY <1>1 DEF OpenDump, At, Writing
    <2> QED BY <1>1, <2>1 DEF OpenDump
<1>2. ASSUME NEW t \in Threads, WriteDump(t) PROVE dump'[f] = dump[f]
    <2>1. File(t) # f
        BY <1>2 DEF WriteDump, At, Writing
    <2> QED BY <1>2, <2>1 DEF WriteDump
<1> QED BY <1>1, <1>2 DEF Next, Step, vars, Hook, Restart, Load, CreateDirectories, CheckDump,
           CheckModified, ReadModified, LoadModified, LoadOriginal

LEMMA DumpDomain == Spec => [](DOMAIN dump = Bases)
<1>1. Init => DOMAIN dump = Bases
    BY DEF Init
<1>2. DOMAIN dump = Bases /\ [Next]_vars => (DOMAIN dump = Bases)'
    BY DEF Next, Step, vars, Hook, Restart, Load, CreateDirectories, CheckDump, OpenDump, WriteDump,
           CheckModified, ReadModified, LoadModified, LoadOriginal
<1> QED BY <1>1, <1>2, PTL DEF Spec

\* A thread starts to write a file only when it found no file there.
LEMMA NextKeepsSettled ==
    ASSUME ThreadsOK, DOMAIN dump = Bases, [Next]_vars, NEW f \in Bases, Settled(f)
    PROVE  Settled(f)' /\ dump'[f] = dump[f]
<1>1. dump'[f] = dump[f] /\ Complete(f)'
    BY NextKeepsSaved DEF Settled, Complete
<1>2. dump[f] # None
    BY DEF Settled, Complete, Script, None
<1>3. \A u \in Threads : ~(thread[u].pc \in {"open", "write"} /\ thread[u].name.base = f)
    BY DEF Settled, Writing, File, FileOf
<1> SUFFICES ~Writing(f)'
    BY <1>1 DEF Settled
<1>4. ASSUME NEW t \in Threads, NEW pc \in Places, Moves(t, pc),
             pc \in {"open", "write"} => thread[t].name.base # f
      PROVE  ~Writing(f)'
    BY <1>3, <1>4 DEF Moves, Writing, File, FileOf
<1>5. CASE UNCHANGED thread
    BY <1>3, <1>5 DEF Writing, File, FileOf
<1>6. CASE Hook \/ UNCHANGED vars
    BY <1>5, <1>6 DEF Hook, vars
<1>7. CASE Restart
    <2>1. \A u \in Threads : thread'[u].pc = "free"
        BY <1>7 DEF Restart, Free
    <2> QED BY <2>1 DEF Writing
<1>8. ASSUME NEW t \in Threads, Step(t) PROVE ~Writing(f)'
    <2>1. ASSUME NEW n \in Names, Load(t, n) PROVE ~Writing(f)'
        <3>1. PICK pc \in {"dirs", "original"} :
                thread' = [thread EXCEPT ![t] = [pc |-> pc, name |-> n, log |-> {}]]
            BY <2>1 DEF Load
        <3> QED BY <1>3, <3>1 DEF ThreadsOK, Writing, File, FileOf
    <2>2. CASE CreateDirectories(t)
        BY <1>4, <1>5, <2>2, GoToMoves DEF CreateDirectories, Places
    <2>3. CASE CheckDump(t)
        <3>1. CASE dump[File(t)] = None /\ GoTo(t, "open")
            BY <1>2, <1>4, <3>1, GoToMoves DEF File, FileOf, Places
        <3>2. CASE GoToLogging(t, "modified", "has saved")
            BY <1>4, <3>2, LoggingMoves DEF Places, Logs
        <3> QED BY <2>3, <3>1, <3>2 DEF CheckDump
    <2>4. CASE OpenDump(t)
        <3>1. thread[t].name.base # f
            BY <1>3, <2>4 DEF OpenDump, At
        <3> QED BY <1>4, <2>4, <3>1, GoToMoves DEF OpenDump, Places
    <2>5. CASE WriteDump(t)
        BY <1>4, <2>5, GoToMoves DEF WriteDump, Places
    <2>6. CASE CheckModified(t)
        <3>1. PICK pc \in {"original", "read"} : GoTo(t, pc)
            BY <2>6 DEF CheckModified
        <3> QED BY <1>4, <3>1, GoToMoves DEF Places
    <2>7. CASE ReadModified(t)
        BY <1>4, <2>7, LoggingMoves DEF ReadModified, Places, Logs
    <2>8. CASE LoadModified(t)
        BY <1>4, <2>8, GoToMoves DEF LoadModified, Places
    <2>9. CASE LoadOriginal(t)
        BY <1>4, <2>9, GoToMoves DEF LoadOriginal, Places
    <2> QED BY <1>8, <2>1, <2>2, <2>3, <2>4, <2>5, <2>6, <2>7, <2>8, <2>9 DEF Step
<1> QED BY <1>6, <1>7, <1>8 DEF Next

\* A complete dump that no thread is writing is never opened for writing and
\* never changed again, over any number of loads and restarts.
THEOREM SavedStays == Spec => SavedOnceForAll
<1>1. Spec => []ThreadsOK
    <2>1. Spec => []IInv
        BY InitIInv, NextIInv, PTL DEF Spec
    <2> QED BY <2>1, PTL DEF IInv
<1>2. ThreadsOK /\ (DOMAIN dump = Bases) /\ [Next]_vars
        => [\A f \in Bases : Settled(f) => Settled(f)' /\ dump'[f] = dump[f]]_vars
    BY NextKeepsSettled
<1> QED BY <1>1, <1>2, DumpDomain, PTL DEF Spec, SavedOnceForAll

---------------------------------------------------------------------------
(* Descriptors                                                             *)

Writers == {t \in Threads : thread[t].pc = "write"}

\* Every thread that is about to write holds a descriptor; the modified files
\* that were read hold the others.
Descriptors == fds \in 0 .. MaxFds /\ Cardinality(Writers) <= fds

Files == {None, Empty, Mixed} \cup {Script(n) : n \in Names}
Passed == {Script(n) : n \in Names} \cup {Modified(f) : f \in Bases}

FilesOK == dump \in [Bases -> Files]

CountersOK == loads \in 0 .. MaxLoads /\ crashes \in 0 .. MaxCrashes

ProcessOK == hooked \in {"not yet", "installed", "failed"} /\ alive \in BOOLEAN

PassedOK == \A t \in Threads : given[t] \in Seq(Passed)

LEMMA WritersFinite ==
    ASSUME NEW S \in SUBSET Threads
    PROVE  IsFiniteSet(S) /\ Cardinality(S) \in Nat
BY LuaAssumption, FS_Subset, FS_CardinalityType

\* A thread begins to write with the descriptor it opened, and gives it back.
LEMMA WritersMove ==
    ASSUME ThreadsOK, NEW t \in Threads, NEW pc \in Places, Moves(t, pc)
    PROVE  Writers' = IF pc = "write" THEN Writers \cup {t} ELSE Writers \ {t}
BY DEF Moves, Writers

LEMMA MoveKeepsDescriptors ==
    ASSUME ThreadsOK, Descriptors, NEW t \in Threads, NEW pc \in Places, Moves(t, pc),
           pc # "write", fds' = fds \/ (fds' = fds + 1 /\ fds < MaxFds)
    PROVE  Descriptors'
<1>1. Writers' \subseteq Writers /\ Writers \subseteq Threads
    BY WritersMove DEF Writers
<1>2. IsFiniteSet(Writers) /\ Cardinality(Writers) \in Nat
    BY <1>1, WritersFinite
<1>3. Cardinality(Writers') <= Cardinality(Writers) /\ Cardinality(Writers') \in Nat
    BY <1>1, <1>2, FS_Subset, WritersFinite
<1> QED BY <1>2, <1>3, LuaAssumption DEF Descriptors

LEMMA NextDescriptors == ThreadsOK /\ Descriptors /\ [Next]_vars => Descriptors'
<1> SUFFICES ASSUME ThreadsOK, Descriptors, [Next]_vars PROVE Descriptors'
    OBVIOUS
<1>0. Writers \subseteq Threads /\ IsFiniteSet(Writers) /\ Cardinality(Writers) \in Nat
    BY WritersFinite DEF Writers
<1>1. CASE UNCHANGED <<thread, fds>>
    BY <1>1 DEF Descriptors, Writers
<1>2. CASE Restart
    <2>1. Writers' = {} /\ fds' = 0
        BY <1>2 DEF Restart, Writers, Free
    <2>2. Cardinality({}) = 0
        BY FS_EmptySet
    <2> QED BY <2>1, <2>2, LuaAssumption DEF Descriptors
<1>3. ASSUME NEW t \in Threads, NEW n \in Names, Load(t, n) PROVE Descriptors'
    <2>1. PICK pc \in {"dirs", "original"} :
            thread' = [thread EXCEPT ![t] = [pc |-> pc, name |-> n, log |-> {}]]
        BY <1>3 DEF Load
    <2>2. thread[t].pc = "free" /\ fds' = fds
        BY <1>3 DEF Load
    <2>3. Writers' = Writers
        BY <2>1, <2>2 DEF Writers, ThreadsOK
    <2> QED BY <2>2, <2>3 DEF Descriptors
<1>4. ASSUME NEW t \in Threads, OpenDump(t) PROVE Descriptors'
    <2>1. CASE fds < MaxFds
        <3>1. fds' = fds + 1 /\ GoTo(t, "write") /\ thread[t].pc = "open"
            BY <1>4, <2>1 DEF OpenDump, At
        <3>2. Moves(t, "write")
            BY <3>1, GoToMoves DEF Places
        <3>3. Writers' = Writers \cup {t} /\ t \notin Writers
            BY <3>1, <3>2, WritersMove DEF Writers, Places
        <3>4. Cardinality(Writers') = Cardinality(Writers) + 1
            BY <1>0, <3>3, FS_AddElement
        <3> QED BY <1>0, <2>1, <3>1, <3>4, LuaAssumption DEF Descriptors
    <2>2. CASE ~(fds < MaxFds)
        <3>1. fds' = fds /\ GoTo(t, "modified")
            BY <1>4, <2>2 DEF OpenDump
        <3> QED BY <3>1, GoToMoves, MoveKeepsDescriptors DEF Places
    <2> QED BY <2>1, <2>2
<1>5. ASSUME NEW t \in Threads, WriteDump(t) PROVE Descriptors'
    <2>1. fds' = fds - 1 /\ GoTo(t, "modified") /\ thread[t].pc = "write"
        BY <1>5 DEF WriteDump, At
    <2>2. Moves(t, "modified")
        BY <2>1, GoToMoves DEF Places
    <2>3. Writers' = Writers \ {t} /\ t \in Writers
        BY <2>1, <2>2, WritersMove DEF Writers, Places
    <2>4. Cardinality(Writers') = Cardinality(Writers) - 1
        BY <1>0, <2>3, FS_RemoveElement
    <2>5. Cardinality(Writers) > 0
        <3>1. Cardinality(Writers') \in Nat
            BY <1>0, <2>3, WritersFinite
        <3> QED BY <1>0, <2>4, <3>1
    <2> QED BY <1>0, <2>1, <2>4, <2>5, LuaAssumption DEF Descriptors
<1>6. ASSUME NEW t \in Threads, CreateDirectories(t) PROVE Descriptors'
    BY <1>1, <1>6, GoToMoves, MoveKeepsDescriptors DEF CreateDirectories, Places
<1>7. ASSUME NEW t \in Threads, CheckDump(t) PROVE Descriptors'
    BY <1>7, GoToMoves, LoggingMoves, MoveKeepsDescriptors DEF CheckDump, Places, Logs
<1>8. ASSUME NEW t \in Threads, CheckModified(t) PROVE Descriptors'
    <2>1. PICK pc \in {"original", "read"} : GoTo(t, pc)
        BY <1>8 DEF CheckModified
    <2> QED BY <1>8, <2>1, GoToMoves, MoveKeepsDescriptors DEF CheckModified, Places
<1>9. ASSUME NEW t \in Threads, ReadModified(t) PROVE Descriptors'
    <2>1. PICK pc \in {"replace", "original"} : GoToLogging(t, pc, "hijack")
        BY <1>9 DEF ReadModified
    <2>2. fds' = fds \/ (fds' = fds + 1 /\ fds < MaxFds)
        BY <1>9 DEF ReadModified
    <2> QED BY <2>1, <2>2, LoggingMoves, MoveKeepsDescriptors DEF Places, Logs
<1>10. ASSUME NEW t \in Threads, LoadModified(t) \/ LoadOriginal(t) PROVE Descriptors'
    BY <1>10, GoToMoves, MoveKeepsDescriptors DEF LoadModified, LoadOriginal, Places
<1> QED BY <1>1, <1>2, <1>3, <1>4, <1>5, <1>6, <1>7, <1>8, <1>9, <1>10 DEF Next, Step, Hook, vars

---------------------------------------------------------------------------
(* Types                                                                   *)

LEMMA NextNames == ThreadsOK /\ NamesInv /\ [Next]_vars => NamesInv'
<1> SUFFICES ASSUME ThreadsOK, NamesInv, [Next]_vars PROVE NamesInv'
    OBVIOUS
<1>1. CASE UNCHANGED thread
    BY <1>1 DEF NamesInv
<1>2. ASSUME NEW t \in Threads, NEW pc \in Places, Moves(t, pc), thread[t].pc # "free"
      PROVE  NamesInv'
    BY <1>2 DEF NamesInv, Moves
<1>3. CASE Restart
    BY <1>3 DEF Restart, NamesInv, Free
<1>4. ASSUME NEW t \in Threads, Step(t) PROVE NamesInv'
    <2>1. ASSUME NEW n \in Names, Load(t, n) PROVE NamesInv'
        <3>1. PICK pc \in {"dirs", "original"} :
                thread' = [thread EXCEPT ![t] = [pc |-> pc, name |-> n, log |-> {}]]
            BY <2>1 DEF Load
        <3> QED BY <3>1 DEF ThreadsOK, NamesInv
    <2>2. ASSUME NEW pc \in Places, GoTo(t, pc), thread[t].pc # "free" PROVE NamesInv'
        BY <1>2, <2>2, GoToMoves
    <2>3. ASSUME NEW pc \in Places, NEW what \in Logs, GoToLogging(t, pc, what), thread[t].pc # "free"
          PROVE  NamesInv'
        BY <1>2, <2>3, LoggingMoves
    <2>4. CASE CheckModified(t)
        <3>1. PICK pc \in {"original", "read"} : GoTo(t, pc)
            BY <2>4 DEF CheckModified
        <3> QED BY <2>2, <2>4, <3>1 DEF CheckModified, At, Places
    <2>5. CASE CheckDump(t) \/ ReadModified(t)
        BY <2>2, <2>3, <2>5 DEF CheckDump, ReadModified, At, Places, Logs
    <2>6. CASE CreateDirectories(t)
        BY <1>1, <2>2, <2>6 DEF CreateDirectories, At, Places
    <2>7. CASE OpenDump(t) \/ WriteDump(t) \/ LoadModified(t) \/ LoadOriginal(t)
        BY <2>2, <2>7 DEF OpenDump, WriteDump, LoadModified, LoadOriginal, At, Places
    <2> QED BY <1>4, <2>1, <2>4, <2>5, <2>6, <2>7 DEF Step
<1> QED BY <1>1, <1>3, <1>4 DEF Next, Hook, vars

LEMMA NextFiles == NamesInv /\ FilesOK /\ [Next]_vars => FilesOK'
<1> SUFFICES ASSUME NamesInv, FilesOK, [Next]_vars PROVE FilesOK'
    OBVIOUS
<1>1. CASE UNCHANGED dump
    BY <1>1 DEF FilesOK
<1>2. ASSUME NEW t \in Threads, OpenDump(t) PROVE FilesOK'
    BY <1>2 DEF OpenDump, FilesOK, Files
<1>3. ASSUME NEW t \in Threads, WriteDump(t) PROVE FilesOK'
    <2>1. thread[t].name \in Names
        BY <1>3 DEF WriteDump, At, NamesInv
    <2>2. \A old : Overwritten(old, thread[t].name) \in Files
        BY <2>1 DEF Overwritten, Files
    <2> QED BY <1>3, <2>2 DEF WriteDump, FilesOK
<1> QED BY <1>1, <1>2, <1>3 DEF Next, Step, vars, Hook, Restart, Load, CreateDirectories, CheckDump,
           CheckModified, ReadModified, LoadModified, LoadOriginal

LEMMA NextCounters == CountersOK /\ [Next]_vars => CountersOK'
<1> SUFFICES ASSUME CountersOK, [Next]_vars PROVE CountersOK'
    OBVIOUS
<1>1. CASE UNCHANGED <<loads, crashes>>
    BY <1>1 DEF CountersOK
<1>2. CASE Restart
    <2>1. loads' = 0 /\ crashes < MaxCrashes /\ crashes' = crashes + 1
        BY <1>2 DEF Restart
    <2> QED BY <2>1, LuaAssumption DEF CountersOK
<1>3. ASSUME NEW t \in Threads, NEW n \in Names, Load(t, n) PROVE CountersOK'
    BY <1>3, LuaAssumption DEF Load, CountersOK
<1> QED BY <1>1, <1>2, <1>3 DEF Next, Step, Hook, CreateDirectories, CheckDump, OpenDump, WriteDump,
           CheckModified, ReadModified, LoadModified, LoadOriginal, vars

LEMMA NextProcess == ProcessOK /\ [Next]_vars => ProcessOK'
<1> SUFFICES ASSUME ProcessOK, [Next]_vars PROVE ProcessOK'
    OBVIOUS
<1>1. CASE UNCHANGED <<hooked, alive>>
    BY <1>1 DEF ProcessOK
<1>2. CASE hooked' \in {"not yet", "installed", "failed"} /\ UNCHANGED alive
    BY <1>2 DEF ProcessOK
<1>3. CASE hooked' \in {hooked, "not yet"} /\ (alive' = TRUE \/ alive' = FALSE)
    BY <1>3 DEF ProcessOK
<1>4. Hook => hooked' \in {"not yet", "installed", "failed"} /\ UNCHANGED alive
    BY DEF Hook
<1>5. ASSUME NEW t \in Threads, CreateDirectories(t)
      PROVE  UNCHANGED hooked /\ (UNCHANGED alive \/ alive' = FALSE)
    BY <1>5 DEF CreateDirectories
<1>6. Restart => hooked' = "not yet" /\ alive' = TRUE
    BY DEF Restart
<1>7. ASSUME NEW t \in Threads, Step(t), ~CreateDirectories(t) PROVE UNCHANGED <<hooked, alive>>
    BY <1>7 DEF Step, Load, CheckDump, OpenDump, WriteDump, CheckModified, ReadModified,
                LoadModified, LoadOriginal
<1>8. UNCHANGED vars => UNCHANGED <<hooked, alive>>
    BY DEF vars
<1> QED BY <1>1, <1>2, <1>3, <1>4, <1>5, <1>6, <1>7, <1>8 DEF Next

LEMMA NextPassed == DOMAIN given = Threads /\ NamesInv /\ PassedOK /\ [Next]_vars => PassedOK'
<1> SUFFICES ASSUME DOMAIN given = Threads, NamesInv, PassedOK, [Next]_vars PROVE PassedOK'
    OBVIOUS
<1>1. CASE UNCHANGED given
    BY <1>1 DEF PassedOK
<1>2. CASE Restart
    <2>1. \A t \in Threads : given'[t] = <<>>
        BY <1>2 DEF Restart
    <2>2. <<>> \in Seq(Passed)
        OBVIOUS
    <2> QED BY <2>1, <2>2 DEF PassedOK
<1>3. ASSUME NEW t \in Threads, NEW n \in Names, Load(t, n) PROVE PassedOK'
    BY <1>3 DEF Load, PassedOK
<1>4. ASSUME NEW t \in Threads, NEW script \in Passed,
             given' = [given EXCEPT ![t] = Append(@, script)]
      PROVE  PassedOK'
    BY <1>4 DEF PassedOK
<1>5. ASSUME NEW t \in Threads, LoadModified(t) PROVE PassedOK'
    <2>1. File(t) \in Bases
        BY <1>5 DEF LoadModified, At, NamesInv, File, FileOf, Bases
    <2> QED BY <1>4, <1>5, <2>1 DEF LoadModified, Passed
<1>6. ASSUME NEW t \in Threads, LoadOriginal(t) PROVE PassedOK'
    <2>1. thread[t].name \in Names
        BY <1>6 DEF LoadOriginal, At, NamesInv
    <2> QED BY <1>4, <1>6, <2>1 DEF LoadOriginal, Passed
<1> QED BY <1>1, <1>2, <1>3, <1>5, <1>6 DEF Next, Step, vars, Hook, CreateDirectories, CheckDump,
           OpenDump, WriteDump, CheckModified, ReadModified

TypesInv == IInv /\ NamesInv /\ FilesOK /\ CountersOK /\ ProcessOK /\ PassedOK /\ Descriptors

LEMMA InitTypes == Init => TypesInv
<1> SUFFICES ASSUME Init PROVE TypesInv
    OBVIOUS
<1>1. NamesInv
    BY DEF Init, NamesInv, Free
<1>2. PassedOK
    <2>1. \A t \in Threads : given[t] = <<>>
        BY DEF Init
    <2>2. <<>> \in Seq(Passed)
        OBVIOUS
    <2> QED BY <2>1, <2>2 DEF PassedOK
<1>3. FilesOK
    BY DEF Init, FilesOK, Files
<1>4. CountersOK
    <2>1. loads = 0 /\ crashes = 0
        BY DEF Init
    <2> QED BY <2>1, LuaAssumption DEF CountersOK
<1>5. ProcessOK
    BY DEF Init, ProcessOK
<1>6. Descriptors
    <2>1. Writers = {} /\ fds = 0
        BY DEF Init, Writers, Free
    <2> QED BY <2>1, FS_EmptySet, LuaAssumption DEF Descriptors
<1> QED BY <1>1, <1>2, <1>3, <1>4, <1>5, <1>6, InitIInv DEF TypesInv

LEMMA NextTypes == TypesInv /\ [Next]_vars => TypesInv'
BY NextIInv, NextNames, NextFiles, NextCounters, NextProcess, NextPassed, NextDescriptors
    DEF TypesInv, IInv, ThreadsOK

\* The descriptors of the process are never given back more often than taken:
\* saveFile closes what it opened, and the modified files stay open.
THEOREM LuaTypeCorrect == Spec => []TypeOK
<1>1. TypesInv => TypeOK
    BY DEF TypesInv, IInv, ThreadsOK, FilesOK, Files, CountersOK, ProcessOK, PassedOK, Passed,
           Descriptors, TypeOK
<1> QED BY <1>1, InitTypes, NextTypes, PTL DEF Spec

---------------------------------------------------------------------------
(* Threads that dump the same script                                       *)

ScriptsOf(f) == {Script(n) : n \in {m \in Names : FileOf(m) = f}}

\* In the first life of the process a file is truncated only while a thread
\* that truncated it has still to write it, and never mixed.
QuietInv ==
    crashes = 0 => \A f \in Bases :
        /\ dump[f] \in {None, Empty} \cup ScriptsOf(f)
        /\ dump[f] = Empty => \E t \in Threads : thread[t].pc = "write" /\ File(t) = f

\* One name, one script: the two spellings of a file load the same script.
SameScript == \A m, n \in Names : FileOf(m) = FileOf(n) => Length(m) = Length(n)

LEMMA OverwrittenWhole ==
    ASSUME SameScript, NEW f \in Bases, NEW old \in {None, Empty} \cup ScriptsOf(f),
           NEW n \in Names, FileOf(n) = f, \A m \in Names : Length(m) \in Nat
    PROVE  Overwritten(old, n) = Script(n)
<1>1. CASE old \in {None, Empty}
    BY <1>1 DEF Overwritten, None, Empty, Mixed
<1>2. CASE old \in ScriptsOf(f)
    <2>1. PICK m \in Names : FileOf(m) = f /\ old = Script(m)
        BY <1>2 DEF ScriptsOf
    <2>2. old # Mixed /\ old[2] = m
        BY <2>1 DEF Script, Mixed
    <2>3. Length(m) = Length(n) /\ Length(m) \in Nat
        BY <2>1 DEF SameScript
    <2>4. ~(Length(old[2]) > Length(n))
        BY <2>2, <2>3
    <2> QED BY <2>2, <2>4 DEF Overwritten
<1> QED BY <1>1, <1>2

LEMMA NextQuiet ==
    ASSUME SameScript, \A m \in Names : Length(m) \in Nat, "write" \notin Failures,
           TypesInv, QuietInv, [Next]_vars
    PROVE  QuietInv'
<1> SUFFICES ASSUME crashes' = 0, NEW f \in Bases
             PROVE  /\ dump'[f] \in {None, Empty} \cup ScriptsOf(f)
                    /\ dump'[f] = Empty =>
                         \E t \in Threads : thread'[t].pc = "write" /\ thread'[t].name.base = f
    BY DEF QuietInv, File, FileOf
<1>1. crashes \in Nat /\ ThreadsOK /\ DOMAIN dump = Bases
    BY LuaAssumption DEF TypesInv, CountersOK, IInv, FilesOK
<1>2. ~Restart /\ crashes = 0
    <2>1. Restart => crashes' = crashes + 1
        BY DEF Restart
    <2>2. ~Restart
        BY <1>1, <2>1
    <2> QED BY <2>2 DEF Next, Step, vars, Hook, Load, CreateDirectories, CheckDump, OpenDump, WriteDump,
               CheckModified, ReadModified, LoadModified, LoadOriginal
<1>3. /\ dump[f] \in {None, Empty} \cup ScriptsOf(f)
      /\ dump[f] = Empty => \E t \in Threads : thread[t].pc = "write" /\ thread[t].name.base = f
    BY <1>2 DEF QuietInv, File, FileOf
<1>4. ASSUME NEW t \in Threads, NEW pc \in Places, Moves(t, pc), thread[t].pc # "write",
             dump'[f] = dump[f]
      PROVE  dump'[f] = Empty =>
                 \E u \in Threads : thread'[u].pc = "write" /\ thread'[u].name.base = f
    BY <1>3, <1>4 DEF Moves
<1>5. CASE UNCHANGED <<thread, dump>>
    BY <1>3, <1>5
<1>6. ASSUME NEW t \in Threads, NEW n \in Names, Load(t, n)
      PROVE  dump' = dump /\ \A u \in Threads : thread[u].pc = "write" => thread'[u] = thread[u]
    <2>1. PICK pc \in {"dirs", "original"} :
            thread' = [thread EXCEPT ![t] = [pc |-> pc, name |-> n, log |-> {}]]
        BY <1>6 DEF Load
    <2> QED BY <1>1, <1>6, <2>1 DEF Load, ThreadsOK
<1>7. ASSUME NEW t \in Threads, OpenDump(t)
      PROVE  /\ dump'[f] \in {None, Empty} \cup ScriptsOf(f)
             /\ dump'[f] = Empty =>
                  \E u \in Threads : thread'[u].pc = "write" /\ thread'[u].name.base = f
    <2>1. CASE fds < MaxFds
        <3>1. dump' = [dump EXCEPT ![File(t)] = Empty] /\ GoTo(t, "write") /\ thread[t].pc = "open"
            BY <1>7, <2>1 DEF OpenDump, At
        <3>2. Moves(t, "write")
            BY <1>1, <3>1, GoToMoves DEF Places
        <3>3. CASE File(t) = f
            BY <1>1, <3>1, <3>2, <3>3 DEF Moves, File, FileOf
        <3>4. CASE File(t) # f
            <4>1. dump'[f] = dump[f]
                BY <1>1, <3>1, <3>4
            <4> QED BY <1>3, <1>4, <3>1, <3>2, <4>1 DEF Places
        <3> QED BY <3>3, <3>4
    <2>2. CASE ~(fds < MaxFds)
        <3>1. dump' = dump /\ GoTo(t, "modified") /\ thread[t].pc = "open"
            BY <1>7, <2>2 DEF OpenDump, At
        <3>2. Moves(t, "modified")
            BY <1>1, <3>1, GoToMoves DEF Places
        <3> QED BY <1>3, <1>4, <3>1, <3>2 DEF Places
    <2> QED BY <2>1, <2>2
<1>8. ASSUME NEW t \in Threads, WriteDump(t)
      PROVE  /\ dump'[f] \in {None, Empty} \cup ScriptsOf(f)
             /\ dump'[f] = Empty =>
                  \E u \in Threads : thread'[u].pc = "write" /\ thread'[u].name.base = f
    <2>1. /\ dump' = [dump EXCEPT ![File(t)] = Overwritten(@, thread[t].name)]
          /\ GoTo(t, "modified") /\ thread[t].pc = "write"
        BY <1>8 DEF WriteDump, At
    <2>2. Moves(t, "modified")
        BY <1>1, <2>1, GoToMoves DEF Places
    <2>3. thread[t].name \in Names
        BY <2>1 DEF TypesInv, NamesInv
    <2>4. CASE File(t) = f
        <3>1. dump'[f] = Script(thread[t].name)
            BY <1>1, <1>3, <2>1, <2>3, <2>4, OverwrittenWhole DEF File
        <3>2. Script(thread[t].name) \in ScriptsOf(f) /\ Script(thread[t].name) # Empty
            BY <2>3, <2>4 DEF ScriptsOf, File, Script, Empty
        <3> QED BY <3>1, <3>2
    <2>5. CASE File(t) # f
        <3>1. dump'[f] = dump[f]
            BY <1>1, <2>1, <2>5
        <3>2. thread[t].name.base # f
            BY <2>5 DEF File, FileOf
        <3> QED BY <1>3, <2>2, <3>1, <3>2 DEF Moves
    <2> QED BY <2>4, <2>5
<1>9. ASSUME NEW t \in Threads, NEW pc \in Places, GoTo(t, pc), thread[t].pc # "write",
             UNCHANGED dump
      PROVE  /\ dump'[f] \in {None, Empty} \cup ScriptsOf(f)
             /\ dump'[f] = Empty =>
                  \E u \in Threads : thread'[u].pc = "write" /\ thread'[u].name.base = f
    BY <1>1, <1>3, <1>4, <1>9, GoToMoves
<1>10. ASSUME NEW t \in Threads, NEW pc \in Places, NEW what \in Logs, GoToLogging(t, pc, what),
              thread[t].pc # "write", UNCHANGED dump
       PROVE  /\ dump'[f] \in {None, Empty} \cup ScriptsOf(f)
              /\ dump'[f] = Empty =>
                   \E u \in Threads : thread'[u].pc = "write" /\ thread'[u].name.base = f
    BY <1>1, <1>3, <1>4, <1>10, LoggingMoves
<1>11. CASE \E t \in Threads : CreateDirectories(t)
    BY <1>5, <1>9, <1>11 DEF CreateDirectories, At, Places
<1>12. CASE \E t \in Threads : CheckDump(t) \/ ReadModified(t)
    BY <1>9, <1>10, <1>12 DEF CheckDump, ReadModified, At, Places, Logs
<1>13. CASE \E t \in Threads : CheckModified(t)
    <2>1. PICK t \in Threads : CheckModified(t)
        BY <1>13
    <2>2. PICK pc \in {"original", "read"} : GoTo(t, pc)
        BY <2>1 DEF CheckModified
    <2> QED BY <1>9, <2>1, <2>2 DEF CheckModified, At, Places
<1>14. CASE \E t \in Threads : LoadModified(t) \/ LoadOriginal(t)
    BY <1>9, <1>14 DEF LoadModified, LoadOriginal, At, Places
<1>15. CASE \E t \in Threads, n \in Names : Load(t, n)
    <2>1. dump' = dump /\ \A u \in Threads : thread[u].pc = "write" => thread'[u] = thread[u]
        BY <1>6, <1>15
    <2> QED BY <1>3, <2>1
<1>16. CASE Hook \/ UNCHANGED vars
    BY <1>5, <1>16 DEF Hook, vars
<1> QED BY <1>2, <1>7, <1>8, <1>11, <1>12, <1>13, <1>14, <1>15, <1>16 DEF Next, Step

\* However many threads dump a script at the same time, in a first life of the
\* process and without failing writes, a dump nobody writes is whole: the
\* truncation by a second thread is followed by its own write.
THEOREM DumpsComplete ==
    ASSUME SameScript, \A m \in Names : Length(m) \in Nat, "write" \notin Failures
    PROVE  Spec => []QuietDumpsComplete
<1>1. Init => QuietInv
    <2>1. Init => \A f \in Bases : dump[f] = None
        BY DEF Init
    <2>2. None # Empty
        BY DEF None, Empty
    <2> QED BY <2>1, <2>2 DEF QuietInv
<1>2. TypesInv /\ QuietInv /\ [Next]_vars => QuietInv'
    BY NextQuiet
<1>3. QuietInv => QuietDumpsComplete
    <2> SUFFICES ASSUME QuietInv, crashes = 0, NEW f \in Bases, dump[f] # None, ~Writing(f)
                 PROVE  Complete(f)
        BY DEF QuietDumpsComplete
    <2>1. dump[f] # Empty
        BY DEF QuietInv, Writing
    <2> QED BY <2>1 DEF QuietInv, ScriptsOf, Complete
<1> QED BY <1>1, <1>2, <1>3, InitTypes, NextTypes, PTL DEF Spec
===========================================================================
