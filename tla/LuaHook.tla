------------------------------ MODULE LuaHook ------------------------------
(***************************************************************************)
(* The replacement that hook-lib and hooklegend-lib install for the script *)
(* loader of a game (luaL_loadbuffer, luaL_loadbufferx): every script that *)
(* is loaded is dumped to a file once, and a script for which a modified   *)
(* file exists is replaced by it.  Several threads of the game may load    *)
(* scripts; the process may die at any moment and be started again, with   *)
(* the files as they are.                                                  *)
(***************************************************************************)
EXTENDS Naturals, Sequences, FiniteSets

CONSTANTS
    Threads,
    Names,       \* script names: [base, slash], slash for a leading "/"
    Length(_),   \* the length of the script of a name
    Dumped,      \* the bases that are dumped: hooklegend-lib wants "lua" in them
    Mods,        \* what is_regular_file and fread find: bases -> "none", "text", "empty"
    MaxFds,      \* the number of files the process may have open
    MaxLoads,    \* bound on the calls of the loader in one life of the process
    MaxCrashes,  \* bound on the restarts
    Failures     \* what may fail: "hook", "dirs", "write", "memory"

\* What the name of a thread is before its first load.
NoName == [base |-> "", slash |-> FALSE]

ASSUME LuaAssumption ==
    /\ IsFiniteSet(Threads)
    /\ NoName \notin Names
    /\ MaxFds \in Nat /\ MaxLoads \in Nat /\ MaxCrashes \in Nat

VARIABLES
    hooked,   \* JNI_OnLoad: "not yet", "installed", "failed"
    dump,     \* the dump file of each base
    fds,      \* open files
    thread,   \* each thread: where it is, the name it loads, what it has logged
    given,    \* what each thread has passed to the original function in this call
    loads,
    crashes,
    alive

vars == <<hooked, dump, fds, thread, given, loads, crashes, alive>>

Bases == {n.base : n \in Names}

\* A file: absent, truncated, the whole script of a name, or a mixture of two.
None == <<"none">>
Empty == <<"empty">>
Mixed == <<"mixed">>
Script(n) == <<"script", n>>
Modified(f) == <<"modified", f>>

\* The dump and the modified file of a name: "/" is put in front of a name
\* that does not begin with one.
FileOf(n) == n.base

Free == [pc |-> "free", name |-> NoName, log |-> {}]

Init ==
    /\ hooked = "not yet"
    /\ dump = [f \in Bases |-> None]
    /\ fds = 0
    /\ thread = [t \in Threads |-> Free]
    /\ given = [t \in Threads |-> <<>>]
    /\ loads = 0
    /\ crashes = 0
    /\ alive = TRUE

---------------------------------------------------------------------------

\* JNI_OnLoad and Hook: dlopen, dlsym and DobbyHook.
Hook ==
    /\ alive
    /\ hooked = "not yet"
    /\ hooked' \in {"installed"} \cup (IF "hook" \in Failures THEN {"failed"} ELSE {})
    /\ UNCHANGED <<dump, fds, thread, given, loads, crashes, alive>>

\* The game calls the loader.
Load(t, n) ==
    /\ alive
    /\ thread[t].pc = "free"
    /\ loads < MaxLoads
    /\ loads' = loads + 1
    /\ given' = [given EXCEPT ![t] = <<>>]
    /\ thread' = [thread EXCEPT ![t] =
         [pc |-> IF hooked = "installed" /\ n.base \in Dumped THEN "dirs" ELSE "original",
          name |-> n, log |-> {}]]
    /\ UNCHANGED <<hooked, dump, fds, crashes, alive>>

At(t, pc) == alive /\ thread[t].pc = pc
File(t) == FileOf(thread[t].name)
GoTo(t, pc) == thread' = [thread EXCEPT ![t].pc = pc]
GoToLogging(t, pc, what) ==
    thread' = [thread EXCEPT ![t].pc = pc, ![t].log = @ \cup {what}]

\* create_directories throws when it fails, and nothing catches it.
CreateDirectories(t) ==
    /\ At(t, "dirs")
    /\ \/ GoTo(t, "check") /\ UNCHANGED alive
       \/ "dirs" \in Failures /\ alive' = FALSE /\ UNCHANGED thread
    /\ UNCHANGED <<hooked, dump, fds, given, loads, crashes>>

\* Mutant: a script is dumped whether or not it exists.
AlwaysDumps(t) ==
    /\ At(t, "check")
    /\ GoTo(t, "open")
    /\ UNCHANGED <<hooked, dump, fds, given, loads, crashes, alive>>

\* is_regular_file(fileName), which is also true of a file being written.
CheckDump(t) ==
    /\ At(t, "check")
    /\ IF dump[File(t)] = None THEN GoTo(t, "open")
       ELSE GoToLogging(t, "modified", "has saved")
    /\ UNCHANGED <<hooked, dump, fds, given, loads, crashes, alive>>

\* saveFile: fopen(..., "wb+") truncates.
OpenDump(t) ==
    /\ At(t, "open")
    /\ IF fds < MaxFds
       THEN /\ dump' = [dump EXCEPT ![File(t)] = Empty]
            /\ fds' = fds + 1
            /\ GoTo(t, "write")
       ELSE /\ GoTo(t, "modified")
            /\ UNCHANGED <<dump, fds>>
    /\ UNCHANGED <<hooked, given, loads, crashes, alive>>

\* Mutant: the file is opened for appending.
Appended(old, n) == IF old = Empty THEN Script(n) ELSE Mixed

\* What is in a file after the script of n has been written at its start.
Overwritten(old, n) ==
    IF old = Mixed \/ (old[1] = "script" /\ Length(old[2]) > Length(n))
    THEN Mixed ELSE Script(n)

\* Mutant: the file is closed twice.
ClosesTwice(t) ==
    /\ At(t, "write")
    /\ dump' = [dump EXCEPT ![File(t)] = Overwritten(@, thread[t].name)]
    /\ fds' = fds - 2
    /\ GoTo(t, "modified")
    /\ UNCHANGED <<hooked, given, loads, crashes, alive>>

\* fwrite, fflush, fclose and chmod; what fwrite returns is not looked at.
WriteDump(t) ==
    /\ At(t, "write")
    /\ \/ dump' = [dump EXCEPT ![File(t)] = Overwritten(@, thread[t].name)]
       \/ "write" \in Failures /\ UNCHANGED dump
    /\ fds' = fds - 1
    /\ GoTo(t, "modified")
    /\ UNCHANGED <<hooked, given, loads, crashes, alive>>

\* is_regular_file(modFileName)
CheckModified(t) ==
    /\ At(t, "modified")
    /\ GoTo(t, IF Mods[File(t)] = "none" THEN "original" ELSE "read")
    /\ UNCHANGED <<hooked, dump, fds, given, loads, crashes, alive>>

\* Mutant: a modified file that cannot be opened ends the call.
ReturnsEarly(t) ==
    /\ At(t, "read")
    /\ IF fds < MaxFds
       THEN /\ fds' = fds + 1
            /\ \/ /\ Mods[File(t)] = "text"
                  /\ GoToLogging(t, "replace", "hijack")
               \/ /\ Mods[File(t)] = "empty" \/ "memory" \in Failures
                  /\ GoToLogging(t, "original", "hijack")
       ELSE /\ GoToLogging(t, "free", "hijack")
            /\ UNCHANGED fds
    /\ UNCHANGED <<hooked, dump, given, loads, crashes, alive>>

\* fopen, malloc and fread of the modified file, which is never closed.
ReadModified(t) ==
    /\ At(t, "read")
    /\ IF fds < MaxFds
       THEN /\ fds' = fds + 1
            /\ \/ /\ Mods[File(t)] = "text"
                  /\ GoToLogging(t, "replace", "hijack")
               \/ /\ Mods[File(t)] = "empty" \/ "memory" \in Failures
                  /\ GoToLogging(t, "original", "hijack")
       ELSE /\ GoToLogging(t, "original", "hijack")
            /\ UNCHANGED fds
    /\ UNCHANGED <<hooked, dump, given, loads, crashes, alive>>

\* luaL_loadbuffer_orig with the modified script.
LoadModified(t) ==
    /\ At(t, "replace")
    /\ given' = [given EXCEPT ![t] = Append(@, Modified(File(t)))]
    /\ GoTo(t, "free")
    /\ UNCHANGED <<hooked, dump, fds, loads, crashes, alive>>

\* luaL_loadbuffer_orig with the script of the game.
LoadOriginal(t) ==
    /\ At(t, "original")
    /\ given' = [given EXCEPT ![t] = Append(@, Script(thread[t].name))]
    /\ GoTo(t, "free")
    /\ UNCHANGED <<hooked, dump, fds, loads, crashes, alive>>

\* The process dies, or has ended, and is started again.
Restart ==
    /\ crashes < MaxCrashes
    /\ crashes' = crashes + 1
    /\ hooked' = "not yet"
    /\ fds' = 0
    /\ thread' = [t \in Threads |-> Free]
    /\ given' = [t \in Threads |-> <<>>]
    /\ loads' = 0
    /\ alive' = TRUE
    /\ UNCHANGED dump

Step(t) ==
    \/ \E n \in Names : Load(t, n)
    \/ CreateDirectories(t)
    \/ CheckDump(t)
    \/ OpenDump(t)
    \/ WriteDump(t)
    \/ CheckModified(t)
    \/ ReadModified(t)
    \/ LoadModified(t)
    \/ LoadOriginal(t)

Next == Hook \/ Restart \/ \E t \in Threads : Step(t)

Spec == Init /\ [][Next]_vars

---------------------------------------------------------------------------
(* Properties                                                              *)

Places == {"free", "dirs", "check", "open", "write", "modified", "read", "replace", "original"}
Logs == {"has saved", "hijack"}
ThreadStates == [pc : Places, name : Names \cup {NoName}, log : SUBSET Logs]

\* What the variables range over; the descriptors stay within the limit.
TypeOK ==
    /\ hooked \in {"not yet", "installed", "failed"}
    /\ dump \in [Bases -> {None, Empty, Mixed} \cup {Script(n) : n \in Names}]
    /\ fds \in 0 .. MaxFds
    /\ thread \in [Threads -> ThreadStates]
    /\ \A t \in Threads : given[t] \in Seq({Script(n) : n \in Names} \cup {Modified(f) : f \in Bases})
    /\ loads \in 0 .. MaxLoads
    /\ crashes \in 0 .. MaxCrashes
    /\ alive \in BOOLEAN

Complete(f) == dump[f] \in {Script(n) : n \in {m \in Names : FileOf(m) = f}}

\* A call of the loader that has returned has given the game exactly one
\* script, its own or a modified one that is there, and one that has not
\* returned none, however many descriptors the hook has used up and whatever
\* has failed on the way: every path through the nested conditions that does
\* not load the modified script falls through to the original one.
OneScriptPerLoad ==
    \A t \in Threads :
        /\ Len(given[t]) = (IF thread[t].pc = "free" /\ thread[t].name # NoName THEN 1 ELSE 0)
        /\ \A k \in DOMAIN given[t] :
            \/ given[t][k] = Script(thread[t].name)
            \/ given[t][k] = Modified(File(t)) /\ Mods[File(t)] = "text"

Writing(f) == \E t \in Threads : thread[t].pc \in {"open", "write"} /\ File(t) = f

Settled(f) == Complete(f) /\ ~Writing(f)

\* Once a dump is complete and nobody writes it, no thread ever starts to write
\* it again and it keeps its content, over any number of loads under either
\* spelling and of restarts ("if not exist , save it").
SavedOnceForAll ==
    [][\A f \in Bases : Settled(f) => Settled(f)' /\ dump'[f] = dump[f]]_vars

\* Threads that dump the same script at the same time leave it complete:
\* while the process lives, a file nobody is writing is not a truncated one.
QuietDumpsComplete ==
    crashes = 0 => \A f \in Bases : (dump[f] # None /\ ~Writing(f)) => Complete(f)

\* A script the hook says "has saved" has been saved.
SavedIsSaved ==
    \A t \in Threads : "has saved" \in thread[t].log => Complete(File(t))
===========================================================================
