---------------------------- MODULE RelocatedRun ----------------------------
(***************************************************************************)
(* A thread calls origin_call of a hooked function: it executes the        *)
(* relocated copy of the first words, then the rest of the function in the *)
(* patched image.  The thread should do exactly what the function did      *)
(* before it was hooked (module Program).                                  *)
(***************************************************************************)
EXTENDS Arm64Code

CONSTANTS
    Images,      \* the functions considered, from words to instructions
    CodeWords,
    Site,        \* the hooked address
    Trampolines  \* "near", "adrp", "far": the trampolines considered

ASSUME RunAssumption ==
    /\ CodeWords \in Nat /\ Site \in 0 .. CodeWords - MaxTrampoline
    /\ Trampolines \subseteq {"near", "adrp", "far"}

VARIABLES
    image,      \* the function before it was hooked
    tramp,      \* the trampoline
    at, x, v, lr, x17

vars == <<image, tramp, at, x, v, lr, x17>>

Words == 0 .. CodeWords - 1
Zero == <<"num", 0>>
One == <<"num", 1>>
Caller == <<"caller">>
Target == <<"call">>

TrampolineOf(kind) ==
    CASE kind = "near" -> GenerateNearTrampolineBuffer(Target)
      [] kind = "adrp" -> GenerateNormalTrampolineBuffer(Site, Target, FALSE)
      [] kind = "far" -> GenerateNormalTrampolineBuffer(Site, Target, TRUE)

Size == Len(tramp)
Patched(w) == w \in Site .. Site + Size - 1

\* The image after Commit.
code == [w \in Words |-> IF Patched(w) THEN tramp[w - Site + 1] ELSE image[w]]
relocated == GenRelocateCodeAndBranch(image, Site, Size)

\* A word loaded from an address of the image, at run time.
LoadWord(addr) ==
    IF addr[1] = "code" /\ addr[2] \in Words /\ code[addr[2]].op = "data"
    THEN code[addr[2]].to ELSE NoAddr

\* A load of two words.
Pair(low, high) == IF high = Zero THEN low ELSE <<"long", low, high>>
Load(addr) ==
    IF addr[1] = "code" THEN Pair(LoadWord(addr), LoadWord(At(addr[2] + 1))) ELSE NoAddr

Init ==
    /\ image \in Images
    /\ tramp \in {TrampolineOf(kind) : kind \in Trampolines}
    /\ at = <<"relocated", 1, 1>>
    /\ x \in {Zero, One}
    /\ v = Zero
    /\ lr = Caller
    /\ x17 = NoAddr

InCopy == at[1] = "relocated"
Running == InCopy \/ (at[1] = "code" /\ at[2] \in Words)
This == IF InCopy THEN relocated[at[2]][at[3]] ELSE code[at[2]]

\* The start of the next element of the relocated copy.
NextElement == <<"relocated", at[2] + 1, 1>>
Following ==
    IF ~InCopy THEN At(at[2] + 1)
    ELSE IF at[3] < Len(relocated[at[2]]) THEN <<"relocated", at[2], at[3] + 1>>
    ELSE NextElement

\* Instructions of the function itself, and those of a relocated copy.
Other == This.op = "other" /\ at' = Following /\ x' \in {Zero, One} /\ UNCHANGED <<v, lr, x17>>
Ldr == This.op = "ldr" /\ at' = Following /\ x' = Load(This.to) /\ UNCHANGED <<v, lr, x17>>
LdrW == This.op = "ldrw" /\ at' = Following /\ x' = LoadWord(This.to) /\ UNCHANGED <<v, lr, x17>>
LdrV == This.op = "ldrv" /\ at' = Following /\ v' = Load(This.to) /\ UNCHANGED <<x, lr, x17>>
Adr == This.op \in {"adr", "mov"} /\ at' = Following /\ x' = This.to /\ UNCHANGED <<v, lr, x17>>
B == This.op = "b" /\ at' = This.to /\ UNCHANGED <<x, v, lr, x17>>
BL == This.op = "bl" /\ at' = This.to /\ lr' = Following /\ UNCHANGED <<x, v, x17>>
Cond == This.op = "cond" /\ at' = (IF x = Zero THEN This.to ELSE Following) /\ UNCHANGED <<x, v, lr, x17>>
Ret == This.op = "ret" /\ at' = lr /\ UNCHANGED <<x, v, lr, x17>>
LoadReg == This.op = "load" /\ at' = Following /\ x' = Load(x17) /\ UNCHANGED <<v, lr, x17>>
Set17 == This.op = "set17" /\ at' = Following /\ x17' = This.to /\ UNCHANGED <<x, v, lr>>
Br17 == This.op = "br17" /\ at' = x17 /\ UNCHANGED <<x, v, lr, x17>>
Blr17 == This.op = "blr17" /\ at' = x17 /\ lr' = Following /\ UNCHANGED <<x, v, x17>>
\* The inverted branch: three words further is the next element.
NotCond == This.op = "notcond" /\ at' = (IF x = Zero THEN Following ELSE NextElement)
           /\ UNCHANGED <<x, v, lr, x17>>

Next ==
    /\ Running
    /\ UNCHANGED <<image, tramp>>
    /\ \/ Other \/ Ldr \/ LdrW \/ LdrV \/ Adr \/ B \/ BL \/ Cond \/ Ret
       \/ LoadReg \/ Set17 \/ Br17 \/ Blr17 \/ NotCond

Spec == Init /\ [][Next]_vars /\ WF_vars(Next)

---------------------------------------------------------------------------

\* The word of the function that an address of the copy stands for.
Virtual(addr) == IF addr[1] = "relocated" THEN At(Site + addr[2] - 1) ELSE addr

Original == INSTANCE Program WITH Entry <- Site, pc <- Virtual(at), lr <- Virtual(lr)

\* Calling the relocated code is calling the original function: the same
\* instructions with the same results, calls that return to the copy
\* included.
RunsOriginal == Original!Steps

\* It does not stop earlier, nor go round in the copy.
KeepsRunning == Original!Progress

---------------------------------------------------------------------------
(* Functions that can be hooked                                            *)

\* What Program executes.
Classes == {"other", "ldr", "ldrw", "ldrv", "adr", "b", "bl", "cond", "ret", "data"}

\* No jump and no literal of the function refers to the first n of its words,
\* none of them loads a literal into a SIMD register, the upper half of a
\* 32-bit literal one of them loads is zero, and control does not run into
\* the function from the word before it.
Relocatable(im, n) ==
    LET head == Site .. Site + n - 1
        Outside(l) == l \in Words \ head
    IN  /\ DOMAIN im = Words
        /\ \A w \in Words :
            /\ im[w].op \in Classes
            /\ im[w].op \in {"b", "bl", "cond"} =>
                  im[w].to[1] # "relocated" /\ (im[w].to[1] = "code" => im[w].to[2] \notin head)
            /\ im[w].op \in {"ldr", "ldrv"} =>
                  \E l \in Words : im[w].to = At(l) /\ Outside(l) /\ Outside(l + 1)
            /\ im[w].op = "ldrw" => \E l \in Words : im[w].to = At(l) /\ Outside(l)
        /\ \A w \in head :
            /\ im[w].op # "ldrv"
            /\ im[w].op = "ldrw" =>
                  \A l \in Words : im[w].to = At(l) => Outside(l + 1) /\ im[l + 1] = Insn("data", Zero)
        /\ Site > 0 => im[Site - 1].op \in {"b", "ret", "data"}
===========================================================================
