----------------------------- MODULE ArmProgram -----------------------------
(***************************************************************************)
(* The first instructions of a 32 bit ARM function that is not hooked: the *)
(* classes ARMInstructionRelocation tells apart, as the processor executes *)
(* them.  The function is followed until it leaves these instructions.  r  *)
(* stands for the register an instruction writes, lr for the link register.*)
(***************************************************************************)
EXTENDS Integers

VARIABLES
    image,   \* [address -> class, size, offset, destination]
    thumb,   \* the function is Thumb code
    pc,      \* <<"at", address>>, or <<"call" or "go", address, Thumb state>>
    r, lr

vars == <<image, thumb, pc, r, lr>>

Align(a, n) == a - (a % n)

Entry == CHOOSE a \in DOMAIN image : \A b \in DOMAIN image : a <= b

Init ==
    /\ \A a \in DOMAIN image : image[a].thumb = thumb
    /\ pc = <<"at", Entry>>
    /\ r = <<"none">>
    /\ lr = "caller"

Running == pc[1] = "at" /\ pc[2] \in DOMAIN image
This == image[pc[2]]
After == pc[2] + This.size

\* What an instruction reads as pc.
PC == pc[2] + (IF thumb THEN 4 ELSE 8)
Literal == Align(PC, 4) + This.off

\* Control at address a: within the instructions considered or gone.
Reach(a, state) == IF a \in DOMAIN image THEN <<"at", a>> ELSE <<"go", a, state>>
Through == Reach(After, thumb)

Plain ==
    /\ This.op \in {"plain1", "plain2", "plainA"}
    /\ pc' = Through /\ r' = <<"plain", pc[2]>> /\ UNCHANGED lr

\* mov r, pc and the like.
ReadPc ==
    /\ This.op = "hireg"
    /\ pc' = Through /\ r' = <<"num", PC>> /\ UNCHANGED lr

Ldr ==
    /\ This.op \in {"ldr1", "ldr2", "ldrA"}
    /\ IF This.rt = "pc" THEN pc' = <<"go", <<"mem", Literal>>, TRUE>> /\ UNCHANGED r
       ELSE pc' = Through /\ r' = <<"mem", Literal>>
    /\ UNCHANGED lr

Adr ==
    /\ This.op \in {"adr1", "adr2", "adrA"}
    /\ pc' = Through /\ r' = <<"num", Literal>> /\ UNCHANGED lr

B == This.op \in {"b1", "bw", "bA"} /\ pc' = Reach(PC + This.off, thumb) /\ UNCHANGED <<r, lr>>

Bx == This.op = "bxpc" /\ pc' = Reach(PC, FALSE) /\ UNCHANGED <<r, lr>>

Bcond ==
    /\ This.op \in {"bcond1", "bcond2", "bcondA", "cbz"}
    /\ pc' \in {Reach(PC + This.off, thumb), Through}
    /\ UNCHANGED <<r, lr>>

BL ==
    /\ This.op \in {"bl", "blx", "blA"}
    /\ pc' = IF This.op = "blx" THEN <<"call", Literal, FALSE>>
             ELSE <<"call", PC + This.off, thumb>>
    /\ lr' = After
    /\ UNCHANGED r

\* The function that was called returns.
Return == pc[1] = "call" /\ pc' = Reach(lr, thumb) /\ UNCHANGED <<r, lr>>

Next ==
    /\ UNCHANGED <<image, thumb>>
    /\ \/ Running /\ (Plain \/ ReadPc \/ Ldr \/ Adr \/ B \/ Bx \/ Bcond \/ BL)
       \/ Return

Steps == Init /\ [][Next]_vars
Progress == WF_vars(Next)

Spec == Steps /\ Progress
=============================================================================
