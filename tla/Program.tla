------------------------------ MODULE Program ------------------------------
(***************************************************************************)
(* A function that is not hooked: what ARM64 does with the instructions    *)
(* that GenRelocateCodeAndBranch tells apart.  x stands for the general    *)
(* registers, v for the SIMD registers, lr for the link register.          *)
(***************************************************************************)
EXTENDS Arm64Code

CONSTANTS Images, CodeWords, Entry

VARIABLES image, pc, x, v, lr

progVars == <<image, pc, x, v, lr>>

Words == 0 .. CodeWords - 1
Zero == <<"num", 0>>
One == <<"num", 1>>
Caller == <<"caller">>

\* The value of a literal of one word: only words that hold data have one.
WordIn(code, at) == IF code[at[2]].op = "data" THEN code[at[2]].to ELSE NoAddr

\* What a register holds after a load of two words.
Pair(low, high) == IF high = Zero THEN low ELSE <<"long", low, high>>
PairIn(code, at) == Pair(WordIn(code, at), WordIn(code, At(at[2] + 1)))

Init ==
    /\ image \in Images
    /\ pc = At(Entry)
    /\ x \in {Zero, One}
    /\ v = Zero
    /\ lr = Caller

Running == pc[1] = "code" /\ pc[2] \in Words
This == image[pc[2]]
Following == At(pc[2] + 1)

\* Any instruction that does not depend on its address.
Other == This.op = "other" /\ pc' = Following /\ x' \in {Zero, One} /\ UNCHANGED <<v, lr>>
Ldr == This.op = "ldr" /\ pc' = Following /\ x' = PairIn(image, This.to) /\ UNCHANGED <<v, lr>>
\* A load into a W register clears the upper half of the X register.
LdrW == This.op = "ldrw" /\ pc' = Following /\ x' = WordIn(image, This.to) /\ UNCHANGED <<v, lr>>
LdrV == This.op = "ldrv" /\ pc' = Following /\ v' = PairIn(image, This.to) /\ UNCHANGED <<x, lr>>
Adr == This.op = "adr" /\ pc' = Following /\ x' = This.to /\ UNCHANGED <<v, lr>>
B == This.op = "b" /\ pc' = This.to /\ UNCHANGED <<x, v, lr>>
BL == This.op = "bl" /\ pc' = This.to /\ lr' = Following /\ UNCHANGED <<x, v>>
Cond == This.op = "cond" /\ pc' = (IF x = Zero THEN This.to ELSE Following) /\ UNCHANGED <<x, v, lr>>
Ret == This.op = "ret" /\ pc' = lr /\ UNCHANGED <<x, v, lr>>

Next ==
    /\ Running
    /\ UNCHANGED image
    /\ Other \/ Ldr \/ LdrW \/ LdrV \/ Adr \/ B \/ BL \/ Cond \/ Ret

Steps == Init /\ [][Next]_progVars

\* The processor does not stop while there is an instruction.
Progress == WF_progVars(Next)

Spec == Steps /\ Progress
===========================================================================
