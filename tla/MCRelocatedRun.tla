-------------------------- MODULE MCRelocatedRun --------------------------
EXTENDS RelocatedRun

\* The words from 4 on: an instruction, a loop back to it, a load into a
\* SIMD register, a return, data.
Rest == <<Insn("other", NoAddr), Insn("cond", At(4)), Insn("ldrv", At(9)), Insn("ret", NoAddr),
          Insn("data", Zero), Insn("data", One), Insn("data", Zero), Insn("data", Zero)>>

Refs(ops, words) == {Insn(op, At(w)) : op \in ops, w \in words}

\* What the first words may be, when nothing refers to the first words.
Heads == Refs({"b", "bl", "cond"}, {4, 7}) \cup Refs({"adr", "ldr"}, {8, 9})
         \cup Refs({"ldrw"}, {9}) \cup {Insn("other", NoAddr)}

ImageOf(head) == [w \in Words |-> IF w < 4 THEN head[w + 1] ELSE Rest[w - 3]]

MCImages == {ImageOf(<<a, b, c, Insn("other", NoAddr)>>) : a, b, c \in Heads}

\* The hypothesis of the theorem of RelocatedRunProofs.
ASSUME HeadsRelocatable == \A im \in MCImages : Relocatable(im, MaxTrampoline)

\* A literal loaded into a SIMD register.
SimdImages == {ImageOf(<<Insn("ldrv", At(9)), Insn("other", NoAddr),
                         Insn("other", NoAddr), Insn("other", NoAddr)>>)}

\* A 32-bit literal with something else behind it.
WideImages == {ImageOf(<<Insn("ldrw", At(8)), Insn("other", NoAddr),
                         Insn("other", NoAddr), Insn("other", NoAddr)>>)}

\* A loop whose head is the second word.
LoopImages == {ImageOf(<<Insn("other", NoAddr), Insn("other", NoAddr), Insn("cond", At(1)),
                         Insn("other", NoAddr)>>)}
===========================================================================
