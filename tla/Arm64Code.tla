----------------------------- MODULE Arm64Code -----------------------------
(***************************************************************************)
(* The code Dobby writes on ARM64, one instruction word at a time: the     *)
(* three trampolines that overwrite the first words of a hooked address    *)
(* and the relocated copy of the words they overwrite.                     *)
(*                                                                         *)
(* An address is a tuple: <<"code", w>> is word w of the hooked image, any *)
(* other one lies outside it.  An instruction keeps its class, the one     *)
(* GenRelocateCodeAndBranch tells apart, and the address it refers to; x17 *)
(* (TMP_REG_0) is the only register with a name of its own.                *)
(***************************************************************************)
EXTENDS Integers, Sequences

Insn(op, to) == [op |-> op, to |-> to]
NoAddr == <<"none">>
At(w) == <<"code", w>>

---------------------------------------------------------------------------
(* Trampolines                                                             *)

\* [b to]: one word, reaches any target through a forward trampoline.
GenerateNearTrampolineBuffer(to) == <<Insn("b", to)>>

\* [adrp x17; add x17; br x17] for targets within 4 GB.
AdrpAddBr(to) == <<Insn("adrp17", to), Insn("add17", to), Insn("br17", NoAddr)>>

\* [ldr x17, #8; br x17; the address in two words] for all others.
LiteralLdrBranch(from, to) ==
    <<Insn("ldr17", At(from + 2)), Insn("br17", NoAddr),
      Insn("low", to), Insn("high", to)>>

GenerateNormalTrampolineBuffer(from, to, far) ==
    IF far THEN LiteralLdrBranch(from, to) ELSE AdrpAddBr(to)

\* No trampoline is longer than this.
MaxTrampoline == 4

---------------------------------------------------------------------------
(* Relocation                                                              *)

\* Instruction classes whose relocation ends in UNIMPLEMENTED(): ldrsw and
\* prfm of a literal.
Unimplemented == {"ldrsw"}

\* Mutant: the label is bound between the two words.
LabelInTheWay(to) == <<Insn("set17", to), Insn("data", to), Insn("br17", NoAddr)>>

\* [ldr x17, label; br x17], the label bound behind the code by RelocBind.
Jump(to) == <<Insn("set17", to), Insn("br17", NoAddr)>>

\* Mutant: a call is relocated to a jump.
CallIsJump(to) == Jump(to)

\* [ldr x17, label; blr x17]
CallFunction(to) == <<Insn("set17", to), Insn("blr17", NoAddr)>>

\* The words one instruction is relocated to.  The assembler has one ldr, of
\* 64 bits whatever the register is called, so a load of a 32-bit literal
\* (ldrw) becomes one of 64 bits.  A load of a literal into a SIMD register
\* (ldrv) has the same fixed bits as one into a general register and is
\* relocated to the latter.  The movz and three movk of Mov are one word
\* here, set17 or mov.  Inverted branches skip the two words of the absolute
\* jump that follows them.
Relocate(i) ==
    CASE i.op \in {"ldr", "ldrw", "ldrv"} -> <<Insn("set17", i.to), Insn("load", NoAddr)>>
      [] i.op = "ldr17" -> <<Insn("set17", i.to), Insn("load17", NoAddr)>>
      [] i.op = "adr" -> <<Insn("mov", i.to)>>
      [] i.op = "adrp17" -> <<Insn("set17", <<"page", i.to>>)>>
      [] i.op = "b" -> Jump(i.to)
      [] i.op = "bl" -> CallFunction(i.to)
      [] i.op = "cond" -> <<Insn("notcond", NoAddr)>> \o Jump(i.to)
      [] OTHER -> <<i>>

\* Mutant: the jump to the rest of the code is left out.
NoBranchBack(code, from, size) ==
    [k \in 1 .. size |-> Relocate(code[from + k - 1])]

\* Mutant: control continues one word too early.
BranchesTooEarly(code, from, size) ==
    [k \in 1 .. size + 1 |->
        IF k <= size THEN Relocate(code[from + k - 1])
        ELSE Jump(At(from + size - 1))]

\* The relocated copy of size words from address from: element k holds the
\* words that stand for word k, the last element the jump to the rest.
GenRelocateCodeAndBranch(code, from, size) ==
    [k \in 1 .. size + 1 |->
        IF k <= size THEN Relocate(code[from + k - 1])
        ELSE Jump(At(from + size))]
===========================================================================
