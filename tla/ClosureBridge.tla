---------------------------- MODULE ClosureBridge ----------------------------
(***************************************************************************)
(* The closure trampolines and the closure bridge of DobbyInstrument: the  *)
(* code that saves the registers of an instrumented program in a           *)
(* RegisterContext on its stack, calls the handler, restores the registers *)
(* and goes on in the relocated code.  The code of the four architectures  *)
(* is executed instruction by instruction; a handler may change the        *)
(* context and may run instrumented code itself.                           *)
(*                                                                         *)
(* The stack is an array of machine words ("slots") that grows downwards;  *)
(* a stack pointer of 0 is aligned.  A register is a pair, its bank and    *)
(* its number.  A value has a third part: r \o <<d>> is what the program   *)
(* had in register r when it ran into the d-th of the nested               *)
(* instrumentations, r \o <<-1>> what a handler has put in its place.      *)
(***************************************************************************)
EXTENDS Integers, SequencesExt

CONSTANTS
    Archs,        \* what is built
    Closures,     \* the instrumented addresses, as numbers
    MaxDepth,     \* bound on the nesting of instrumented code in handlers
    StackSlots,   \* length of the stack
    Pads          \* slots of its own a handler has used when it runs such code

ASSUME BridgeAssumption ==
    /\ Archs \subseteq {"arm64", "arm64full", "arm", "x64", "x86"}
    /\ Closures \subseteq Nat
    /\ MaxDepth \in Nat \ {0} /\ StackSlots \in Nat
    /\ Pads \subseteq Nat

VARIABLES
    arch,    \* the architecture of the process
    regs,    \* the registers
    mem,     \* the stack
    pc,      \* the instruction of Code(arch), InC or Gone
    acts     \* the instrumentations under way, the outermost first

vars == <<arch, regs, mem, pc, acts>>

Slots == -StackSlots .. 0
Frame == 4     \* slots of the program's own frame
Largest == 100 \* slots the trampoline and the bridge use at most
Share == (StackSlots - Frame) \div MaxDepth

\* The stack has room for the contexts of all nested instrumentations: the
\* code does not look whether it has.
ASSUME RoomAssumption ==
    /\ StackSlots >= Frame
    /\ \A pad \in Pads : pad + Largest <= Share

InC == 0       \* in the program, or in the handler of the last activation
Gone == -1     \* control is where the bridge has sent it

Junk == <<"junk", 0, 0>>
Address(k) == <<"stack", k, 0>>
Entry(n) == <<"entry", n, 0>>
Hop(n) == <<"hop", n, 0>>     \* relocated_origin_instructions of closure n

Intel == {"x64", "x86"}

---------------------------------------------------------------------------
(* Registers and the RegisterContext                                       *)

Bank(name, n) == [i \in 1 .. n |-> <<name, i - 1>>]
X == Bank("x", 31)      \* x0 to x30
Q == Bank("q", 32)
R == Bank("r", 14)      \* r0 to r12 and lr
\* rax rbx rcx rdx rbp rsp rdi rsi r8 to r15, eax ebx ecx edx ebp esp edi esi
RX == Bank("rx", 16)
EX == Bank("ex", 8)
SP == <<"sp", 0>>
FLAGS == <<"flags", 0>>
FirstQ(a) == SubSeq(Q, 1, IF a = "arm64full" THEN 32 ELSE 8)

General ==
    [arm64 |-> X, arm64full |-> X, arm |-> R, x64 |-> RX, x86 |-> EX]
Registers(a) ==
    ToSet(General[a]) \cup {SP, FLAGS} \cup (IF General[a] = X THEN ToSet(Q) ELSE {})

\* Where the fields of RegisterContext are: the general registers, the
\* floating-point registers, the flags and the stack pointer.
GeneralAt == [arm64 |-> 3, arm64full |-> 3, arm |-> 4, x64 |-> 2, x86 |-> 4]
SpAt == [arm64 |-> 1, arm64full |-> 1, arm |-> 3, x64 |-> 1, x86 |-> 1]
RegisterContext(a) ==
    LET InSlot(rs, first, w) == {<<rs[i], first + w * (i - 1)>> : i \in DOMAIN rs}
        floating == IF General[a] = X THEN InSlot(FirstQ(a), 34, 2) ELSE {}
        flags == CASE a = "x64" -> {<<FLAGS, 19>>}
                   [] a = "x86" -> {<<FLAGS, 3>>}
                   [] OTHER -> {}
    IN  {f \in InSlot(General[a], GeneralAt[a], 1) : f[1] \notin {RX[6], EX[6]}}
        \cup floating \cup flags

\* What a C function leaves as it found it.  Of q8 to q15 it keeps one half.
CalleeSaved ==
    [arm64 |-> ToSet(SubSeq(X, 20, 30)), arm64full |-> ToSet(SubSeq(X, 20, 30)),
     arm |-> ToSet(SubSeq(R, 5, 12)),
     x64 |-> {RX[2], RX[5]} \cup ToSet(SubSeq(RX, 13, 16)),
     x86 |-> {EX[2], EX[5], EX[7], EX[8]}]

\* The register set_routing_bridge_next_hop writes, and the ones in which the
\* code has put something else by the time it saves them: the trampoline uses
\* x17 and x30, and r12 on arm; on x86 a sub changes the flags first.
NextHop == [arm64 |-> X[18], arm64full |-> X[18], arm |-> R[13]]
Used ==
    [arm64 |-> {X[18], X[31]}, arm64full |-> {X[18], X[31]}, arm |-> {R[13]},
     x64 |-> {}, x86 |-> {FLAGS}]

---------------------------------------------------------------------------
(* Code                                                                    *)

I(op, r, k) == [op |-> op, r |-> r, k |-> k]

Move(k) == I("move", SP, k)                   \* add to or sub from sp
Store(r, k) == I("store", r, k)               \* to slot k above sp
Load(r, k) == I("load", r, k)
Pop(r, k) == I("pop", r, k)                   \* load, then move sp up k slots
Push(r) == I("push", r, 0)
SpPlus(r, k) == I("spplus", r, k)             \* r := sp + k
Call == I("call", SP, 0)                      \* intercept_routing_common_bridge_handler

\* Registers stored every w slots from the stack pointer on; popped.
StoreAll(rs, w) == [i \in 1 .. Len(rs) |-> Store(rs[i], w * (i - 1))]
PopAll(rs, w) == [i \in 1 .. Len(rs) |-> Pop(rs[i], w)]

\* Mutant: the stack is released before x30 is loaded from it.
ReleasesFirst == <<Move(2), Load(X[31], 1)>>

\* The end of the trampoline of arm64.
Arm64Epilogue == <<Load(X[31], 1), Move(2)>>

\* The trampoline of arm64 calls the bridge, which is behind it in Code.
Arm64Trampoline ==
    <<Move(-2), Store(X[31], 1),
      I("entry", X[18], 0), Store(X[18], 0),
      I("bridge", X[18], 0), I("blr", X[18], 10)>>
    \o Arm64Epilogue
    \o <<I("br", X[18], 0)>>

\* Mutant: q8 to q31 are not counted.
CountsEight(floating) == 2 + 30 + 16

\* The slots from the saved x0 to the slots of the trampoline.
Arm64Saved(floating) == 2 + 30 + 2 * Len(floating)

\* q0 to q7, or all of them, x1 to x30, x0 and the original sp are saved.
Arm64Bridge(floating) ==
    <<Move(-2 * Len(floating))>> \o StoreAll(floating, 2)
    \o <<Move(-30)>> \o StoreAll(Tail(X), 1)
    \o <<Move(-2), Store(X[1], 1),
         SpPlus(X[18], 2 + Arm64Saved(floating)),
         Move(-2), Store(X[18], 1),
         SpPlus(X[1], 0), Load(X[2], 2 + Arm64Saved(floating)), Call,
         Move(2), Load(X[1], 1), Move(2)>>
    \o PopAll(Tail(X), 1) \o PopAll(floating, 2)
    \o <<I("ret", X[31], 0)>>

ArmTrampoline == <<I("entry", R[13], 0)>>

\* Mutant: the words for the alignment are released twice.
ReleasesTwice == <<Move(2), Move(2), Move(2)>>

\* What was taken for the alignment and for the original sp is released.
ArmRelease == <<Move(2), Move(2)>>

ArmBridge ==
    <<Move(-14)>> \o StoreAll(R, 1)
    \o <<SpPlus(R[1], 14), Move(-2), Store(R[1], 1),
         Move(-2),
         SpPlus(R[1], 0), I("mov", R[2], 13), Call>>
    \o ArmRelease
    \o PopAll(R, 1)
    \o <<I("br", R[13], 0)>>

X64Trampoline == <<I("pushentry", SP, 0)>>

\* Mutant: the return address of the program is counted too.
OneTooMany == 4 + 16

\* From the saved registers up to the original rsp: the word of the
\* trampoline, the flags, the word of the alignment and the registers.
X64Saved == 3 + 16

\* Mutant: the handler is called on any stack.
CallsAnyhow == <<Call>>

\* A stack that is not aligned gets another word for the call.
X64AlignedCall ==
    <<I("misalignment", RX[1], 2), I("jnz", RX[1], 3),
      Call, I("jmp", SP, 4),
      Push(RX[1]), Call, Pop(RX[1], 1)>>

\* The address to go on at is where the trampoline had pushed the entry.
X64Bridge ==
    <<Push(FLAGS), Move(-1), Move(-16)>> \o StoreAll(RX, 1)
    \o <<SpPlus(RX[1], X64Saved), Move(-2), Store(RX[1], 1),
         SpPlus(RX[7], 0), Load(RX[8], 2 + 16 + 2)>>
    \o X64AlignedCall
    \o <<Move(2)>>
    \o PopAll(SubSeq(RX, 1, 5), 1) \o <<Move(1)>> \o PopAll(SubSeq(RX, 7, 16), 1)
    \o <<Move(1), Pop(FLAGS, 1), I("popbr", SP, 0)>>

X86Trampoline == <<Move(-1), I("storeentry", SP, 0)>>

\* Unlike that of x64 the bridge of x86 saves the flags after, and restores
\* them before, an add or sub of the stack pointer.
X86Bridge ==
    <<Move(-8)>> \o StoreAll(EX, 1)
    \o <<Push(FLAGS), Pop(EX[1], 1), Move(-2), Store(EX[1], 1),
         SpPlus(EX[1], 8 + 2 + 1), Move(-2), Store(EX[1], 1),
         Move(-2), Load(EX[1], 8 + 2 + 2 + 2), Store(EX[1], 1),
         SpPlus(EX[1], 2), Store(EX[1], 0), Call,
         Move(2), Move(2), Move(1), Pop(FLAGS, 1)>>
    \o PopAll(SubSeq(EX, 1, 5), 1) \o <<Move(1)>> \o PopAll(SubSeq(EX, 7, 8), 1)
    \o <<I("popbr", SP, 0)>>

Code ==
    [arm64 |-> Arm64Trampoline \o Arm64Bridge(FirstQ("arm64")),
     arm64full |-> Arm64Trampoline \o Arm64Bridge(FirstQ("arm64full")),
     arm |-> ArmTrampoline \o ArmBridge,
     x64 |-> X64Trampoline \o X64Bridge,
     x86 |-> X86Trampoline \o X86Bridge]

---------------------------------------------------------------------------
(* The processor                                                           *)

Depth == Len(acts)
act == acts[Depth]
sp == regs[SP][2]
Insn == Code[arch][pc]

Init ==
    /\ arch \in Archs
    /\ regs = [r \in Registers(arch) |-> Junk]
    /\ mem = [s \in Slots |-> Junk]
    /\ pc = InC
    /\ acts = <<>>

\* An aligned stack at the entry of a function: x64 and x86 have pushed the
\* return address.
AtFunction(base) ==
    CASE arch = "x86" -> base % 4 = 3
      [] arch = "x64" -> base % 2 = 1
      [] OTHER -> base % 2 = 0

\* The program, or a handler, runs into the instrumented address n.  arm64
\* keeps its stack pointer aligned everywhere.
Instrumented(n) ==
    /\ pc = InC
    /\ Depth < MaxDepth
    /\ \E pad \in Pads :
        LET base == (IF Depth = 0 THEN -Frame ELSE act.sp) - pad
        IN  /\ arch \in {"arm64", "arm64full"} => AtFunction(base)
            /\ acts' = Append(acts, [closure |-> n, base |-> base, sp |-> base, at |-> 0,
                                     regs |-> regs, ctx |-> Junk, entry |-> Junk,
                                     to |-> Junk, edited |-> {}])
            /\ regs' = [r \in Registers(arch) |->
                            IF r = SP THEN Address(base) ELSE r \o <<Depth + 1>>]
    /\ pc' = 1
    /\ UNCHANGED <<arch, mem>>

\* Instructions that only change the registers.
Compute ==
    LET set(r, v) == [regs EXCEPT ![r] = v]
        ArithmeticOn(r, v) == IF arch \in Intel THEN [set(r, v) EXCEPT ![FLAGS] = Junk] ELSE set(r, v)
    IN  /\ \/ /\ Insn.op = "move"
              /\ regs' = ArithmeticOn(SP, Address(sp + Insn.k))
           \/ /\ Insn.op = "spplus"
              /\ regs' = ArithmeticOn(Insn.r, Address(sp + Insn.k))
           \/ /\ Insn.op = "misalignment"
              /\ regs' = ArithmeticOn(Insn.r, <<"number", sp % Insn.k, 0>>)
           \/ /\ Insn.op = "load"
              /\ regs' = set(Insn.r, mem[sp + Insn.k])
           \/ /\ Insn.op = "pop"
              /\ regs' = [regs EXCEPT ![SP] = Address(sp + Insn.k), ![Insn.r] = mem[sp]]
           \/ /\ Insn.op = "entry"
              /\ regs' = set(Insn.r, Entry(act.closure))
           \/ /\ Insn.op = "bridge"
              /\ regs' = set(Insn.r, <<"bridge", 0, 0>>)
           \/ /\ Insn.op = "mov"
              /\ regs' = set(Insn.r, regs[General[arch][Insn.k]])
        /\ pc' = pc + 1
        /\ UNCHANGED <<arch, mem, acts>>

\* Instructions that write to the stack.
Write ==
    LET put(s, v) == mem' = [mem EXCEPT ![s] = v]
        down == regs' = [regs EXCEPT ![SP] = Address(sp - 1)]
    IN  /\ \/ /\ Insn.op = "store"
              /\ put(sp + Insn.k, regs[IF Insn.r \in {RX[6], EX[6]} THEN SP ELSE Insn.r])
              /\ UNCHANGED regs
           \/ /\ Insn.op = "storeentry"
              /\ put(sp + Insn.k, Entry(act.closure))
              /\ UNCHANGED regs
           \/ /\ Insn.op = "push"
              /\ put(sp - 1, regs[Insn.r])
              /\ down
           \/ /\ Insn.op = "pushentry"
              /\ put(sp - 1, Entry(act.closure))
              /\ down
        /\ pc' = pc + 1
        /\ UNCHANGED <<arch, acts>>

\* Jumps within the trampoline and the bridge.
Branch ==
    /\ \/ /\ Insn.op = "jmp"
          /\ pc' = pc + Insn.k
          /\ UNCHANGED regs
       \/ /\ Insn.op = "jnz"
          /\ pc' = IF regs[Insn.r][2] = 0 THEN pc + 1 ELSE pc + Insn.k
          /\ UNCHANGED regs
       \/ /\ Insn.op = "blr"
          /\ pc' = Insn.k
          /\ regs' = [regs EXCEPT ![X[31]] = <<"trampoline", pc + 1, 0>>]
       \/ /\ Insn.op = "ret"
          /\ regs[Insn.r][1] = "trampoline"
          /\ pc' = regs[Insn.r][2]
          /\ UNCHANGED regs
    /\ UNCHANGED <<arch, mem, acts>>

\* The arguments of the handler, in registers or on the stack.
Argument(k) ==
    CASE arch \in {"arm64", "arm64full"} -> regs[X[k]]
      [] arch = "arm" -> regs[R[k]]
      [] arch = "x64" -> regs[RX[6 + k]]
      [] OTHER -> mem[sp + k - 1]

CallHandler ==
    /\ Insn.op = "call"
    /\ acts' = [acts EXCEPT ![Depth] =
                    [@ EXCEPT !.sp = sp, !.at = pc, !.regs = regs,
                              !.ctx = Argument(1), !.entry = Argument(2)]]
    /\ pc' = InC
    /\ regs' = [r \in Registers(arch) |-> IF r = SP THEN regs[SP] ELSE Junk]
    /\ UNCHANGED <<arch, mem>>

\* The slot set_routing_bridge_next_hop writes.
NextHopSlot(ctx) ==
    IF arch \in Intel THEN mem[ctx + SpAt[arch]][2] - 1
    ELSE CHOOSE s \in Slots : <<NextHop[arch], s - ctx>> \in RegisterContext(arch)

\* What a handler may change in the context to change the program's state.
Editable == {f[1] : f \in RegisterContext(arch)} \ Used[arch]

\* instrument_call_forward_handler with a handler that changes the registers
\* in edits; everything below its stack frame is lost, and on x86 so are its
\* arguments.
HandlerReturns(edits) ==
    LET ctx == act.ctx[2]
        own == act.sp + (IF arch = "x86" THEN 2 ELSE 0)
    IN  /\ pc = InC
        /\ Depth > 0
        /\ mem' = [s \in Slots |->
                IF s < own THEN Junk
                ELSE IF s = NextHopSlot(ctx) THEN Hop(act.entry[2])
                ELSE IF \E r \in edits : <<r, s - ctx>> \in RegisterContext(arch)
                THEN (CHOOSE r \in edits : <<r, s - ctx>> \in RegisterContext(arch)) \o <<-1>>
                ELSE mem[s]]
        /\ regs' = [r \in Registers(arch) |->
                IF r \in CalleeSaved[arch] \cup {SP} THEN act.regs[r] ELSE Junk]
        /\ acts' = [acts EXCEPT ![Depth].edited = edits]
        /\ pc' = act.at + 1
        /\ UNCHANGED arch

\* The last jump, to the address in a register or to the one on the stack.
Leave ==
    /\ \/ /\ Insn.op = "br"
          /\ acts' = [acts EXCEPT ![Depth].to = regs[Insn.r]]
          /\ UNCHANGED regs
       \/ /\ Insn.op = "popbr"
          /\ acts' = [acts EXCEPT ![Depth].to = mem[sp]]
          /\ regs' = [regs EXCEPT ![SP] = Address(sp + 1)]
    /\ pc' = Gone
    /\ UNCHANGED <<arch, mem>>

\* The instrumented code has run; what was below its stack pointer is dead.
Finish ==
    /\ pc = Gone
    /\ mem' = [s \in Slots |-> IF s < act.base THEN Junk ELSE mem[s]]
    /\ acts' = Front(acts)
    /\ regs' = [r \in Registers(arch) |->
            IF r = SP /\ Depth > 1 THEN Address(acts[Depth - 1].sp) ELSE Junk]
    /\ pc' = InC
    /\ UNCHANGED arch

Next ==
    \/ \E n \in Closures : Instrumented(n)
    \/ pc > 0 /\ (Compute \/ Write \/ Branch \/ CallHandler \/ Leave)
    \/ HandlerReturns({})
    \/ HandlerReturns(Editable)
    \/ Finish

Spec == Init /\ [][Next]_vars

---------------------------------------------------------------------------
(* Properties                                                              *)

\* The stack pointer never rises above that of the program, and the program
\* counter stays in the code.
TypeOK ==
    /\ DOMAIN regs = Registers(arch)
    /\ pc \in {Gone} \cup 0 .. Len(Code[arch])
    /\ Depth \in 0 .. MaxDepth
    /\ Depth > 0 => regs[SP][1] = "stack" /\ sp \in -StackSlots .. act.base

\* The activations whose handler is running, the one that has called
\* instrumented code included.
InHandler == {d \in 1 .. Depth : d < Depth \/ pc = InC}

\* As long as its handler runs, and also while the handler runs instrumented
\* code itself, the RegisterContext of an activation shows in each field the
\* register of the program the field is named after, x17 and x30 of arm64, r12
\* of arm and the flags of x86 (Used) excepted, and the entry handed to the
\* handler is the one of the trampoline.
ContextShowsProgram ==
    \A d \in InHandler :
        LET ctx == acts[d].ctx[2]
        IN  /\ acts[d].ctx[1] = "stack"
            /\ acts[d].entry = Entry(acts[d].closure)
            /\ mem[ctx + SpAt[arch]] = Address(acts[d].base)
            /\ \A f \in RegisterContext(arch) :
                f[1] \notin Used[arch] => mem[ctx + f[2]] = f[1] \o <<d>>

\* The program goes on in the relocated code of the address it was
\* instrumented at, with its stack pointer, and with the registers it had or
\* the handler has put in the context; x17, r12 and the flags of x86 excepted.
ProgramResumes ==
    pc = Gone =>
        /\ act.to = Hop(act.closure)
        /\ sp = act.base
        /\ \A r \in Editable \cup (Used[arch] \cap {X[31]}) :
            regs[r] = IF r \in act.edited THEN r \o <<-1>> ELSE r \o <<Depth>>

\* The handler is called on a stack that is aligned as the C functions of the
\* architecture expect it; on x64 wherever the instrumented instruction is.
HandlerStackAligned ==
    \A d \in InHandler :
        (arch = "x64" \/ AtFunction(acts[d].base)) =>
            acts[d].sp % (IF arch = "x86" THEN 4 ELSE 2) = 0

\* No step changes the stack of the code it interrupts, at or above its stack
\* pointer.  What is below is taken for free.  On x64 it is not: a leaf function
\* may use 128 bytes there (the red zone), which the push of the trampoline
\* overwrites if the function is instrumented in its middle.
StackOfProgramKept ==
    [][\A s \in Slots : mem'[s] # mem[s] => s < act.base]_vars
=============================================================================
