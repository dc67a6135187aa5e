---------------------------- MODULE ArmRelocation ----------------------------
(***************************************************************************)
(* Hooking a 32 bit ARM or Thumb function: the trampoline that is written  *)
(* over its first bytes, the relocated copy of the instructions it covers  *)
(* (GenRelocateCodeAndBranch), and the execution of that copy when         *)
(* origin_call is called.  Places are byte offsets in the code buffer,     *)
(* which starts at a multiple of four; the growth of buffer and lists is   *)
(* in CodeBuilder.                                                         *)
(***************************************************************************)
EXTENDS Integers, Sequences

CONSTANTS
    Images,   \* the functions: from addresses to instructions
    Chunk     \* the address of the chunk the copy is put into

ASSUME ArmAssumption == Chunk \in Nat /\ Chunk % 4 = 0

\* A function has instructions one after the other, as many as a trampoline
\* overwrites.
ASSUME ImagesAssumption ==
    \A im \in Images : \E e \in DOMAIN im : \A a \in DOMAIN im :
        /\ a \in Nat /\ e <= a
        /\ im[a].size \in {2, 4} /\ im[a].off \in Int
        /\ \/ a + im[a].size \in DOMAIN im
           \/ a + im[a].size >= e + (IF im[e].thumb /\ e % 4 # 0 THEN 10 ELSE 8)

VARIABLES
    image, thumb,
    code,      \* the buffer: items with their place and size
    labels,    \* data_labels_: data, used_for_branch
    relo_map,  \* the places of the copies, that of the branch to the rest last
    cursor,    \* the address of the next instruction to relocate
    broken_at, \* execute_state_changed_pc, or 0
    stage,     \* "relocate", "bind", "run", or "none": there is no copy
    at,        \* <<"copy" or "call" or "go", place or address, Thumb state>>
    r, v, lr,  \* v is VOLATILE_REGISTER
    linked,    \* bl has been executed and control is still in the copy
    seen       \* the state when control last was between two instructions

relocVars == <<code, labels, relo_map, cursor, broken_at>>
runVars == <<at, r, v, lr, linked, seen>>
vars == <<image, thumb, stage, relocVars, runVars>>

Align(a, n) == a - (a % n)
Entry == CHOOSE a \in DOMAIN image : \A b \in DOMAIN image : a <= b

---------------------------------------------------------------------------
(* Emitting                                                                *)

\* An item without its place: opcode, register, immediate or value, size.
Item(op, rt, k, size) == [op |-> op, rt |-> rt, k |-> k, size |-> size]
nop == Item("nop", "none", 0, 2)
t2_b(k) == Item("b", "none", k, 4)
t2_bl(k) == Item("bl", "none", k, 4)
t2_ldr_pc(rt, k) == Item("ldrlit", rt, k, 4)
ldr_reg(rt) == Item("ldrreg", rt, 0, 4)
EmitAddress(x) == Item("word", "none", x, 4)
\* A literal load of the label that goes with the instruction.
Ldr(rt) == Item("ldrlab", rt, 0, 4)
Plain(size) == Item("plain", "none", cursor, size)

\* Mutant: the cursor moves by four whatever is emitted.
MovesByWords(c) == IF c = <<>> THEN 0 ELSE c[Len(c)].pos + 4

getSize(c) == IF c = <<>> THEN 0 ELSE c[Len(c)].pos + c[Len(c)].item.size

\* The bytes the first n of the items take.
SizeOf(items) ==
    LET size[n \in 0 .. Len(items)] == IF n = 0 THEN 0 ELSE size[n - 1] + items[n].size
    IN  size

\* The buffer with items emitted, one after the other.
Emitted(c, items) ==
    c \o [n \in DOMAIN items |-> [pos |-> getSize(c) + SizeOf(items)[n - 1],
                                  item |-> items[n], label |-> Len(labels) + 1]]

\* Mutant: the address is taken for aligned.
AlignsNothing(c) == c

AlignThumbNop(c) == IF getSize(c) % 4 # 0 THEN Emitted(c, <<nop>>) ELSE c

\* What one instruction becomes: its items, and the data of its label.
Becomes(items) == [items |-> items, data |-> <<>>]
WithLabel(items, data, branch) ==
    [items |-> items, data |-> <<[data |-> data, used_for_branch |-> branch]>>]

\* Immediates are read without their sign.
Unsigned(off, width) == (off \div 2) % (2 ^ width)

Thumb1Relocate(i, from_pc) ==
    CASE i.op = "hireg" -> WithLabel(<<Ldr("v"), Item("usev", "none", 0, 2)>>, from_pc, FALSE)
      [] i.op = "bxpc" -> WithLabel(<<Ldr("pc")>>, from_pc, TRUE)
      [] i.op = "ldr1" -> WithLabel(<<Ldr("r"), ldr_reg("r")>>, Align(from_pc + i.off, 4), FALSE)
      \* imm8 counts words and is added as it is
      [] i.op = "adr1" -> WithLabel(<<Ldr("r")>>, from_pc + (i.off \div 4), FALSE)
      \* only the low four bits of imm8 are replaced
      [] i.op = "bcond1" ->
            WithLabel(<<Item("bcond", "none", 2 * (Align(Unsigned(i.off, 8), 16) + 2), 2),
                        nop, t2_b(4), Ldr("pc")>>, from_pc + 2 * Unsigned(i.off, 8) + 1, TRUE)
      [] i.op = "cbz" ->
            WithLabel(<<Item("bcond", "none", 2, 2), nop, t2_b(0), Ldr("pc")>>,
                      from_pc + i.off + 1, TRUE)
      [] i.op = "b1" -> WithLabel(<<Ldr("pc")>>, from_pc + 2 * Unsigned(i.off, 11) + 1, TRUE)
      [] OTHER -> Becomes(<<Plain(2)>>)

\* Mutant: the Thumb bit of the target of b.w is forgotten.
ForgetsThumbFlag(i, from_pc) ==
    IF i.op = "bw" THEN Becomes(<<t2_ldr_pc("pc", 0), EmitAddress(from_pc + i.off)>>)
    ELSE Becomes(<<Plain(4)>>)

Thumb2Relocate(i, from_pc) ==
    CASE i.op = "bcond2" ->
            Becomes(<<Item("bcond", "none", IF i.off < 0 THEN 4 - 2 ^ 20 ELSE 4, 4),
                      t2_b(4), t2_ldr_pc("pc", 0), EmitAddress(from_pc + i.off + 1)>>)
      [] i.op = "bw" -> Becomes(<<t2_ldr_pc("pc", 0), EmitAddress(from_pc + i.off + 1)>>)
      [] i.op = "bl" -> Becomes(<<t2_bl(4), t2_b(8), t2_ldr_pc("pc", 0),
                                  EmitAddress(from_pc + i.off + 1)>>)
      [] i.op = "blx" -> Becomes(<<t2_bl(4), t2_b(8), t2_ldr_pc("pc", 0),
                                   EmitAddress(Align(from_pc, 4) + i.off)>>)
      [] i.op = "adr2" -> Becomes(<<t2_ldr_pc("r", 4), t2_b(0), EmitAddress(from_pc + i.off)>>)
      [] i.op = "ldr2" -> Becomes(<<t2_ldr_pc(i.rt, 4), t2_b(4),
                                    EmitAddress(Align(from_pc + i.off, 4)), ldr_reg(i.rt)>>)
      [] OTHER -> Becomes(<<Plain(4)>>)

\* A branch of any kind keeps its first byte and gets the immediate 1; its
\* link bit is never looked at.
ARMRelocate(i, from_pc) ==
    CASE i.op = "ldrA" ->
            WithLabel(IF i.rt = "pc" THEN <<Ldr("v"), ldr_reg("pc")>> ELSE <<Ldr("r"), ldr_reg("r")>>,
                      from_pc + i.off, FALSE)
      [] i.op = "adrA" -> WithLabel(<<Ldr("r")>>, from_pc + i.off, FALSE)
      [] i.op \in {"bA", "blA", "bcondA"} ->
            Becomes(<<Item(CASE i.op = "bA" -> "b" [] i.op = "blA" -> "bl" [] OTHER -> "bcond",
                           "none", 4, 4),
                      t2_b(4), t2_ldr_pc("pc", -4), EmitAddress(from_pc + (i.off % (2 ^ 26)))>>)
      [] OTHER -> Becomes(<<Plain(4)>>)

---------------------------------------------------------------------------
(* GenRelocateCodeAndBranch                                                *)

\* generate_arm_trampoline, generate_thumb_trampoline: a nop is put before the
\* load when the function starts between two words.
TrampolineSize == IF thumb /\ Entry % 4 # 0 THEN 10 ELSE 8

Init ==
    /\ image \in Images
    /\ thumb \in BOOLEAN /\ \A a \in DOMAIN image : image[a].thumb = thumb
    /\ code = <<>> /\ labels = <<>> /\ relo_map = <<>>
    /\ cursor = Entry /\ broken_at = 0
    /\ stage = "relocate"
    /\ at = <<"copy", 0, thumb>>
    /\ r = <<"none">> /\ v = 0 /\ lr = -1 /\ linked = FALSE
    /\ seen = [pc |-> <<"at", Entry>>, r |-> r, lr |-> "caller"]

Interrupted == broken_at # 0 /\ cursor = broken_at
InLoop == stage = "relocate" /\ cursor < Entry + TrampolineSize /\ ~Interrupted

Relocated(c, becomes) ==
    /\ code' = Emitted(c, becomes.items)
    /\ labels' = labels \o becomes.data
    /\ relo_map' = Append(relo_map, [orig |-> cursor, pos |-> getSize(code)])
    /\ cursor' = cursor + image[cursor].size
    /\ UNCHANGED <<image, thumb, stage, runVars>>

\* gen_thumb_relocate_code: a nop, one more to align, the copy.
RelocateThumb1 ==
    /\ InLoop /\ thumb /\ image[cursor].size = 2
    /\ Relocated(AlignThumbNop(Emitted(code, <<nop>>)), Thumb1Relocate(image[cursor], cursor + 4))
    /\ broken_at' = IF image[cursor].op = "bxpc" THEN cursor + 4 ELSE broken_at

RelocateThumb2 ==
    /\ InLoop /\ thumb /\ image[cursor].size = 4
    /\ Relocated(AlignThumbNop(Emitted(code, <<nop>>)), Thumb2Relocate(image[cursor], cursor + 4))
    /\ UNCHANGED broken_at

RelocateARM ==
    /\ InLoop /\ ~thumb
    /\ Relocated(code, ARMRelocate(image[cursor], cursor + 8))
    /\ UNCHANGED broken_at

\* The branch to the rest of the function.  After an interruption nothing is
\* left to relocate: the length of origin_chunk has been cut to what was done.
BranchToRest ==
    /\ stage = "relocate" /\ ~InLoop
    /\ code' = IF thumb THEN Emitted(AlignThumbNop(code), <<t2_ldr_pc("pc", 0), EmitAddress(cursor + 1)>>)
               ELSE Emitted(code, <<t2_ldr_pc("pc", -4), EmitAddress(cursor)>>)
    /\ relo_map' = Append(relo_map, [orig |-> cursor, pos |-> getSize(code)])
    /\ stage' = "bind"
    /\ UNCHANGED <<image, thumb, labels, cursor, broken_at, runVars>>

\* RelocBind: the data of the labels follows the code, each label is bound to
\* its word and the load that names it linked.
LabelPos(n) == getSize(code) + 4 * (n - 1)
LinkedTo(x, n) ==
    [x EXCEPT !.item.op = "ldrlit",
              !.item.k = LabelPos(n) - (IF thumb THEN Align(x.pos, 4) + 4 ELSE x.pos + 8)]

\* reloc_label_fixup: the place of the copy of the instruction at val, where
\* val has its Thumb bit, and 0 if there is none.
get_orig_instr_relocated_addr(val) ==
    LET found == {n \in 1 .. Len(relo_map) - 1 : relo_map[n].orig = val}
    IN  IF found = {} THEN 0 ELSE relo_map[CHOOSE n \in found : TRUE].pos

Fixup(l) ==
    IF (thumb => l.used_for_branch) /\ l.data \in Entry .. Entry + TrampolineSize - 1
    THEN get_orig_instr_relocated_addr(l.data) + Chunk ELSE l.data

RelocBind ==
    /\ stage = "bind"
    /\ code' = Emitted([m \in DOMAIN code |-> IF code[m].item.op = "ldrlab"
                                             THEN LinkedTo(code[m], code[m].label) ELSE code[m]],
                       [n \in DOMAIN labels |-> EmitAddress(Fixup(labels[n]))])
    /\ stage' = "run"
    /\ UNCHANGED <<image, thumb, labels, relo_map, cursor, broken_at, runVars>>

\* There is no chunk for the copy: relocated keeps its old range.
NoChunk ==
    /\ stage = "bind"
    /\ stage' = "none"
    /\ UNCHANGED <<image, thumb, relocVars, runVars>>

---------------------------------------------------------------------------
(* origin_call                                                             *)

InCopy == stage = "run" /\ at[1] = "copy"
Here == {n \in DOMAIN code : code[n].pos = at[2]}
\* The instruction that is executed: data is none, nor is the middle of an
\* instruction, nor Thumb code in ARM state.
Executes(op) ==
    /\ InCopy /\ at[3] = thumb
    /\ \E n \in Here : code[n].item.op = op
This == code[CHOOSE n \in Here : TRUE].item
PC == at[2] + (IF thumb THEN 4 ELSE 8)

\* The word of the copy at a place.
WordAt(p) ==
    LET found == {n \in DOMAIN code : code[n].pos = p /\ code[n].item.op = "word"}
    IN  IF found = {} THEN -1 ELSE code[CHOOSE n \in found : TRUE].item.k

\* A word of the function: the trampoline has overwritten the first ones.
Mem(a) == IF a \in Entry .. Entry + TrampolineSize - 1 THEN <<"trampoline">> ELSE <<"mem", a>>

InRange(a) == a \in DOMAIN image
Reach(a, state) == IF InRange(a) THEN <<"at", a>> ELSE <<"go", a, state>>

\* The instruction whose copy starts at a place, and the one after the copy
\* that contains a place.
Starts(p) == {n \in DOMAIN relo_map : relo_map[n].pos = p}
FollowingOf(p) ==
    relo_map[CHOOSE n \in DOMAIN relo_map :
                relo_map[n].pos > p /\ \A m \in 1 .. n - 1 : relo_map[m].pos <= p].orig

\* Control goes to to; where it is between two instructions, seen follows.
MovesTo(to) ==
    /\ at' = to
    /\ seen' = IF to[1] # "copy"
               THEN [pc |-> to, r |-> r', lr |-> IF lr' = -1 THEN "caller" ELSE FollowingOf(lr')]
               ELSE IF Starts(to[2]) # {}
               THEN [pc |-> Reach(relo_map[CHOOSE n \in Starts(to[2]) : TRUE].orig, thumb),
                     r |-> r', lr |-> IF lr' = -1 THEN "caller" ELSE FollowingOf(lr')]
               ELSE seen
    /\ UNCHANGED <<image, thumb, stage, relocVars>>

Onwards == <<"copy", at[2] + This.size, thumb>>

\* A load into pc: bit 0 selects the state.
Jump(x) ==
    /\ linked' = FALSE
    /\ UNCHANGED <<r, v, lr>>
    /\ MovesTo(IF x >= Chunk THEN <<"copy", Align(x, 2) - Chunk, x % 2 = 1>>
               ELSE <<IF linked THEN "call" ELSE "go", Align(x, 2), x % 2 = 1>>)

RunNop == Executes("nop") /\ UNCHANGED <<r, v, lr, linked>> /\ MovesTo(Onwards)

RunPlain ==
    /\ Executes("plain")
    /\ r' = <<"plain", This.k>>
    /\ UNCHANGED <<v, lr, linked>>
    /\ MovesTo(Onwards)

\* The instruction that read pc reads VOLATILE_REGISTER.
RunUseV ==
    /\ Executes("usev")
    /\ r' = <<"num", v>>
    /\ UNCHANGED <<v, lr, linked>>
    /\ MovesTo(Onwards)

RunLdrLiteral ==
    /\ Executes("ldrlit")
    /\ LET x == WordAt(Align(PC, 4) + This.k)
       IN  \/ This.rt = "r" /\ r' = <<"num", x>> /\ UNCHANGED <<v, lr, linked>> /\ MovesTo(Onwards)
           \/ This.rt = "v" /\ v' = x /\ UNCHANGED <<r, lr, linked>> /\ MovesTo(Onwards)
           \/ This.rt = "pc" /\ Jump(x)

RunLdrRegister ==
    /\ Executes("ldrreg")
    /\ \/ This.rt = "r" /\ r' = Mem(r[2]) /\ UNCHANGED <<v, lr, linked>> /\ MovesTo(Onwards)
       \/ This.rt = "pc" /\ UNCHANGED <<r, v, lr, linked>> /\ MovesTo(<<"go", Mem(v), TRUE>>)

Branch == <<"copy", PC + This.k, thumb>>
RunB == Executes("b") /\ UNCHANGED <<r, v, lr, linked>> /\ MovesTo(Branch)
RunBcond ==
    /\ Executes("bcond")
    /\ UNCHANGED <<r, v, lr, linked>>
    /\ MovesTo(Branch) \/ MovesTo(Onwards)
RunBL ==
    /\ Executes("bl")
    /\ lr' = at[2] + This.size
    /\ linked' = TRUE
    /\ UNCHANGED <<r, v>>
    /\ MovesTo(Branch)

\* The function that was called returns to the copy.
RunReturn ==
    /\ stage = "run" /\ at[1] = "call"
    /\ UNCHANGED <<r, v, lr, linked>>
    /\ MovesTo(<<"copy", lr, thumb>>)

Next ==
    \/ RelocateThumb1 \/ RelocateThumb2 \/ RelocateARM \/ BranchToRest \/ RelocBind \/ NoChunk
    \/ RunNop \/ RunPlain \/ RunUseV \/ RunLdrLiteral \/ RunLdrRegister
    \/ RunB \/ RunBcond \/ RunBL \/ RunReturn

Spec == Init /\ [][Next]_vars /\ WF_vars(Next)

---------------------------------------------------------------------------
(* Properties                                                              *)

\* What the variables range over; the buffer's cursor leaves no gaps.
TypeOK ==
    /\ \A a \in DOMAIN image : image[a].thumb = thumb
    /\ \A n \in DOMAIN code :
        /\ code[n].pos = (IF n = 1 THEN 0 ELSE code[n - 1].pos + code[n - 1].item.size)
        /\ code[n].item.size \in {2, 4}
    /\ \A n \in DOMAIN labels : labels[n].data \in Int /\ labels[n].used_for_branch \in BOOLEAN
    /\ stage \in {"relocate", "bind", "run", "none"}
    /\ at[1] \in {"copy", "call", "go"}
    /\ linked \in BOOLEAN

\* AlignThumbNop does its work: addresses in the copy, and the loads of
\* literals, are at a multiple of four, wherever two and four byte
\* instructions alternate; a literal load counts from there.
WordsAligned ==
    thumb => \A n \in DOMAIN code : code[n].item.op \in {"word", "ldrlit", "ldrlab"} => code[n].pos % 4 = 0

Original == INSTANCE ArmProgram WITH pc <- seen.pc, r <- seen.r, lr <- seen.lr

\* Calling the copy GenRelocateCodeAndBranch makes is calling the function that
\* was overwritten: the same instructions, with the values they had at their
\* old addresses, branches and calls to the same places in the same state, and
\* it does not stop, unless there is no chunk and so no copy.
RunsOriginal == Original!Steps /\ (<>(stage = "none") \/ Original!Progress)
==============================================================================
