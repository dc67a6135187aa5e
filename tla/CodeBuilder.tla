----------------------------- MODULE CodeBuilder -----------------------------
(***************************************************************************)
(* The assembler that every piece of ARM64 code of Dobby is written with,  *)
(* and the builder that puts the code into memory: CodeBuffer grows by     *)
(* moving to a larger block, a PseudoLabel keeps the places of the loads   *)
(* that name it in a LiteMutableArray until it is bound, RelocBind binds   *)
(* the labels of a relocation behind the code, FinalizeFromTurboAssembler  *)
(* cuts a chunk from the arena (MemoryArena, words of four bytes) or takes *)
(* the address it is given.                                                *)
(***************************************************************************)
EXTENDS MemoryArena

CONSTANTS
    Labels,         \* the labels of one assembler
    OtherSizes,     \* the sizes other users of the arena ask for
    Sites,          \* the addresses an assembler can be made for, outside the arena
    BufferBytes,    \* CodeBuffer(32)
    ArrayCapacity,  \* instructions_(8), LiteMutableArray(8)
    CapacityStep,   \* CAPACITY_STEP
    MaxWords        \* bound on the words of all assemblers together

ASSUME BuilderAssumption ==
    /\ BufferBytes \in Nat \ {0} /\ BufferBytes % 4 = 0
    /\ ArrayCapacity \in Nat \ {0} /\ CapacityStep \in Nat \ {0}
    /\ MaxWords \in Nat /\ 2 .. MaxWords + 1 \subseteq Sizes
    /\ OtherSizes \subseteq Sizes
    /\ Sites \cap Frames = {}

VARIABLES
    buffer,         \* the CodeBuffer: its block, its cursor in words, its capacity in bytes
    pos,            \* pos_ of each label: 0 unused, -p - 1 bound at byte p
    instructions,   \* instructions_ of each label: an array of byte positions
    data_labels,    \* data_labels_: an array of labels
    binding,        \* 0, or the index RelocBind has reached
    realized,       \* realized_address_: a site, or "NULL"
    stage,          \* "none", "code" while instructions are written, "lost" after an overrun
    memory,         \* the words at every address
    built,          \* the pieces of code finished so far: where, how many words
    starved         \* malloc has returned NULL

asm == <<buffer, pos, instructions, data_labels, binding, realized, stage>>
bvars == <<vars, asm, memory, built, starved>>

Word(op, label, k) == [op |-> op, label |-> label, k |-> k]
Junk == Word("A", "none", 0)

---------------------------------------------------------------------------
(* LiteMutableArray                                                        *)

NewArray(initCapacity) == [array |-> [i \in 1 .. initCapacity |-> "A"], count |-> 0]

\* Mutant: the step is not added before rounding down.
RoundsDown(n) == (n \div CapacityStep) * CapacityStep

\* ALIGN rounds down.
NewCapacity(n) == ((n + CapacityStep) \div CapacityStep) * CapacityStep

IsFull(a) == a.count + 1 > Len(a.array)

ensureArrayCapacity(a) ==
    IF IsFull(a)
    THEN [a EXCEPT !.array = [i \in 1 .. NewCapacity(a.count + 1) |->
                                IF i <= a.count THEN a.array[i] ELSE "A"]]
    ELSE a

pushObject(a, object) ==
    LET e == ensureArrayCapacity(a)
    IN  [array |-> [e.array EXCEPT ![a.count + 1] = object], count |-> a.count + 1]

Objects(a) == {a.array[i] : i \in 1 .. a.count}

---------------------------------------------------------------------------
(* CodeBuffer                                                              *)

NewBuffer(bytes) ==
    [block |-> [i \in 1 .. bytes \div 4 |-> Junk], cursor |-> 0, capacity |-> bytes]

getSize(b) == 4 * b.cursor

\* Mutant: the content is copied without its last word.
CopiesLess(b, newCapacity) ==
    IF newCapacity <= b.capacity THEN b
    ELSE LET n == newCapacity + newCapacity \div 2
         IN  [block |-> [i \in 1 .. n \div 4 |-> IF i < b.cursor THEN b.block[i] ELSE Junk],
              cursor |-> b.cursor, capacity |-> n]

ensureCapacity(b, newCapacity) ==
    IF newCapacity <= b.capacity THEN b
    ELSE LET n == newCapacity + newCapacity \div 2
         IN  [block |-> [i \in 1 .. n \div 4 |-> IF i <= b.cursor THEN b.block[i] ELSE Junk],
              cursor |-> b.cursor, capacity |-> n]

Emitted(b, words) ==
    LET e == ensureCapacity(b, getSize(b) + 4 * Len(words))
    IN  [e EXCEPT !.block = [i \in DOMAIN e.block |->
                               IF i \in b.cursor + 1 .. b.cursor + Len(words)
                               THEN words[i - b.cursor] ELSE e.block[i]],
                  !.cursor = @ + Len(words)]

Fits(words) == getSize(buffer) + 4 * words <= buffer.capacity

Inst == <<Word("inst", "none", 0)>>
Data(l) == <<Word("data", l, 1), Word("data", l, 2)>>

Content(b) == SubSeq(b.block, 1, b.cursor)

\* Copy makes a buffer of the same capacity and emits the content into it.
Copy(b) == Emitted(NewBuffer(b.capacity), Content(b))

---------------------------------------------------------------------------
(* Labels                                                                  *)

is_bound(l) == pos[l] < 0
PosOf(p) == IF p < 0 THEN -p - 1 ELSE IF p > 0 THEN p - 1 ELSE 0
bind_to(p) == -p - 1

\* Mutant: only the load recorded last is linked.
LinksLast(b, l, bound) ==
    LET a == instructions[l]
    IN  [b EXCEPT !.block = [i \in DOMAIN b.block |->
            IF a.count > 0 /\ 4 * (i - 1) = a.array[a.count]
            THEN [b.block[i] EXCEPT !.k = (bound - 4 * (i - 1)) \div 4]
            ELSE b.block[i]]]

\* link_confused_instructions: the loads that name l get their distance.
link_confused_instructions(b, l, bound) ==
    [b EXCEPT !.block = [i \in DOMAIN b.block |->
        IF 4 * (i - 1) \in Objects(instructions[l])
        THEN [b.block[i] EXCEPT !.k = (bound - 4 * (i - 1)) \div 4]
        ELSE b.block[i]]]

\* PseudoBind(l), which every caller follows with EmitInt64 of l's data.
BindAndEmit(l) ==
    /\ pos' = [pos EXCEPT ![l] = bind_to(getSize(buffer))]
    /\ buffer' = Emitted(link_confused_instructions(buffer, l, PosOf(pos'[l])), Data(l))

---------------------------------------------------------------------------
(* The calls of a client                                                   *)

NoLabels ==
    /\ pos' = [l \in Labels |-> 0]
    /\ instructions' = [l \in Labels |-> NewArray(ArrayCapacity)]
    /\ data_labels' = NewArray(ArrayCapacity)
    /\ binding' = 0

ArenaKept == UNCHANGED <<page_chunks, chunks, failed>>
KeptElsewhere == ArenaKept /\ UNCHANGED <<memory, built>>

Spent == IF built = <<>> THEN 0 ELSE built[Len(built)].spent
Room(n) == Spent + buffer.cursor + 2 * data_labels.count + n <= MaxWords
CanWrite(n) == stage = "code" /\ binding = 0 /\ Room(n)

\* TurboAssembler(address), with its PseudoLabels.
TurboAssembler(address) ==
    /\ stage = "none" /\ Room(1)
    /\ \A n \in DOMAIN built : built[n].frame # address
    /\ realized' = address
    /\ stage' = "code"
    /\ KeptElsewhere /\ UNCHANGED <<buffer, pos, instructions, data_labels, binding, starved>>

\* Any instruction without a label.
Emit ==
    /\ CanWrite(1)
    /\ buffer' = Emitted(buffer, Inst)
    /\ KeptElsewhere /\ UNCHANGED <<pos, instructions, data_labels, binding, realized, stage, starved>>

\* malloc returns NULL while the buffer grows: nobody looks at the result of
\* ensureCapacity, and the word or two are written behind the block.
Overrun ==
    /\ stage = "code" /\ \E n \in {1, 2} : ~Fits(n)
    /\ stage' = "lost"
    /\ starved' = TRUE
    /\ KeptElsewhere /\ UNCHANGED <<buffer, pos, instructions, data_labels, binding, realized>>

\* Ldr(rt, l) before l is bound: the place is recorded, the distance left 0.
\* No client loads a label that is bound: ldr(rt, offset) would put the offset
\* in bytes into the field that counts words.
LdrLinked(l) ==
    /\ CanWrite(1) /\ ~is_bound(l)
    /\ instructions' = [instructions EXCEPT ![l] = pushObject(@, getSize(buffer))]
    /\ buffer' = Emitted(buffer, <<Word("ldr", l, 0)>>)
    /\ KeptElsewhere /\ UNCHANGED <<pos, data_labels, binding, realized, stage, starved>>

\* The array cannot grow: pushObject returns false, which nobody looks at.
LdrDropped(l) ==
    /\ CanWrite(1) /\ ~is_bound(l) /\ IsFull(instructions[l])
    /\ starved' = TRUE
    /\ buffer' = Emitted(buffer, <<Word("ldr", l, 0)>>)
    /\ KeptElsewhere /\ UNCHANGED <<pos, instructions, data_labels, binding, realized, stage>>

\* A label of the client's own is bound once.
PseudoBind(l) ==
    /\ CanWrite(2) /\ ~is_bound(l) /\ l \notin Objects(data_labels)
    /\ BindAndEmit(l)
    /\ KeptElsewhere /\ UNCHANGED <<instructions, data_labels, binding, realized, stage, starved>>

\* new RelocLabelEntry(data), put into the list before the first load names it.
AppendRelocLabelEntry(l) ==
    /\ CanWrite(2) /\ ~is_bound(l) /\ l \notin Objects(data_labels)
    /\ instructions[l].count = 0
    /\ data_labels' = pushObject(data_labels, l)
    /\ KeptElsewhere /\ UNCHANGED <<buffer, pos, instructions, binding, realized, stage, starved>>

\* The list cannot grow: the label is never bound.
EntryDropped(l) ==
    /\ CanWrite(2) /\ IsFull(data_labels)
    /\ ~is_bound(l) /\ l \notin Objects(data_labels) /\ instructions[l].count = 0
    /\ starved' = TRUE
    /\ KeptElsewhere
    /\ UNCHANGED <<buffer, pos, instructions, data_labels, binding, realized, stage>>

\* RelocBind, the last call before the code is finished: one label of the list
\* after the other.
RelocBind ==
    /\ stage = "code" /\ binding < data_labels.count
    /\ BindAndEmit(data_labels.array[binding + 1])
    /\ binding' = binding + 1
    /\ KeptElsewhere /\ UNCHANGED <<instructions, data_labels, realized, stage, starved>>

---------------------------------------------------------------------------
(* AssemblyCodeBuilder                                                     *)

\* All labels that loads name are bound: by the client, or by RelocBind.
IsComplete ==
    /\ stage = "code" /\ buffer.cursor > 0
    /\ binding = data_labels.count
    /\ \A l \in Labels : instructions[l].count > 0 => is_bound(l)

\* CodePatch of the content of b.
Patched(frame, offset, b) ==
    /\ memory' = [a \in DOMAIN memory |->
                    IF a[1] = frame /\ a[2] \in offset .. offset + b.cursor - 1
                    THEN b.block[a[2] - offset + 1] ELSE memory[a]]
    /\ built' = Append(built, [frame |-> frame, offset |-> offset, length |-> b.cursor,
                               spent |-> Spent + b.cursor])

\* The assembler goes out of scope with its labels, lists and buffer.
Destroyed ==
    /\ buffer' = NewBuffer(BufferBytes)
    /\ NoLabels
    /\ realized' = "NULL"
    /\ stage' = "none"
    /\ UNCHANGED starved

\* A chunk for the code and one word more.
ChunkForCode == AllocateCodeChunk(buffer.cursor + 1)

FinalizeInArena ==
    /\ IsComplete /\ realized = "NULL"
    /\ ChunkForCode
    /\ IF Len(chunks') > Len(chunks)
       THEN LET c == chunks'[Len(chunks')]
            IN  Patched(page_chunks'[c.page].frame, c.offset, buffer)
       ELSE UNCHANGED <<memory, built>>
    /\ Destroyed

\* The near trampolines: the address is given.
FinalizeFromAddress ==
    /\ IsComplete /\ realized # "NULL"
    /\ Patched(realized, 0, buffer)
    /\ ArenaKept /\ Destroyed

\* GenerateNormalTrampolineBuffer copies the buffer; the routing writes the
\* copy when the assembler is gone.
FinishCopy ==
    /\ IsComplete /\ realized # "NULL"
    /\ Patched(realized, 0, Copy(buffer))
    /\ ArenaKept /\ Destroyed

\* Other users of the arena.
OtherChunk ==
    /\ stage = "none"
    /\ \E size \in OtherSizes : AllocateCodeChunk(size) \/ AllocateDataChunk(size)
    /\ UNCHANGED <<asm, memory, built, starved>>

BuilderInit ==
    /\ Init
    /\ buffer = NewBuffer(BufferBytes)
    /\ pos = [l \in Labels |-> 0]
    /\ instructions = [l \in Labels |-> NewArray(ArrayCapacity)]
    /\ data_labels = NewArray(ArrayCapacity)
    /\ binding = 0
    /\ realized = "NULL"
    /\ stage = "none"
    /\ memory = [a \in (Frames \cup Sites) \X (0 .. PageSize - 1) |-> Junk]
    /\ built = <<>>
    /\ starved = FALSE

BuilderNext ==
    \/ \E address \in Sites \cup {"NULL"} : TurboAssembler(address)
    \/ Emit \/ Overrun \/ RelocBind
    \/ \E l \in Labels : \/ LdrLinked(l) \/ LdrDropped(l) \/ PseudoBind(l)
                         \/ AppendRelocLabelEntry(l) \/ EntryDropped(l)
    \/ FinalizeInArena \/ FinalizeFromAddress \/ FinishCopy
    \/ OtherChunk

BuilderSpec == BuilderInit /\ [][BuilderNext]_bvars

---------------------------------------------------------------------------
(* Properties                                                              *)

\* What the variables of the builder range over; the cursor stays in the block.
BuilderTypeOK ==
    /\ buffer.cursor \in Nat /\ buffer.capacity \in Nat
    /\ getSize(buffer) <= buffer.capacity
    /\ DOMAIN buffer.block = 1 .. buffer.capacity \div 4
    /\ pos \in [Labels -> Int]
    /\ \A l \in Labels : instructions[l].count <= Len(instructions[l].array)
    /\ data_labels.count <= Len(data_labels.array)
    /\ binding \in 0 .. data_labels.count
    /\ realized \in Sites \cup {"NULL"}
    /\ stage \in {"none", "code", "lost"}
    /\ starved \in BOOLEAN

\* Every load in the buffer either reaches the first word of its label's data,
\* or is on the list of its label and will be linked: whatever was emitted,
\* bound and moved to larger blocks in between.
LoadsReachData ==
    (stage = "code" /\ ~starved) =>
        \A i \in 1 .. buffer.cursor :
            LET w == buffer.block[i]
                j == i + w.k
            IN  w.op = "ldr" =>
                    IF is_bound(w.label)
                    THEN j \in 1 .. buffer.cursor - 1 /\ buffer.block[j] = Data(w.label)[1]
                    ELSE 4 * (i - 1) \in Objects(instructions[w.label])

Unlinked(words) ==
    [i \in DOMAIN words |-> IF words[i].op = "ldr" THEN [words[i] EXCEPT !.k = 0] ELSE words[i]]

Image(p) == [i \in 1 .. p.length |-> memory[<<p.frame, p.offset + i - 1>>]]

Text == INSTANCE AssemblyText WITH
    text <- Unlinked(Content(buffer)),
    store <- [n \in DOMAIN built |-> Image(built[n])],
    broken <- starved

\* Assembler, lists, labels, arena and patches together store what the client
\* asked for: growing loses no word, every load of the finished code reaches
\* its data, and code that is finished is never written over.
StoresTheText == Text!Spec
==============================================================================
