------------------------- MODULE RelocatedRunProofs -------------------------
(***************************************************************************)
(* Proofs about RelocatedRun: the relocated copy of any function that can  *)
(* be hooked, behind any of the trampolines, does what the function did.   *)
(***************************************************************************)
EXTENDS RelocatedRun, SequenceTheorems, TLAPS

\* The instruction of the function that element k of the copy stands for.
Copied(k) == image[Site + k - 1]

\* What is in x17, and what x is, between the words of one element.
HalfDone ==
    at[3] > 1 =>
        \/ at[2] = Size + 1 /\ x17 = At(Site + Size)
        \/ /\ at[2] <= Size /\ Copied(at[2]).op \in {"ldr", "ldrw", "b", "bl"}
           /\ x17 = Copied(at[2]).to
        \/ /\ at[2] <= Size /\ Copied(at[2]).op = "cond"
           /\ x = Zero
           /\ at[3] = 3 => x17 = Copied(at[2]).to

\* Where control is in the copy.
InPlace ==
    InCopy => /\ at[2] \in 1 .. Size + 1
              /\ at[3] \in 1 .. Len(relocated[at[2]])
              /\ at = <<"relocated", at[2], at[3]>>
              /\ HalfDone

\* Control and the link register are never in the overwritten words.
NotPatched(addr) == addr[1] = "code" => addr[2] \notin Site .. Site + Size - 1

LinkInPlace ==
    /\ NotPatched(lr)
    /\ lr[1] = "relocated" => \E k \in 1 .. Size + 1 : lr = <<"relocated", k, 1>>

IInv ==
    /\ Relocatable(image, Size)
    /\ tramp \in {TrampolineOf(kind) : kind \in Trampolines}
    /\ NotPatched(at)
    /\ InPlace
    /\ LinkInPlace

---------------------------------------------------------------------------
(* Facts about the code                                                    *)

LEMMA Sizes ==
    ASSUME tramp \in {TrampolineOf(kind) : kind \in Trampolines}
    PROVE  Size \in {1, 3, 4} /\ Site \in Nat /\ CodeWords \in Nat /\ Site + Size <= CodeWords
<1>1. PICK kind \in {"near", "adrp", "far"} : tramp = TrampolineOf(kind)
    BY RunAssumption
<1>2. CASE kind = "near"
    BY <1>1, <1>2, RunAssumption
    DEF TrampolineOf, GenerateNearTrampolineBuffer, Size, MaxTrampoline
<1>3. CASE kind = "adrp"
    BY <1>1, <1>3, RunAssumption
    DEF TrampolineOf, GenerateNormalTrampolineBuffer, AdrpAddBr, Size, MaxTrampoline
<1>4. CASE kind = "far"
    BY <1>1, <1>4, RunAssumption
    DEF TrampolineOf, GenerateNormalTrampolineBuffer, LiteralLdrBranch, Size, MaxTrampoline
<1> QED BY <1>1, <1>2, <1>3, <1>4

\* Element k of the copy.
LEMMA Element ==
    ASSUME Size \in Nat, NEW k \in 1 .. Size + 1
    PROVE  relocated[k] = IF k <= Size THEN Relocate(Copied(k)) ELSE Jump(At(Site + Size))
BY DEF relocated, GenRelocateCodeAndBranch, Copied

LEMMA OneAndTwo == \A a, b, c : <<a>> \o <<b, c>> = <<a, b, c>>
<1> SUFFICES ASSUME NEW a, NEW b, NEW c PROVE <<a>> \o <<b, c>> = <<a, b, c>>
    OBVIOUS
<1> DEFINE S == {a, b, c}
           s == <<a>>
           t == <<b, c>>
           u == <<a, b, c>>
<1>1. s \in Seq(S) /\ t \in Seq(S) /\ u \in Seq(S)
    OBVIOUS
<1>2. /\ s \o t \in Seq(S) /\ Len(s \o t) = 3 /\ (s \o t)[1] = a
      /\ (s \o t)[2] = b /\ (s \o t)[3] = c
    BY <1>1, ConcatProperties
<1>3. Len(s \o t) = Len(u) /\ \A i \in 1 .. Len(s \o t) : (s \o t)[i] = u[i]
    BY <1>2
<1> HIDE DEF s, t, u
<1>4. s \o t = u
    BY <1>1, <1>2, <1>3, SeqEqual
<1> QED BY <1>4 DEF s, t, u

\* What the classes of instructions of a function become.
LEMMA Relocations ==
    ASSUME NEW i, i.op \in Classes, i.op # "ldrv"
    PROVE  /\ i.op \in {"ldr", "ldrw"} => Relocate(i) = <<Insn("set17", i.to), Insn("load", NoAddr)>>
           /\ i.op = "adr" => Relocate(i) = <<Insn("mov", i.to)>>
           /\ i.op = "b" => Relocate(i) = <<Insn("set17", i.to), Insn("br17", NoAddr)>>
           /\ i.op = "bl" => Relocate(i) = <<Insn("set17", i.to), Insn("blr17", NoAddr)>>
           /\ i.op = "cond" => Relocate(i) = <<Insn("notcond", NoAddr), Insn("set17", i.to),
                                               Insn("br17", NoAddr)>>
           /\ i.op \in {"other", "ret", "data"} => Relocate(i) = <<i>>
<1>1. CASE i.op \in {"ldr", "ldrw"}
    BY <1>1 DEF Relocate
<1>2. CASE i.op = "adr"
    BY <1>2 DEF Relocate
<1>3. CASE i.op = "b"
    BY <1>3 DEF Relocate, Jump
<1>4. CASE i.op = "bl"
    BY <1>4 DEF Relocate, CallFunction
<1>5. CASE i.op = "cond"
    <2>1. Relocate(i) = <<Insn("notcond", NoAddr)>> \o <<Insn("set17", i.to), Insn("br17", NoAddr)>>
        BY <1>5 DEF Relocate, Jump
    <2>2. Relocate(i) = <<Insn("notcond", NoAddr), Insn("set17", i.to), Insn("br17", NoAddr)>>
        BY <2>1, OneAndTwo, Zenon
    <2> QED BY <1>5, <2>2
<1>6. CASE i.op \in {"other", "ret", "data"}
    BY <1>6 DEF Relocate
<1> QED BY <1>1, <1>2, <1>3, <1>4, <1>5, <1>6 DEF Classes

\* The word that is executed, outside the copy and in it.
LEMMA WordOutside ==
    ASSUME IInv, Running, ~InCopy
    PROVE  at[2] \in Words /\ This = image[at[2]] /\ Following = At(at[2] + 1)
BY DEF IInv, Running, This, code, Patched, NotPatched, Following

LEMMA WordInCopy ==
    ASSUME IInv, InCopy
    PROVE  /\ at[2] \in 1 .. Size + 1 /\ Size \in {1, 3, 4} /\ at = <<"relocated", at[2], at[3]>>
           /\ at[2] = Size + 1 =>
                \/ at[3] = 1 /\ This = Insn("set17", At(Site + Size))
                   /\ Following = <<"relocated", at[2], 2>>
                \/ at[3] = 2 /\ This = Insn("br17", NoAddr) /\ x17 = At(Site + Size)
           /\ at[2] <= Size =>
                LET i == Copied(at[2])
                IN  \/ i.op \in {"other", "ret", "data"} /\ at[3] = 1 /\ This = i /\ Following = NextElement
                    \/ i.op = "adr" /\ at[3] = 1 /\ This = Insn("mov", i.to) /\ Following = NextElement
                    \/ /\ i.op \in {"ldr", "ldrw", "b", "bl"} /\ at[3] = 1 /\ This = Insn("set17", i.to)
                       /\ Following = <<"relocated", at[2], 2>>
                    \/ /\ i.op \in {"ldr", "ldrw"} /\ at[3] = 2 /\ This = Insn("load", NoAddr) /\ x17 = i.to
                       /\ Following = NextElement
                    \/ i.op = "b" /\ at[3] = 2 /\ This = Insn("br17", NoAddr) /\ x17 = i.to
                    \/ /\ i.op = "bl" /\ at[3] = 2 /\ This = Insn("blr17", NoAddr) /\ x17 = i.to
                       /\ Following = NextElement
                    \/ /\ i.op = "cond" /\ at[3] = 1 /\ This = Insn("notcond", NoAddr)
                       /\ Following = <<"relocated", at[2], 2>>
                    \/ /\ i.op = "cond" /\ at[3] = 2 /\ This = Insn("set17", i.to) /\ x = Zero
                       /\ Following = <<"relocated", at[2], 3>>
                    \/ /\ i.op = "cond" /\ at[3] = 3 /\ This = Insn("br17", NoAddr)
                       /\ x = Zero /\ x17 = i.to
<1> DEFINE k == at[2]
           i == Copied(k)
<1>1. /\ k \in 1 .. Size + 1 /\ at[3] \in 1 .. Len(relocated[k]) /\ at = <<"relocated", k, at[3]>>
      /\ HalfDone /\ Size \in {1, 3, 4}
    BY Sizes DEF IInv, InPlace
<1>2. relocated[k] = IF k <= Size THEN Relocate(i) ELSE Jump(At(Site + Size))
    BY <1>1, Element
<1>3. This = relocated[k][at[3]]
    BY DEF This
<1>4. CASE k = Size + 1
    <2>1. relocated[k] = <<Insn("set17", At(Site + Size)), Insn("br17", NoAddr)>>
        BY <1>1, <1>2, <1>4 DEF Jump
    <2>2. at[3] \in {1, 2} /\ Len(relocated[k]) = 2
        BY <1>1, <2>1
    <2> QED BY <1>1, <1>3, <1>4, <2>1, <2>2 DEF HalfDone, Following
<1>5. CASE k <= Size
    <2>1. i.op \in Classes /\ i.op # "ldrv"
        <3>1. Site + k - 1 \in Words /\ Site + k - 1 \in Site .. Site + Size - 1
            BY <1>1, <1>5, Sizes DEF IInv, Words
        <3> QED BY <3>1 DEF IInv, Relocatable, Copied
    <2>2. relocated[k] = Relocate(i)
        BY <1>2, <1>5
    <2> HIDE DEF i, k
    <2>3. CASE i.op \in {"other", "ret", "data"}
        <3>1. relocated[k] = <<i>>
            BY <2>1, <2>2, <2>3, Relocations
        <3>2. at[3] = 1 /\ Len(relocated[k]) = 1
            BY <1>1, <3>1
        <3> QED BY <1>1, <1>3, <1>5, <2>3, <3>1, <3>2 DEF Following, i, k
    <2>4. CASE i.op = "adr"
        <3>1. relocated[k] = <<Insn("mov", i.to)>>
            BY <2>1, <2>2, <2>4, Relocations
        <3>2. at[3] = 1 /\ Len(relocated[k]) = 1
            BY <1>1, <3>1
        <3> QED BY <1>1, <1>3, <1>5, <2>4, <3>1, <3>2 DEF Following, i, k
    <2>5. CASE i.op \in {"ldr", "ldrw"}
        <3>1. relocated[k] = <<Insn("set17", i.to), Insn("load", NoAddr)>>
            BY <2>1, <2>2, <2>5, Relocations
        <3>2. at[3] \in {1, 2} /\ Len(relocated[k]) = 2
            BY <1>1, <3>1
        <3> QED BY <1>1, <1>3, <1>5, <2>5, <3>1, <3>2 DEF Following, HalfDone, i, k
    <2>6. CASE i.op = "b"
        <3>1. relocated[k] = <<Insn("set17", i.to), Insn("br17", NoAddr)>>
            BY <2>1, <2>2, <2>6, Relocations
        <3>2. at[3] \in {1, 2} /\ Len(relocated[k]) = 2
            BY <1>1, <3>1
        <3> QED BY <1>1, <1>3, <1>5, <2>6, <3>1, <3>2 DEF Following, HalfDone, i, k
    <2>7. CASE i.op = "bl"
        <3>1. relocated[k] = <<Insn("set17", i.to), Insn("blr17", NoAddr)>>
            BY <2>1, <2>2, <2>7, Relocations
        <3>2. at[3] \in {1, 2} /\ Len(relocated[k]) = 2
            BY <1>1, <3>1
        <3> QED BY <1>1, <1>3, <1>5, <2>7, <3>1, <3>2 DEF Following, HalfDone, i, k
    <2>8. CASE i.op = "cond"
        <3>1. relocated[k] = <<Insn("notcond", NoAddr), Insn("set17", i.to), Insn("br17", NoAddr)>>
            BY <2>1, <2>2, <2>8, Relocations
        <3>2. at[3] \in {1, 2, 3} /\ Len(relocated[k]) = 3
            BY <1>1, <3>1
        <3> QED BY <1>1, <1>3, <1>5, <2>8, <3>1, <3>2 DEF Following, HalfDone, i, k
    <2> QED BY <2>1, <2>3, <2>4, <2>5, <2>6, <2>7, <2>8 DEF Classes
<1> QED BY <1>1, <1>4, <1>5

---------------------------------------------------------------------------
(* Control                                                                 *)

\* The start of an element of the copy, or an address outside the copy that is
\* not overwritten.
Arrives(addr) ==
    \/ \E k \in 1 .. Size + 1 : addr = <<"relocated", k, 1>>
    \/ addr[1] # "relocated" /\ NotPatched(addr)

LEMMA KeepsCode ==
    ASSUME UNCHANGED <<image, tramp>>
    PROVE  Size' = Size /\ relocated' = relocated /\ \A k : Copied(k)' = Copied(k)
BY DEF Size, relocated, Copied

\* What a word of the function may be, and one that is overwritten.
LEMMA ClassOf ==
    ASSUME NEW im, NEW n, Relocatable(im, n), NEW w \in Words
    PROVE  im[w].op \in Classes /\ (w \in Site .. Site + n - 1 => im[w].op # "ldrv")
BY DEF Relocatable

\* Every element has a word.
LEMMA NotEmpty ==
    ASSUME Relocatable(image, Size), tramp \in {TrampolineOf(kind) : kind \in Trampolines},
           NEW k \in 1 .. Size + 1
    PROVE  Len(relocated[k]) \in Nat \ {0}
<1>1. Size \in {1, 3, 4} /\ Site \in Nat /\ CodeWords \in Nat /\ Site + Size <= CodeWords
    BY Sizes
<1>2. relocated[k] = IF k <= Size THEN Relocate(Copied(k)) ELSE Jump(At(Site + Size))
    BY <1>1, Element
<1>3. CASE k <= Size
    <2>1. Site + k - 1 \in Words /\ Site + k - 1 \in Site .. Site + Size - 1
        BY <1>1, <1>3 DEF Words
    <2>2. Copied(k).op \in Classes /\ Copied(k).op # "ldrv"
        BY <2>1, ClassOf DEF Copied
    <2> DEFINE i == Copied(k)
    <2> HIDE DEF i
    <2>3. \/ \E a, b : Relocate(i) = <<a, b>>
          \/ \E a : Relocate(i) = <<a>>
          \/ \E a, b, c : Relocate(i) = <<a, b, c>>
        BY <2>2, Relocations DEF Classes, i
    <2> QED BY <1>2, <1>3, <2>3, SMTT(30) DEF i
<1>4. CASE k > Size
    <2>1. relocated[k] = <<Insn("set17", At(Site + Size)), Insn("br17", NoAddr)>>
        BY <1>1, <1>2, <1>4 DEF Jump
    <2> QED BY <2>1
<1> QED BY <1>1, <1>3, <1>4

\* A step to the start of an element, or out of the copy, keeps the invariant.
LEMMA Arrival ==
    ASSUME IInv, UNCHANGED <<image, tramp>>, Arrives(at'), lr' = lr \/ Arrives(lr')
    PROVE  IInv'
<1>1. Size' = Size /\ relocated' = relocated /\ \A k : Copied(k)' = Copied(k)
    BY KeepsCode
<1>2. (Relocatable(image, Size) /\ tramp \in {TrampolineOf(kind) : kind \in Trampolines})'
    BY <1>1 DEF IInv, Relocatable
<1>3. InPlace' /\ NotPatched(at)'
    <2>1. CASE \E k \in 1 .. Size + 1 : at' = <<"relocated", k, 1>>
        <3>1. PICK k \in 1 .. Size + 1 : at' = <<"relocated", k, 1>>
            BY <2>1
        <3>2. Len(relocated[k]) \in Nat \ {0}
            BY NotEmpty DEF IInv
        <3> QED BY <1>1, <3>1, <3>2 DEF InPlace, NotPatched, HalfDone
    <2>2. CASE at'[1] # "relocated" /\ NotPatched(at')
        BY <1>1, <2>2 DEF InPlace, InCopy, NotPatched
    <2> QED BY <2>1, <2>2 DEF Arrives
<1>4. LinkInPlace'
    BY <1>1 DEF IInv, LinkInPlace, Arrives, NotPatched
<1> QED BY <1>2, <1>3, <1>4 DEF IInv

---------------------------------------------------------------------------
(* Steps                                                                   *)

\* A jump of the function goes where Program goes.
LEMMA Targets ==
    ASSUME IInv, NEW w \in Words
    PROVE  /\ image[w].op \in {"b", "bl", "cond"} =>
                Arrives(image[w].to) /\ Virtual(image[w].to) = image[w].to
           /\ image[w].op \in {"ldr", "ldrv"} => Load(image[w].to) = Original!PairIn(image, image[w].to)
           /\ image[w].op = "ldrw" => LoadWord(image[w].to) = Original!WordIn(image, image[w].to)
           /\ image[w].op = "ldrw" /\ w \in Site .. Site + Size - 1 =>
                Load(image[w].to) = Original!WordIn(image, image[w].to)
<1>1. CASE image[w].op \in {"b", "bl", "cond"}
    BY <1>1 DEF IInv, Relocatable, Arrives, NotPatched, Virtual
<1>2. ASSUME NEW l \in Words \ (Site .. Site + Size - 1)
      PROVE  LoadWord(At(l)) = Original!WordIn(image, At(l))
    BY <1>2 DEF code, Patched, LoadWord, Original!WordIn, At, NoAddr, Original!NoAddr
<1>3. CASE image[w].op \in {"ldr", "ldrv"}
    <2>1. PICK l \in Words : /\ image[w].to = At(l) /\ l \notin Site .. Site + Size - 1
                             /\ l + 1 \in Words \ (Site .. Site + Size - 1)
        BY <1>3 DEF IInv, Relocatable
    <2>2. At(l)[1] = "code" /\ At(l)[2] = l /\ Original!At(At(l)[2] + 1) = At(l + 1)
        BY DEF At, Original!At
    <2>3. LoadWord(At(l)) = Original!WordIn(image, At(l))
        BY <1>2, <2>1
    <2>4. LoadWord(At(l + 1)) = Original!WordIn(image, At(l + 1))
        BY <1>2, <2>1
    <2>5. Load(At(l)) = Original!PairIn(image, At(l))
        BY <2>2, <2>3, <2>4 DEF Load, Original!PairIn, Pair, Original!Pair, Zero, Original!Zero
    <2> QED BY <1>3, <2>1, <2>5
<1>4. CASE image[w].op = "ldrw"
    <2>1. PICK l \in Words : image[w].to = At(l) /\ l \notin Site .. Site + Size - 1
        BY <1>4 DEF IInv, Relocatable
    <2>2. LoadWord(At(l)) = Original!WordIn(image, At(l))
        BY <1>2, <2>1
    <2>3. ASSUME w \in Site .. Site + Size - 1
          PROVE  Load(At(l)) = Original!WordIn(image, At(l))
        <3>1. /\ l + 1 \in Words \ (Site .. Site + Size - 1)
              /\ image[l + 1] = Insn("data", Zero)
            BY <1>4, <2>1, <2>3 DEF IInv, Relocatable
        <3>2. LoadWord(At(l + 1)) = Original!WordIn(image, At(l + 1))
            BY <1>2, <3>1
        <3>3. LoadWord(At(l + 1)) = Zero
            BY <3>1, <3>2 DEF Original!WordIn, At, Insn
        <3> QED BY <2>2, <3>3 DEF Load, Pair, At
    <2> QED BY <1>4, <2>1, <2>2, <2>3
<1> QED BY <1>1, <1>3, <1>4

LEMMA LinkVirtual ==
    ASSUME IInv
    PROVE  Arrives(lr)
BY DEF IInv, LinkInPlace, Arrives

\* Outside the copy every step is the step of the function.
LEMMA StepOutside ==
    ASSUME IInv, Next, ~InCopy
    PROVE  IInv' /\ Original!Next
<1>1. at[2] \in Words /\ This = image[at[2]] /\ Following = At(at[2] + 1) /\ at[1] = "code"
    BY WordOutside DEF Next, Running
<1>2. /\ Original!Running /\ Original!This = This /\ Original!Following = Following
      /\ Virtual(at) = at
    BY <1>1 DEF Virtual, Original!Running, Original!This, Original!Following, Words, Original!Words,
        At, Original!At
<1>3. UNCHANGED <<image, tramp>>
    BY DEF Next
<1>4. This.op \in Classes
    BY <1>1 DEF IInv, Relocatable
<1>5. This.op \notin {"b", "ret", "data"} => Arrives(Following) /\ Virtual(Following) = Following
    <2>1. at[2] \notin Site .. Site + Size - 1
        BY <1>1 DEF IInv, NotPatched
    <2>2. Site \in Nat /\ Size \in {1, 3, 4} /\ CodeWords \in Nat
        BY Sizes DEF IInv
    <2>3. SUFFICES ASSUME This.op \notin {"b", "ret", "data"} PROVE Arrives(Following) /\ Virtual(Following) = Following
        OBVIOUS
    <2>4. at[2] # Site - 1
        BY <1>1, <2>2, <2>3 DEF IInv, Relocatable, Words
    <2> QED BY <1>1, <2>1, <2>2, <2>4 DEF Arrives, NotPatched, Virtual, At, Words
<1>6. CASE Other
    BY <1>2, <1>3, <1>5, <1>6, Arrival DEF Other, Original!Next, Original!Other, Zero, One, Original!Zero, Original!One
<1>7. CASE Ldr
    BY <1>1, <1>2, <1>3, <1>5, <1>7, Arrival, Targets DEF Ldr, Original!Next, Original!Ldr
<1>8. CASE LdrV
    BY <1>1, <1>2, <1>3, <1>5, <1>8, Arrival, Targets DEF LdrV, Original!Next, Original!LdrV
<1>9. CASE Adr
    BY <1>2, <1>3, <1>4, <1>5, <1>9, Arrival DEF Adr, Original!Next, Original!Adr, Classes
<1>10. CASE B
    BY <1>1, <1>2, <1>3, <1>10, Arrival, Targets DEF B, Original!Next, Original!B
<1>11. CASE BL
    BY <1>1, <1>2, <1>3, <1>5, <1>11, Arrival, Targets DEF BL, Original!Next, Original!BL
<1>12. CASE Cond
    BY <1>1, <1>2, <1>3, <1>5, <1>12, Arrival, Targets DEF Cond, Original!Next, Original!Cond, Zero, Original!Zero
<1>13. CASE Ret
    BY <1>2, <1>3, <1>13, Arrival, LinkVirtual DEF Ret, Original!Next, Original!Ret
<1>14. CASE LdrW
    BY <1>1, <1>2, <1>3, <1>5, <1>14, Arrival, Targets DEF LdrW, Original!Next, Original!LdrW
<1> QED BY <1>4, <1>6, <1>7, <1>8, <1>9, <1>10, <1>11, <1>12, <1>13, <1>14
    DEF Next, Classes, LoadReg, Set17, Br17, Blr17, NotCond

\* In the copy.

\* A step within one element shows nothing to Program.
LEMMA Within ==
    ASSUME IInv, InCopy, UNCHANGED <<image, tramp, x, v, lr>>,
           NEW j \in {2, 3}, at' = <<"relocated", at[2], j>>, j <= Len(relocated[at[2]]),
           HalfDone'
    PROVE  IInv' /\ UNCHANGED Original!progVars
<1>1. Size' = Size /\ relocated' = relocated /\ \A k : Copied(k)' = Copied(k)
    BY KeepsCode
<1>2. at[2] \in 1 .. Size + 1 /\ at = <<"relocated", at[2], at[3]>> /\ Size \in {1, 3, 4}
    BY WordInCopy
<1>3. Len(relocated[at[2]]) \in Nat
    BY <1>2, NotEmpty DEF IInv
<1>4. (Relocatable(image, Size) /\ tramp \in {TrampolineOf(kind) : kind \in Trampolines})'
    BY <1>1 DEF IInv, Relocatable
<1>5. InPlace' /\ NotPatched(at)'
    BY <1>1, <1>2, <1>3 DEF InPlace, NotPatched
<1>6. LinkInPlace'
    BY <1>1 DEF IInv, LinkInPlace, NotPatched
<1>7. Virtual(at)' = Virtual(at) /\ Virtual(lr)' = Virtual(lr)
    BY <1>2 DEF Virtual
<1> QED BY <1>4, <1>5, <1>6, <1>7 DEF IInv, Original!progVars

\* In the copy every step is the step of the function or part of one.
LEMMA StepInCopy ==
    ASSUME IInv, Next, InCopy
    PROVE  IInv' /\ (Original!Next \/ UNCHANGED Original!progVars)
<1> DEFINE k == at[2]
           i == Copied(k)
<1>1. UNCHANGED <<image, tramp>>
    BY DEF Next
<1>2. /\ k \in 1 .. Size + 1 /\ Size \in {1, 3, 4} /\ Site \in Nat /\ CodeWords \in Nat
      /\ Site + Size <= CodeWords /\ at = <<"relocated", k, at[3]>>
    BY WordInCopy, Sizes DEF IInv
<1>3. /\ Virtual(at) = At(Site + k - 1) /\ Original!Following = At(Site + k)
      /\ k <= Size => Original!Running /\ Original!This = i /\ Site + k - 1 \in Words
    BY <1>2 DEF Virtual, Original!Running, Original!This, Original!Following, At, Original!At,
        Copied, Words, Original!Words
<1>4. k <= Size => Arrives(NextElement) /\ Virtual(NextElement) = At(Site + k)
    BY <1>2 DEF Arrives, NextElement, Virtual
<1>5. CASE k = Size + 1
    <2>1. CASE at[3] = 1
        <3>1. Set17 /\ at' = <<"relocated", k, 2>> /\ x17' = At(Site + Size)
            BY <1>5, <2>1, WordInCopy DEF Next, Insn, Other, Ldr, LdrW, LdrV, Adr, B, BL, Cond, Ret, LoadReg,
                Set17, Br17, Blr17, NotCond
        <3>2. Len(relocated[k]) = 2
            <4>1. relocated[k] = <<Insn("set17", At(Site + Size)), Insn("br17", NoAddr)>>
                BY <1>2, <1>5, Element DEF Jump
            <4> QED BY <4>1
        <3>3. HalfDone'
            BY <1>1, <1>5, <3>1, KeepsCode DEF HalfDone
        <3> QED BY <1>1, <3>1, <3>2, <3>3, Within DEF Set17
    <2>2. CASE at[3] # 1
        <3>1. Br17 /\ at' = At(Site + Size)
            BY <1>5, <2>2, WordInCopy DEF Next, Insn, Other, Ldr, LdrW, LdrV, Adr, B, BL, Cond, Ret, LoadReg,
                Set17, Br17, Blr17, NotCond
        <3>2. Arrives(at') /\ lr' = lr
            BY <1>2, <3>1 DEF Arrives, NotPatched, At, Br17
        <3>3. IInv'
            BY <1>1, <3>2, Arrival
        <3>4. Virtual(at)' = Virtual(at) /\ Virtual(lr)' = Virtual(lr)
            BY <1>2, <1>3, <1>5, <3>1, <3>2 DEF Virtual, At
        <3> QED BY <1>1, <3>1, <3>3, <3>4 DEF Br17, Original!progVars
    <2> QED BY <2>1, <2>2
<1>6. CASE k <= Size
    <2> USE <1>1, <1>6
    <2>1. i.op \in Classes /\ i.op # "ldrv"
        <3>1. Relocatable(image, Size)
            BY DEF IInv
        <3>2. PICK w \in Words : w = Site + k - 1 /\ w \in Site .. Site + Size - 1
            BY <1>2, <1>3
        <3>3. image[w].op \in Classes /\ image[w].op # "ldrv"
            BY <3>1, <3>2, ClassOf
        <3> QED BY <3>2, <3>3 DEF Copied
    <2>2. /\ i.op \in {"b", "bl", "cond"} => Arrives(i.to) /\ Virtual(i.to) = i.to
          /\ i.op = "ldr" => Load(i.to) = Original!PairIn(image, i.to)
          /\ i.op = "ldrw" => Load(i.to) = Original!WordIn(image, i.to)
        <3>1. Site + k - 1 \in Words /\ Site + k - 1 \in Site .. Site + Size - 1
            BY <1>2, <1>3
        <3> QED BY <3>1, Targets DEF Copied
    <2>3. relocated[k] = Relocate(i)
        BY <1>2, Element
    <2>4. CASE This = i
        <3>1. i.op \in {"other", "ret", "data"} /\ Following = NextElement
            BY <2>4, WordInCopy DEF Insn
        <3>2. CASE i.op = "other"
            <4>1. Other
                BY <2>4, <3>2 DEF Next, Other, Ldr, LdrW, LdrV, Adr, B, BL, Cond, Ret, LoadReg,
                    Set17, Br17, Blr17, NotCond
            <4>2. IInv'
                BY <1>4, <3>1, <4>1, Arrival DEF Other
            <4> QED BY <1>3, <1>4, <3>1, <3>2, <4>1, <4>2
                DEF Other, Original!Next, Original!Other, Zero, One, Original!Zero, Original!One
        <3>3. CASE i.op = "ret"
            <4>1. Ret
                BY <2>4, <3>3 DEF Next, Other, Ldr, LdrW, LdrV, Adr, B, BL, Cond, Ret, LoadReg,
                    Set17, Br17, Blr17, NotCond
            <4>2. IInv'
                BY <4>1, Arrival, LinkVirtual DEF Ret
            <4> QED BY <1>3, <3>3, <4>1, <4>2 DEF Ret, Original!Next, Original!Ret
        <3>4. CASE i.op = "data"
            BY <2>4, <3>4 DEF Next, Other, Ldr, LdrW, LdrV, Adr, B, BL, Cond, Ret, LoadReg,
                Set17, Br17, Blr17, NotCond
        <3> QED BY <3>1, <3>2, <3>3, <3>4
    <2>5. CASE This = Insn("mov", i.to)
        <3>1. i.op = "adr" /\ Following = NextElement
            BY <2>5, WordInCopy DEF Insn
        <3>2. Adr /\ x' = i.to
            BY <2>5 DEF Insn, Next, Other, Ldr, LdrW, LdrV, Adr, B, BL, Cond, Ret, LoadReg,
                Set17, Br17, Blr17, NotCond
        <3>3. IInv'
            BY <1>4, <3>1, <3>2, Arrival DEF Adr
        <3> QED BY <1>3, <1>4, <3>1, <3>2, <3>3 DEF Adr, Original!Next, Original!Adr
    <2>6. CASE This = Insn("load", NoAddr)
        <3>1. i.op \in {"ldr", "ldrw"} /\ Following = NextElement /\ x17 = i.to
            BY <2>6, WordInCopy DEF Insn
        <3>2. LoadReg /\ x' = Load(i.to)
            BY <2>6, <3>1 DEF Insn, Next, Other, Ldr, LdrW, LdrV, Adr, B, BL, Cond, Ret, LoadReg,
                Set17, Br17, Blr17, NotCond
        <3>3. IInv'
            BY <1>4, <3>1, <3>2, Arrival DEF LoadReg
        <3>4. CASE i.op = "ldr"
            BY <1>3, <1>4, <2>2, <3>1, <3>2, <3>3, <3>4 DEF LoadReg, Original!Next, Original!Ldr
        <3>5. CASE i.op = "ldrw"
            BY <1>3, <1>4, <2>2, <3>1, <3>2, <3>3, <3>5 DEF LoadReg, Original!Next, Original!LdrW
        <3> QED BY <3>1, <3>4, <3>5
    <2>7. CASE This = Insn("blr17", NoAddr)
        <3>1. i.op = "bl" /\ Following = NextElement /\ x17 = i.to
            BY <2>7, WordInCopy DEF Insn
        <3>2. Blr17 /\ at' = i.to /\ lr' = NextElement
            BY <2>7, <3>1 DEF Insn, Next, Other, Ldr, LdrW, LdrV, Adr, B, BL, Cond, Ret, LoadReg,
                Set17, Br17, Blr17, NotCond
        <3>3. IInv'
            BY <1>4, <2>2, <3>1, <3>2, Arrival
        <3> QED BY <1>3, <1>4, <2>2, <3>1, <3>2, <3>3 DEF Blr17, Original!Next, Original!BL
    <2>8. CASE This = Insn("br17", NoAddr)
        <3>1. /\ \/ i.op = "b"
                 \/ i.op = "cond" /\ x = Zero
              /\ x17 = i.to
            BY <2>8, WordInCopy DEF Insn
        <3>2. Br17 /\ at' = i.to /\ lr' = lr
            BY <2>8, <3>1 DEF Insn, Next, Other, Ldr, LdrW, LdrV, Adr, B, BL, Cond, Ret, LoadReg,
                Set17, Br17, Blr17, NotCond
        <3>3. IInv'
            BY <2>2, <3>1, <3>2, Arrival
        <3> QED BY <1>3, <2>2, <3>1, <3>2, <3>3
            DEF Br17, Original!Next, Original!B, Original!Cond, Zero, Original!Zero
    <2>9. CASE This = Insn("set17", i.to)
        <3>1. \/ i.op \in {"ldr", "ldrw", "b", "bl"} /\ Following = <<"relocated", k, 2>>
              \/ i.op = "cond" /\ x = Zero /\ Following = <<"relocated", k, 3>>
            BY <2>9, WordInCopy DEF Insn
        <3>2. Set17 /\ at' = Following /\ x17' = i.to
            BY <2>9, <3>1 DEF Insn, Next, Other, Ldr, LdrW, LdrV, Adr, B, BL, Cond, Ret, LoadReg,
                Set17, Br17, Blr17, NotCond
        <3>3. HalfDone'
            BY <1>2, <3>1, <3>2, KeepsCode DEF HalfDone, Set17, Zero
        <3>4. /\ i.op \in {"ldr", "ldrw", "b", "bl"} => Len(relocated[k]) = 2
              /\ i.op = "cond" => Len(relocated[k]) = 3
            BY <2>1, <2>3, Relocations
        <3>5. CASE i.op = "cond" /\ Following = <<"relocated", k, 3>>
            <4>1. at' = <<"relocated", at[2], 3>>
                BY <3>2, <3>5
            <4>2. 3 <= Len(relocated[at[2]])
                <5>1. Len(relocated[k]) = 3
                    BY <3>4, <3>5
                <5> QED BY <5>1
            <4>3. UNCHANGED <<image, tramp, x, v, lr>>
                BY <3>2 DEF Set17
            <4> QED BY <3>3, <4>1, <4>2, <4>3, Within
        <3>6. CASE i.op \in {"ldr", "ldrw", "b", "bl"} /\ Following = <<"relocated", k, 2>>
            <4>1. at' = <<"relocated", at[2], 2>>
                BY <3>2, <3>6
            <4>2. 2 <= Len(relocated[at[2]])
                <5>1. Len(relocated[k]) = 2
                    BY <3>4, <3>6
                <5> QED BY <5>1
            <4>3. UNCHANGED <<image, tramp, x, v, lr>>
                BY <3>2 DEF Set17
            <4> QED BY <3>3, <4>1, <4>2, <4>3, Within
        <3> QED BY <3>1, <3>5, <3>6
    <2>10. CASE This = Insn("notcond", NoAddr)
        <3>1. i.op = "cond" /\ Following = <<"relocated", k, 2>>
            BY <2>10, WordInCopy DEF Insn
        <3>2. NotCond
            BY <2>10 DEF Insn, Next, Other, Ldr, LdrW, LdrV, Adr, B, BL, Cond, Ret, LoadReg,
                Set17, Br17, Blr17, NotCond
        <3>3. CASE x = Zero
            <4>1. HalfDone'
                BY <1>2, <3>1, <3>2, <3>3, KeepsCode DEF HalfDone, NotCond, Zero
            <4>2. Len(relocated[k]) = 3
                BY <2>1, <2>3, <3>1, Relocations
            <4> QED BY <3>1, <3>2, <3>3, <4>1, <4>2, Within DEF NotCond
        <3>4. CASE x # Zero
            <4>1. IInv'
                BY <1>4, <3>2, <3>4, Arrival DEF NotCond
            <4> QED BY <1>3, <1>4, <3>1, <3>2, <3>4, <4>1
                DEF NotCond, Original!Next, Original!Cond, Zero, Original!Zero
        <3> QED BY <3>3, <3>4
    <2> QED BY <2>4, <2>5, <2>6, <2>7, <2>8, <2>9, <2>10, WordInCopy
<1> QED BY <1>2, <1>5, <1>6

---------------------------------------------------------------------------
(* The theorem                                                             *)

LEMMA InitIInv ==
    ASSUME \A im \in Images : Relocatable(im, MaxTrampoline), Init
    PROVE  IInv /\ Original!Init
<1>1. Size \in {1, 3, 4} /\ Site \in Nat /\ CodeWords \in Nat /\ Site + Size <= CodeWords
    BY Sizes DEF Init
<1>2. Relocatable(image, Size)
    <2>1. Site .. Site + Size - 1 \subseteq Site .. Site + MaxTrampoline - 1
        BY <1>1 DEF MaxTrampoline
    <2> QED BY <2>1 DEF Init, Relocatable
<1>3. InPlace /\ NotPatched(at) /\ LinkInPlace
    <2>1. Len(relocated[1]) \in Nat \ {0}
        BY <1>1, <1>2, NotEmpty DEF Init
    <2> QED BY <1>1, <2>1 DEF Init, InPlace, HalfDone, NotPatched, LinkInPlace, Caller
<1>4. Original!Init
    BY <1>1 DEF Init, Original!Init, Virtual, At, Original!At, Zero, One, Original!Zero,
        Original!One, Caller, Original!Caller
<1> QED BY <1>2, <1>3, <1>4 DEF IInv, Init

\* For every function that can be hooked, of any length and at any address,
\* and each of the three trampolines: the relocated copy that
\* GenRelocateCodeAndBranch writes, followed by the rest of the patched
\* function, takes only steps of the function before it was hooked.
THEOREM CopyRunsOriginal ==
    (\A im \in Images : Relocatable(im, MaxTrampoline)) => (Spec => RunsOriginal)
<1> SUFFICES ASSUME \A im \in Images : Relocatable(im, MaxTrampoline)
             PROVE  Spec => RunsOriginal
    OBVIOUS
<1>1. Init => IInv /\ Original!Init
    BY InitIInv
<1>2. IInv /\ [Next]_vars => IInv' /\ [Original!Next]_Original!progVars
    <2> SUFFICES ASSUME IInv, [Next]_vars
                 PROVE  IInv' /\ [Original!Next]_Original!progVars
        OBVIOUS
    <2>1. CASE Next /\ InCopy
        BY <2>1, StepInCopy
    <2>2. CASE Next /\ ~InCopy
        BY <2>2, StepOutside
    <2>3. CASE UNCHANGED vars
        BY <2>3 DEF vars, IInv, Relocatable, Size, NotPatched, InPlace, InCopy, relocated, HalfDone,
            Copied, LinkInPlace, Original!progVars, Virtual
    <2> QED BY <2>1, <2>2, <2>3
<1> QED BY <1>1, <1>2, PTL DEF Spec, RunsOriginal, Original!Steps
=============================================================================
