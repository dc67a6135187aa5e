------------------------ MODULE ClosureBridgeProofs ------------------------
(***************************************************************************)
(* What a closure bridge saves, what the handler sees and what the program *)
(* resumes with, for every number and nesting of instrumented addresses.   *)
(*                                                                         *)
(* The code is annotated: for each of its instructions, where the stack    *)
(* pointer is (Off), and what the registers (RegHas) and the slots of the  *)
(* stack (SlotHas) are known to hold before it is executed.  First it is   *)
(* shown of each instruction that the annotation before it implies the one *)
(* after it (Sound); then that the processor keeps to the annotation.      *)
(***************************************************************************)
EXTENDS ClosureBridge, SequenceTheorems, TLAPS

---------------------------------------------------------------------------
(* The annotation                                                          *)

Arm64s == {"arm64", "arm64full"}

\* The floating-point registers saved.
Q64(a) == IF a = "arm64full" THEN 32 ELSE 8

\* What a register or slot may hold: the program's register, or one of the
\* values of the bridge.
Own(r) == <<"own", r>>
TheEntry == <<"entry", 0>>
TheContext == <<"context", 0>>
TheBase == <<"base", 0>>         \* the stack pointer of the program
TheHop == <<"hop", 0>>
TheReturn == <<"return", 0>>     \* the address in the trampoline of arm64
TheParity == <<"parity", 0>>     \* whether the stack of x64 is aligned

\* The end of the trampoline of arm64 comes after the bridge.
Turn(p) == IF p \in 7 .. 9 THEN p + 200 ELSE p

\* Where x0 to x29 are stored and loaded.
Stored64(n, i) == IF i = 0 THEN 43 + n ELSE 11 + n + i
Loaded64(n, i) == IF i = 0 THEN 51 + n ELSE 52 + n + i

Off64(n, p) ==
    CASE p \in {1, 9} -> 0
      [] p \in 2 .. 10 \ {9} -> -2
      [] p \in 11 .. 11 + n -> -2 - 2 * n
      [] p \in 12 + n .. 42 + n -> -32 - 2 * n
      [] p \in 43 + n .. 45 + n -> -34 - 2 * n
      [] p \in 46 + n .. 50 + n -> -36 - 2 * n
      [] p \in 51 + n .. 52 + n -> -34 - 2 * n
      [] p \in 53 + n .. 83 + n -> p - 85 - 3 * n
      [] OTHER -> 2 * p - 168 - 4 * n

Reg64(n, p, r, s) ==
    \/ \E i \in 0 .. 29 \ {17} :
        r = <<"x", i>> /\ s = Own(r) /\ (Turn(p) <= Stored64(n, i) \/ Turn(p) > Loaded64(n, i))
    \/ \E i \in 0 .. n - 1 :
        r = <<"q", i>> /\ s = Own(r) /\ (Turn(p) <= 11 + i \/ Turn(p) > 83 + n + i)
    \/ r = <<"x", 30>> /\ s = Own(r) /\ (p \in 1 .. 2 \/ p \in 8 .. 9)
    \/ r = <<"x", 30>> /\ s = TheReturn /\ (p \in 10 .. 41 + n \/ p \in 83 + n .. 83 + 2 * n)
    \/ r = <<"x", 17>> /\ s = TheEntry /\ p = 4
    \/ r = <<"x", 17>> /\ s = TheBase /\ p \in 45 + n .. 46 + n
    \/ r = <<"x", 0>> /\ s = TheContext /\ p \in 48 + n .. 49 + n
    \/ r = <<"x", 1>> /\ s = TheEntry /\ p = 49 + n
    \/ r = <<"x", 17>> /\ s = TheHop /\ Turn(p) > 69 + n

Slot64(n, p, o, s) ==
    \/ \E i \in 0 .. 29 \ {17} :
        /\ o = i - 33 - 2 * n /\ s = Own(<<"x", i>>)
        /\ Turn(p) > Stored64(n, i) /\ Turn(p) <= Loaded64(n, i)
    \/ \E i \in 0 .. n - 1 :
        /\ o = 2 * i - 2 - 2 * n /\ s = Own(<<"q", i>>)
        /\ Turn(p) > 11 + i /\ Turn(p) <= 83 + n + i
    \/ o = -1 /\ s = Own(<<"x", 30>>) /\ p > 2 /\ p \notin 8 .. 9
    \/ o = -2 /\ s = TheEntry /\ Turn(p) \in 5 .. 49 + n
    \/ o = -3 - 2 * n /\ s = TheReturn /\ p \in 42 + n .. 82 + n
    \/ o = -35 - 2 * n /\ s = TheBase /\ p \in 47 + n .. 49 + n
    \/ o = -16 - 2 * n /\ s = TheHop /\ p \in 50 + n .. 69 + n

OffArm(p) ==
    CASE p \in 1 .. 2 -> 0
      [] p \in 3 .. 18 -> -14
      [] p \in 19 .. 20 -> -16
      [] p \in 21 .. 24 -> -18
      [] p = 25 -> -16
      [] OTHER -> p - 40

RegArm(p, r, s) ==
    \/ \E i \in 0 .. 13 \ {12} : r = <<"r", i>> /\ s = Own(r) /\ (p <= 3 + i \/ p > 26 + i)
    \/ r = <<"r", 12>> /\ s = TheEntry /\ p \in 2 .. 23
    \/ r = <<"r", 12>> /\ s = TheHop /\ p > 38
    \/ r = <<"r", 0>> /\ s = TheBase /\ p \in 18 .. 19
    \/ r = <<"r", 0>> /\ s = TheContext /\ p \in 22 .. 23
    \/ r = <<"r", 1>> /\ s = TheEntry /\ p = 23

SlotArm(p, o, s) ==
    \/ \E i \in 0 .. 13 \ {12} :
        o = i - 14 /\ s = Own(<<"r", i>>) /\ p > 3 + i /\ p <= 26 + i
    \/ o = -15 /\ s = TheBase /\ p \in 20 .. 23
    \/ o = -2 /\ s = TheHop /\ p \in 24 .. 38

\* x64 calls the handler in two places.
Before64(p) == p <= 28 \/ p \in 30 .. 31

OffX64(p) ==
    CASE p \in 1 .. 4 -> 1 - p
      [] p \in 5 .. 22 -> -19
      [] p \in 23 .. 30 -> -21
      [] p \in 31 .. 32 -> -22
      [] p = 33 -> -21
      [] OTHER -> p - 53

RegX64(p, r, s) ==
    \/ \E i \in 0 .. 15 \ {5} : r = <<"rx", i>> /\ s = Own(r) /\ (p <= 5 + i \/ p > 34 + i)
    \/ r = FLAGS /\ s = Own(FLAGS) /\ (p <= 2 \/ p > 51)
    \/ r = <<"rx", 0>> /\ s = TheBase /\ p \in 22 .. 23
    \/ r = <<"rx", 6>> /\ s = TheContext /\ p > 24 /\ Before64(p)
    \/ r = <<"rx", 7>> /\ s = TheEntry /\ p > 25 /\ Before64(p)
    \/ r = <<"rx", 0>> /\ s = TheParity /\ p = 27

SlotX64(p, o, s) ==
    \/ \E i \in 0 .. 15 \ {5} :
        o = i - 19 /\ s = Own(<<"rx", i>>) /\ p > 5 + i /\ p <= 34 + i
    \/ o = -2 /\ s = Own(FLAGS) /\ p \in 3 .. 51
    \/ o = -1 /\ s = TheEntry /\ p > 1 /\ Before64(p)
    \/ o = -1 /\ s = TheHop /\ ~Before64(p)
    \/ o = -20 /\ s = TheBase /\ p > 23 /\ Before64(p)

OffX86(p) ==
    CASE p = 1 -> 0
      [] p \in 2 .. 3 -> -1
      [] p \in 4 .. 12 -> -9
      [] p = 13 -> -10
      [] p = 14 -> -9
      [] p \in 15 .. 17 -> -11
      [] p \in 18 .. 19 -> -13
      [] p \in 20 .. 25 -> -15
      [] p = 26 -> -13
      [] p = 27 -> -11
      [] OTHER -> p - 38

RegX86(p, r, s) ==
    \/ \E i \in 0 .. 7 \ {5} : r = <<"ex", i>> /\ s = Own(r) /\ (p <= 4 + i \/ p > 29 + i)
    \/ r = <<"ex", 0>> /\ s = TheBase /\ p \in 17 .. 18
    \/ r = <<"ex", 0>> /\ s = TheEntry /\ p = 21
    \/ r = <<"ex", 0>> /\ s = TheContext /\ p = 23

SlotX86(p, o, s) ==
    \/ \E i \in 0 .. 7 \ {5} :
        o = i - 9 /\ s = Own(<<"ex", i>>) /\ p > 4 + i /\ p <= 29 + i
    \/ o = -1 /\ s = TheEntry /\ p \in 3 .. 24
    \/ o = -1 /\ s = TheHop /\ p > 24
    \/ o = -12 /\ s = TheBase /\ p \in 19 .. 24
    \/ o = -14 /\ s = TheEntry /\ p \in 22 .. 24
    \/ o = -15 /\ s = TheContext /\ p = 24

Off(a, p) ==
    CASE a \in Arm64s -> Off64(Q64(a), p)
      [] a = "arm" -> OffArm(p)
      [] a = "x64" -> OffX64(p)
      [] OTHER -> OffX86(p)
RegHas(a, p, r, s) ==
    \/ a \in Arm64s /\ Reg64(Q64(a), p, r, s)
    \/ a = "arm" /\ RegArm(p, r, s)
    \/ a = "x64" /\ RegX64(p, r, s)
    \/ a = "x86" /\ RegX86(p, r, s)
SlotHas(a, p, o, s) ==
    \/ a \in Arm64s /\ Slot64(Q64(a), p, o, s)
    \/ a = "arm" /\ SlotArm(p, o, s)
    \/ a = "x64" /\ SlotX64(p, o, s)
    \/ a = "x86" /\ SlotX86(p, o, s)

\* The slots from the RegisterContext up to the stack of the program.
Above(a) ==
    CASE a \in Arm64s -> 36 + 2 * Q64(a)
      [] a = "arm" -> 18
      [] a = "x64" -> 21
      [] OTHER -> 13

\* The instructions that call the handler.
Calls(a) ==
    CASE a \in Arm64s -> {49 + Q64(a)}
      [] a = "arm" -> {23}
      [] a = "x64" -> {28, 31}
      [] OTHER -> {24}

\* The instruction that leaves for the relocated code.
Exit(a) == CASE a \in Arm64s -> 9 [] a = "arm" -> 40 [] a = "x64" -> 52 [] OTHER -> 37

\* The handler has not been called yet.
Before(a, p) ==
    CASE a \in Arm64s -> Turn(p) <= 49 + Q64(a)
      [] a = "arm" -> p <= 23
      [] a = "x64" -> Before64(p)
      [] OTHER -> p <= 24

---------------------------------------------------------------------------
(* The invariant                                                           *)

\* What the program has in register r when it resumes.
Held(r, e, d) == IF r \in e.edited THEN r \o <<-1>> ELSE r \o <<d>>

\* What s stands for in the d-th activation, e.
Value(a, s, e, d) ==
    CASE s[1] = "own" -> Held(s[2], e, d)
      [] s = TheEntry -> Entry(e.closure)
      [] s = TheContext -> Address(e.base - Above(a))
      [] s = TheBase -> Address(e.base)
      [] s = TheHop -> Hop(e.closure)
      [] s = TheReturn -> <<"trampoline", 7, 0>>
      [] OTHER -> <<"number", (e.base - 21) % 2, 0>>

RegsMeet(a, p, f, e, d) == \A r, s : RegHas(a, p, r, s) => f[r] = Value(a, s, e, d)
SlotsMeet(a, p, m, e, d) == \A o, s : SlotHas(a, p, o, s) => m[e.base + o] = Value(a, s, e, d)

\* The path x64 takes is the one that aligns its stack.
PathMeets(a, p, e) ==
    a = "x64" => /\ p = 28 => (e.base - 21) % 2 = 0
                 /\ p \in {30, 31} => (e.base - 21) % 2 = 1

\* The registers f and the stack m are what the annotation of p says.
Meets(a, p, f, m, e, d) ==
    /\ f[SP] = Address(e.base + Off(a, p))
    /\ RegsMeet(a, p, f, e, d)
    /\ SlotsMeet(a, p, m, e, d)
    /\ PathMeets(a, p, e)
    /\ Before(a, p) => e.edited = {}

EditableOf(a) == {f[1] : f \in RegisterContext(a)} \ Used[a]

IsActivation(e) ==
    e = [closure |-> e.closure, base |-> e.base, sp |-> e.sp, at |-> e.at, regs |-> e.regs,
         ctx |-> e.ctx, entry |-> e.entry, to |-> e.to, edited |-> e.edited]

\* An activation has its share of the stack.
EntryOK(a, e, d) ==
    /\ IsActivation(e)
    /\ e.base \in Int /\ e.base <= -Frame
    /\ e.base >= Largest - Frame - d * Share
    /\ e.edited \in {{}, EditableOf(a)}

\* The handler of the d-th activation, e, is running.
Suspended(a, m, e, d) ==
    /\ e.at \in Calls(a)
    /\ e.sp = e.base + Off(a, e.at) /\ e.regs[SP] = Address(e.sp)
    /\ e.ctx = Address(e.base - Above(a)) /\ e.entry = Entry(e.closure)
    /\ e.edited = {}
    /\ PathMeets(a, e.at, e)
    /\ SlotsMeet(a, e.at, m, e, d)

\* The activations are one below the other.
Nested == \A d \in 1 .. Depth : \A c \in 1 .. d - 1 : acts[d].base <= acts[c].sp

IInv ==
    /\ arch \in Archs
    /\ DOMAIN regs = Registers(arch) /\ DOMAIN mem = Slots
    /\ Depth \in 0 .. MaxDepth /\ acts = [d \in 1 .. Depth |-> acts[d]]
    /\ pc \in {Gone} \cup 0 .. Len(Code[arch])
    /\ \A d \in 1 .. Depth : EntryOK(arch, acts[d], d)
    /\ Nested
    /\ \A d \in InHandler : Suspended(arch, mem, acts[d], d)
    /\ pc # InC => Depth > 0
    /\ pc = InC /\ Depth > 0 => regs[SP] = Address(act.sp)
    /\ pc > 0 => Meets(arch, pc, regs, mem, act, Depth)
    /\ pc = Gone => /\ act.to = Hop(act.closure)
                    /\ regs[SP] = Address(act.base)
                    /\ RegsMeet(arch, Exit(arch), regs, act, Depth)

---------------------------------------------------------------------------
(* The code of the bridges, instruction by instruction                     *)

IsSeq(s) == Len(s) \in Nat /\ s = [i \in 1 .. Len(s) |-> s[i]]

LEMMA IsSeqSeq ==
    ASSUME NEW s, IsSeq(s), NEW S, \A i \in 1 .. Len(s) : s[i] \in S
    PROVE  s \in Seq(S)
<1>1. PICK n \in Nat : n = Len(s)
    BY DEF IsSeq
<1>2. s \in [1 .. n -> S]
    BY <1>1 DEF IsSeq
<1> QED BY <1>2

LEMMA SeqIsSeq ==
    ASSUME NEW S, NEW s \in Seq(S)
    PROVE  IsSeq(s)
BY DEF IsSeq

LEMMA FunIsSeq ==
    ASSUME NEW n \in Nat, NEW s, s = [i \in 1 .. n |-> s[i]]
    PROVE  IsSeq(s) /\ Len(s) = n
<1> DEFINE S == {s[i] : i \in 1 .. n}
<1>1. s \in [1 .. n -> S]
    OBVIOUS
<1> HIDE DEF S
<1>2. s \in Seq(S) /\ Len(s) = n
    BY <1>1
<1> QED BY <1>2, SeqIsSeq

\* Code of n instructions; code put together of two pieces, the first of m.
Spans(c, n) == IsSeq(c) /\ Len(c) = n
Joins(c, m, s, t) ==
    \A i \in 1 .. Len(c) : c[i] = IF i <= m THEN s[i] ELSE t[i - m]

LEMMA Joined ==
    ASSUME NEW c, NEW s, NEW t, c = s \o t,
           NEW m \in Nat, NEW n \in Nat, Spans(s, m), Spans(t, n)
    PROVE  Spans(c, m + n) /\ Joins(c, m, s, t)
<1> DEFINE S == {s[i] : i \in 1 .. m} \cup {t[i] : i \in 1 .. n}
<1>1. (\A i \in 1 .. m : s[i] \in S) /\ (\A i \in 1 .. n : t[i] \in S)
    OBVIOUS
<1> HIDE DEF S
<1>2. s \in Seq(S) /\ t \in Seq(S)
    BY <1>1, IsSeqSeq DEF Spans
<1>3. /\ s \o t \in Seq(S)
      /\ Len(s \o t) = Len(s) + Len(t)
      /\ \A i \in 1 .. Len(s) + Len(t) : (s \o t)[i] = IF i <= Len(s) THEN s[i] ELSE t[i - Len(s)]
    BY <1>2, ConcatProperties
<1> QED BY <1>3, SeqIsSeq DEF Joins, Spans

LEMMA BankSpans ==
    ASSUME NEW name, NEW n \in Nat
    PROVE  Spans(Bank(name, n), n) /\ \A i \in 1 .. n : Bank(name, n)[i] = <<name, i - 1>>
<1>1. Bank(name, n) = [i \in 1 .. n |-> Bank(name, n)[i]]
    BY DEF Bank
<1>2. Spans(Bank(name, n), n)
    BY <1>1, FunIsSeq DEF Spans
<1> QED BY <1>2 DEF Bank

LEMMA StoreAllSpans ==
    ASSUME NEW rs, NEW n \in Nat, Spans(rs, n), NEW w
    PROVE  /\ Spans(StoreAll(rs, w), n)
           /\ \A i \in 1 .. n : StoreAll(rs, w)[i] = Store(rs[i], w * (i - 1))
<1>1. StoreAll(rs, w) = [i \in 1 .. n |-> Store(rs[i], w * (i - 1))]
    BY DEF StoreAll, Spans
<1>2. Spans(StoreAll(rs, w), n)
    BY <1>1, FunIsSeq DEF Spans
<1> QED BY <1>1, <1>2

LEMMA PopAllSpans ==
    ASSUME NEW rs, NEW n \in Nat, Spans(rs, n), NEW w
    PROVE  /\ Spans(PopAll(rs, w), n)
           /\ \A i \in 1 .. n : PopAll(rs, w)[i] = Pop(rs[i], w)
<1>1. PopAll(rs, w) = [i \in 1 .. n |-> Pop(rs[i], w)]
    BY DEF PopAll, Spans
<1>2. Spans(PopAll(rs, w), n)
    BY <1>1, FunIsSeq DEF Spans
<1> QED BY <1>1, <1>2

LEMMA SubSeqSpans ==
    ASSUME NEW s, NEW l \in Nat, Spans(s, l), NEW j \in 1 .. l, NEW k \in j .. l
    PROVE  /\ Spans(SubSeq(s, j, k), k - j + 1)
           /\ \A i \in 1 .. k - j + 1 : SubSeq(s, j, k)[i] = s[i + j - 1]
<1> DEFINE S == {s[i] : i \in 1 .. l}
<1>1. \A i \in j .. k : s[i] \in S
    OBVIOUS
<1> HIDE DEF S
<1>2. /\ SubSeq(s, j, k) \in Seq(S)
      /\ Len(SubSeq(s, j, k)) = IF j <= k THEN k - j + 1 ELSE 0
      /\ \A i \in 1 .. k - j + 1 : SubSeq(s, j, k)[i] = s[j + i - 1]
    BY <1>1, SubSeqProperties
<1>3. PICK t : t = SubSeq(s, j, k)
    OBVIOUS
<1>4. t \in Seq(S) /\ Len(t) = k - j + 1
    BY <1>2, <1>3
<1>5. \A i \in 1 .. k - j + 1 : t[i] = s[i + j - 1]
    BY <1>2, <1>3
<1>6. IsSeq(t)
    BY <1>4, SeqIsSeq
<1> QED BY <1>3, <1>4, <1>5, <1>6 DEF Spans

LEMMA TailSpans ==
    ASSUME NEW s, NEW n \in Nat \ {0}, Spans(s, n)
    PROVE  Spans(Tail(s), n - 1) /\ \A i \in 1 .. n - 1 : Tail(s)[i] = s[i + 1]
<1> DEFINE S == {s[i] : i \in 1 .. n}
<1>1. \A i \in 1 .. n : s[i] \in S
    OBVIOUS
<1> HIDE DEF S
<1>2. s \in Seq(S) /\ Len(s) = n
    BY <1>1, IsSeqSeq DEF Spans
<1>3. s # <<>>
    BY <1>2
<1>4. /\ Tail(s) \in Seq(S) /\ Len(Tail(s)) = n - 1
      /\ \A i \in 1 .. n - 1 : Tail(s)[i] = s[i + 1]
    BY <1>2, <1>3, HeadTailProperties
<1> QED BY <1>4, SeqIsSeq DEF Spans

LEMMA ArmPieces ==
    /\ \A i \in 1 .. 14 : R[i] = <<"r", i - 1>>
    /\ Spans(StoreAll(R, 1), 14) /\ Spans(PopAll(R, 1), 14)
    /\ \A i \in 1 .. 14 : StoreAll(R, 1)[i] = Store(<<"r", i - 1>>, i - 1)
    /\ \A i \in 1 .. 14 : PopAll(R, 1)[i] = Pop(<<"r", i - 1>>, 1)
<1>1. Spans(R, 14) /\ \A i \in 1 .. 14 : R[i] = <<"r", i - 1>>
    BY BankSpans DEF R
<1>2. Spans(StoreAll(R, 1), 14) /\ \A i \in 1 .. 14 : StoreAll(R, 1)[i] = Store(R[i], 1 * (i - 1))
    BY <1>1, StoreAllSpans
<1>3. Spans(PopAll(R, 1), 14) /\ \A i \in 1 .. 14 : PopAll(R, 1)[i] = Pop(R[i], 1)
    BY <1>1, PopAllSpans
<1>4. ASSUME NEW i \in 1 .. 14
      PROVE  StoreAll(R, 1)[i] = Store(<<"r", i - 1>>, i - 1) /\ PopAll(R, 1)[i] = Pop(<<"r", i - 1>>, 1)
    <2>1. R[i] = <<"r", i - 1>> /\ 1 * (i - 1) = i - 1
        BY <1>1
    <2> QED BY <1>2, <1>3, <2>1
<1> QED BY <1>1, <1>2, <1>3, <1>4

LEMMA ArmCode ==
    /\ Len(Code["arm"]) = 40
    /\ Code["arm"][1] = I("entry", <<"r", 12>>, 0) /\ Code["arm"][2] = Move(-14)
    /\ \A i \in 0 .. 13 : Code["arm"][3 + i] = Store(<<"r", i>>, i)
    /\ Code["arm"][17] = SpPlus(<<"r", 0>>, 14) /\ Code["arm"][18] = Move(-2)
    /\ Code["arm"][19] = Store(<<"r", 0>>, 1) /\ Code["arm"][20] = Move(-2)
    /\ Code["arm"][21] = SpPlus(<<"r", 0>>, 0) /\ Code["arm"][22] = I("mov", <<"r", 1>>, 13)
    /\ Code["arm"][23] = Call /\ Code["arm"][24] = Move(2) /\ Code["arm"][25] = Move(2)
    /\ \A i \in 0 .. 13 : Code["arm"][26 + i] = Pop(<<"r", i>>, 1)
    /\ Code["arm"][40] = I("br", <<"r", 12>>, 0)
<1> DEFINE s1 == <<Move(-14)>>
           s3 == <<SpPlus(R[1], 14), Move(-2), Store(R[1], 1), Move(-2),
                   SpPlus(R[1], 0), I("mov", R[2], 13), Call>>
           s6 == <<I("br", R[13], 0)>>
           c1 == s1 \o StoreAll(R, 1)
           c2 == c1 \o s3
           c3 == c2 \o ArmRelease
           c4 == c3 \o PopAll(R, 1)
           c5 == c4 \o s6
           c == ArmTrampoline \o c5
<1>1. Code["arm"] = c
    BY DEF Code, ArmBridge
<1>2. /\ c1 = s1 \o StoreAll(R, 1)
      /\ c2 = c1 \o s3
      /\ c3 = c2 \o ArmRelease
      /\ c4 = c3 \o PopAll(R, 1)
      /\ c5 = c4 \o s6
      /\ c = ArmTrampoline \o c5
    OBVIOUS
<1>3. /\ Spans(ArmTrampoline, 1)
      /\ Spans(s1, 1)
      /\ Spans(s3, 7)
      /\ Spans(ArmRelease, 2)
      /\ Spans(s6, 1)
    BY DEF ArmRelease, ArmTrampoline, IsSeq, Spans
<1>0. R[1] = <<"r", 0>> /\ R[2] = <<"r", 1>> /\ R[13] = <<"r", 12>>
    BY ArmPieces
<1>4. /\ ArmTrampoline[1] = I("entry", <<"r", 12>>, 0)
      /\ s1[1] = Move(-14)
      /\ s3[1] = SpPlus(<<"r", 0>>, 14) /\ s3[2] = Move(-2) /\ s3[3] = Store(<<"r", 0>>, 1) /\ s3[4] = Move(-2) /\ s3[5] = SpPlus(<<"r", 0>>, 0) /\ s3[6] = I("mov", <<"r", 1>>, 13) /\ s3[7] = Call
      /\ ArmRelease[1] = Move(2) /\ ArmRelease[2] = Move(2)
      /\ s6[1] = I("br", <<"r", 12>>, 0)
    BY <1>0 DEF ArmRelease, ArmTrampoline
<1> HIDE DEF s1, s3, s6, c1, c2, c3, c4, c5, c
<1>5. Spans(c1, 15) /\ Joins(c1, 1, s1, StoreAll(R, 1))
    <2>1. Spans(c1, 1 + 14) /\ Joins(c1, 1, s1, StoreAll(R, 1))
        BY <1>2, <1>3, ArmPieces, Joined
    <2> QED BY <2>1
<1>6. Spans(c2, 22) /\ Joins(c2, 15, c1, s3)
    <2>1. Spans(c2, 15 + 7) /\ Joins(c2, 15, c1, s3)
        BY <1>2, <1>3, <1>5, Joined
    <2> QED BY <2>1
<1>7. Spans(c3, 24) /\ Joins(c3, 22, c2, ArmRelease)
    <2>1. Spans(c3, 22 + 2) /\ Joins(c3, 22, c2, ArmRelease)
        BY <1>2, <1>3, <1>6, Joined
    <2> QED BY <2>1
<1>8. Spans(c4, 38) /\ Joins(c4, 24, c3, PopAll(R, 1))
    <2>1. Spans(c4, 24 + 14) /\ Joins(c4, 24, c3, PopAll(R, 1))
        BY <1>2, <1>3, <1>7, ArmPieces, Joined
    <2> QED BY <2>1
<1>9. Spans(c5, 39) /\ Joins(c5, 38, c4, s6)
    <2>1. Spans(c5, 38 + 1) /\ Joins(c5, 38, c4, s6)
        BY <1>2, <1>3, <1>8, Joined
    <2> QED BY <2>1
<1>10. Spans(c, 40) /\ Joins(c, 1, ArmTrampoline, c5)
    <2>1. Spans(c, 1 + 39) /\ Joins(c, 1, ArmTrampoline, c5)
        BY <1>2, <1>3, <1>9, Joined
    <2> QED BY <2>1
<1>11. \A i \in 1 .. 1 : c[i] = ArmTrampoline[i]
    BY <1>10 DEF Joins, Spans
<1>12. \A i \in 1 .. 1 : c[1 + i] = s1[i]
    BY <1>5, <1>6, <1>7, <1>8, <1>9, <1>10 DEF Joins, Spans
<1>13. \A i \in 1 .. 14 : c[2 + i] = StoreAll(R, 1)[i]
    BY <1>5, <1>6, <1>7, <1>8, <1>9, <1>10 DEF Joins, Spans
<1>14. \A i \in 1 .. 7 : c[16 + i] = s3[i]
    BY <1>6, <1>7, <1>8, <1>9, <1>10 DEF Joins, Spans
<1>15. \A i \in 1 .. 2 : c[23 + i] = ArmRelease[i]
    BY <1>7, <1>8, <1>9, <1>10 DEF Joins, Spans
<1>16. \A i \in 1 .. 14 : c[25 + i] = PopAll(R, 1)[i]
    BY <1>8, <1>9, <1>10 DEF Joins, Spans
<1>17. \A i \in 1 .. 1 : c[39 + i] = s6[i]
    BY <1>9, <1>10 DEF Joins, Spans
<1> QED BY <1>1, <1>4, <1>10, <1>11, <1>12, <1>13, <1>14, <1>15, <1>16, <1>17, ArmPieces DEF Spans

LEMMA X64Pieces ==
    /\ \A i \in 1 .. 16 : RX[i] = <<"rx", i - 1>>
    /\ Spans(StoreAll(RX, 1), 16)
    /\ \A i \in 1 .. 16 : StoreAll(RX, 1)[i] = Store(<<"rx", i - 1>>, i - 1)
    /\ Spans(PopAll(SubSeq(RX, 1, 5), 1), 5) /\ Spans(PopAll(SubSeq(RX, 7, 16), 1), 10)
    /\ \A i \in 1 .. 5 : PopAll(SubSeq(RX, 1, 5), 1)[i] = Pop(<<"rx", i - 1>>, 1)
    /\ \A i \in 1 .. 10 : PopAll(SubSeq(RX, 7, 16), 1)[i] = Pop(<<"rx", i + 5>>, 1)
<1>1. Spans(RX, 16) /\ \A i \in 1 .. 16 : RX[i] = <<"rx", i - 1>>
    BY BankSpans DEF RX
<1>2. Spans(SubSeq(RX, 1, 5), 5 - 1 + 1) /\ \A i \in 1 .. 5 - 1 + 1 : SubSeq(RX, 1, 5)[i] = RX[i + 1 - 1]
    BY <1>1, SubSeqSpans
<1>3. Spans(SubSeq(RX, 7, 16), 16 - 7 + 1) /\ \A i \in 1 .. 16 - 7 + 1 : SubSeq(RX, 7, 16)[i] = RX[i + 7 - 1]
    BY <1>1, SubSeqSpans
<1>4. PICK s, t : s = SubSeq(RX, 1, 5) /\ t = SubSeq(RX, 7, 16)
    OBVIOUS
<1>5. /\ Spans(s, 5) /\ \A i \in 1 .. 5 : s[i] = <<"rx", i - 1>>
      /\ Spans(t, 10) /\ \A i \in 1 .. 10 : t[i] = <<"rx", i + 5>>
    BY <1>1, <1>2, <1>3, <1>4
<1>6. Spans(PopAll(s, 1), 5) /\ \A i \in 1 .. 5 : PopAll(s, 1)[i] = Pop(s[i], 1)
    BY <1>5, PopAllSpans
<1>7. Spans(PopAll(t, 1), 10) /\ \A i \in 1 .. 10 : PopAll(t, 1)[i] = Pop(t[i], 1)
    BY <1>5, PopAllSpans
<1>8. Spans(StoreAll(RX, 1), 16) /\ \A i \in 1 .. 16 : StoreAll(RX, 1)[i] = Store(RX[i], 1 * (i - 1))
    BY <1>1, StoreAllSpans
<1>9. ASSUME NEW i \in 1 .. 16
      PROVE  StoreAll(RX, 1)[i] = Store(<<"rx", i - 1>>, i - 1)
    <2>1. RX[i] = <<"rx", i - 1>> /\ 1 * (i - 1) = i - 1
        BY <1>1
    <2> QED BY <1>8, <2>1
<1>10. /\ \A i \in 1 .. 5 : PopAll(s, 1)[i] = Pop(<<"rx", i - 1>>, 1)
       /\ \A i \in 1 .. 10 : PopAll(t, 1)[i] = Pop(<<"rx", i + 5>>, 1)
    BY <1>5, <1>6, <1>7
<1> QED BY <1>1, <1>4, <1>6, <1>7, <1>8, <1>9, <1>10

LEMMA X64Code ==
    /\ Len(Code["x64"]) = 52
    /\ Code["x64"][1] = I("pushentry", SP, 0) /\ Code["x64"][2] = Push(FLAGS)
    /\ Code["x64"][3] = Move(-1) /\ Code["x64"][4] = Move(-16)
    /\ \A i \in 0 .. 15 : Code["x64"][5 + i] = Store(<<"rx", i>>, i)
    /\ Code["x64"][21] = SpPlus(<<"rx", 0>>, 19)
    /\ Code["x64"][22] = Move(-2)
    /\ Code["x64"][23] = Store(<<"rx", 0>>, 1)
    /\ Code["x64"][24] = SpPlus(<<"rx", 6>>, 0)
    /\ Code["x64"][25] = Load(<<"rx", 7>>, 20)
    /\ Code["x64"][26] = I("misalignment", <<"rx", 0>>, 2)
    /\ Code["x64"][27] = I("jnz", <<"rx", 0>>, 3)
    /\ Code["x64"][28] = Call
    /\ Code["x64"][29] = I("jmp", SP, 4)
    /\ Code["x64"][30] = Push(<<"rx", 0>>)
    /\ Code["x64"][31] = Call
    /\ Code["x64"][32] = Pop(<<"rx", 0>>, 1)
    /\ Code["x64"][33] = Move(2) /\ Code["x64"][39] = Move(1) /\ Code["x64"][50] = Move(1)
    /\ \A i \in 0 .. 15 \ {5} : Code["x64"][34 + i] = Pop(<<"rx", i>>, 1)
    /\ Code["x64"][51] = Pop(FLAGS, 1) /\ Code["x64"][52] = I("popbr", SP, 0)
<1> DEFINE s1 == <<Push(FLAGS), Move(-1), Move(-16)>>
           s3 == <<SpPlus(RX[1], X64Saved), Move(-2), Store(RX[1], 1),
                   SpPlus(RX[7], 0), Load(RX[8], 2 + 16 + 2)>>
           s5 == <<Move(2)>>
           s7 == <<Move(1)>>
           s9 == <<Move(1), Pop(FLAGS, 1), I("popbr", SP, 0)>>
           c1 == s1 \o StoreAll(RX, 1)
           c2 == c1 \o s3
           c3 == c2 \o X64AlignedCall
           c4 == c3 \o s5
           c5 == c4 \o PopAll(SubSeq(RX, 1, 5), 1)
           c6 == c5 \o s7
           c7 == c6 \o PopAll(SubSeq(RX, 7, 16), 1)
           c8 == c7 \o s9
           c == X64Trampoline \o c8
<1>1. Code["x64"] = c
    BY DEF Code, X64Bridge
<1>2. /\ c1 = s1 \o StoreAll(RX, 1)
      /\ c2 = c1 \o s3
      /\ c3 = c2 \o X64AlignedCall
      /\ c4 = c3 \o s5
      /\ c5 = c4 \o PopAll(SubSeq(RX, 1, 5), 1)
      /\ c6 = c5 \o s7
      /\ c7 = c6 \o PopAll(SubSeq(RX, 7, 16), 1)
      /\ c8 = c7 \o s9
      /\ c = X64Trampoline \o c8
    OBVIOUS
<1>3. /\ Spans(X64Trampoline, 1)
      /\ Spans(s1, 3)
      /\ Spans(s3, 5)
      /\ Spans(X64AlignedCall, 7)
      /\ Spans(s5, 1)
      /\ Spans(s7, 1)
      /\ Spans(s9, 3)
    BY DEF X64Trampoline, X64AlignedCall, X64Saved, IsSeq, Spans
<1>0. RX[1] = <<"rx", 0>> /\ RX[7] = <<"rx", 6>> /\ RX[8] = <<"rx", 7>>
    BY X64Pieces
<1>4. /\ X64Trampoline[1] = I("pushentry", SP, 0)
      /\ s1[1] = Push(FLAGS) /\ s1[2] = Move(-1) /\ s1[3] = Move(-16)
      /\ s3[1] = SpPlus(<<"rx", 0>>, 19) /\ s3[2] = Move(-2) /\ s3[3] = Store(<<"rx", 0>>, 1) /\ s3[4] = SpPlus(<<"rx", 6>>, 0) /\ s3[5] = Load(<<"rx", 7>>, 20)
      /\ X64AlignedCall[1] = I("misalignment", <<"rx", 0>>, 2) /\ X64AlignedCall[2] = I("jnz", <<"rx", 0>>, 3) /\ X64AlignedCall[3] = Call /\ X64AlignedCall[4] = I("jmp", SP, 4) /\ X64AlignedCall[5] = Push(<<"rx", 0>>) /\ X64AlignedCall[6] = Call /\ X64AlignedCall[7] = Pop(<<"rx", 0>>, 1)
      /\ s5[1] = Move(2)
      /\ s7[1] = Move(1)
      /\ s9[1] = Move(1) /\ s9[2] = Pop(FLAGS, 1) /\ s9[3] = I("popbr", SP, 0)
    BY <1>0 DEF X64Trampoline, X64AlignedCall, X64Saved
<1> HIDE DEF s1, s3, s5, s7, s9, c1, c2, c3, c4, c5, c6, c7, c8, c
<1>5. Spans(c1, 19) /\ Joins(c1, 3, s1, StoreAll(RX, 1))
    <2>1. Spans(c1, 3 + 16) /\ Joins(c1, 3, s1, StoreAll(RX, 1))
        BY <1>2, <1>3, X64Pieces, Joined
    <2> QED BY <2>1
<1>6. Spans(c2, 24) /\ Joins(c2, 19, c1, s3)
    <2>1. Spans(c2, 19 + 5) /\ Joins(c2, 19, c1, s3)
        BY <1>2, <1>3, <1>5, Joined
    <2> QED BY <2>1
<1>7. Spans(c3, 31) /\ Joins(c3, 24, c2, X64AlignedCall)
    <2>1. Spans(c3, 24 + 7) /\ Joins(c3, 24, c2, X64AlignedCall)
        BY <1>2, <1>3, <1>6, Joined
    <2> QED BY <2>1
<1>8. Spans(c4, 32) /\ Joins(c4, 31, c3, s5)
    <2>1. Spans(c4, 31 + 1) /\ Joins(c4, 31, c3, s5)
        BY <1>2, <1>3, <1>7, Joined
    <2> QED BY <2>1
<1>9. Spans(c5, 37) /\ Joins(c5, 32, c4, PopAll(SubSeq(RX, 1, 5), 1))
    <2>1. Spans(c5, 32 + 5) /\ Joins(c5, 32, c4, PopAll(SubSeq(RX, 1, 5), 1))
        BY <1>2, <1>3, <1>8, X64Pieces, Joined, ZenonT(60)
    <2> QED BY <2>1
<1>10. Spans(c6, 38) /\ Joins(c6, 37, c5, s7)
    <2>1. Spans(c6, 37 + 1) /\ Joins(c6, 37, c5, s7)
        BY <1>2, <1>3, <1>9, Joined
    <2> QED BY <2>1
<1>11. Spans(c7, 48) /\ Joins(c7, 38, c6, PopAll(SubSeq(RX, 7, 16), 1))
    <2>1. Spans(c7, 38 + 10) /\ Joins(c7, 38, c6, PopAll(SubSeq(RX, 7, 16), 1))
        BY <1>2, <1>3, <1>10, X64Pieces, Joined
    <2> QED BY <2>1
<1>12. Spans(c8, 51) /\ Joins(c8, 48, c7, s9)
    <2>1. Spans(c8, 48 + 3) /\ Joins(c8, 48, c7, s9)
        BY <1>2, <1>3, <1>11, Joined
    <2> QED BY <2>1
<1>13. Spans(c, 52) /\ Joins(c, 1, X64Trampoline, c8)
    <2>1. Spans(c, 1 + 51) /\ Joins(c, 1, X64Trampoline, c8)
        BY <1>2, <1>3, <1>12, Joined
    <2> QED BY <2>1
<1>14. \A i \in 1 .. 1 : c[i] = X64Trampoline[i]
    BY <1>13 DEF Joins, Spans
<1>15. \A i \in 1 .. 3 : c[1 + i] = s1[i]
    BY <1>5, <1>6, <1>7, <1>8, <1>9, <1>10, <1>11, <1>12, <1>13 DEF Joins, Spans
<1>16. \A i \in 1 .. 16 : c[4 + i] = StoreAll(RX, 1)[i]
    BY <1>5, <1>6, <1>7, <1>8, <1>9, <1>10, <1>11, <1>12, <1>13 DEF Joins, Spans
<1>17. \A i \in 1 .. 5 : c[20 + i] = s3[i]
    BY <1>6, <1>7, <1>8, <1>9, <1>10, <1>11, <1>12, <1>13 DEF Joins, Spans
<1>18. \A i \in 1 .. 7 : c[25 + i] = X64AlignedCall[i]
    BY <1>7, <1>8, <1>9, <1>10, <1>11, <1>12, <1>13 DEF Joins, Spans
<1>19. \A i \in 1 .. 1 : c[32 + i] = s5[i]
    BY <1>8, <1>9, <1>10, <1>11, <1>12, <1>13 DEF Joins, Spans
<1>20. \A i \in 1 .. 5 : c[33 + i] = PopAll(SubSeq(RX, 1, 5), 1)[i]
    BY <1>9, <1>10, <1>11, <1>12, <1>13 DEF Joins, Spans
<1>21. \A i \in 1 .. 1 : c[38 + i] = s7[i]
    BY <1>10, <1>11, <1>12, <1>13 DEF Joins, Spans
<1>22. \A i \in 1 .. 10 : c[39 + i] = PopAll(SubSeq(RX, 7, 16), 1)[i]
    BY <1>11, <1>12, <1>13 DEF Joins, Spans
<1>23. \A i \in 1 .. 3 : c[49 + i] = s9[i]
    BY <1>12, <1>13 DEF Joins, Spans
<1>24. c[1] = I("pushentry", SP, 0) /\ c[2] = Push(FLAGS) /\ c[3] = Move(-1) /\ c[4] = Move(-16)
    BY <1>4, <1>14, <1>15
<1>25. ASSUME NEW i \in 0 .. 15 PROVE c[5 + i] = Store(<<"rx", i>>, i)
    <2>1. i + 1 \in 1 .. 16 /\ 4 + (i + 1) = 5 + i /\ (i + 1) - 1 = i
        OBVIOUS
    <2> QED BY <1>16, <2>1, X64Pieces
<1>26. /\ c[21] = s3[1] /\ c[22] = s3[2] /\ c[23] = s3[3] /\ c[24] = s3[4] /\ c[25] = s3[5]
       /\ c[26] = X64AlignedCall[1] /\ c[27] = X64AlignedCall[2] /\ c[28] = X64AlignedCall[3]
       /\ c[29] = X64AlignedCall[4] /\ c[30] = X64AlignedCall[5] /\ c[31] = X64AlignedCall[6]
       /\ c[32] = X64AlignedCall[7]
    BY <1>17, <1>18
<1>27. c[33] = Move(2) /\ c[39] = Move(1) /\ c[50] = Move(1) /\ c[51] = Pop(FLAGS, 1) /\ c[52] = I("popbr", SP, 0)
    BY <1>4, <1>19, <1>21, <1>23
<1>28. ASSUME NEW i \in 0 .. 15 \ {5} PROVE c[34 + i] = Pop(<<"rx", i>>, 1)
    <2>1. CASE i <= 4
        <3>1. i + 1 \in 1 .. 5 /\ 33 + (i + 1) = 34 + i /\ (i + 1) - 1 = i
            BY <2>1
        <3> QED BY <1>20, <3>1, X64Pieces
    <2>2. CASE i >= 6
        <3>1. i - 5 \in 1 .. 10 /\ 39 + (i - 5) = 34 + i /\ (i - 5) + 5 = i
            BY <2>2
        <3> QED BY <1>22, <3>1, X64Pieces
    <2> QED BY <2>1, <2>2
<1> QED BY <1>1, <1>4, <1>13, <1>24, <1>25, <1>26, <1>27, <1>28 DEF Spans

LEMMA X86Pieces ==
    /\ \A i \in 1 .. 8 : EX[i] = <<"ex", i - 1>>
    /\ Spans(StoreAll(EX, 1), 8)
    /\ \A i \in 1 .. 8 : StoreAll(EX, 1)[i] = Store(<<"ex", i - 1>>, i - 1)
    /\ Spans(PopAll(SubSeq(EX, 1, 5), 1), 5) /\ Spans(PopAll(SubSeq(EX, 7, 8), 1), 2)
    /\ \A i \in 1 .. 5 : PopAll(SubSeq(EX, 1, 5), 1)[i] = Pop(<<"ex", i - 1>>, 1)
    /\ \A i \in 1 .. 2 : PopAll(SubSeq(EX, 7, 8), 1)[i] = Pop(<<"ex", i + 5>>, 1)
<1>1. Spans(EX, 8) /\ \A i \in 1 .. 8 : EX[i] = <<"ex", i - 1>>
    BY BankSpans DEF EX
<1>2. Spans(SubSeq(EX, 1, 5), 5 - 1 + 1) /\ \A i \in 1 .. 5 - 1 + 1 : SubSeq(EX, 1, 5)[i] = EX[i + 1 - 1]
    BY <1>1, SubSeqSpans
<1>3. Spans(SubSeq(EX, 7, 8), 8 - 7 + 1) /\ \A i \in 1 .. 8 - 7 + 1 : SubSeq(EX, 7, 8)[i] = EX[i + 7 - 1]
    BY <1>1, SubSeqSpans
<1>4. PICK s, t : s = SubSeq(EX, 1, 5) /\ t = SubSeq(EX, 7, 8)
    OBVIOUS
<1>5. /\ Spans(s, 5) /\ \A i \in 1 .. 5 : s[i] = <<"ex", i - 1>>
      /\ Spans(t, 2) /\ \A i \in 1 .. 2 : t[i] = <<"ex", i + 5>>
    BY <1>1, <1>2, <1>3, <1>4
<1>6. Spans(PopAll(s, 1), 5) /\ \A i \in 1 .. 5 : PopAll(s, 1)[i] = Pop(s[i], 1)
    BY <1>5, PopAllSpans
<1>7. Spans(PopAll(t, 1), 2) /\ \A i \in 1 .. 2 : PopAll(t, 1)[i] = Pop(t[i], 1)
    BY <1>5, PopAllSpans
<1>8. Spans(StoreAll(EX, 1), 8) /\ \A i \in 1 .. 8 : StoreAll(EX, 1)[i] = Store(EX[i], 1 * (i - 1))
    BY <1>1, StoreAllSpans
<1>9. ASSUME NEW i \in 1 .. 8
      PROVE  StoreAll(EX, 1)[i] = Store(<<"ex", i - 1>>, i - 1)
    <2>1. EX[i] = <<"ex", i - 1>> /\ 1 * (i - 1) = i - 1
        BY <1>1
    <2> QED BY <1>8, <2>1
<1>10. /\ \A i \in 1 .. 5 : PopAll(s, 1)[i] = Pop(<<"ex", i - 1>>, 1)
       /\ \A i \in 1 .. 2 : PopAll(t, 1)[i] = Pop(<<"ex", i + 5>>, 1)
    BY <1>5, <1>6, <1>7
<1> QED BY <1>1, <1>4, <1>6, <1>7, <1>8, <1>9, <1>10

LEMMA X86Code ==
    /\ Len(Code["x86"]) = 37
    /\ Code["x86"][1] = Move(-1) /\ Code["x86"][2] = I("storeentry", SP, 0) /\ Code["x86"][3] = Move(-8)
    /\ \A i \in 0 .. 7 : Code["x86"][4 + i] = Store(<<"ex", i>>, i)
    /\ Code["x86"][12] = Push(FLAGS)
    /\ Code["x86"][13] = Pop(<<"ex", 0>>, 1)
    /\ Code["x86"][14] = Move(-2)
    /\ Code["x86"][15] = Store(<<"ex", 0>>, 1)
    /\ Code["x86"][16] = SpPlus(<<"ex", 0>>, 11)
    /\ Code["x86"][17] = Move(-2)
    /\ Code["x86"][18] = Store(<<"ex", 0>>, 1)
    /\ Code["x86"][19] = Move(-2)
    /\ Code["x86"][20] = Load(<<"ex", 0>>, 14)
    /\ Code["x86"][21] = Store(<<"ex", 0>>, 1)
    /\ Code["x86"][22] = SpPlus(<<"ex", 0>>, 2)
    /\ Code["x86"][23] = Store(<<"ex", 0>>, 0)
    /\ Code["x86"][24] = Call
    /\ Code["x86"][25] = Move(2)
    /\ Code["x86"][26] = Move(2)
    /\ Code["x86"][27] = Move(1)
    /\ Code["x86"][28] = Pop(FLAGS, 1)
    /\ \A i \in 0 .. 7 \ {5} : Code["x86"][29 + i] = Pop(<<"ex", i>>, 1)
    /\ Code["x86"][34] = Move(1) /\ Code["x86"][37] = I("popbr", SP, 0)
<1> DEFINE s1 == <<Move(-8)>>
           s3 == <<Push(FLAGS), Pop(EX[1], 1), Move(-2), Store(EX[1], 1),
                   SpPlus(EX[1], 8 + 2 + 1), Move(-2), Store(EX[1], 1),
                   Move(-2), Load(EX[1], 8 + 2 + 2 + 2), Store(EX[1], 1),
                   SpPlus(EX[1], 2), Store(EX[1], 0), Call,
                   Move(2), Move(2), Move(1), Pop(FLAGS, 1)>>
           s5 == <<Move(1)>>
           s7 == <<I("popbr", SP, 0)>>
           c1 == s1 \o StoreAll(EX, 1)
           c2 == c1 \o s3
           c3 == c2 \o PopAll(SubSeq(EX, 1, 5), 1)
           c4 == c3 \o s5
           c5 == c4 \o PopAll(SubSeq(EX, 7, 8), 1)
           c6 == c5 \o s7
           c == X86Trampoline \o c6
<1>1. Code["x86"] = c
    BY DEF Code, X86Bridge
<1>2. /\ c1 = s1 \o StoreAll(EX, 1)
      /\ c2 = c1 \o s3
      /\ c3 = c2 \o PopAll(SubSeq(EX, 1, 5), 1)
      /\ c4 = c3 \o s5
      /\ c5 = c4 \o PopAll(SubSeq(EX, 7, 8), 1)
      /\ c6 = c5 \o s7
      /\ c = X86Trampoline \o c6
    OBVIOUS
<1>3. /\ Spans(X86Trampoline, 2)
      /\ Spans(s1, 1)
      /\ Spans(s3, 17)
      /\ Spans(s5, 1)
      /\ Spans(s7, 1)
    BY DEF X86Trampoline, IsSeq, Spans
<1>0. EX[1] = <<"ex", 0>>
    BY X86Pieces
<1>4. /\ X86Trampoline[1] = Move(-1) /\ X86Trampoline[2] = I("storeentry", SP, 0)
      /\ s1[1] = Move(-8)
      /\ s3[1] = Push(FLAGS) /\ s3[2] = Pop(<<"ex", 0>>, 1) /\ s3[3] = Move(-2) /\ s3[4] = Store(<<"ex", 0>>, 1) /\ s3[5] = SpPlus(<<"ex", 0>>, 11) /\ s3[6] = Move(-2) /\ s3[7] = Store(<<"ex", 0>>, 1) /\ s3[8] = Move(-2) /\ s3[9] = Load(<<"ex", 0>>, 14) /\ s3[10] = Store(<<"ex", 0>>, 1) /\ s3[11] = SpPlus(<<"ex", 0>>, 2) /\ s3[12] = Store(<<"ex", 0>>, 0) /\ s3[13] = Call /\ s3[14] = Move(2) /\ s3[15] = Move(2) /\ s3[16] = Move(1) /\ s3[17] = Pop(FLAGS, 1)
      /\ s5[1] = Move(1)
      /\ s7[1] = I("popbr", SP, 0)
    BY <1>0 DEF X86Trampoline
<1> HIDE DEF s1, s3, s5, s7, c1, c2, c3, c4, c5, c6, c
<1>5. Spans(c1, 9) /\ Joins(c1, 1, s1, StoreAll(EX, 1))
    <2>1. Spans(c1, 1 + 8) /\ Joins(c1, 1, s1, StoreAll(EX, 1))
        BY <1>2, <1>3, X86Pieces, Joined
    <2> QED BY <2>1
<1>6. Spans(c2, 26) /\ Joins(c2, 9, c1, s3)
    <2>1. Spans(c2, 9 + 17) /\ Joins(c2, 9, c1, s3)
        BY <1>2, <1>3, <1>5, Joined
    <2> QED BY <2>1
<1>7. Spans(c3, 31) /\ Joins(c3, 26, c2, PopAll(SubSeq(EX, 1, 5), 1))
    <2>1. Spans(c3, 26 + 5) /\ Joins(c3, 26, c2, PopAll(SubSeq(EX, 1, 5), 1))
        BY <1>2, <1>3, <1>6, X86Pieces, Joined
    <2> QED BY <2>1
<1>8. Spans(c4, 32) /\ Joins(c4, 31, c3, s5)
    <2>1. Spans(c4, 31 + 1) /\ Joins(c4, 31, c3, s5)
        BY <1>2, <1>3, <1>7, Joined
    <2> QED BY <2>1
<1>9. Spans(c5, 34) /\ Joins(c5, 32, c4, PopAll(SubSeq(EX, 7, 8), 1))
    <2>1. Spans(c5, 32 + 2) /\ Joins(c5, 32, c4, PopAll(SubSeq(EX, 7, 8), 1))
        BY <1>2, <1>3, <1>8, X86Pieces, Joined, ZenonT(60)
    <2> QED BY <2>1
<1>10. Spans(c6, 35) /\ Joins(c6, 34, c5, s7)
    <2>1. Spans(c6, 34 + 1) /\ Joins(c6, 34, c5, s7)
        BY <1>2, <1>3, <1>9, Joined
    <2> QED BY <2>1
<1>11. Spans(c, 37) /\ Joins(c, 2, X86Trampoline, c6)
    <2>1. Spans(c, 2 + 35) /\ Joins(c, 2, X86Trampoline, c6)
        BY <1>2, <1>3, <1>10, Joined
    <2> QED BY <2>1
<1>12. \A i \in 1 .. 2 : c[i] = X86Trampoline[i]
    BY <1>11 DEF Joins, Spans
<1>13. \A i \in 1 .. 1 : c[2 + i] = s1[i]
    BY <1>5, <1>6, <1>7, <1>8, <1>9, <1>10, <1>11 DEF Joins, Spans
<1>14. \A i \in 1 .. 8 : c[3 + i] = StoreAll(EX, 1)[i]
    BY <1>5, <1>6, <1>7, <1>8, <1>9, <1>10, <1>11 DEF Joins, Spans
<1>15. \A i \in 1 .. 17 : c[11 + i] = s3[i]
    BY <1>6, <1>7, <1>8, <1>9, <1>10, <1>11 DEF Joins, Spans
<1>16. \A i \in 1 .. 5 : c[28 + i] = PopAll(SubSeq(EX, 1, 5), 1)[i]
    BY <1>7, <1>8, <1>9, <1>10, <1>11 DEF Joins, Spans
<1>17. \A i \in 1 .. 1 : c[33 + i] = s5[i]
    BY <1>8, <1>9, <1>10, <1>11 DEF Joins, Spans
<1>18. \A i \in 1 .. 2 : c[34 + i] = PopAll(SubSeq(EX, 7, 8), 1)[i]
    BY <1>9, <1>10, <1>11 DEF Joins, Spans
<1>19. \A i \in 1 .. 1 : c[36 + i] = s7[i]
    BY <1>10, <1>11 DEF Joins, Spans
<1> QED BY <1>1, <1>4, <1>11, <1>12, <1>13, <1>14, <1>15, <1>16, <1>17, <1>18, <1>19, X86Pieces, SMTT(30) DEF Spans

LEMMA TailOfX ==
    Spans(Tail(X), 30) /\ \A i \in 1 .. 30 : Tail(X)[i] = <<"x", i>>
<1>1. Spans(X, 31) /\ \A i \in 1 .. 31 : X[i] = <<"x", i - 1>>
    BY BankSpans DEF X
<1>2. 31 \in Nat \ {0} /\ 31 - 1 = 30
    OBVIOUS
<1>3. Spans(Tail(X), 31 - 1) /\ \A i \in 1 .. 31 - 1 : Tail(X)[i] = X[i + 1]
    BY <1>1, <1>2, TailSpans, Zenon
<1>4. PICK t : t = Tail(X)
    OBVIOUS
<1>5. Spans(t, 30) /\ \A i \in 1 .. 30 : t[i] = X[i + 1]
    BY <1>2, <1>3, <1>4
<1>6. \A i \in 1 .. 30 : t[i] = <<"x", i>>
    BY <1>1, <1>5, SMTT(30)
<1> QED BY <1>4, <1>5, <1>6

LEMMA Arm64TrampolineCode ==
    /\ Spans(Arm64Trampoline, 9)
    /\ Arm64Trampoline[1] = Move(-2)
    /\ Arm64Trampoline[2] = Store(<<"x", 30>>, 1)
    /\ Arm64Trampoline[3] = I("entry", <<"x", 17>>, 0)
    /\ Arm64Trampoline[4] = Store(<<"x", 17>>, 0)
    /\ Arm64Trampoline[5] = I("bridge", <<"x", 17>>, 0)
    /\ Arm64Trampoline[6] = I("blr", <<"x", 17>>, 10)
    /\ Arm64Trampoline[7] = Load(<<"x", 30>>, 1)
    /\ Arm64Trampoline[8] = Move(2)
    /\ Arm64Trampoline[9] = I("br", <<"x", 17>>, 0)
<1>1. X[31] = <<"x", 30>> /\ X[18] = <<"x", 17>>
    BY BankSpans DEF X
<1> DEFINE s1 == <<Move(-2), Store(X[31], 1), I("entry", X[18], 0), Store(X[18], 0),
                   I("bridge", X[18], 0), I("blr", X[18], 10)>>
           s3 == <<I("br", X[18], 0)>>
           c1 == s1 \o Arm64Epilogue
           c == c1 \o s3
<1>2. Arm64Trampoline = c
    BY DEF Arm64Trampoline
<1>3. c1 = s1 \o Arm64Epilogue /\ c = c1 \o s3
    OBVIOUS
<1>4. Spans(s1, 6) /\ Spans(Arm64Epilogue, 2) /\ Spans(s3, 1)
    BY DEF Arm64Epilogue, IsSeq, Spans
<1>5. /\ s1[1] = Move(-2) /\ s1[2] = Store(<<"x", 30>>, 1) /\ s1[3] = I("entry", <<"x", 17>>, 0) /\ s1[4] = Store(<<"x", 17>>, 0) /\ s1[5] = I("bridge", <<"x", 17>>, 0) /\ s1[6] = I("blr", <<"x", 17>>, 10)
      /\ Arm64Epilogue[1] = Load(<<"x", 30>>, 1) /\ Arm64Epilogue[2] = Move(2)
      /\ s3[1] = I("br", <<"x", 17>>, 0)
    BY <1>1 DEF Arm64Epilogue
<1> HIDE DEF s1, s3, c1, c
<1>6. Spans(c1, 8) /\ Joins(c1, 6, s1, Arm64Epilogue)
    <2>1. Spans(c1, 6 + 2) /\ Joins(c1, 6, s1, Arm64Epilogue)
        BY <1>3, <1>4, Joined
    <2> QED BY <2>1
<1>7. Spans(c, 9) /\ Joins(c, 8, c1, s3)
    <2>1. Spans(c, 8 + 1) /\ Joins(c, 8, c1, s3)
        BY <1>3, <1>4, <1>6, Joined
    <2> QED BY <2>1
<1> QED BY <1>2, <1>5, <1>6, <1>7 DEF Joins, Spans

\* The pieces of the bridge of arm64.
Bridge64(b, floating, n) ==
    /\ Spans(b, 74 + 2 * n)
    /\ b[1] = Move(-2 * n)
    /\ \A i \in 1 .. n : b[1 + i] = StoreAll(floating, 2)[i]
    /\ b[2 + n] = Move(-30)
    /\ \A i \in 1 .. 30 : b[2 + n + i] = StoreAll(Tail(X), 1)[i]
    /\ b[33 + n] = Move(-2)
    /\ b[34 + n] = Store(<<"x", 0>>, 1)
    /\ b[35 + n] = SpPlus(<<"x", 17>>, 34 + 2 * n)
    /\ b[36 + n] = Move(-2)
    /\ b[37 + n] = Store(<<"x", 17>>, 1)
    /\ b[38 + n] = SpPlus(<<"x", 0>>, 0)
    /\ b[39 + n] = Load(<<"x", 1>>, 34 + 2 * n)
    /\ b[40 + n] = Call
    /\ b[41 + n] = Move(2)
    /\ b[42 + n] = Load(<<"x", 0>>, 1)
    /\ b[43 + n] = Move(2)
    /\ \A i \in 1 .. 30 : b[43 + n + i] = PopAll(Tail(X), 1)[i]
    /\ \A i \in 1 .. n : b[73 + n + i] = PopAll(floating, 2)[i]
    /\ b[74 + 2 * n] = I("ret", <<"x", 30>>, 0)

LEMMA Arm64BridgeCode ==
    ASSUME NEW n \in Nat, NEW floating, Spans(floating, n)
    PROVE  Bridge64(Arm64Bridge(floating), floating, n)
<1>1. /\ Spans(StoreAll(floating, 2), n) /\ Spans(PopAll(floating, 2), n)
      /\ Spans(StoreAll(Tail(X), 1), 30) /\ Spans(PopAll(Tail(X), 1), 30)
    BY TailOfX, StoreAllSpans, PopAllSpans
<1>2. Len(floating) = n /\ Arm64Saved(floating) = 32 + 2 * n
    BY DEF Spans, Arm64Saved
<1>3. X[1] = <<"x", 0>> /\ X[2] = <<"x", 1>> /\ X[18] = <<"x", 17>> /\ X[31] = <<"x", 30>>
    BY BankSpans DEF X
<1> DEFINE s1 == <<Move(-2 * Len(floating))>>
           s3 == <<Move(-30)>>
           s5 == <<Move(-2), Store(X[1], 1), SpPlus(X[18], 2 + Arm64Saved(floating)),
                   Move(-2), Store(X[18], 1), SpPlus(X[1], 0),
                   Load(X[2], 2 + Arm64Saved(floating)), Call, Move(2), Load(X[1], 1), Move(2)>>
           s8 == <<I("ret", X[31], 0)>>
           c1 == s1 \o StoreAll(floating, 2)
           c2 == c1 \o s3
           c3 == c2 \o StoreAll(Tail(X), 1)
           c4 == c3 \o s5
           c5 == c4 \o PopAll(Tail(X), 1)
           c6 == c5 \o PopAll(floating, 2)
           c7 == c6 \o s8
<1>4. Arm64Bridge(floating) = c7
    BY DEF Arm64Bridge
<1>5. /\ c1 = s1 \o StoreAll(floating, 2)
      /\ c2 = c1 \o s3
      /\ c3 = c2 \o StoreAll(Tail(X), 1)
      /\ c4 = c3 \o s5
      /\ c5 = c4 \o PopAll(Tail(X), 1)
      /\ c6 = c5 \o PopAll(floating, 2)
      /\ c7 = c6 \o s8
    OBVIOUS
<1>6. Spans(s1, 1) /\ Spans(s3, 1) /\ Spans(s5, 11) /\ Spans(s8, 1)
    BY DEF IsSeq, Spans
<1>7. /\ s1[1] = Move(-2 * n)
      /\ s3[1] = Move(-30)
      /\ s5[1] = Move(-2) /\ s5[2] = Store(<<"x", 0>>, 1) /\ s5[3] = SpPlus(<<"x", 17>>, 34 + 2 * n) /\ s5[4] = Move(-2) /\ s5[5] = Store(<<"x", 17>>, 1) /\ s5[6] = SpPlus(<<"x", 0>>, 0) /\ s5[7] = Load(<<"x", 1>>, 34 + 2 * n) /\ s5[8] = Call /\ s5[9] = Move(2) /\ s5[10] = Load(<<"x", 0>>, 1) /\ s5[11] = Move(2)
      /\ s8[1] = I("ret", <<"x", 30>>, 0)
    BY <1>2, <1>3
<1> HIDE DEF s1, s3, s5, s8, c1, c2, c3, c4, c5, c6, c7
<1>8. Spans(c1, 1 + n) /\ Joins(c1, 1, s1, StoreAll(floating, 2))
    <2>1. 1 \in Nat /\ n \in Nat /\ 1 + n = 1 + n
        OBVIOUS
    <2>2. Spans(c1, 1 + n) /\ Joins(c1, 1, s1, StoreAll(floating, 2))
        BY <1>1, <1>5, <1>6, <2>1, Joined, Zenon
    <2> QED BY <2>1, <2>2
<1>9. Spans(c2, 2 + n) /\ Joins(c2, 1 + n, c1, s3)
    <2>1. 1 + n \in Nat /\ 1 \in Nat /\ (1 + n) + 1 = 2 + n
        OBVIOUS
    <2>2. Spans(c2, (1 + n) + 1) /\ Joins(c2, 1 + n, c1, s3)
        BY <1>1, <1>5, <1>6, <1>8, <2>1, Joined, Zenon
    <2> QED BY <2>1, <2>2
<1>10. Spans(c3, 32 + n) /\ Joins(c3, 2 + n, c2, StoreAll(Tail(X), 1))
    <2>1. 2 + n \in Nat /\ 30 \in Nat /\ (2 + n) + 30 = 32 + n
        OBVIOUS
    <2>2. Spans(c3, (2 + n) + 30) /\ Joins(c3, 2 + n, c2, StoreAll(Tail(X), 1))
        BY <1>1, <1>5, <1>6, <1>9, <2>1, Joined, ZenonT(60)
    <2> QED BY <2>1, <2>2
<1>11. Spans(c4, 43 + n) /\ Joins(c4, 32 + n, c3, s5)
    <2>1. 32 + n \in Nat /\ 11 \in Nat /\ (32 + n) + 11 = 43 + n
        OBVIOUS
    <2>2. Spans(c4, (32 + n) + 11) /\ Joins(c4, 32 + n, c3, s5)
        BY <1>1, <1>5, <1>6, <1>10, <2>1, Joined, ZenonT(60)
    <2> QED BY <2>1, <2>2
<1>12. Spans(c5, 73 + n) /\ Joins(c5, 43 + n, c4, PopAll(Tail(X), 1))
    <2>1. 43 + n \in Nat /\ 30 \in Nat /\ (43 + n) + 30 = 73 + n
        OBVIOUS
    <2>2. Spans(c5, (43 + n) + 30) /\ Joins(c5, 43 + n, c4, PopAll(Tail(X), 1))
        BY <1>1, <1>5, <1>6, <1>11, <2>1, Joined, ZenonT(60)
    <2> QED BY <2>1, <2>2
<1>13. Spans(c6, 73 + 2 * n) /\ Joins(c6, 73 + n, c5, PopAll(floating, 2))
    <2>1. PICK m \in Nat : m = 73 + n
        OBVIOUS
    <2>2. Spans(c5, m)
        BY <1>12, <2>1
    <2>3. c6 = c5 \o PopAll(floating, 2) /\ Spans(PopAll(floating, 2), n)
        BY <1>1, <1>5, <1>6
    <2>4. Spans(c6, m + n) /\ Joins(c6, m, c5, PopAll(floating, 2))
        BY <2>2, <2>3, Joined
    <2> QED BY <2>1, <2>4
<1>14. Spans(c7, 74 + 2 * n) /\ Joins(c7, 73 + 2 * n, c6, s8)
    <2>1. PICK m \in Nat : m = 73 + 2 * n
        OBVIOUS
    <2>2. Spans(c6, m)
        BY <1>13, <2>1
    <2>3. c7 = c6 \o s8 /\ Spans(s8, 1)
        BY <1>1, <1>5, <1>6
    <2>4. Spans(c7, m + 1) /\ Joins(c7, m, c6, s8)
        BY <2>2, <2>3, Joined
    <2> QED BY <2>1, <2>4
<1>15. \A i \in 1 .. 73 + 2 * n : c7[i] = c6[i]
    BY <1>14 DEF Joins, Spans
<1>16. \A i \in 1 .. 73 + n : c7[i] = c5[i]
    BY <1>15, <1>13, <1>14 DEF Joins, Spans
<1>17. \A i \in 1 .. 43 + n : c7[i] = c4[i]
    BY <1>16, <1>12, <1>14 DEF Joins, Spans
<1>18. \A i \in 1 .. 32 + n : c7[i] = c3[i]
    BY <1>17, <1>11, <1>14 DEF Joins, Spans
<1>19. \A i \in 1 .. 2 + n : c7[i] = c2[i]
    BY <1>18, <1>10, <1>14 DEF Joins, Spans
<1>20. \A i \in 1 .. 1 + n : c7[i] = c1[i]
    BY <1>19, <1>9, <1>14 DEF Joins, Spans
<1>21. \A i \in 1 .. 1 : c7[0 + i] = s1[i]
    BY <1>8, <1>20 DEF Joins, Spans
<1>22. \A i \in 1 .. n : c7[1 + i] = StoreAll(floating, 2)[i]
    BY <1>8, <1>20 DEF Joins, Spans
<1>23. \A i \in 1 .. 1 : c7[1 + n + i] = s3[i]
    BY <1>9, <1>19 DEF Joins, Spans
<1>24. \A i \in 1 .. 30 : c7[2 + n + i] = StoreAll(Tail(X), 1)[i]
    BY <1>10, <1>18 DEF Joins, Spans
<1>25. \A i \in 1 .. 11 : c7[32 + n + i] = s5[i]
    BY <1>11, <1>17 DEF Joins, Spans
<1>26. \A i \in 1 .. 30 : c7[43 + n + i] = PopAll(Tail(X), 1)[i]
    BY <1>12, <1>16 DEF Joins, Spans
<1>27. \A i \in 1 .. n : c7[73 + n + i] = PopAll(floating, 2)[i]
    BY <1>13, <1>15 DEF Joins, Spans
<1>28. \A i \in 1 .. 1 : c7[73 + 2 * n + i] = s8[i]
    BY <1>14 DEF Joins, Spans
<1>29. /\ c7[1] = Move(-2 * n)
    BY <1>7, <1>21
<1>30. /\ c7[2 + n] = Move(-30)
    BY <1>7, <1>23
<1>31. /\ c7[33 + n] = Move(-2)
       /\ c7[34 + n] = Store(<<"x", 0>>, 1)
       /\ c7[35 + n] = SpPlus(<<"x", 17>>, 34 + 2 * n)
       /\ c7[36 + n] = Move(-2)
       /\ c7[37 + n] = Store(<<"x", 17>>, 1)
       /\ c7[38 + n] = SpPlus(<<"x", 0>>, 0)
       /\ c7[39 + n] = Load(<<"x", 1>>, 34 + 2 * n)
       /\ c7[40 + n] = Call
       /\ c7[41 + n] = Move(2)
       /\ c7[42 + n] = Load(<<"x", 0>>, 1)
       /\ c7[43 + n] = Move(2)
    BY <1>7, <1>25
<1>32. /\ c7[74 + 2 * n] = I("ret", <<"x", 30>>, 0)
    BY <1>7, <1>28
<1>33. Bridge64(c7, floating, n)
    BY <1>14, <1>22, <1>24, <1>26, <1>27, <1>29, <1>30, <1>31, <1>32 DEF Bridge64
<1> QED BY <1>4, <1>33

LEMMA FirstQSpans ==
    ASSUME NEW a, NEW n, n = Q64(a)
    PROVE  n \in {8, 32} /\ Spans(FirstQ(a), n) /\ \A i \in 1 .. n : FirstQ(a)[i] = <<"q", i - 1>>
<1>1. n \in {8, 32} /\ FirstQ(a) = SubSeq(Q, 1, n)
    BY DEF Q64, FirstQ
<1>2. Spans(Q, 32) /\ \A i \in 1 .. 32 : Q[i] = <<"q", i - 1>>
    BY BankSpans DEF Q
<1>3. n \in Nat /\ 32 \in Nat /\ 1 \in 1 .. 32 /\ n \in 1 .. 32 /\ n - 1 + 1 = n
    BY <1>1
<1>4. Spans(SubSeq(Q, 1, n), n - 1 + 1) /\ \A i \in 1 .. n - 1 + 1 : SubSeq(Q, 1, n)[i] = Q[i + 1 - 1]
    BY <1>2, <1>3, SubSeqSpans, Zenon
<1>5. PICK s : s = FirstQ(a)
    OBVIOUS
<1>6. Spans(s, n) /\ \A i \in 1 .. n : s[i] = Q[i + 1 - 1]
    BY <1>1, <1>3, <1>4, <1>5
<1>7. ASSUME NEW i \in 1 .. n PROVE s[i] = <<"q", i - 1>>
    <2>1. i + 1 - 1 = i /\ i \in 1 .. 32
        BY <1>3
    <2> QED BY <1>2, <1>6, <2>1
<1> QED BY <1>1, <1>5, <1>6, <1>7

\* The code of arm64 with n floating-point registers.
Layout64(c, n) ==
    /\ Len(c) = 83 + 2 * n
    /\ c[1] = Move(-2) /\ c[2] = Store(<<"x", 30>>, 1) /\ c[3] = I("entry", <<"x", 17>>, 0)
    /\ c[4] = Store(<<"x", 17>>, 0) /\ c[5] = I("bridge", <<"x", 17>>, 0) /\ c[6] = I("blr", <<"x", 17>>, 10)
    /\ c[7] = Load(<<"x", 30>>, 1) /\ c[8] = Move(2) /\ c[9] = I("br", <<"x", 17>>, 0)
    /\ c[10] = Move(-2 * n) /\ c[11 + n] = Move(-30)
    /\ \A i \in 0 .. n - 1 : c[11 + i] = Store(<<"q", i>>, 2 * i)
    /\ \A i \in 1 .. 30 : c[11 + n + i] = Store(<<"x", i>>, i - 1)
    /\ c[42 + n] = Move(-2)
    /\ c[43 + n] = Store(<<"x", 0>>, 1)
    /\ c[44 + n] = SpPlus(<<"x", 17>>, 34 + 2 * n)
    /\ c[45 + n] = Move(-2)
    /\ c[46 + n] = Store(<<"x", 17>>, 1)
    /\ c[47 + n] = SpPlus(<<"x", 0>>, 0)
    /\ c[48 + n] = Load(<<"x", 1>>, 34 + 2 * n)
    /\ c[49 + n] = Call
    /\ c[50 + n] = Move(2)
    /\ c[51 + n] = Load(<<"x", 0>>, 1)
    /\ c[52 + n] = Move(2)
    /\ \A i \in 1 .. 30 : c[52 + n + i] = Pop(<<"x", i>>, 1)
    /\ \A i \in 0 .. n - 1 : c[83 + n + i] = Pop(<<"q", i>>, 2)
    /\ c[83 + 2 * n] = I("ret", <<"x", 30>>, 0)

LEMMA Arm64Code ==
    ASSUME NEW a \in Arm64s, NEW n, n = Q64(a)
    PROVE  n \in {8, 32} /\ Layout64(Code[a], n)
<1>1. n \in {8, 32} /\ Spans(FirstQ(a), n) /\ \A i \in 1 .. n : FirstQ(a)[i] = <<"q", i - 1>>
    BY FirstQSpans
<1>2. PICK m \in Nat : m = n
    BY <1>1
<1>3. PICK f : f = FirstQ(a)
    OBVIOUS
<1>4. PICK b : b = Arm64Bridge(f)
    OBVIOUS
<1>5. PICK c : c = Code[a]
    OBVIOUS
<1>6. c = Arm64Trampoline \o b
    <2>1. CASE a = "arm64"
        BY <1>3, <1>4, <1>5, <2>1 DEF Code
    <2>2. CASE a = "arm64full"
        BY <1>3, <1>4, <1>5, <2>2 DEF Code
    <2> QED BY <2>1, <2>2 DEF Arm64s
<1>7. Spans(f, m) /\ \A i \in 1 .. m : f[i] = <<"q", i - 1>>
    BY <1>1, <1>2, <1>3
<1>8. Bridge64(b, f, m)
    BY <1>4, <1>7, Arm64BridgeCode
<1>9. Spans(c, 83 + 2 * m) /\ Joins(c, 9, Arm64Trampoline, b)
    <2>1. PICK k \in Nat : k = 74 + 2 * m
        OBVIOUS
    <2>2. Spans(b, k)
        BY <1>8, <2>1 DEF Bridge64
    <2>3. Spans(c, 9 + k) /\ Joins(c, 9, Arm64Trampoline, b)
        BY <1>6, <2>2, Arm64TrampolineCode, Joined
    <2> QED BY <2>1, <2>3
<1>10. \A i \in 1 .. 9 : c[i] = Arm64Trampoline[i]
    BY <1>9 DEF Joins, Spans
<1>11. \A i \in 1 .. 74 + 2 * m : c[9 + i] = b[i]
    BY <1>9 DEF Joins, Spans
<1>12. ASSUME NEW i \in 0 .. m - 1
       PROVE  c[11 + i] = Store(<<"q", i>>, 2 * i) /\ c[83 + m + i] = Pop(<<"q", i>>, 2)
    <2>1. PICK j \in 1 .. m : j = i + 1
        OBVIOUS
    <2>2. StoreAll(f, 2)[j] = Store(f[j], 2 * (j - 1)) /\ PopAll(f, 2)[j] = Pop(f[j], 2)
        BY <1>7, StoreAllSpans, PopAllSpans
    <2>3. f[j] = <<"q", i>> /\ 2 * (j - 1) = 2 * i
        BY <1>7, <2>1
    <2>4. b[1 + j] = StoreAll(f, 2)[j] /\ b[73 + m + j] = PopAll(f, 2)[j]
        BY <1>8 DEF Bridge64
    <2>5. c[9 + (1 + j)] = b[1 + j] /\ c[9 + (73 + m + j)] = b[73 + m + j]
        BY <1>11
    <2>6. 9 + (1 + j) = 11 + i /\ 9 + (73 + m + j) = 83 + m + i
        BY <2>1
    <2> QED BY <2>2, <2>3, <2>4, <2>5, <2>6
<1>13. ASSUME NEW i \in 1 .. 30
       PROVE  c[11 + m + i] = Store(<<"x", i>>, i - 1) /\ c[52 + m + i] = Pop(<<"x", i>>, 1)
    <2>1. PICK s : s = Tail(X)
        OBVIOUS
    <2>2. Spans(s, 30) /\ s[i] = <<"x", i>> /\ 1 * (i - 1) = i - 1
        <3>1. Spans(s, 30) /\ \A j \in 1 .. 30 : s[j] = <<"x", j>>
            BY <2>1, TailOfX, Zenon
        <3> QED BY <3>1
    <2>3. b[2 + m + i] = Store(<<"x", i>>, i - 1) /\ b[43 + m + i] = Pop(<<"x", i>>, 1)
        <3>1. StoreAll(s, 1)[i] = Store(s[i], 1 * (i - 1)) /\ PopAll(s, 1)[i] = Pop(s[i], 1)
            BY <2>2, StoreAllSpans, PopAllSpans
        <3>2. b[2 + m + i] = StoreAll(s, 1)[i] /\ b[43 + m + i] = PopAll(s, 1)[i]
            BY <1>8, <2>1 DEF Bridge64
        <3> QED BY <2>2, <3>1, <3>2
    <2>4. c[9 + (2 + m + i)] = b[2 + m + i] /\ c[9 + (43 + m + i)] = b[43 + m + i]
        BY <1>11
    <2>5. 9 + (2 + m + i) = 11 + m + i /\ 9 + (43 + m + i) = 52 + m + i
        OBVIOUS
    <2> QED BY <2>3, <2>4, <2>5
<1>14. /\ c[10] = b[1] /\ c[11 + m] = b[2 + m] /\ c[83 + 2 * m] = b[74 + 2 * m]
       /\ c[42 + m] = b[33 + m]
       /\ c[43 + m] = b[34 + m]
       /\ c[44 + m] = b[35 + m]
       /\ c[45 + m] = b[36 + m]
       /\ c[46 + m] = b[37 + m]
       /\ c[47 + m] = b[38 + m]
       /\ c[48 + m] = b[39 + m]
       /\ c[49 + m] = b[40 + m]
       /\ c[50 + m] = b[41 + m]
       /\ c[51 + m] = b[42 + m]
       /\ c[52 + m] = b[43 + m]
    BY <1>11
<1>15. /\ c[10] = Move(-2 * m) /\ c[11 + m] = Move(-30) /\ c[83 + 2 * m] = I("ret", <<"x", 30>>, 0)
       /\ c[42 + m] = Move(-2)
       /\ c[43 + m] = Store(<<"x", 0>>, 1)
       /\ c[44 + m] = SpPlus(<<"x", 17>>, 34 + 2 * m)
       /\ c[45 + m] = Move(-2)
       /\ c[46 + m] = Store(<<"x", 17>>, 1)
       /\ c[47 + m] = SpPlus(<<"x", 0>>, 0)
       /\ c[48 + m] = Load(<<"x", 1>>, 34 + 2 * m)
       /\ c[49 + m] = Call
       /\ c[50 + m] = Move(2)
       /\ c[51 + m] = Load(<<"x", 0>>, 1)
       /\ c[52 + m] = Move(2)
    BY <1>8, <1>14 DEF Bridge64
<1>16. /\ c[1] = Move(-2)
       /\ c[2] = Store(<<"x", 30>>, 1)
       /\ c[3] = I("entry", <<"x", 17>>, 0)
       /\ c[4] = Store(<<"x", 17>>, 0)
       /\ c[5] = I("bridge", <<"x", 17>>, 0)
       /\ c[6] = I("blr", <<"x", 17>>, 10)
       /\ c[7] = Load(<<"x", 30>>, 1)
       /\ c[8] = Move(2)
       /\ c[9] = I("br", <<"x", 17>>, 0)
    BY <1>10, Arm64TrampolineCode
<1>17. Len(c) = 83 + 2 * m
    BY <1>9 DEF Spans
<1>18. Layout64(c, m)
    BY <1>12, <1>13, <1>15, <1>16, <1>17 DEF Layout64
<1> QED BY <1>1, <1>2, <1>5, <1>18

---------------------------------------------------------------------------
(* Each instruction keeps to the annotation: arm                           *)

KeepsRegs(a, p, q) == \A r, s : RegHas(a, q, r, s) => RegHas(a, p, r, s)
KeepsSlots(a, p, q) == \A o, s : SlotHas(a, q, o, s) => SlotHas(a, p, o, s)
KeepsOtherRegs(a, p, q, r0) == \A r, s : RegHas(a, q, r, s) /\ r # r0 => RegHas(a, p, r, s)
KeepsOtherSlots(a, p, q, o0) == \A o, s : SlotHas(a, q, o, s) /\ o # o0 => SlotHas(a, p, o, s)
LosesFlags(a, q) == a \in Intel => \A s : ~RegHas(a, q, FLAGS, s)

\* Control goes from p to q and the stack pointer up k slots.
Goes(a, p, q, k) ==
    /\ q \in 1 .. Len(Code[a])
    /\ k \in Int /\ Off(a, p) \in -Largest .. 0 /\ Off(a, q) = Off(a, p) + k
    /\ Before(a, q) => Before(a, p)
    /\ a = "x64" => q \notin {28, 30} /\ (q = 31 => p = 30)

MoveSound(a, p, i) == Goes(a, p, p + 1, i.k) /\ KeepsRegs(a, p, p + 1) /\ LosesFlags(a, p + 1) /\ KeepsSlots(a, p, p + 1)

SetSound(a, p, r) == Goes(a, p, p + 1, 0) /\ r \in Registers(a) \ {SP} /\ KeepsOtherRegs(a, p, p + 1, r) /\ KeepsSlots(a, p, p + 1)

SpPlusSound(a, p, i) ==
    /\ SetSound(a, p, i.r) /\ LosesFlags(a, p + 1) /\ i.k \in Int
    /\ \A s : RegHas(a, p + 1, i.r, s) =>
            \/ s = TheContext /\ Off(a, p) + i.k = -Above(a)
            \/ s = TheBase /\ Off(a, p) + i.k = 0
MisalignmentSound(a, p, i) ==
    /\ SetSound(a, p, i.r) /\ LosesFlags(a, p + 1) /\ i.k = 2 /\ Off(a, p) = -21
    /\ \A s : RegHas(a, p + 1, i.r, s) => s = TheParity
LoadSound(a, p, i) ==
    /\ SetSound(a, p, i.r) /\ i.k \in Int
    /\ \A s : RegHas(a, p + 1, i.r, s) => SlotHas(a, p, Off(a, p) + i.k, s)
PopSound(a, p, i) ==
    /\ Goes(a, p, p + 1, i.k) /\ i.r \in Registers(a) \ {SP}
    /\ KeepsOtherRegs(a, p, p + 1, i.r) /\ KeepsSlots(a, p, p + 1)
    /\ \A s : RegHas(a, p + 1, i.r, s) => SlotHas(a, p, Off(a, p), s)
EntrySound(a, p, i) == SetSound(a, p, i.r) /\ \A s : RegHas(a, p + 1, i.r, s) => s = TheEntry
BridgeSound(a, p, i) == SetSound(a, p, i.r) /\ \A s : ~RegHas(a, p + 1, i.r, s)
MovSound(a, p, i) ==
    /\ SetSound(a, p, i.r)
    /\ \A s : RegHas(a, p + 1, i.r, s) => RegHas(a, p, General[a][i.k], s)

\* Slot k above the stack pointer is written, which goes up by m.
WriteSound(a, p, k, m) ==
    /\ Goes(a, p, p + 1, m) /\ k \in Int /\ Off(a, p) + k \in -Largest .. -1
    /\ KeepsRegs(a, p, p + 1) /\ KeepsOtherSlots(a, p, p + 1, Off(a, p) + k)
StoreSound(a, p, i) ==
    /\ WriteSound(a, p, i.k, 0)
    /\ \A s : SlotHas(a, p + 1, Off(a, p) + i.k, s) => RegHas(a, p, i.r, s)
StoreEntrySound(a, p, i) ==
    /\ WriteSound(a, p, i.k, 0)
    /\ \A s : SlotHas(a, p + 1, Off(a, p) + i.k, s) => s = TheEntry
PushSound(a, p, i) ==
    /\ WriteSound(a, p, -1, -1)
    /\ \A s : SlotHas(a, p + 1, Off(a, p) + (-1), s) => RegHas(a, p, i.r, s)
PushEntrySound(a, p, i) ==
    /\ WriteSound(a, p, -1, -1)
    /\ \A s : SlotHas(a, p + 1, Off(a, p) + (-1), s) => s = TheEntry
JmpSound(a, p, i) == Goes(a, p, p + i.k, 0) /\ KeepsRegs(a, p, p + i.k) /\ KeepsSlots(a, p, p + i.k)
JnzSound(a, p, i) ==
    /\ a = "x64" /\ p = 27 /\ i.k = 3 /\ RegHas(a, p, i.r, TheParity)
    /\ \A q \in {28, 30} : Off(a, q) = Off(a, p) /\ KeepsRegs(a, p, q) /\ KeepsSlots(a, p, q)
BlrSound(a, p, i) ==
    /\ a \in Arm64s /\ p = 6 /\ Goes(a, p, i.k, 0)
    /\ KeepsOtherRegs(a, p, i.k, X[31]) /\ KeepsSlots(a, p, i.k)
    /\ \A s : RegHas(a, i.k, X[31], s) => s = TheReturn
RetSound(a, p, i) ==
    /\ RegHas(a, p, i.r, TheReturn) /\ Goes(a, p, 7, 0) /\ KeepsRegs(a, p, 7) /\ KeepsSlots(a, p, 7)
CallSound(a, p, i) == p \in Calls(a)
BrSound(a, p, i) == p = Exit(a) /\ Off(a, p) = 0 /\ RegHas(a, p, i.r, TheHop)
PopBrSound(a, p, i) == p = Exit(a) /\ Off(a, p) = -1 /\ SlotHas(a, p, -1, TheHop)

Sound(a, p, i) ==
    \/ i.op = "move" /\ MoveSound(a, p, i)
    \/ i.op = "spplus" /\ SpPlusSound(a, p, i)
    \/ i.op = "misalignment" /\ MisalignmentSound(a, p, i)
    \/ i.op = "load" /\ LoadSound(a, p, i)
    \/ i.op = "pop" /\ PopSound(a, p, i)
    \/ i.op = "entry" /\ EntrySound(a, p, i)
    \/ i.op = "bridge" /\ BridgeSound(a, p, i)
    \/ i.op = "mov" /\ MovSound(a, p, i)
    \/ i.op = "store" /\ StoreSound(a, p, i)
    \/ i.op = "storeentry" /\ StoreEntrySound(a, p, i)
    \/ i.op = "push" /\ PushSound(a, p, i)
    \/ i.op = "pushentry" /\ PushEntrySound(a, p, i)
    \/ i.op = "jmp" /\ JmpSound(a, p, i)
    \/ i.op = "jnz" /\ JnzSound(a, p, i)
    \/ i.op = "blr" /\ BlrSound(a, p, i)
    \/ i.op = "ret" /\ RetSound(a, p, i)
    \/ i.op = "call" /\ CallSound(a, p, i)
    \/ i.op = "br" /\ BrSound(a, p, i)
    \/ i.op = "popbr" /\ PopBrSound(a, p, i)

---------------------------------------------------------------------------
LEMMA ArmAnnotated ==
    /\ \A p, r, s : RegHas("arm", p, r, s) <=> RegArm(p, r, s)
    /\ \A p, o, s : SlotHas("arm", p, o, s) <=> SlotArm(p, o, s)
    /\ \A p : Off("arm", p) = OffArm(p) /\ (Before("arm", p) <=> p <= 23)
    /\ Above("arm") = 18 /\ Calls("arm") = {23} /\ Exit("arm") = 40
BY DEF RegHas, SlotHas, Off, Before, Above, Calls, Exit, Arm64s

LEMMA ArmRegs ==
    ASSUME NEW p \in 1 .. 39, NEW r, NEW s, RegArm(p + 1, r, s), ~RegArm(p, r, s)
    PROVE  \/ p \in 26 .. 39 /\ r = <<"r", p - 26>>
           \/ p = 1 /\ r = <<"r", 12>>
           \/ p = 17 /\ r = <<"r", 0>>
           \/ p = 21 /\ r = <<"r", 0>>
           \/ p = 22 /\ r = <<"r", 1>>
BY DEF RegArm

LEMMA ArmSlots ==
    ASSUME NEW p \in 1 .. 39, NEW o, NEW s, SlotArm(p + 1, o, s), ~SlotArm(p, o, s)
    PROVE  \/ p \in 3 .. 16 /\ o = p - 17
           \/ p = 19 /\ o = -15
           \/ p = 23
BY DEF SlotArm

LEMMA ArmGoes ==
    ASSUME NEW p \in 1 .. 39, NEW k \in Int, p # 23, OffArm(p + 1) = OffArm(p) + k
    PROVE  Goes("arm", p, p + 1, k)
<1>1. OffArm(p) \in -100 .. 0
    BY DEF OffArm
<1> QED BY <1>1, ArmAnnotated, ArmCode DEF Goes, Largest

LEMMA ArmRegister ==
    ASSUME NEW i \in 0 .. 13
    PROVE  <<"r", i>> \in Registers("arm") \ {SP}
<1>1. Spans(R, 14) /\ \A j \in 1 .. 14 : R[j] = <<"r", j - 1>>
    BY BankSpans DEF R
<1>2. PICK j \in 1 .. 14 : j = i + 1
    OBVIOUS
<1>3. R[j] = <<"r", i>>
    BY <1>1, <1>2
<1>4. <<"r", i>> \in ToSet(R)
    BY <1>1, <1>3 DEF ToSet, Spans, IsSeq
<1> QED BY <1>4 DEF Registers, General, SP

LEMMA ArmKeeps ==
    ASSUME NEW p \in 1 .. 39
    PROVE  /\ p \notin {1, 17, 21, 22} \cup 26 .. 39 => KeepsRegs("arm", p, p + 1)
           /\ p = 1 => KeepsOtherRegs("arm", p, p + 1, <<"r", 12>>)
           /\ p \in {17, 21} => KeepsOtherRegs("arm", p, p + 1, <<"r", 0>>)
           /\ p = 22 => KeepsOtherRegs("arm", p, p + 1, <<"r", 1>>)
           /\ \A j \in 0 .. 13 : p = 26 + j => KeepsOtherRegs("arm", p, p + 1, <<"r", j>>)
           /\ p \notin 3 .. 16 \cup {19, 23} => KeepsSlots("arm", p, p + 1)
           /\ p = 19 => KeepsOtherSlots("arm", p, p + 1, -15)
           /\ \A j \in 0 .. 13 : p = 3 + j => KeepsOtherSlots("arm", p, p + 1, -14 + j)
BY ArmAnnotated, ArmRegs, ArmSlots DEF KeepsRegs, KeepsOtherRegs, KeepsSlots, KeepsOtherSlots

LEMMA ArmSound ==
    ASSUME NEW p \in 1 .. 40
    PROVE  Sound("arm", p, Code["arm"][p])
<1> DEFINE i == Code["arm"][p]
<1>1. CASE p = 1
    <2>1. i.op = "entry" /\ i.r = <<"r", 12>>
        BY <1>1, ArmCode DEF I
    <2>2. SetSound("arm", p, i.r)
        <3>1. Goes("arm", p, p + 1, 0)
            BY <1>1, ArmGoes DEF OffArm
        <3> QED BY <1>1, <2>1, <3>1, ArmKeeps, ArmRegister DEF SetSound
    <2>3. \A s : RegHas("arm", 2, <<"r", 12>>, s) => s = TheEntry
        BY ArmAnnotated DEF RegArm
    <2> QED BY <1>1, <2>1, <2>2, <2>3 DEF Sound, EntrySound
<1>2. CASE p \in {2, 18, 20, 24, 25}
    <2>1. i.op = "move" /\ i.k = IF p = 2 THEN -14 ELSE IF p <= 20 THEN -2 ELSE 2
        BY <1>2, ArmCode DEF I, Move
    <2>2. Goes("arm", p, p + 1, i.k)
        BY <1>2, <2>1, ArmGoes DEF OffArm
    <2>3. MoveSound("arm", p, i)
        BY <1>2, <2>2, ArmKeeps DEF MoveSound, LosesFlags, Intel
    <2> QED BY <2>1, <2>3 DEF Sound
<1>3. CASE p \in 3 .. 16
    <2>1. PICK j \in 0 .. 13 : p = 3 + j
        BY <1>3
    <2>2. i.op = "store" /\ i.r = <<"r", j>> /\ i.k = j
        BY <2>1, ArmCode DEF I, Store
    <2>3. Off("arm", p) = -14 /\ Goes("arm", p, p + 1, 0)
        BY <2>1, ArmGoes, ArmAnnotated DEF OffArm
    <2>5. WriteSound("arm", p, i.k, 0)
        BY <1>3, <2>1, <2>2, <2>3, ArmKeeps DEF WriteSound, Largest
    <2>6. ASSUME NEW s, SlotHas("arm", p + 1, -14 + j, s)
          PROVE  RegHas("arm", p, <<"r", j>>, s)
        <3>1. SlotArm(p + 1, -14 + j, s)
            BY <2>6, ArmAnnotated
        <3>2. j # 12 /\ s = Own(<<"r", j>>)
            <4>1. PICK l \in 0 .. 13 \ {12} : -14 + j = l - 14 /\ s = Own(<<"r", l>>)
                BY <2>1, <3>1 DEF SlotArm
            <4>2. l = j
                BY <4>1
            <4> QED BY <4>1, <4>2
        <3>3. RegArm(p, <<"r", j>>, s)
            BY <2>1, <3>2 DEF RegArm
        <3> QED BY <3>3, ArmAnnotated
    <2> QED BY <2>2, <2>3, <2>5, <2>6 DEF Sound, StoreSound
<1>4. CASE p \in {17, 21}
    <2>1. i.op = "spplus" /\ i.r = <<"r", 0>> /\ i.k = IF p = 17 THEN 14 ELSE 0
        BY <1>4, ArmCode DEF I, SpPlus
    <2>2. SetSound("arm", p, i.r)
        <3>1. Goes("arm", p, p + 1, 0)
            BY <1>4, ArmGoes DEF OffArm
        <3> QED BY <1>4, <2>1, <3>1, ArmKeeps, ArmRegister DEF SetSound
    <2>3. ASSUME NEW s, RegHas("arm", p + 1, i.r, s)
          PROVE  s = IF p = 17 THEN TheBase ELSE TheContext
        <3>1. RegArm(p + 1, <<"r", 0>>, s)
            BY <2>1, <2>3, ArmAnnotated
        <3> QED BY <1>4, <3>1 DEF RegArm
    <2>4. Off("arm", p) + i.k = IF p = 17 THEN 0 ELSE -18
        BY <1>4, <2>1, ArmAnnotated DEF OffArm
    <2>5. i.k \in Int /\ LosesFlags("arm", p + 1)
        BY <2>1 DEF LosesFlags, Intel
    <2>6. SpPlusSound("arm", p, i)
        BY <1>4, <2>2, <2>3, <2>4, <2>5, ArmAnnotated DEF SpPlusSound
    <2> QED BY <2>1, <2>6 DEF Sound
<1>5. CASE p = 19
    <2>1. i.op = "store" /\ i.r = <<"r", 0>> /\ i.k = 1
        BY <1>5, ArmCode DEF I, Store
    <2>2. Off("arm", p) = -16 /\ Goes("arm", p, p + 1, 0)
        BY <1>5, ArmGoes, ArmAnnotated DEF OffArm
    <2>3. WriteSound("arm", p, i.k, 0)
        BY <1>5, <2>1, <2>2, ArmKeeps DEF WriteSound, Largest
    <2>4. ASSUME NEW s, SlotHas("arm", p + 1, -15, s)
          PROVE  RegHas("arm", p, <<"r", 0>>, s)
        <3>1. SlotArm(20, -15, s)
            BY <1>5, <2>4, ArmAnnotated
        <3>2. s = TheBase
            BY <3>1 DEF SlotArm, TheBase, TheHop, Own
        <3>3. RegArm(p, <<"r", 0>>, s)
            BY <1>5, <3>2 DEF RegArm
        <3> QED BY <3>3, ArmAnnotated
    <2> QED BY <1>5, <2>1, <2>2, <2>3, <2>4 DEF Sound, StoreSound
<1>6. CASE p = 22
    <2>1. i.op = "mov" /\ i.r = <<"r", 1>> /\ i.k = 13
        BY <1>6, ArmCode DEF I
    <2>2. SetSound("arm", p, i.r)
        <3>1. Goes("arm", p, p + 1, 0)
            BY <1>6, ArmGoes DEF OffArm
        <3> QED BY <1>6, <2>1, <3>1, ArmKeeps, ArmRegister DEF SetSound
    <2>3. General["arm"][13] = <<"r", 12>>
        BY ArmPieces DEF General
    <2>4. \A s : RegHas("arm", 23, <<"r", 1>>, s) => RegHas("arm", 22, <<"r", 12>>, s)
        BY ArmAnnotated DEF RegArm
    <2> QED BY <1>6, <2>1, <2>2, <2>3, <2>4 DEF Sound, MovSound
<1>7. CASE p = 23
    <2>1. i.op = "call"
        BY <1>7, ArmCode DEF I, Call
    <2> QED BY <1>7, <2>1, ArmAnnotated DEF Sound, CallSound
<1>8. CASE p \in 26 .. 39
    <2>1. PICK j \in 0 .. 13 : p = 26 + j
        BY <1>8
    <2>2. i.op = "pop" /\ i.r = <<"r", j>> /\ i.k = 1
        BY <2>1, ArmCode DEF I, Pop
    <2>3. Off("arm", p) = j - 14 /\ Goes("arm", p, p + 1, 1)
        BY <2>1, ArmGoes, ArmAnnotated DEF OffArm
    <2>4. ASSUME NEW s, RegHas("arm", p + 1, <<"r", j>>, s)
          PROVE  SlotHas("arm", p, j - 14, s)
        <3>1. RegArm(p + 1, <<"r", j>>, s)
            BY <2>4, ArmAnnotated
        <3>2. SlotArm(p, j - 14, s)
            BY <2>1, <3>1 DEF SlotArm, RegArm
        <3> QED BY <3>2, ArmAnnotated
    <2>5. KeepsOtherRegs("arm", p, p + 1, <<"r", j>>) /\ KeepsSlots("arm", p, p + 1)
        BY <1>8, <2>1, ArmKeeps
    <2> QED BY <2>2, <2>3, <2>4, <2>5, ArmRegister DEF Sound, PopSound
<1>9. CASE p = 40
    <2>1. i.op = "br" /\ i.r = <<"r", 12>>
        BY <1>9, ArmCode DEF I
    <2>2. OffArm(40) = 0 /\ RegArm(40, <<"r", 12>>, TheHop)
        BY DEF OffArm, RegArm
    <2> QED BY <1>9, <2>1, <2>2, ArmAnnotated DEF Sound, BrSound
<1> QED BY <1>1, <1>2, <1>3, <1>4, <1>5, <1>6, <1>7, <1>8, <1>9

---------------------------------------------------------------------------
(* Each instruction keeps to the annotation: x64                           *)

LEMMA X64Annotated ==
    /\ \A p, r, s : RegHas("x64", p, r, s) <=> RegX64(p, r, s)
    /\ \A p, o, s : SlotHas("x64", p, o, s) <=> SlotX64(p, o, s)
    /\ \A p : Off("x64", p) = OffX64(p) /\ (Before("x64", p) <=> Before64(p))
    /\ Above("x64") = 21 /\ Calls("x64") = {28, 31} /\ Exit("x64") = 52
BY DEF RegHas, SlotHas, Off, Before, Above, Calls, Exit, Arm64s

LEMMA X64Regs ==
    ASSUME NEW p \in 1 .. 51, p # 29, NEW r, NEW s, RegX64(p + 1, r, s), ~RegX64(p, r, s)
    PROVE  \/ p \in 34 .. 49 /\ r = <<"rx", p - 34>>
           \/ p = 51 /\ r = FLAGS
           \/ p = 21 /\ r = <<"rx", 0>>
           \/ p = 24 /\ r = <<"rx", 6>>
           \/ p = 25 /\ r = <<"rx", 7>>
           \/ p = 26 /\ r = <<"rx", 0>>
BY DEF RegX64, Before64

LEMMA X64Slots ==
    ASSUME NEW p \in 1 .. 51, p \notin {28, 29, 31}, NEW o, NEW s, SlotX64(p + 1, o, s), ~SlotX64(p, o, s)
    PROVE  \/ p \in 5 .. 20 /\ o = -19 + (p - 5)
           \/ p = 1 /\ o = -1
           \/ p = 2 /\ o = -2
           \/ p = 23 /\ o = -20
BY DEF SlotX64, Before64

LEMMA X64Goes ==
    ASSUME NEW p \in 1 .. 51, NEW k \in Int, p \notin {27, 28, 29, 31}, OffX64(p + 1) = OffX64(p) + k
    PROVE  Goes("x64", p, p + 1, k)
<1>1. OffX64(p) \in -100 .. 0
    BY DEF OffX64
<1>2. Before64(p + 1) => Before64(p)
    BY DEF Before64
<1> QED BY <1>1, <1>2, X64Annotated, X64Code DEF Goes, Largest

LEMMA X64Register ==
    FLAGS \in Registers("x64") \ {SP} /\ \A i \in 0 .. 15 : <<"rx", i>> \in Registers("x64") \ {SP, FLAGS}
<1>1. Spans(RX, 16) /\ \A j \in 1 .. 16 : RX[j] = <<"rx", j - 1>>
    BY BankSpans DEF RX
<1>2. ASSUME NEW i \in 0 .. 15 PROVE <<"rx", i>> \in Registers("x64") \ {SP, FLAGS}
    <2>2. PICK j \in 1 .. 16 : j = i + 1
        OBVIOUS
    <2>3. RX[j] = <<"rx", i>>
        BY <1>1, <2>2
    <2>4. <<"rx", i>> \in ToSet(RX)
        BY <1>1, <2>3 DEF ToSet, Spans, IsSeq
    <2> QED BY <2>4 DEF Registers, General, SP, FLAGS
<1>3. FLAGS \in Registers("x64") /\ FLAGS # SP
    BY DEF Registers, FLAGS, SP
<1> QED BY <1>2, <1>3

LEMMA X64Keeps ==
    ASSUME NEW p \in 1 .. 51, p # 29
    PROVE  /\ p \notin {21, 24, 25, 26, 51} \cup 34 .. 49 => KeepsRegs("x64", p, p + 1)
           /\ p = 39 => KeepsRegs("x64", p, p + 1)
           /\ p \in {21, 26} => KeepsOtherRegs("x64", p, p + 1, <<"rx", 0>>)
           /\ p = 24 => KeepsOtherRegs("x64", p, p + 1, <<"rx", 6>>)
           /\ p = 25 => KeepsOtherRegs("x64", p, p + 1, <<"rx", 7>>)
           /\ p = 51 => KeepsOtherRegs("x64", p, p + 1, FLAGS)
           /\ \A j \in 0 .. 15 : p = 34 + j => KeepsOtherRegs("x64", p, p + 1, <<"rx", j>>)
           /\ p \notin 5 .. 20 \cup {1, 2, 23, 28, 31} => KeepsSlots("x64", p, p + 1)
           /\ p = 1 => KeepsOtherSlots("x64", p, p + 1, -1)
           /\ p = 2 => KeepsOtherSlots("x64", p, p + 1, -2)
           /\ p = 23 => KeepsOtherSlots("x64", p, p + 1, -20)
           /\ \A j \in 0 .. 15 : p = 5 + j => KeepsOtherSlots("x64", p, p + 1, -19 + j)
<1>1. p = 39 => KeepsRegs("x64", p, p + 1)
    <2>1. ASSUME NEW r, NEW s, RegX64(40, r, s) PROVE RegX64(39, r, s)
        BY <2>1 DEF RegX64, Before64
    <2> QED BY <2>1, X64Annotated DEF KeepsRegs
<1>2. /\ p \notin {21, 24, 25, 26, 51} \cup 34 .. 49 => KeepsRegs("x64", p, p + 1)
      /\ p \in {21, 26} => KeepsOtherRegs("x64", p, p + 1, <<"rx", 0>>)
      /\ p = 24 => KeepsOtherRegs("x64", p, p + 1, <<"rx", 6>>)
      /\ p = 25 => KeepsOtherRegs("x64", p, p + 1, <<"rx", 7>>)
      /\ p = 51 => KeepsOtherRegs("x64", p, p + 1, FLAGS)
    BY X64Annotated, X64Regs DEF KeepsRegs, KeepsOtherRegs
<1>3. \A j \in 0 .. 15 : p = 34 + j => KeepsOtherRegs("x64", p, p + 1, <<"rx", j>>)
    BY X64Annotated, X64Regs DEF KeepsOtherRegs
<1>4. /\ p \notin 5 .. 20 \cup {1, 2, 23, 28, 31} => KeepsSlots("x64", p, p + 1)
      /\ p = 1 => KeepsOtherSlots("x64", p, p + 1, -1)
      /\ p = 2 => KeepsOtherSlots("x64", p, p + 1, -2)
      /\ p = 23 => KeepsOtherSlots("x64", p, p + 1, -20)
    BY X64Annotated, X64Slots DEF KeepsSlots, KeepsOtherSlots
<1>5. \A j \in 0 .. 15 : p = 5 + j => KeepsOtherSlots("x64", p, p + 1, -19 + j)
    BY X64Annotated, X64Slots DEF KeepsOtherSlots
<1> QED BY <1>1, <1>2, <1>3, <1>4, <1>5

LEMMA X64Sound ==
    ASSUME NEW p \in 1 .. 52
    PROVE  Sound("x64", p, Code["x64"][p])
<1> DEFINE i == Code["x64"][p]
<1>1. CASE p = 1
    <2>1. i.op = "pushentry"
        BY <1>1, X64Code DEF I
    <2>2. Off("x64", p) = 0 /\ Goes("x64", p, p + 1, -1)
        BY <1>1, X64Goes, X64Annotated DEF OffX64
    <2>3. WriteSound("x64", p, -1, -1)
        BY <1>1, <2>2, X64Keeps DEF WriteSound, Largest
    <2>4. \A s : SlotX64(2, -1, s) => s = TheEntry
        BY DEF SlotX64, Before64, Own, TheEntry, TheHop, TheBase
    <2>5. PushEntrySound("x64", p, i)
        BY <1>1, <2>2, <2>3, <2>4, X64Annotated DEF PushEntrySound
    <2> QED BY <2>1, <2>5 DEF Sound
<1>2. CASE p = 2
    <2>1. i.op = "push" /\ i.r = FLAGS
        BY <1>2, X64Code DEF I, Push
    <2>2. Off("x64", p) = -1 /\ Goes("x64", p, p + 1, -1)
        BY <1>2, X64Goes, X64Annotated DEF OffX64
    <2>3. WriteSound("x64", p, -1, -1)
        BY <1>2, <2>2, X64Keeps DEF WriteSound, Largest
    <2>4. ASSUME NEW s, SlotX64(3, -2, s) PROVE RegX64(2, FLAGS, s)
        <3>1. s = Own(FLAGS)
            BY <2>4 DEF SlotX64, Before64, Own, TheEntry, TheHop, TheBase
        <3> QED BY <3>1 DEF RegX64
    <2>5. PushSound("x64", p, i)
        BY <1>2, <2>1, <2>2, <2>3, <2>4, X64Annotated DEF PushSound
    <2> QED BY <2>1, <2>5 DEF Sound
<1>3. CASE p \in {3, 4, 22, 33, 39, 50}
    <2>1. i.op = "move" /\ i.k = IF p = 3 THEN -1 ELSE IF p = 4 THEN -16 ELSE IF p = 22 THEN -2
                                 ELSE IF p = 33 THEN 2 ELSE 1
        BY <1>3, X64Code DEF I, Move
    <2>2. OffX64(p + 1) = OffX64(p) + i.k
        BY <1>3, <2>1 DEF OffX64
    <2>3. Goes("x64", p, p + 1, i.k)
        BY <1>3, <2>1, <2>2, X64Goes
    <2>4. ASSUME NEW s PROVE ~RegX64(p + 1, FLAGS, s)
        BY <1>3 DEF RegX64, FLAGS
    <2>5. MoveSound("x64", p, i)
        BY <1>3, <2>3, <2>4, X64Keeps, X64Annotated DEF MoveSound, LosesFlags
    <2> QED BY <2>1, <2>5 DEF Sound
<1>4. CASE p \in 5 .. 20
    <2>1. PICK j \in 0 .. 15 : p = 5 + j
        BY <1>4
    <2>2. i.op = "store" /\ i.r = <<"rx", j>> /\ i.k = j
        BY <2>1, X64Code DEF I, Store
    <2>3. Off("x64", p) = -19 /\ Goes("x64", p, p + 1, 0)
        BY <2>1, X64Goes, X64Annotated DEF OffX64
    <2>4. WriteSound("x64", p, i.k, 0)
        BY <1>4, <2>1, <2>2, <2>3, X64Keeps DEF WriteSound, Largest
    <2>5. ASSUME NEW s, SlotX64(p + 1, -19 + j, s)
          PROVE  RegX64(p, <<"rx", j>>, s)
        <3>1. PICK l \in 0 .. 15 \ {5} : -19 + j = l - 19 /\ s = Own(<<"rx", l>>)
            BY <2>1, <2>5 DEF SlotX64
        <3>2. l = j
            BY <3>1
        <3> QED BY <2>1, <3>1, <3>2 DEF RegX64
    <2>6. StoreSound("x64", p, i)
        BY <2>2, <2>3, <2>4, <2>5, X64Annotated DEF StoreSound
    <2> QED BY <2>2, <2>6 DEF Sound
<1>5. CASE p \in {21, 24}
    <2>1. i.op = "spplus" /\ i.r = (IF p = 21 THEN <<"rx", 0>> ELSE <<"rx", 6>>) /\ i.k = IF p = 21 THEN 19 ELSE 0
        BY <1>5, X64Code DEF I, SpPlus
    <2>2. SetSound("x64", p, i.r)
        <3>1. Goes("x64", p, p + 1, 0)
            BY <1>5, X64Goes DEF OffX64
        <3> QED BY <1>5, <2>1, <3>1, X64Keeps, X64Register DEF SetSound
    <2>3. ASSUME NEW s, RegX64(p + 1, i.r, s)
          PROVE  s = IF p = 21 THEN TheBase ELSE TheContext
        BY <1>5, <2>1, <2>3 DEF RegX64, Before64
    <2>4. Off("x64", p) + i.k = IF p = 21 THEN 0 ELSE -21
        BY <1>5, <2>1, X64Annotated DEF OffX64
    <2>5. ASSUME NEW s PROVE ~RegX64(p + 1, FLAGS, s)
        BY <1>5 DEF RegX64, FLAGS
    <2>6. SpPlusSound("x64", p, i)
        BY <1>5, <2>1, <2>2, <2>3, <2>4, <2>5, X64Annotated DEF SpPlusSound, LosesFlags
    <2> QED BY <2>1, <2>6 DEF Sound
<1>6. CASE p = 23
    <2>1. i.op = "store" /\ i.r = <<"rx", 0>> /\ i.k = 1
        BY <1>6, X64Code DEF I, Store
    <2>2. Off("x64", p) = -21 /\ Goes("x64", p, p + 1, 0)
        BY <1>6, X64Goes, X64Annotated DEF OffX64
    <2>3. WriteSound("x64", p, i.k, 0)
        BY <1>6, <2>1, <2>2, X64Keeps DEF WriteSound, Largest
    <2>4. ASSUME NEW s, SlotX64(24, -20, s) PROVE RegX64(23, <<"rx", 0>>, s)
        <3>1. s = TheBase
            BY <2>4 DEF SlotX64, Before64, Own, TheEntry, TheHop, TheBase
        <3> QED BY <3>1 DEF RegX64
    <2>5. StoreSound("x64", p, i)
        BY <1>6, <2>1, <2>2, <2>3, <2>4, X64Annotated DEF StoreSound
    <2> QED BY <2>1, <2>5 DEF Sound
<1>7. CASE p = 25
    <2>1. i.op = "load" /\ i.r = <<"rx", 7>> /\ i.k = 20
        BY <1>7, X64Code DEF I, Load
    <2>2. Off("x64", p) = -21 /\ Goes("x64", p, p + 1, 0)
        BY <1>7, X64Goes, X64Annotated DEF OffX64
    <2>3. SetSound("x64", p, i.r)
        BY <1>7, <2>1, <2>2, X64Keeps, X64Register DEF SetSound
    <2>4. ASSUME NEW s, RegX64(26, <<"rx", 7>>, s) PROVE SlotX64(25, -1, s)
        <3>1. s = TheEntry
            BY <2>4 DEF RegX64, Before64
        <3> QED BY <3>1 DEF SlotX64, Before64
    <2>5. LoadSound("x64", p, i)
        BY <1>7, <2>1, <2>2, <2>3, <2>4, X64Annotated DEF LoadSound
    <2> QED BY <2>1, <2>5 DEF Sound
<1>8. CASE p = 26
    <2>1. i.op = "misalignment" /\ i.r = <<"rx", 0>> /\ i.k = 2
        BY <1>8, X64Code DEF I
    <2>2. Off("x64", p) = -21 /\ Goes("x64", p, p + 1, 0)
        BY <1>8, X64Goes, X64Annotated DEF OffX64
    <2>3. SetSound("x64", p, i.r)
        BY <1>8, <2>1, <2>2, X64Keeps, X64Register DEF SetSound
    <2>4. ASSUME NEW s PROVE ~RegX64(27, FLAGS, s) /\ (RegX64(27, <<"rx", 0>>, s) => s = TheParity)
        BY DEF RegX64, FLAGS, Before64
    <2>5. MisalignmentSound("x64", p, i)
        BY <1>8, <2>1, <2>2, <2>3, <2>4, X64Annotated DEF MisalignmentSound, LosesFlags
    <2> QED BY <2>1, <2>5 DEF Sound
<1>9. CASE p = 27
    <2>1. i.op = "jnz" /\ i.r = <<"rx", 0>> /\ i.k = 3
        BY <1>9, X64Code DEF I
    <2>2. RegX64(27, <<"rx", 0>>, TheParity)
        BY DEF RegX64
    <2>3. OffX64(27) = -21 /\ OffX64(28) = -21 /\ OffX64(30) = -21
        BY DEF OffX64
    <2>4. ASSUME NEW r, NEW s, RegX64(28, r, s) \/ RegX64(30, r, s) PROVE RegX64(27, r, s)
        BY <2>4 DEF RegX64, Before64
    <2>5. ASSUME NEW o, NEW s, SlotX64(28, o, s) \/ SlotX64(30, o, s) PROVE SlotX64(27, o, s)
        BY <2>5 DEF SlotX64, Before64
    <2>6. JnzSound("x64", p, i)
        BY <1>9, <2>1, <2>2, <2>3, <2>4, <2>5, X64Annotated DEF JnzSound, KeepsRegs, KeepsSlots
    <2> QED BY <2>1, <2>6 DEF Sound
<1>10. CASE p \in {28, 31}
    <2>1. i.op = "call"
        BY <1>10, X64Code DEF I, Call
    <2> QED BY <1>10, <2>1, X64Annotated DEF Sound, CallSound
<1>11. CASE p = 29
    <2>1. i.op = "jmp" /\ i.k = 4
        BY <1>11, X64Code DEF I
    <2>2. OffX64(29) = -21 /\ OffX64(33) = -21 /\ ~Before64(33)
        BY DEF OffX64, Before64
    <2>3. ASSUME NEW r, NEW s, RegX64(33, r, s) PROVE RegX64(29, r, s)
        BY <2>3 DEF RegX64, Before64
    <2>4. ASSUME NEW o, NEW s, SlotX64(33, o, s) PROVE SlotX64(29, o, s)
        BY <2>4 DEF SlotX64, Before64
    <2>5. Goes("x64", p, 33, 0)
        BY <1>11, <2>2, X64Annotated, X64Code DEF Goes, Largest
    <2>6. JmpSound("x64", p, i)
        BY <1>11, <2>1, <2>3, <2>4, <2>5, X64Annotated DEF JmpSound, KeepsRegs, KeepsSlots
    <2> QED BY <2>1, <2>6 DEF Sound
<1>12. CASE p = 30
    <2>1. i.op = "push" /\ i.r = <<"rx", 0>>
        BY <1>12, X64Code DEF I, Push
    <2>2. Off("x64", p) = -21 /\ Goes("x64", p, p + 1, -1)
        BY <1>12, X64Goes, X64Annotated DEF OffX64
    <2>3. ASSUME NEW s PROVE ~SlotX64(31, -22, s)
        BY DEF SlotX64, Before64, Own, TheEntry, TheHop, TheBase
    <2>4. WriteSound("x64", p, -1, -1)
        BY <1>12, <2>2, X64Keeps DEF WriteSound, Largest, KeepsSlots, KeepsOtherSlots
    <2>5. PushSound("x64", p, i)
        BY <1>12, <2>1, <2>2, <2>3, <2>4, X64Annotated DEF PushSound
    <2> QED BY <2>1, <2>5 DEF Sound
<1>13. CASE p = 32
    <2>1. i.op = "pop" /\ i.r = <<"rx", 0>> /\ i.k = 1
        BY <1>13, X64Code DEF I, Pop
    <2>2. Goes("x64", p, p + 1, 1)
        BY <1>13, X64Goes DEF OffX64
    <2>3. ASSUME NEW s PROVE ~RegX64(33, <<"rx", 0>>, s)
        BY DEF RegX64, FLAGS
    <2>4. KeepsOtherRegs("x64", p, p + 1, i.r) /\ KeepsSlots("x64", p, p + 1)
        BY <1>13, X64Keeps DEF KeepsRegs, KeepsOtherRegs
    <2>5. PopSound("x64", p, i)
        BY <1>13, <2>1, <2>2, <2>3, <2>4, X64Annotated, X64Register DEF PopSound
    <2> QED BY <2>1, <2>5 DEF Sound
<1>14. CASE p \in 34 .. 49 \ {39}
    <2>1. PICK j \in 0 .. 15 \ {5} : p = 34 + j
        BY <1>14
    <2>2. i.op = "pop" /\ i.r = <<"rx", j>> /\ i.k = 1
        <3>1. i = Pop(<<"rx", j>>, 1)
            BY <2>1, X64Code
        <3> QED BY <3>1 DEF I, Pop
    <2>3. Off("x64", p) = j - 19 /\ Goes("x64", p, p + 1, 1)
        BY <2>1, X64Goes, X64Annotated DEF OffX64
    <2>4. ASSUME NEW s, RegX64(p + 1, <<"rx", j>>, s)
          PROVE  SlotX64(p, j - 19, s)
        <3>1. s = Own(<<"rx", j>>)
            BY <2>1, <2>4 DEF RegX64, Before64, FLAGS
        <3> QED BY <2>1, <3>1 DEF SlotX64
    <2>5. KeepsOtherRegs("x64", p, p + 1, <<"rx", j>>) /\ KeepsSlots("x64", p, p + 1)
        BY <1>14, <2>1, X64Keeps
    <2>6. PopSound("x64", p, i)
        BY <2>2, <2>3, <2>4, <2>5, X64Annotated, X64Register DEF PopSound
    <2> QED BY <2>2, <2>6 DEF Sound
<1>15. CASE p = 51
    <2>1. i.op = "pop" /\ i.r = FLAGS /\ i.k = 1
        BY <1>15, X64Code DEF I, Pop
    <2>2. Off("x64", p) = -2 /\ Goes("x64", p, p + 1, 1)
        BY <1>15, X64Goes, X64Annotated DEF OffX64
    <2>3. ASSUME NEW s, RegX64(52, FLAGS, s) PROVE SlotX64(51, -2, s)
        <3>1. s = Own(FLAGS)
            BY <2>3 DEF RegX64, Before64, FLAGS
        <3> QED BY <3>1 DEF SlotX64
    <2>4. PopSound("x64", p, i)
        BY <1>15, <2>1, <2>2, <2>3, X64Keeps, X64Annotated, X64Register DEF PopSound
    <2> QED BY <2>1, <2>4 DEF Sound
<1>16. CASE p = 52
    <2>1. i.op = "popbr"
        BY <1>16, X64Code DEF I
    <2>2. OffX64(52) = -1 /\ SlotX64(52, -1, TheHop)
        BY DEF OffX64, SlotX64, Before64
    <2> QED BY <1>16, <2>1, <2>2, X64Annotated DEF Sound, PopBrSound
<1> QED BY <1>1, <1>2, <1>3, <1>4, <1>5, <1>6, <1>7, <1>8, <1>9, <1>10, <1>11, <1>12, <1>13, <1>14, <1>15, <1>16

---------------------------------------------------------------------------
(* Each instruction keeps to the annotation: x86                           *)

LEMMA X86Annotated ==
    /\ \A p, r, s : RegHas("x86", p, r, s) <=> RegX86(p, r, s)
    /\ \A p, o, s : SlotHas("x86", p, o, s) <=> SlotX86(p, o, s)
    /\ \A p : Off("x86", p) = OffX86(p) /\ (Before("x86", p) <=> p <= 24)
    /\ Above("x86") = 13 /\ Calls("x86") = {24} /\ Exit("x86") = 37
BY DEF RegHas, SlotHas, Off, Before, Above, Calls, Exit, Arm64s

LEMMA X86Regs ==
    ASSUME NEW p \in 1 .. 36, NEW r, NEW s, RegX86(p + 1, r, s), ~RegX86(p, r, s)
    PROVE  \/ p \in 29 .. 36 \ {34} /\ r = <<"ex", p - 29>>
           \/ p \in {16, 20, 22} /\ r = <<"ex", 0>>
BY DEF RegX86

LEMMA X86Slots ==
    ASSUME NEW p \in 1 .. 36, p # 24, NEW o, NEW s, SlotX86(p + 1, o, s), ~SlotX86(p, o, s)
    PROVE  \/ p \in 4 .. 11 /\ o = -9 + (p - 4)
           \/ p = 2 /\ o = -1
           \/ p = 18 /\ o = -12
           \/ p = 21 /\ o = -14
           \/ p = 23 /\ o = -15
BY DEF SlotX86

LEMMA X86Goes ==
    ASSUME NEW p \in 1 .. 36, NEW k \in Int, p # 24, OffX86(p + 1) = OffX86(p) + k
    PROVE  Goes("x86", p, p + 1, k)
<1>1. OffX86(p) \in -100 .. 0
    BY DEF OffX86
<1> QED BY <1>1, X86Annotated, X86Code DEF Goes, Largest

LEMMA X86Register ==
    FLAGS \in Registers("x86") \ {SP} /\ \A i \in 0 .. 7 : <<"ex", i>> \in Registers("x86") \ {SP, FLAGS}
<1>1. Spans(EX, 8) /\ \A j \in 1 .. 8 : EX[j] = <<"ex", j - 1>>
    BY BankSpans DEF EX
<1>2. ASSUME NEW i \in 0 .. 7 PROVE <<"ex", i>> \in Registers("x86") \ {SP, FLAGS}
    <2>2. PICK j \in 1 .. 8 : j = i + 1
        OBVIOUS
    <2>3. EX[j] = <<"ex", i>>
        BY <1>1, <2>2
    <2>4. <<"ex", i>> \in ToSet(EX)
        BY <1>1, <2>3 DEF ToSet, Spans, IsSeq
    <2> QED BY <2>4 DEF Registers, General, SP, FLAGS
<1>3. FLAGS \in Registers("x86") /\ FLAGS # SP
    BY DEF Registers, FLAGS, SP
<1> QED BY <1>2, <1>3

LEMMA X86Keeps ==
    ASSUME NEW p \in 1 .. 36
    PROVE  /\ p \notin {16, 20, 22} \cup (29 .. 36 \ {34}) => KeepsRegs("x86", p, p + 1)
           /\ p \in 1 .. 28 => KeepsOtherRegs("x86", p, p + 1, <<"ex", 0>>)
           /\ \A j \in 0 .. 7 : p = 29 + j => KeepsOtherRegs("x86", p, p + 1, <<"ex", j>>)
           /\ p \notin 4 .. 11 \cup {2, 18, 21, 23, 24} => KeepsSlots("x86", p, p + 1)
           /\ p = 2 => KeepsOtherSlots("x86", p, p + 1, -1)
           /\ p = 18 => KeepsOtherSlots("x86", p, p + 1, -12)
           /\ p = 21 => KeepsOtherSlots("x86", p, p + 1, -14)
           /\ p = 23 => KeepsOtherSlots("x86", p, p + 1, -15)
           /\ \A j \in 0 .. 7 : p = 4 + j => KeepsOtherSlots("x86", p, p + 1, -9 + j)
           /\ LosesFlags("x86", p + 1)
<1>1. /\ p \notin {16, 20, 22} \cup (29 .. 36 \ {34}) => KeepsRegs("x86", p, p + 1)
      /\ p \in 1 .. 28 => KeepsOtherRegs("x86", p, p + 1, <<"ex", 0>>)
    BY X86Annotated, X86Regs DEF KeepsRegs, KeepsOtherRegs
<1>2. \A j \in 0 .. 7 : p = 29 + j => KeepsOtherRegs("x86", p, p + 1, <<"ex", j>>)
    BY X86Annotated, X86Regs DEF KeepsOtherRegs
<1>3. /\ p \notin 4 .. 11 \cup {2, 18, 21, 23, 24} => KeepsSlots("x86", p, p + 1)
      /\ p = 2 => KeepsOtherSlots("x86", p, p + 1, -1)
      /\ p = 18 => KeepsOtherSlots("x86", p, p + 1, -12)
      /\ p = 21 => KeepsOtherSlots("x86", p, p + 1, -14)
      /\ p = 23 => KeepsOtherSlots("x86", p, p + 1, -15)
    BY X86Annotated, X86Slots DEF KeepsSlots, KeepsOtherSlots
<1>4. \A j \in 0 .. 7 : p = 4 + j => KeepsOtherSlots("x86", p, p + 1, -9 + j)
    BY X86Annotated, X86Slots DEF KeepsOtherSlots
<1>5. ASSUME NEW s PROVE ~RegX86(p + 1, FLAGS, s)
    BY DEF RegX86, FLAGS
<1>6. LosesFlags("x86", p + 1)
    BY <1>5, X86Annotated DEF LosesFlags
<1> QED BY <1>1, <1>2, <1>3, <1>4, <1>6

LEMMA X86Sound ==
    ASSUME NEW p \in 1 .. 37
    PROVE  Sound("x86", p, Code["x86"][p])
<1> DEFINE i == Code["x86"][p]
<1>1. CASE p \in {1, 3, 14, 17, 19, 25, 26, 27, 34}
    <2>1. i.op = "move" /\ i.k = IF p = 1 THEN -1 ELSE IF p = 3 THEN -8 ELSE IF p <= 19 THEN -2
                                 ELSE IF p <= 26 THEN 2 ELSE 1
        BY <1>1, X86Code DEF I, Move
    <2>2. OffX86(p + 1) = OffX86(p) + i.k
        BY <1>1, <2>1 DEF OffX86
    <2>3. Goes("x86", p, p + 1, i.k)
        BY <1>1, <2>1, <2>2, X86Goes
    <2>4. MoveSound("x86", p, i)
        BY <1>1, <2>3, X86Keeps DEF MoveSound
    <2> QED BY <2>1, <2>4 DEF Sound
<1>2. CASE p = 2
    <2>1. i.op = "storeentry" /\ i.k = 0
        BY <1>2, X86Code DEF I
    <2>2. Off("x86", p) = -1 /\ Goes("x86", p, p + 1, 0)
        BY <1>2, X86Goes, X86Annotated DEF OffX86
    <2>3. WriteSound("x86", p, i.k, 0)
        BY <1>2, <2>1, <2>2, X86Keeps DEF WriteSound, Largest
    <2>4. ASSUME NEW s, SlotX86(3, -1, s) PROVE s = TheEntry
        BY <2>4 DEF SlotX86, Own, TheEntry, TheHop, TheBase, TheContext
    <2>5. StoreEntrySound("x86", p, i)
        BY <1>2, <2>1, <2>2, <2>3, <2>4, X86Annotated DEF StoreEntrySound
    <2> QED BY <2>1, <2>5 DEF Sound
<1>3. CASE p \in 4 .. 11
    <2>1. PICK j \in 0 .. 7 : p = 4 + j
        BY <1>3
    <2>2. i.op = "store" /\ i.r = <<"ex", j>> /\ i.k = j
        BY <2>1, X86Code DEF I, Store
    <2>3. Off("x86", p) = -9 /\ Goes("x86", p, p + 1, 0)
        BY <2>1, X86Goes, X86Annotated DEF OffX86
    <2>4. WriteSound("x86", p, i.k, 0)
        BY <1>3, <2>1, <2>2, <2>3, X86Keeps DEF WriteSound, Largest
    <2>5. ASSUME NEW s, SlotX86(p + 1, -9 + j, s)
          PROVE  RegX86(p, <<"ex", j>>, s)
        <3>1. PICK l \in 0 .. 7 \ {5} : -9 + j = l - 9 /\ s = Own(<<"ex", l>>)
            BY <2>1, <2>5 DEF SlotX86
        <3>2. l = j
            BY <3>1
        <3> QED BY <2>1, <3>1, <3>2 DEF RegX86
    <2>6. StoreSound("x86", p, i)
        BY <2>2, <2>3, <2>4, <2>5, X86Annotated DEF StoreSound
    <2> QED BY <2>2, <2>6 DEF Sound
<1>4. CASE p = 12
    <2>1. i.op = "push" /\ i.r = FLAGS
        BY <1>4, X86Code DEF I, Push
    <2>2. Off("x86", p) = -9 /\ Goes("x86", p, p + 1, -1)
        BY <1>4, X86Goes, X86Annotated DEF OffX86
    <2>3. ASSUME NEW s PROVE ~SlotX86(13, -10, s)
        BY DEF SlotX86, Own, TheEntry, TheHop, TheBase, TheContext
    <2>4. WriteSound("x86", p, -1, -1)
        BY <1>4, <2>2, X86Keeps DEF WriteSound, Largest, KeepsSlots, KeepsOtherSlots
    <2>5. PushSound("x86", p, i)
        BY <1>4, <2>1, <2>2, <2>3, <2>4, X86Annotated DEF PushSound
    <2> QED BY <2>1, <2>5 DEF Sound
<1>5. CASE p \in {13, 28}
    <2>1. i.op = "pop" /\ i.r = (IF p = 13 THEN <<"ex", 0>> ELSE FLAGS) /\ i.k = 1
        BY <1>5, X86Code DEF I, Pop
    <2>2. Goes("x86", p, p + 1, 1)
        BY <1>5, X86Goes DEF OffX86
    <2>3. ASSUME NEW s PROVE ~RegX86(p + 1, i.r, s)
        BY <1>5, <2>1 DEF RegX86, FLAGS
    <2>4. KeepsOtherRegs("x86", p, p + 1, i.r) /\ KeepsSlots("x86", p, p + 1)
        BY <1>5, X86Keeps DEF KeepsRegs, KeepsOtherRegs
    <2>5. PopSound("x86", p, i)
        BY <1>5, <2>1, <2>2, <2>3, <2>4, X86Annotated, X86Register DEF PopSound
    <2> QED BY <2>1, <2>5 DEF Sound
<1>6. CASE p = 15
    <2>1. i.op = "store" /\ i.r = <<"ex", 0>> /\ i.k = 1
        BY <1>6, X86Code DEF I, Store
    <2>2. Off("x86", p) = -11 /\ Goes("x86", p, p + 1, 0)
        BY <1>6, X86Goes, X86Annotated DEF OffX86
    <2>3. ASSUME NEW s PROVE ~SlotX86(16, -10, s)
        BY DEF SlotX86, Own, TheEntry, TheHop, TheBase, TheContext
    <2>4. WriteSound("x86", p, i.k, 0)
        BY <1>6, <2>1, <2>2, X86Keeps DEF WriteSound, Largest, KeepsSlots, KeepsOtherSlots
    <2>5. StoreSound("x86", p, i)
        BY <1>6, <2>1, <2>2, <2>3, <2>4, X86Annotated DEF StoreSound
    <2> QED BY <2>1, <2>5 DEF Sound
<1>7. CASE p \in {16, 22}
    <2>1. i.op = "spplus" /\ i.r = <<"ex", 0>> /\ i.k = IF p = 16 THEN 11 ELSE 2
        BY <1>7, X86Code DEF I, SpPlus
    <2>2. SetSound("x86", p, i.r)
        <3>1. Goes("x86", p, p + 1, 0)
            BY <1>7, X86Goes DEF OffX86
        <3> QED BY <1>7, <2>1, <3>1, X86Keeps, X86Register DEF SetSound
    <2>3. ASSUME NEW s, RegX86(p + 1, i.r, s)
          PROVE  s = IF p = 16 THEN TheBase ELSE TheContext
        BY <1>7, <2>1, <2>3 DEF RegX86
    <2>4. Off("x86", p) + i.k = IF p = 16 THEN 0 ELSE -13
        BY <1>7, <2>1, X86Annotated DEF OffX86
    <2>5. SpPlusSound("x86", p, i)
        BY <1>7, <2>1, <2>2, <2>3, <2>4, X86Annotated, X86Keeps DEF SpPlusSound
    <2> QED BY <2>1, <2>5 DEF Sound
<1>8. CASE p \in {18, 21, 23}
    <2>1. i.op = "store" /\ i.r = <<"ex", 0>> /\ i.k = IF p = 23 THEN 0 ELSE 1
        BY <1>8, X86Code DEF I, Store
    <2>2. Off("x86", p) + i.k = (IF p = 18 THEN -12 ELSE IF p = 21 THEN -14 ELSE -15)
        BY <1>8, <2>1, X86Annotated DEF OffX86
    <2>3. Goes("x86", p, p + 1, 0)
        BY <1>8, X86Goes DEF OffX86
    <2>4. WriteSound("x86", p, i.k, 0)
        BY <1>8, <2>1, <2>2, <2>3, X86Keeps DEF WriteSound, Largest
    <2>5. ASSUME NEW s, SlotX86(p + 1, Off("x86", p) + i.k, s) PROVE RegX86(p, <<"ex", 0>>, s)
        <3>1. s = IF p = 18 THEN TheBase ELSE IF p = 21 THEN TheEntry ELSE TheContext
            BY <1>8, <2>2, <2>5 DEF SlotX86, Own, TheEntry, TheHop, TheBase, TheContext
        <3> QED BY <1>8, <3>1 DEF RegX86
    <2>6. StoreSound("x86", p, i)
        BY <2>1, <2>4, <2>5, X86Annotated DEF StoreSound
    <2> QED BY <2>1, <2>6 DEF Sound
<1>9. CASE p = 20
    <2>1. i.op = "load" /\ i.r = <<"ex", 0>> /\ i.k = 14
        BY <1>9, X86Code DEF I, Load
    <2>2. Off("x86", p) = -15 /\ Goes("x86", p, p + 1, 0)
        BY <1>9, X86Goes, X86Annotated DEF OffX86
    <2>3. SetSound("x86", p, i.r)
        BY <1>9, <2>1, <2>2, X86Keeps, X86Register DEF SetSound
    <2>4. ASSUME NEW s, RegX86(21, <<"ex", 0>>, s) PROVE SlotX86(20, -1, s)
        <3>1. s = TheEntry
            BY <2>4 DEF RegX86
        <3> QED BY <3>1 DEF SlotX86
    <2>5. LoadSound("x86", p, i)
        BY <1>9, <2>1, <2>2, <2>3, <2>4, X86Annotated DEF LoadSound
    <2> QED BY <2>1, <2>5 DEF Sound
<1>10. CASE p = 24
    <2>1. i.op = "call"
        BY <1>10, X86Code DEF I, Call
    <2> QED BY <1>10, <2>1, X86Annotated DEF Sound, CallSound
<1>11. CASE p \in 29 .. 36 \ {34}
    <2>1. PICK j \in 0 .. 7 \ {5} : p = 29 + j
        BY <1>11
    <2>2. i.op = "pop" /\ i.r = <<"ex", j>> /\ i.k = 1
        <3>1. i = Pop(<<"ex", j>>, 1)
            BY <2>1, X86Code
        <3> QED BY <3>1 DEF I, Pop
    <2>3. Off("x86", p) = j - 9 /\ Goes("x86", p, p + 1, 1)
        BY <2>1, X86Goes, X86Annotated DEF OffX86
    <2>4. ASSUME NEW s, RegX86(p + 1, <<"ex", j>>, s)
          PROVE  SlotX86(p, j - 9, s)
        <3>1. s = Own(<<"ex", j>>)
            BY <2>1, <2>4 DEF RegX86
        <3> QED BY <2>1, <3>1 DEF SlotX86
    <2>5. KeepsOtherRegs("x86", p, p + 1, <<"ex", j>>) /\ KeepsSlots("x86", p, p + 1)
        BY <1>11, <2>1, X86Keeps
    <2>6. PopSound("x86", p, i)
        BY <2>2, <2>3, <2>4, <2>5, X86Annotated, X86Register DEF PopSound
    <2> QED BY <2>2, <2>6 DEF Sound
<1>12. CASE p = 37
    <2>1. i.op = "popbr"
        BY <1>12, X86Code DEF I
    <2>2. OffX86(37) = -1 /\ SlotX86(37, -1, TheHop)
        BY DEF OffX86, SlotX86
    <2> QED BY <1>12, <2>1, <2>2, X86Annotated DEF Sound, PopBrSound
<1> QED BY <1>1, <1>2, <1>3, <1>4, <1>5, <1>6, <1>7, <1>8, <1>9, <1>10, <1>11, <1>12

---------------------------------------------------------------------------
(* Each instruction keeps to the annotation: arm64                         *)

LEMMA Arm64Annotated ==
    ASSUME NEW a \in Arm64s, NEW n, n = Q64(a)
    PROVE  /\ \A p, r, s : RegHas(a, p, r, s) <=> Reg64(n, p, r, s)
           /\ \A p, o, s : SlotHas(a, p, o, s) <=> Slot64(n, p, o, s)
           /\ \A p : Off(a, p) = Off64(n, p) /\ (Before(a, p) <=> Turn(p) <= 49 + n)
           /\ Above(a) = 36 + 2 * n /\ Calls(a) = {49 + n} /\ Exit(a) = 9
           /\ a \notin Intel /\ a # "x64"
BY DEF RegHas, SlotHas, Off, Before, Above, Calls, Exit, Arm64s, Intel

LEMMA Arm64Regs ==
    ASSUME NEW n \in {8, 32}, NEW p \in 1 .. 82 + 2 * n, p \notin {6, 9, 49 + n},
           NEW r, NEW s, Reg64(n, p + 1, r, s), ~Reg64(n, p, r, s)
    PROVE  \/ p \in 53 + n .. 82 + n /\ r = <<"x", p - 52 - n>>
           \/ p \in 83 + n .. 82 + 2 * n /\ r = <<"q", p - 83 - n>>
           \/ p \in {47 + n, 51 + n} /\ r = <<"x", 0>>
           \/ p = 48 + n /\ r = <<"x", 1>>
           \/ p \in {3, 44 + n} /\ r = <<"x", 17>>
           \/ p = 7 /\ r = <<"x", 30>>
BY DEF Reg64, Turn, Stored64, Loaded64

LEMMA Arm64Slots ==
    ASSUME NEW n \in {8, 32}, NEW p \in 1 .. 82 + 2 * n, p \notin {6, 9, 49 + n},
           NEW o, NEW s, Slot64(n, p + 1, o, s), ~Slot64(n, p, o, s)
    PROVE  \/ p \in 12 + n .. 41 + n /\ o = -32 - 2 * n + (p - 12 - n)
           \/ p \in 11 .. 10 + n /\ o = -2 - 2 * n + 2 * (p - 11)
           \/ p = 43 + n /\ o = -33 - 2 * n
           \/ p = 2 /\ o = -1
           \/ p = 4 /\ o = -2
           \/ p = 46 + n /\ o = -35 - 2 * n
<1>1. ASSUME NEW i \in 0 .. 29 \ {17}, o = i - 33 - 2 * n, s = Own(<<"x", i>>),
             Turn(p + 1) > Stored64(n, i), Turn(p + 1) <= Loaded64(n, i)
      PROVE  p = IF i = 0 THEN 43 + n ELSE 11 + n + i
    <2>1. ~(Turn(p) > Stored64(n, i) /\ Turn(p) <= Loaded64(n, i))
        BY <1>1 DEF Slot64
    <2> QED BY <1>1, <2>1 DEF Turn, Stored64, Loaded64
<1>2. ASSUME NEW i \in 0 .. n - 1, o = 2 * i - 2 - 2 * n, s = Own(<<"q", i>>),
             Turn(p + 1) > 11 + i, Turn(p + 1) <= 83 + n + i
      PROVE  p = 11 + i
    <2>1. ~(Turn(p) > 11 + i /\ Turn(p) <= 83 + n + i)
        BY <1>2 DEF Slot64
    <2> QED BY <1>2, <2>1 DEF Turn
<1>3. CASE o = -1 /\ s = Own(<<"x", 30>>) /\ p + 1 > 2 /\ p + 1 \notin 8 .. 9
    BY <1>3 DEF Slot64
<1>4. CASE o = -2 /\ s = TheEntry /\ Turn(p + 1) \in 5 .. 49 + n
    BY <1>4 DEF Slot64, Turn
<1>5. CASE \/ o = -3 - 2 * n /\ s = TheReturn /\ p + 1 \in 42 + n .. 82 + n
           \/ o = -35 - 2 * n /\ s = TheBase /\ p + 1 \in 47 + n .. 49 + n
           \/ o = -16 - 2 * n /\ s = TheHop /\ p + 1 \in 50 + n .. 69 + n
    BY <1>5 DEF Slot64
<1> QED BY <1>1, <1>2, <1>3, <1>4, <1>5 DEF Slot64

LEMMA Arm64Goes ==
    ASSUME NEW a \in Arm64s, NEW n, n = Q64(a), n \in {8, 32},
           NEW p \in 1 .. 82 + 2 * n, p \notin {6, 9, 49 + n}, NEW k \in Int,
           Off64(n, p + 1) = Off64(n, p) + k
    PROVE  Goes(a, p, p + 1, k)
<1>1. Off64(n, p) \in -100 .. 0
    BY DEF Off64
<1>2. Turn(p + 1) <= 49 + n => Turn(p) <= 49 + n
    BY DEF Turn
<1>3. Len(Code[a]) = 83 + 2 * n
    BY Arm64Code DEF Layout64
<1> QED BY <1>1, <1>2, <1>3, Arm64Annotated, SMTT(30) DEF Goes, Largest

LEMMA Arm64Register ==
    ASSUME NEW a \in Arm64s
    PROVE  /\ \A i \in 0 .. 30 : <<"x", i>> \in Registers(a) \ {SP}
           /\ \A i \in 0 .. 31 : <<"q", i>> \in Registers(a) \ {SP}
<1>1. /\ Spans(X, 31) /\ \A j \in 1 .. 31 : X[j] = <<"x", j - 1>>
      /\ Spans(Q, 32) /\ \A j \in 1 .. 32 : Q[j] = <<"q", j - 1>>
    BY BankSpans DEF X, Q
<1>2. General[a] = X
    BY DEF General, Arm64s
<1>3. ToSet(X) \subseteq Registers(a) /\ ToSet(Q) \subseteq Registers(a)
    BY <1>2 DEF Registers
<1>4. ASSUME NEW i \in 0 .. 30 PROVE <<"x", i>> \in Registers(a) \ {SP}
    <2>1. PICK j \in 1 .. 31 : j = i + 1
        OBVIOUS
    <2>2. X[j] = <<"x", i>>
        BY <1>1, <2>1
    <2>3. <<"x", i>> \in ToSet(X)
        BY <1>1, <2>2 DEF ToSet, Spans, IsSeq
    <2> QED BY <1>3, <2>3 DEF SP
<1>5. ASSUME NEW i \in 0 .. 31 PROVE <<"q", i>> \in Registers(a) \ {SP}
    <2>1. PICK j \in 1 .. 32 : j = i + 1
        OBVIOUS
    <2>2. Q[j] = <<"q", i>>
        BY <1>1, <2>1
    <2>3. <<"q", i>> \in ToSet(Q)
        BY <1>1, <2>2 DEF ToSet, Spans, IsSeq
    <2> QED BY <1>3, <2>3 DEF SP
<1> QED BY <1>4, <1>5

LEMMA Arm64KeepsRegs ==
    ASSUME NEW a \in Arm64s, NEW n \in {8, 32}, n = Q64(a),
           NEW p \in 1 .. 82 + 2 * n, p \notin {6, 9, 49 + n},
           p \notin {3, 7, 44 + n, 47 + n, 48 + n, 51 + n} \cup 53 + n .. 82 + 2 * n
    PROVE  KeepsRegs(a, p, p + 1)
<1> SUFFICES ASSUME NEW r, NEW s, RegHas(a, p + 1, r, s), ~RegHas(a, p, r, s) PROVE FALSE
    BY DEF KeepsRegs
<1>1. Reg64(n, p + 1, r, s) /\ ~Reg64(n, p, r, s)
    BY Arm64Annotated
<1> QED BY <1>1, Arm64Regs, SMTT(30)

LEMMA Arm64KeepsOtherRegs ==
    ASSUME NEW a \in Arm64s, NEW n \in {8, 32}, n = Q64(a),
           NEW p \in 1 .. 82 + 2 * n, p \notin {6, 9, 49 + n}, NEW r0,
           \/ p \in 53 + n .. 82 + n /\ r0 = <<"x", p - 52 - n>>
           \/ p \in 83 + n .. 82 + 2 * n /\ r0 = <<"q", p - 83 - n>>
           \/ p \in {47 + n, 51 + n} /\ r0 = <<"x", 0>>
           \/ p = 48 + n /\ r0 = <<"x", 1>>
           \/ p \in {3, 5, 44 + n} /\ r0 = <<"x", 17>>
           \/ p = 7 /\ r0 = <<"x", 30>>
    PROVE  KeepsOtherRegs(a, p, p + 1, r0)
<1> SUFFICES ASSUME NEW r, NEW s, RegHas(a, p + 1, r, s), ~RegHas(a, p, r, s) PROVE r = r0
    BY DEF KeepsOtherRegs
<1>1. Reg64(n, p + 1, r, s) /\ ~Reg64(n, p, r, s)
    BY Arm64Annotated
<1>2. \/ p \in 53 + n .. 82 + n /\ r = <<"x", p - 52 - n>>
      \/ p \in 83 + n .. 82 + 2 * n /\ r = <<"q", p - 83 - n>>
      \/ p \in {47 + n, 51 + n} /\ r = <<"x", 0>>
      \/ p = 48 + n /\ r = <<"x", 1>>
      \/ p \in {3, 44 + n} /\ r = <<"x", 17>>
      \/ p = 7 /\ r = <<"x", 30>>
    BY <1>1, Arm64Regs
<1> QED BY <1>2

LEMMA Arm64KeepsSlots ==
    ASSUME NEW a \in Arm64s, NEW n \in {8, 32}, n = Q64(a),
           NEW p \in 1 .. 82 + 2 * n, p \notin {6, 9, 49 + n},
           p \notin {2, 4, 43 + n, 46 + n} \cup 12 + n .. 41 + n \cup 11 .. 10 + n
    PROVE  KeepsSlots(a, p, p + 1)
<1> SUFFICES ASSUME NEW o, NEW s, SlotHas(a, p + 1, o, s), ~SlotHas(a, p, o, s) PROVE FALSE
    BY DEF KeepsSlots
<1>1. Slot64(n, p + 1, o, s) /\ ~Slot64(n, p, o, s)
    BY Arm64Annotated
<1> QED BY <1>1, Arm64Slots

LEMMA Arm64KeepsOtherSlots ==
    ASSUME NEW a \in Arm64s, NEW n \in {8, 32}, n = Q64(a),
           NEW p \in 1 .. 82 + 2 * n, p \notin {6, 9, 49 + n}, NEW o0,
           \/ p \in 12 + n .. 41 + n /\ o0 = -32 - 2 * n + (p - 12 - n)
           \/ p \in 11 .. 10 + n /\ o0 = -2 - 2 * n + 2 * (p - 11)
           \/ p = 43 + n /\ o0 = -33 - 2 * n
           \/ p = 2 /\ o0 = -1
           \/ p = 4 /\ o0 = -2
           \/ p = 46 + n /\ o0 = -35 - 2 * n
    PROVE  KeepsOtherSlots(a, p, p + 1, o0)
<1> SUFFICES ASSUME NEW o, NEW s, SlotHas(a, p + 1, o, s), ~SlotHas(a, p, o, s) PROVE o = o0
    BY DEF KeepsOtherSlots
<1>1. Slot64(n, p + 1, o, s) /\ ~Slot64(n, p, o, s)
    BY Arm64Annotated
<1>2. \/ p \in 12 + n .. 41 + n /\ o = -32 - 2 * n + (p - 12 - n)
      \/ p \in 11 .. 10 + n /\ o = -2 - 2 * n + 2 * (p - 11)
      \/ p = 43 + n /\ o = -33 - 2 * n
      \/ p = 2 /\ o = -1
      \/ p = 4 /\ o = -2
      \/ p = 46 + n /\ o = -35 - 2 * n
    BY <1>1, Arm64Slots
<1> QED BY <1>2

LEMMA SlotX64Of ==
    ASSUME NEW n \in Int, n \in {8, 32}, NEW p \in Int, p \in 1 .. 83 + 2 * n, NEW i \in Int, i \in 0 .. 29, i # 17, NEW o \in Int, NEW s,
           Turn(p) > Stored64(n, i), Turn(p) <= Loaded64(n, i), o = i - 33 - 2 * n, s = Own(<<"x", i>>)
    PROVE  Slot64(n, p, o, s)
BY DEF Slot64

LEMMA SlotQ64Of ==
    ASSUME NEW n \in Int, n \in {8, 32}, NEW p \in Int, p \in 1 .. 83 + 2 * n, NEW i \in Int, i \in 0 .. n - 1, NEW o \in Int, NEW s,
           Turn(p) > 11 + i, Turn(p) <= 83 + n + i, o = 2 * i - 2 - 2 * n, s = Own(<<"q", i>>)
    PROVE  Slot64(n, p, o, s)
BY DEF Slot64

\* The slots of the q registers, of the x registers and below them.
LEMMA Slot64Is ==
    ASSUME NEW n \in Int, n \in {8, 32}, NEW p \in Int, p \in 1 .. 83 + 2 * n, NEW o \in Int, NEW s, Slot64(n, p, o, s)
    PROVE  /\ \A j \in Int : j \in 0 .. n - 1 /\ o = 2 * j - 2 - 2 * n => s = Own(<<"q", j>>)
           /\ \A j \in Int : j \in 0 .. 30 /\ o = j - 33 - 2 * n =>
                  \/ j \notin {17, 30} /\ s = Own(<<"x", j>>)
                  \/ j = 17 /\ s = TheHop /\ p > 49 + n
                  \/ j = 30 /\ s = TheReturn
           /\ o = -35 - 2 * n => s = TheBase
<1>1. CASE \E i \in 0 .. 29 \ {17} : o = i - 33 - 2 * n /\ s = Own(<<"x", i>>)
    BY <1>1
<1>2. CASE \E i \in 0 .. n - 1 : o = 2 * i - 2 - 2 * n /\ s = Own(<<"q", i>>)
    BY <1>2
<1>3. CASE o = -1 \/ o = -2
    BY <1>3
<1>4. CASE o = -3 - 2 * n /\ s = TheReturn
    BY <1>4
<1>5. CASE o = -35 - 2 * n /\ s = TheBase
    BY <1>5
<1>6. CASE o = -16 - 2 * n /\ s = TheHop /\ p \in 50 + n .. 69 + n
    BY <1>6
<1> QED BY <1>1, <1>2, <1>3, <1>4, <1>5, <1>6 DEF Slot64

LEMMA Arm64TrampolineSound ==
    ASSUME NEW a \in Arm64s, NEW n \in {8, 32}, n = Q64(a), NEW p \in 1 .. 9
    PROVE  Sound(a, p, Code[a][p])
<1> DEFINE i == Code[a][p]
<1>1. Layout64(Code[a], n)
    BY Arm64Code
<1>2. /\ \A q, r, s : RegHas(a, q, r, s) <=> Reg64(n, q, r, s)
      /\ \A q, o, s : SlotHas(a, q, o, s) <=> Slot64(n, q, o, s)
      /\ \A q : Off(a, q) = Off64(n, q) /\ (Before(a, q) <=> Turn(q) <= 49 + n)
      /\ Above(a) = 36 + 2 * n /\ Calls(a) = {49 + n} /\ Exit(a) = 9 /\ a \notin Intel /\ a # "x64"
    BY Arm64Annotated
<1>3. /\ Off64(n, 1) = 0 /\ Off64(n, 2) = -2 /\ Off64(n, 3) = -2 /\ Off64(n, 4) = -2 /\ Off64(n, 5) = -2
      /\ Off64(n, 6) = -2 /\ Off64(n, 7) = -2 /\ Off64(n, 8) = -2 /\ Off64(n, 9) = 0 /\ Off64(n, 10) = -2
    BY DEF Off64
<1>4. CASE p \in {1, 8}
    <2>1. i.op = "move" /\ i.k = IF p = 1 THEN -2 ELSE 2
        <3>1. i = Move(IF p = 1 THEN -2 ELSE 2)
            BY <1>1, <1>4 DEF Layout64
        <3> QED BY <3>1 DEF I, Move
    <2>2. Goes(a, p, p + 1, i.k)
        BY <1>3, <1>4, <2>1, Arm64Goes
    <2>3. MoveSound(a, p, i)
        BY <1>2, <1>4, <2>2, Arm64KeepsRegs, Arm64KeepsOtherRegs, Arm64KeepsSlots, Arm64KeepsOtherSlots DEF MoveSound, LosesFlags
    <2> QED BY <2>1, <2>3 DEF Sound
<1>5. CASE p = 2
    <2>1. i.op = "store" /\ i.r = <<"x", 30>> /\ i.k = 1
        <3>1. i = Store(<<"x", 30>>, 1)
            BY <1>1, <1>5 DEF Layout64
        <3> QED BY <3>1 DEF I, Store
    <2>2. Off(a, p) = -2 /\ Goes(a, p, p + 1, 0)
        BY <1>2, <1>3, <1>5, Arm64Goes
    <2>3. WriteSound(a, p, i.k, 0)
        BY <1>5, <2>1, <2>2, Arm64KeepsRegs, Arm64KeepsOtherRegs, Arm64KeepsSlots, Arm64KeepsOtherSlots DEF WriteSound, Largest
    <2>4. ASSUME NEW s, Slot64(n, 3, -1, s) PROVE Reg64(n, 2, <<"x", 30>>, s)
        <3>1. s = Own(<<"x", 30>>)
            BY <2>4 DEF Slot64, Turn, Stored64, Loaded64, Own, TheEntry, TheReturn, TheBase, TheHop
        <3> QED BY <3>1 DEF Reg64
    <2>5. StoreSound(a, p, i)
        BY <1>2, <1>5, <2>1, <2>2, <2>3, <2>4 DEF StoreSound
    <2> QED BY <2>1, <2>5 DEF Sound
<1>6. CASE p \in {3, 5}
    <2>1. i.op = (IF p = 3 THEN "entry" ELSE "bridge") /\ i.r = <<"x", 17>>
        <3>1. i = I(IF p = 3 THEN "entry" ELSE "bridge", <<"x", 17>>, 0)
            BY <1>1, <1>6 DEF Layout64
        <3> QED BY <3>1 DEF I
    <2>2. Goes(a, p, p + 1, 0)
        BY <1>3, <1>6, Arm64Goes
    <2>3. KeepsOtherRegs(a, p, p + 1, <<"x", 17>>) /\ KeepsSlots(a, p, p + 1)
        BY <1>6, Arm64KeepsRegs, Arm64KeepsOtherRegs, Arm64KeepsSlots, Arm64KeepsOtherSlots
    <2>4. SetSound(a, p, i.r)
        BY <2>1, <2>2, <2>3, Arm64Register DEF SetSound
    <2>5. ASSUME NEW s, Reg64(n, p + 1, <<"x", 17>>, s) PROVE p = 3 /\ s = TheEntry
        BY <1>6, <2>5 DEF Reg64, Turn
    <2> QED BY <1>2, <1>6, <2>1, <2>4, <2>5 DEF Sound, EntrySound, BridgeSound
<1>7. CASE p = 4
    <2>1. i.op = "store" /\ i.r = <<"x", 17>> /\ i.k = 0
        <3>1. i = Store(<<"x", 17>>, 0)
            BY <1>1, <1>7 DEF Layout64
        <3> QED BY <3>1 DEF I, Store
    <2>2. Off(a, p) = -2 /\ Goes(a, p, p + 1, 0)
        BY <1>2, <1>3, <1>7, Arm64Goes
    <2>3. WriteSound(a, p, i.k, 0)
        BY <1>7, <2>1, <2>2, Arm64KeepsRegs, Arm64KeepsOtherRegs, Arm64KeepsSlots, Arm64KeepsOtherSlots DEF WriteSound, Largest
    <2>4. ASSUME NEW s, Slot64(n, 5, -2, s) PROVE Reg64(n, 4, <<"x", 17>>, s)
        <3>1. s = TheEntry
            BY <2>4 DEF Slot64, Turn, Stored64, Loaded64, Own, TheEntry, TheReturn, TheBase, TheHop
        <3> QED BY <3>1 DEF Reg64
    <2>5. StoreSound(a, p, i)
        BY <1>2, <1>7, <2>1, <2>2, <2>3, <2>4 DEF StoreSound
    <2> QED BY <2>1, <2>5 DEF Sound
<1>8. CASE p = 6
    <2>1. i.op = "blr" /\ i.k = 10
        <3>1. i = I("blr", <<"x", 17>>, 10)
            BY <1>1, <1>8 DEF Layout64
        <3> QED BY <3>1 DEF I
    <2>2. Goes(a, p, 10, 0)
        <3>1. Len(Code[a]) = 83 + 2 * n
            BY <1>1 DEF Layout64
        <3>2. Turn(6) <= 49 + n
            BY DEF Turn
        <3> QED BY <1>2, <1>3, <1>8, <3>1, <3>2, SMTT(30) DEF Goes, Largest
    <2>3. ASSUME NEW r, NEW s, Reg64(n, 10, r, s)
          PROVE  IF r = <<"x", 30>> THEN s = TheReturn ELSE Reg64(n, 6, r, s)
        BY <2>3 DEF Reg64, Turn, Stored64, Loaded64
    <2>4. ASSUME NEW o, NEW s, Slot64(n, 10, o, s) PROVE Slot64(n, 6, o, s)
        BY <2>4, SMTT(30) DEF Slot64, Turn, Stored64, Loaded64
    <2>5. X[31] = <<"x", 30>>
        BY BankSpans DEF X
    <2>6. BlrSound(a, p, i)
        BY <1>2, <1>8, <2>1, <2>2, <2>3, <2>4, <2>5 DEF BlrSound, KeepsOtherRegs, KeepsSlots
    <2> QED BY <2>1, <2>6 DEF Sound
<1>9. CASE p = 7
    <2>1. i.op = "load" /\ i.r = <<"x", 30>> /\ i.k = 1
        <3>1. i = Load(<<"x", 30>>, 1)
            BY <1>1, <1>9 DEF Layout64
        <3> QED BY <3>1 DEF I, Load
    <2>2. Off(a, p) = -2 /\ Goes(a, p, p + 1, 0)
        BY <1>2, <1>3, <1>9, Arm64Goes
    <2>3. KeepsOtherRegs(a, p, p + 1, <<"x", 30>>) /\ KeepsSlots(a, p, p + 1)
        BY <1>9, Arm64KeepsRegs, Arm64KeepsOtherRegs, Arm64KeepsSlots, Arm64KeepsOtherSlots
    <2>4. SetSound(a, p, i.r)
        BY <2>1, <2>2, <2>3, Arm64Register DEF SetSound
    <2>5. ASSUME NEW s, Reg64(n, 8, <<"x", 30>>, s) PROVE Slot64(n, 7, -1, s)
        <3>1. s = Own(<<"x", 30>>)
            BY <2>5 DEF Reg64
        <3> QED BY <3>1 DEF Slot64
    <2>6. LoadSound(a, p, i)
        BY <1>2, <1>9, <2>1, <2>2, <2>4, <2>5 DEF LoadSound
    <2> QED BY <2>1, <2>6 DEF Sound
<1>10. CASE p = 9
    <2>1. i.op = "br" /\ i.r = <<"x", 17>>
        <3>1. i = I("br", <<"x", 17>>, 0)
            BY <1>1, <1>10 DEF Layout64
        <3> QED BY <3>1 DEF I
    <2>2. Reg64(n, 9, <<"x", 17>>, TheHop)
        BY DEF Reg64, Turn
    <2> QED BY <1>2, <1>3, <1>10, <2>1, <2>2 DEF Sound, BrSound
<1> QED BY <1>4, <1>5, <1>6, <1>7, <1>8, <1>9, <1>10

LEMMA Arm64BridgeSound ==
    ASSUME NEW a \in Arm64s, NEW n \in {8, 32}, n = Q64(a), NEW p \in 10 .. 83 + 2 * n
    PROVE  Sound(a, p, Code[a][p])
<1> DEFINE i == Code[a][p]
<1>1. Layout64(Code[a], n)
    BY Arm64Code
<1>2. /\ \A q, r, s : RegHas(a, q, r, s) <=> Reg64(n, q, r, s)
      /\ \A q, o, s : SlotHas(a, q, o, s) <=> Slot64(n, q, o, s)
      /\ \A q : Off(a, q) = Off64(n, q) /\ (Before(a, q) <=> Turn(q) <= 49 + n)
      /\ Above(a) = 36 + 2 * n /\ Calls(a) = {49 + n} /\ Exit(a) = 9 /\ a \notin Intel /\ a # "x64"
    BY Arm64Annotated
<1>4. CASE p \in {10, 11 + n, 42 + n, 45 + n, 50 + n, 52 + n}
    <2>1. i.op = "move" /\ i.k = IF p = 10 THEN -2 * n ELSE IF p = 11 + n THEN -30 ELSE IF p < 50 + n THEN -2 ELSE 2
        <3>1. \/ p = 10 /\ i = Move(-2 * n)
              \/ p = 11 + n /\ i = Move(-30)
              \/ p \in {42 + n, 45 + n} /\ i = Move(-2)
              \/ p \in {50 + n, 52 + n} /\ i = Move(2)
            BY <1>1, <1>4 DEF Layout64
        <3> QED BY <3>1 DEF I, Move
    <2>2. i.k \in Int /\ Off64(n, p + 1) = Off64(n, p) + i.k
        BY <1>4, <2>1 DEF Off64
    <2>3. Goes(a, p, p + 1, i.k)
        BY <1>4, <2>2, Arm64Goes
    <2>4. KeepsRegs(a, p, p + 1) /\ KeepsSlots(a, p, p + 1)
        BY <1>4, Arm64KeepsRegs, Arm64KeepsOtherRegs, Arm64KeepsSlots, Arm64KeepsOtherSlots
    <2>5. MoveSound(a, p, i)
        BY <1>2, <2>3, <2>4 DEF MoveSound, LosesFlags
    <2> QED BY <2>1, <2>5 DEF Sound
<1>5. CASE p \in 11 .. 10 + n
    <2>1. PICK j \in 0 .. n - 1 : p = 11 + j
        BY <1>5
    <2>2. i.op = "store" /\ i.r = <<"q", j>> /\ i.k = 2 * j
        <3>1. i = Store(<<"q", j>>, 2 * j)
            BY <1>1, <2>1 DEF Layout64
        <3> QED BY <3>1 DEF I, Store
    <2>3. Off64(n, p) = -2 - 2 * n /\ Off64(n, p + 1) = -2 - 2 * n
        BY <2>1 DEF Off64
    <2>4. Goes(a, p, p + 1, 0)
        BY <2>1, <2>3, Arm64Goes
    <2>5. Off(a, p) + i.k = 2 * j - 2 - 2 * n /\ i.k \in Int /\ 2 * j - 2 - 2 * n \in -100 .. -1
        BY <1>2, <2>1, <2>2, <2>3
    <2>6. KeepsRegs(a, p, p + 1) /\ KeepsOtherSlots(a, p, p + 1, 2 * j - 2 - 2 * n)
        BY <2>1, Arm64KeepsRegs, Arm64KeepsOtherRegs, Arm64KeepsSlots, Arm64KeepsOtherSlots
    <2>7. WriteSound(a, p, i.k, 0)
        BY <2>4, <2>5, <2>6 DEF WriteSound, Largest
    <2>8. ASSUME NEW s, Slot64(n, p + 1, 2 * j - 2 - 2 * n, s) PROVE Reg64(n, p, <<"q", j>>, s)
        <3>1. s = Own(<<"q", j>>)
            <4>1. p + 1 \in 1 .. 83 + 2 * n
                BY <2>1
            <4>2. PICK o \in Int : o = 2 * j - 2 - 2 * n /\ Slot64(n, p + 1, o, s)
                BY <2>8
            <4> QED BY <4>1, <4>2, Slot64Is
        <3> QED BY <2>1, <3>1 DEF Reg64, Turn
    <2>9. StoreSound(a, p, i)
        BY <1>2, <2>2, <2>5, <2>7, <2>8 DEF StoreSound
    <2> QED BY <2>2, <2>9 DEF Sound
<1>6. CASE p \in 12 + n .. 41 + n
    <2>1. PICK j \in 1 .. 30 : p = 11 + n + j
        BY <1>6
    <2>2. i.op = "store" /\ i.r = <<"x", j>> /\ i.k = j - 1
        <3>1. i = Store(<<"x", j>>, j - 1)
            BY <1>1, <2>1 DEF Layout64
        <3> QED BY <3>1 DEF I, Store
    <2>3. Off64(n, p) = -32 - 2 * n /\ Off64(n, p + 1) = -32 - 2 * n
        BY <2>1 DEF Off64
    <2>4. Goes(a, p, p + 1, 0)
        BY <2>1, <2>3, Arm64Goes
    <2>5. Off(a, p) + i.k = j - 33 - 2 * n /\ i.k \in Int /\ j - 33 - 2 * n \in -100 .. -1
        BY <1>2, <2>1, <2>2, <2>3
    <2>6. KeepsRegs(a, p, p + 1) /\ KeepsOtherSlots(a, p, p + 1, j - 33 - 2 * n)
        BY <2>1, Arm64KeepsRegs, Arm64KeepsOtherRegs, Arm64KeepsSlots, Arm64KeepsOtherSlots
    <2>7. WriteSound(a, p, i.k, 0)
        BY <2>4, <2>5, <2>6 DEF WriteSound, Largest
    <2>8. ASSUME NEW s, Slot64(n, p + 1, j - 33 - 2 * n, s) PROVE Reg64(n, p, <<"x", j>>, s)
        <3>1. \/ j # 30 /\ j # 17 /\ s = Own(<<"x", j>>)
              \/ j = 30 /\ s = TheReturn
            <4>1. p + 1 \in 1 .. 83 + 2 * n /\ ~(p + 1 > 49 + n)
                BY <2>1
            <4>2. PICK o \in Int : o = j - 33 - 2 * n /\ Slot64(n, p + 1, o, s)
                BY <2>8
            <4>3. j \in 0 .. 30
                OBVIOUS
            <4> QED BY <4>1, <4>2, <4>3, Slot64Is
        <3> QED BY <2>1, <3>1 DEF Reg64, Turn, Stored64
    <2>9. StoreSound(a, p, i)
        BY <1>2, <2>2, <2>5, <2>7, <2>8 DEF StoreSound
    <2> QED BY <2>2, <2>9 DEF Sound
<1>7. CASE p \in {43 + n, 46 + n}
    <2>1. i.op = "store" /\ i.k = 1 /\ i.r = IF p = 43 + n THEN <<"x", 0>> ELSE <<"x", 17>>
        <3>1. i = Store(IF p = 43 + n THEN <<"x", 0>> ELSE <<"x", 17>>, 1)
            BY <1>1, <1>7 DEF Layout64
        <3> QED BY <3>1 DEF I, Store
    <2>2. Off64(n, p) = (IF p = 43 + n THEN -34 ELSE -36) - 2 * n /\ Off64(n, p + 1) = Off64(n, p)
        BY <1>7 DEF Off64
    <2>3. Goes(a, p, p + 1, 0)
        BY <1>7, <2>2, Arm64Goes
    <2>4. PICK o \in -100 .. -1 : o = (IF p = 43 + n THEN -33 ELSE -35) - 2 * n /\ Off(a, p) + i.k = o
        BY <1>2, <1>7, <2>1, <2>2
    <2>5. KeepsRegs(a, p, p + 1) /\ KeepsOtherSlots(a, p, p + 1, o)
        BY <1>7, <2>4, Arm64KeepsRegs, Arm64KeepsOtherRegs, Arm64KeepsSlots, Arm64KeepsOtherSlots
    <2>6. WriteSound(a, p, i.k, 0)
        BY <2>1, <2>3, <2>4, <2>5 DEF WriteSound, Largest
    <2>7. ASSUME NEW s, Slot64(n, p + 1, o, s) PROVE Reg64(n, p, i.r, s)
        <3>1. s = IF p = 43 + n THEN Own(<<"x", 0>>) ELSE TheBase
            <4>1. p + 1 \in 1 .. 83 + 2 * n
                BY <1>7
            <4>2. CASE p = 43 + n
                <5>1. o = 0 - 33 - 2 * n /\ 0 \in 0 .. 30
                    BY <2>4, <4>2
                <5> QED BY <2>7, <4>1, <4>2, <5>1, Slot64Is
            <4>3. CASE p = 46 + n
                <5>1. o = -35 - 2 * n
                    BY <2>4, <4>3
                <5> QED BY <2>7, <4>1, <4>3, <5>1, Slot64Is
            <4> QED BY <1>7, <4>2, <4>3
        <3> QED BY <1>7, <2>1, <3>1 DEF Reg64, Turn, Stored64
    <2>8. StoreSound(a, p, i)
        BY <1>2, <2>4, <2>6, <2>7 DEF StoreSound
    <2> QED BY <2>1, <2>8 DEF Sound
<1>8. CASE p \in {44 + n, 47 + n}
    <2>1. /\ i.op = "spplus"
          /\ i.r = (IF p = 44 + n THEN <<"x", 17>> ELSE <<"x", 0>>)
          /\ i.k = IF p = 44 + n THEN 34 + 2 * n ELSE 0
        <3>1. i = IF p = 44 + n THEN SpPlus(<<"x", 17>>, 34 + 2 * n) ELSE SpPlus(<<"x", 0>>, 0)
            BY <1>1, <1>8 DEF Layout64
        <3> QED BY <3>1 DEF I, SpPlus
    <2>2. Off64(n, p) = (IF p = 44 + n THEN -34 ELSE -36) - 2 * n /\ Off64(n, p + 1) = Off64(n, p)
        BY <1>8 DEF Off64
    <2>3. Goes(a, p, p + 1, 0)
        BY <1>8, <2>2, Arm64Goes
    <2>4. KeepsOtherRegs(a, p, p + 1, i.r) /\ KeepsSlots(a, p, p + 1)
        BY <1>8, <2>1, Arm64KeepsRegs, Arm64KeepsOtherRegs, Arm64KeepsSlots, Arm64KeepsOtherSlots
    <2>5. SetSound(a, p, i.r)
        BY <2>1, <2>3, <2>4, Arm64Register DEF SetSound
    <2>6. ASSUME NEW s, Reg64(n, p + 1, i.r, s) PROVE s = IF p = 44 + n THEN TheBase ELSE TheContext
        BY <1>8, <2>1, <2>6 DEF Reg64, Turn, Stored64, Loaded64
    <2>7. i.k \in Int /\ Off(a, p) + i.k = IF p = 44 + n THEN 0 ELSE -(36 + 2 * n)
        BY <1>2, <1>8, <2>1, <2>2
    <2>8. SpPlusSound(a, p, i)
        BY <1>2, <1>8, <2>5, <2>6, <2>7 DEF SpPlusSound, LosesFlags
    <2> QED BY <2>1, <2>8 DEF Sound
<1>9. CASE p \in {48 + n, 51 + n}
    <2>1. /\ i.op = "load"
          /\ i.r = (IF p = 48 + n THEN <<"x", 1>> ELSE <<"x", 0>>)
          /\ i.k = IF p = 48 + n THEN 34 + 2 * n ELSE 1
        <3>1. i = IF p = 48 + n THEN Load(<<"x", 1>>, 34 + 2 * n) ELSE Load(<<"x", 0>>, 1)
            BY <1>1, <1>9 DEF Layout64
        <3> QED BY <3>1 DEF I, Load
    <2>2. Off64(n, p) = (IF p = 48 + n THEN -36 ELSE -34) - 2 * n /\ Off64(n, p + 1) = Off64(n, p)
        BY <1>9 DEF Off64
    <2>3. Goes(a, p, p + 1, 0)
        BY <1>9, <2>2, Arm64Goes
    <2>4. KeepsOtherRegs(a, p, p + 1, i.r) /\ KeepsSlots(a, p, p + 1)
        BY <1>9, <2>1, Arm64KeepsRegs, Arm64KeepsOtherRegs, Arm64KeepsSlots, Arm64KeepsOtherSlots
    <2>5. SetSound(a, p, i.r)
        BY <2>1, <2>3, <2>4, Arm64Register DEF SetSound
    <2>6. PICK o \in Int : o = (IF p = 48 + n THEN -2 ELSE -33 - 2 * n) /\ Off(a, p) + i.k = o
        BY <1>2, <1>9, <2>1, <2>2
    <2>7. ASSUME NEW s, Reg64(n, p + 1, i.r, s) PROVE Slot64(n, p, o, s)
        <3>1. s = IF p = 48 + n THEN TheEntry ELSE Own(<<"x", 0>>)
            BY <1>9, <2>1, <2>7 DEF Reg64, Turn, Stored64, Loaded64
        <3>2. CASE p = 48 + n
            BY <2>6, <3>1, <3>2 DEF Slot64, Turn
        <3>3. CASE p = 51 + n
            <4>1. Turn(p) > Stored64(n, 0) /\ Turn(p) <= Loaded64(n, 0)
                BY <3>3 DEF Turn, Stored64, Loaded64
            <4>2. o = 0 - 33 - 2 * n /\ s = Own(<<"x", 0>>) /\ 0 \in 0 .. 29 \ {17}
                BY <2>6, <3>1, <3>3
            <4> QED BY <4>1, <4>2, SlotX64Of
        <3> QED BY <1>9, <3>2, <3>3
    <2>8. LoadSound(a, p, i)
        BY <1>2, <1>9, <2>1, <2>5, <2>6, <2>7 DEF LoadSound
    <2> QED BY <2>1, <2>8 DEF Sound
<1>10. CASE p = 49 + n
    <2>1. i.op = "call"
        <3>1. i = Call
            BY <1>1, <1>10 DEF Layout64
        <3> QED BY <3>1 DEF I, Call
    <2> QED BY <1>2, <1>10, <2>1 DEF Sound, CallSound
<1>11. CASE p \in 53 + n .. 82 + n
    <2>1. PICK j \in 1 .. 30 : p = 52 + n + j
        BY <1>11
    <2>2. i.op = "pop" /\ i.r = <<"x", j>> /\ i.k = 1
        <3>1. i = Pop(<<"x", j>>, 1)
            BY <1>1, <2>1 DEF Layout64
        <3> QED BY <3>1 DEF I, Pop
    <2>3. Off64(n, p) = j - 33 - 2 * n /\ Off64(n, p + 1) = j - 32 - 2 * n
        BY <2>1 DEF Off64
    <2>4. Goes(a, p, p + 1, 1)
        BY <2>1, <2>3, Arm64Goes
    <2>5. KeepsOtherRegs(a, p, p + 1, <<"x", j>>) /\ KeepsSlots(a, p, p + 1)
        BY <2>1, Arm64KeepsRegs, Arm64KeepsOtherRegs, Arm64KeepsSlots, Arm64KeepsOtherSlots
    <2>6. ASSUME NEW s, Reg64(n, p + 1, <<"x", j>>, s) PROVE Slot64(n, p, j - 33 - 2 * n, s)
        <3>1. s = IF j = 17 THEN TheHop ELSE IF j = 30 THEN TheReturn ELSE Own(<<"x", j>>)
            BY <2>1, <2>6 DEF Reg64, Turn, Stored64, Loaded64
        <3>2. CASE j = 17
            BY <2>1, <3>1, <3>2 DEF Slot64
        <3>3. CASE j = 30
            BY <2>1, <3>1, <3>3 DEF Slot64
        <3>4. CASE j \notin {17, 30}
            <4>1. Turn(p) > Stored64(n, j) /\ Turn(p) <= Loaded64(n, j)
                BY <2>1 DEF Turn, Stored64, Loaded64
            <4>2. PICK o \in Int : o = j - 33 - 2 * n
                OBVIOUS
            <4>3. Slot64(n, p, o, s)
                BY <3>1, <3>4, <4>1, <4>2, SlotX64Of
            <4> QED BY <4>2, <4>3
        <3> QED BY <3>2, <3>3, <3>4
    <2>7. PopSound(a, p, i)
        <3>1. <<"x", j>> \in Registers(a) \ {SP}
            <4>1. j \in 0 .. 30
                OBVIOUS
            <4> QED BY <4>1, Arm64Register
        <3> QED BY <1>2, <2>2, <2>3, <2>4, <2>5, <2>6, <3>1 DEF PopSound
    <2> QED BY <2>2, <2>7 DEF Sound
<1>12. CASE p \in 83 + n .. 82 + 2 * n
    <2>1. PICK j \in 0 .. n - 1 : p = 83 + n + j
        <3>1. p - 83 - n \in 0 .. n - 1 /\ p = 83 + n + (p - 83 - n)
            BY <1>12
        <3> QED BY <3>1
    <2>2. i.op = "pop" /\ i.r = <<"q", j>> /\ i.k = 2
        <3>1. i = Pop(<<"q", j>>, 2)
            BY <1>1, <2>1 DEF Layout64
        <3> QED BY <3>1 DEF I, Pop
    <2>3. Off64(n, p) = 2 * j - 2 - 2 * n /\ Off64(n, p + 1) = 2 * j - 2 * n
        BY <2>1 DEF Off64
    <2>4. Goes(a, p, p + 1, 2)
        BY <2>1, <2>3, Arm64Goes
    <2>5. KeepsOtherRegs(a, p, p + 1, <<"q", j>>) /\ KeepsSlots(a, p, p + 1)
        BY <2>1, Arm64KeepsRegs, Arm64KeepsOtherRegs, Arm64KeepsSlots, Arm64KeepsOtherSlots
    <2>6. ASSUME NEW s, Reg64(n, p + 1, <<"q", j>>, s) PROVE Slot64(n, p, 2 * j - 2 - 2 * n, s)
        <3>1. s = Own(<<"q", j>>)
            BY <2>1, <2>6 DEF Reg64
        <3>2. Turn(p) > 11 + j /\ Turn(p) <= 83 + n + j
            BY <2>1 DEF Turn
        <3>3. PICK o \in Int : o = 2 * j - 2 - 2 * n
            OBVIOUS
        <3>4. Slot64(n, p, o, s)
            BY <3>1, <3>2, <3>3, SlotQ64Of
        <3> QED BY <3>3, <3>4
    <2>7. <<"q", j>> \in Registers(a) \ {SP}
        <3>1. j \in 0 .. 31
            BY <2>1
        <3> QED BY <3>1, Arm64Register
    <2>8. PopSound(a, p, i)
        BY <1>2, <2>2, <2>3, <2>4, <2>5, <2>6, <2>7 DEF PopSound
    <2> QED BY <2>2, <2>8 DEF Sound
<1>13. CASE p = 83 + 2 * n
    <2>1. i.op = "ret" /\ i.r = <<"x", 30>>
        <3>1. i = I("ret", <<"x", 30>>, 0)
            BY <1>1, <1>13 DEF Layout64
        <3> QED BY <3>1 DEF I
    <2>2. Reg64(n, p, <<"x", 30>>, TheReturn)
        BY <1>13 DEF Reg64
    <2>3. Off64(n, p) = -2 /\ Off64(n, 7) = -2 /\ ~(Turn(7) <= 49 + n)
        BY <1>13 DEF Off64, Turn
    <2>4. Goes(a, p, 7, 0)
        <3>1. Len(Code[a]) = 83 + 2 * n
            BY <1>1 DEF Layout64
        <3> QED BY <1>2, <2>3, <3>1 DEF Goes, Largest
    <2>5. ASSUME NEW r, NEW s, Reg64(n, 7, r, s) PROVE Reg64(n, p, r, s)
        BY <1>13, <2>5 DEF Reg64, Turn, Stored64, Loaded64
    <2>6. ASSUME NEW o, NEW s, Slot64(n, 7, o, s) PROVE Slot64(n, p, o, s)
        <3>1. o = -1 /\ s = Own(<<"x", 30>>)
            <4>1. Turn(7) = 207
                BY DEF Turn
            <4>2. ~\E l \in 0 .. 29 \ {17} :
                    /\ o = l - 33 - 2 * n /\ s = Own(<<"x", l>>)
                    /\ Turn(7) > Stored64(n, l) /\ Turn(7) <= Loaded64(n, l)
                <5>1. \A l \in 0 .. 29 : ~(Turn(7) <= Loaded64(n, l))
                    BY <4>1 DEF Loaded64
                <5>2. ASSUME NEW l \in 0 .. 29 \ {17}, Turn(7) <= Loaded64(n, l) PROVE FALSE
                    BY <5>1, <5>2
                <5> QED BY <5>2, Zenon
            <4>3. ~\E l \in 0 .. n - 1 :
                    /\ o = 2 * l - 2 - 2 * n /\ s = Own(<<"q", l>>)
                    /\ Turn(7) > 11 + l /\ Turn(7) <= 83 + n + l
                <5>1. \A l \in 0 .. n - 1 : ~(207 <= 83 + n + l)
                    OBVIOUS
                <5> QED BY <4>1, <5>1, Zenon
            <4>4. \/ o = -1 /\ s = Own(<<"x", 30>>)
                  \/ Turn(7) \in 5 .. 49 + n
                  \/ 7 \in 42 + n .. 82 + n \/ 7 \in 47 + n .. 49 + n \/ 7 \in 50 + n .. 69 + n
                BY <2>6, <4>2, <4>3, Zenon DEF Slot64
            <4> QED BY <4>1, <4>4
        <3> QED BY <1>13, <3>1 DEF Slot64
    <2>7. RetSound(a, p, i)
        BY <1>2, <2>1, <2>2, <2>4, <2>5, <2>6 DEF RetSound, KeepsRegs, KeepsSlots
    <2> QED BY <2>1, <2>7 DEF Sound
<1>14. \/ p \in {10, 11 + n, 42 + n, 45 + n, 50 + n, 52 + n} \/ p \in 11 .. 10 + n
       \/ p \in 12 + n .. 41 + n \/ p \in {43 + n, 46 + n} \/ p \in {44 + n, 47 + n}
       \/ p \in {48 + n, 51 + n} \/ p = 49 + n \/ p \in 53 + n .. 82 + n
       \/ p \in 83 + n .. 82 + 2 * n \/ p = 83 + 2 * n
    OBVIOUS
<1> QED BY <1>4, <1>5, <1>6, <1>7, <1>8, <1>9, <1>10, <1>11, <1>12, <1>13, <1>14

LEMMA AllSound ==
    ASSUME NEW a \in {"arm64", "arm64full", "arm", "x64", "x86"}, NEW p \in 1 .. Len(Code[a])
    PROVE  Sound(a, p, Code[a][p])
<1>1. CASE a \in Arm64s
    <2>1. PICK n \in {8, 32} : n = Q64(a) /\ Len(Code[a]) = 83 + 2 * n
        BY <1>1, Arm64Code, ZenonT(60) DEF Layout64
    <2>2. p \in 1 .. 9 \/ p \in 10 .. 83 + 2 * n
        BY <2>1
    <2> QED BY <1>1, <2>1, <2>2, Arm64TrampolineSound, Arm64BridgeSound
<1>2. CASE a = "arm"
    BY <1>2, ArmCode, ArmSound
<1>3. CASE a = "x64"
    BY <1>3, X64Code, X64Sound
<1>4. CASE a = "x86"
    BY <1>4, X86Code, X86Sound
<1> QED BY <1>1, <1>2, <1>3, <1>4 DEF Arm64s

---------------------------------------------------------------------------
(* The fields of the RegisterContext                                       *)

Known == {"arm64", "arm64full", "arm", "x64", "x86"}

\* Register r is in slot k of the RegisterContext.
Field(a, r, k) ==
    \/ a \in Arm64s /\ \E i \in 0 .. 30 : r = <<"x", i>> /\ k = 3 + i
    \/ a \in Arm64s /\ \E i \in 0 .. Q64(a) - 1 : r = <<"q", i>> /\ k = 34 + 2 * i
    \/ a = "arm" /\ \E i \in 0 .. 13 : r = <<"r", i>> /\ k = 4 + i
    \/ a = "x64" /\ \E i \in 0 .. 15 \ {5} : r = <<"rx", i>> /\ k = 2 + i
    \/ a = "x64" /\ r = FLAGS /\ k = 19
    \/ a = "x86" /\ \E i \in 0 .. 7 \ {5} : r = <<"ex", i>> /\ k = 4 + i
    \/ a = "x86" /\ r = FLAGS /\ k = 3

\* Where the address to go on at is put.
HopOff(a) == CASE a \in Arm64s -> -16 - 2 * Q64(a) [] a = "arm" -> -2 [] OTHER -> -1

LEMMA Banks ==
    /\ DOMAIN X = 1 .. 31 /\ \A i \in 1 .. 31 : X[i] = <<"x", i - 1>>
    /\ DOMAIN Q = 1 .. 32 /\ \A i \in 1 .. 32 : Q[i] = <<"q", i - 1>>
    /\ DOMAIN R = 1 .. 14 /\ \A i \in 1 .. 14 : R[i] = <<"r", i - 1>>
    /\ DOMAIN RX = 1 .. 16 /\ \A i \in 1 .. 16 : RX[i] = <<"rx", i - 1>>
    /\ DOMAIN EX = 1 .. 8 /\ \A i \in 1 .. 8 : EX[i] = <<"ex", i - 1>>
BY DEF X, Q, R, RX, EX, Bank

LEMMA BanksDiffer == R # X /\ RX # X /\ EX # X
BY Banks

LEMMA Pointers == RX[6] = <<"rx", 5>> /\ EX[6] = <<"ex", 5>>
BY Banks

\* The registers of a bank every w slots.
IsBank(b, name, n) == DOMAIN b = 1 .. n /\ \A i \in 1 .. n : b[i] = <<name, i - 1>>
OfBank(f, name, n, first, w) == \E i \in 0 .. n - 1 : f = <<<<name, i>>, first + w * i>>
InSlots(b, first, w) == {<<b[i], first + w * (i - 1)>> : i \in DOMAIN b}

LEMMA SlotsOfBank ==
    ASSUME NEW name, NEW n \in Nat, NEW b, IsBank(b, name, n),
           NEW first \in Int, NEW w \in {1, 2}, NEW f
    PROVE  f \in InSlots(b, first, w) <=> OfBank(f, name, n, first, w)
<1>1. ASSUME NEW i \in 1 .. n, f = <<b[i], first + w * (i - 1)>>
      PROVE  \E j \in 0 .. n - 1 : f = <<<<name, j>>, first + w * j>>
    <2>1. PICK j \in 0 .. n - 1 : j = i - 1
        OBVIOUS
    <2> QED BY <1>1, <2>1 DEF IsBank
<1>2. ASSUME NEW j \in 0 .. n - 1, f = <<<<name, j>>, first + w * j>>
      PROVE  \E i \in 1 .. n : f = <<b[i], first + w * (i - 1)>>
    <2>1. PICK i \in 1 .. n : i - 1 = j
        <3>1. j + 1 \in 1 .. n /\ (j + 1) - 1 = j
            OBVIOUS
        <3> QED BY <3>1
    <2>2. b[i] = <<name, j>>
        BY <2>1 DEF IsBank
    <2> QED BY <1>2, <2>1, <2>2
<1> QED BY <1>1, <1>2 DEF InSlots, OfBank, IsBank

LEMMA ArmFields ==
    ASSUME NEW f
    PROVE  f \in RegisterContext("arm") <=> \E r, k : f = <<r, k>> /\ Field("arm", r, k)
<1> DEFINE S == InSlots(R, 4, 1)
<1>1. RegisterContext("arm") = {g \in S : g[1] \notin {RX[6], EX[6]}}
    BY BanksDiffer DEF InSlots, RegisterContext, General, GeneralAt
<1>2. f \in S <=> OfBank(f, "r", 14, 4, 1)
    <2>1. 14 \in Nat /\ 4 \in Int /\ 1 \in {1, 2}
        OBVIOUS
    <2>2. IsBank(R, "r", 14)
        BY Banks DEF IsBank
    <2> QED BY <2>1, <2>2, SlotsOfBank
<1> HIDE DEF S
<1>3. f \in S => f[1] \notin {RX[6], EX[6]}
    BY <1>2, Pointers DEF OfBank
<1>4. (\E r, k : f = <<r, k>> /\ Field("arm", r, k)) <=> \E i \in 0 .. 13 : f = <<<<"r", i>>, 4 + i>>
    BY DEF Field, Arm64s
<1> QED BY <1>1, <1>2, <1>3, <1>4 DEF OfBank

LEMMA X64Fields ==
    ASSUME NEW f
    PROVE  f \in RegisterContext("x64") <=> \E r, k : f = <<r, k>> /\ Field("x64", r, k)
<1> DEFINE S == InSlots(RX, 2, 1)
<1>1. RegisterContext("x64") = {g \in S : g[1] \notin {RX[6], EX[6]}} \cup {<<FLAGS, 19>>}
    BY BanksDiffer DEF InSlots, RegisterContext, General, GeneralAt
<1>2. f \in S <=> OfBank(f, "rx", 16, 2, 1)
    <2>1. 16 \in Nat /\ 2 \in Int /\ 1 \in {1, 2}
        OBVIOUS
    <2>2. IsBank(RX, "rx", 16)
        BY Banks DEF IsBank
    <2> QED BY <2>1, <2>2, SlotsOfBank
<1> HIDE DEF S
<1>3. f \in S /\ f[1] \notin {RX[6], EX[6]} <=> \E i \in 0 .. 15 \ {5} : f = <<<<"rx", i>>, 2 + i>>
    BY <1>2, Pointers DEF OfBank
<1>4. (\E r, k : f = <<r, k>> /\ Field("x64", r, k))
        <=> f = <<FLAGS, 19>> \/ \E i \in 0 .. 15 \ {5} : f = <<<<"rx", i>>, 2 + i>>
    BY DEF Field, Arm64s
<1> QED BY <1>1, <1>3, <1>4

LEMMA X86Fields ==
    ASSUME NEW f
    PROVE  f \in RegisterContext("x86") <=> \E r, k : f = <<r, k>> /\ Field("x86", r, k)
<1> DEFINE S == InSlots(EX, 4, 1)
<1>1. RegisterContext("x86") = {g \in S : g[1] \notin {RX[6], EX[6]}} \cup {<<FLAGS, 3>>}
    BY BanksDiffer DEF InSlots, RegisterContext, General, GeneralAt
<1>2. f \in S <=> OfBank(f, "ex", 8, 4, 1)
    <2>1. 8 \in Nat /\ 4 \in Int /\ 1 \in {1, 2}
        OBVIOUS
    <2>2. IsBank(EX, "ex", 8)
        BY Banks DEF IsBank
    <2> QED BY <2>1, <2>2, SlotsOfBank
<1> HIDE DEF S
<1>3. f \in S /\ f[1] \notin {RX[6], EX[6]} <=> \E i \in 0 .. 7 \ {5} : f = <<<<"ex", i>>, 4 + i>>
    BY <1>2, Pointers DEF OfBank
<1>4. (\E r, k : f = <<r, k>> /\ Field("x86", r, k))
        <=> f = <<FLAGS, 3>> \/ \E i \in 0 .. 7 \ {5} : f = <<<<"ex", i>>, 4 + i>>
    BY DEF Field, Arm64s
<1> QED BY <1>1, <1>3, <1>4

LEMMA Arm64Fields ==
    ASSUME NEW a \in Arm64s, NEW f
    PROVE  f \in RegisterContext(a) <=> \E r, k : f = <<r, k>> /\ Field(a, r, k)
<1> DEFINE S == InSlots(X, 3, 1)
           T == InSlots(FirstQ(a), 34, 2)
<1>1. RegisterContext(a) = {g \in S : g[1] \notin {RX[6], EX[6]}} \cup T
    BY DEF InSlots, RegisterContext, General, GeneralAt, Arm64s
<1>2. f \in S <=> OfBank(f, "x", 31, 3, 1)
    <2>1. 31 \in Nat /\ 3 \in Int /\ 1 \in {1, 2}
        OBVIOUS
    <2>2. IsBank(X, "x", 31)
        BY Banks DEF IsBank
    <2> QED BY <2>1, <2>2, SlotsOfBank
<1>3. PICK n \in Nat : n = Q64(a) /\ DOMAIN FirstQ(a) = 1 .. n /\ \A i \in 1 .. n : FirstQ(a)[i] = <<"q", i - 1>>
    BY FirstQSpans DEF Spans, IsSeq
<1>4. f \in T <=> OfBank(f, "q", n, 34, 2)
    <2>1. 34 \in Int /\ 2 \in {1, 2}
        OBVIOUS
    <2>2. IsBank(FirstQ(a), "q", n)
        BY <1>3 DEF IsBank
    <2> QED BY <2>1, <2>2, SlotsOfBank
<1> HIDE DEF S, T
<1>5. f \in S /\ f[1] \notin {RX[6], EX[6]} <=> \E i \in 0 .. 30 : f = <<<<"x", i>>, 3 + i>>
    BY <1>2, Pointers DEF OfBank
<1>6. (\E r, k : f = <<r, k>> /\ Field(a, r, k))
        <=> (\E i \in 0 .. 30 : f = <<<<"x", i>>, 3 + i>>) \/ \E i \in 0 .. n - 1 : f = <<<<"q", i>>, 34 + 2 * i>>
    BY <1>3 DEF Field, Arm64s
<1> QED BY <1>1, <1>4, <1>5, <1>6 DEF OfBank

\* The fields of the context.
LEMMA Fields ==
    ASSUME NEW a \in Known
    PROVE  /\ \A f \in RegisterContext(a) : \E r, k : f = <<r, k>> /\ Field(a, r, k)
           /\ \A r, k : <<r, k>> \in RegisterContext(a) <=> Field(a, r, k)
<1>1. \A f : f \in RegisterContext(a) <=> \E r, k : f = <<r, k>> /\ Field(a, r, k)
    BY ArmFields, X64Fields, X86Fields, Arm64Fields DEF Known, Arm64s
<1>2. ASSUME NEW r, NEW k PROVE <<r, k>> \in RegisterContext(a) <=> Field(a, r, k)
    <2>1. PICK f : f = <<r, k>>
        OBVIOUS
    <2>2. (\E r1, k1 : f = <<r1, k1>> /\ Field(a, r1, k1)) <=> Field(a, r, k)
        BY <2>1
    <2> QED BY <1>1, <2>1, <2>2
<1> QED BY <1>1, <1>2

---------------------------------------------------------------------------
(* The annotation at the start, at the calls of the handler and at the end *)

LEMMA HeldRegisters ==
    ASSUME NEW a \in Known, NEW p, NEW r, NEW s, RegHas(a, p, r, s)
    PROVE  r \in Registers(a) /\ r \notin {SP, RX[6], EX[6]}
<1>1. CASE a \in Arm64s
    <2>1. PICK n \in {8, 32} : n = Q64(a)
        BY <1>1, Arm64Code
    <2>2. Reg64(n, p, r, s)
        BY <1>1, <2>1, Arm64Annotated
    <2>3. (\E i \in 0 .. 30 : r = <<"x", i>>) \/ \E i \in 0 .. 31 : r = <<"q", i>>
        <3>1. \/ \E i \in 0 .. 29 \ {17} : r = <<"x", i>>
              \/ \E i \in 0 .. n - 1 : r = <<"q", i>>
              \/ r = <<"x", 30>> \/ r = <<"x", 17>> \/ r = <<"x", 0>> \/ r = <<"x", 1>>
            BY <2>2, Zenon DEF Reg64
        <3> QED BY <3>1
    <2>4. ASSUME NEW i \in 0 .. 30, r = <<"x", i>> PROVE r \in Registers(a) /\ r \notin {SP, RX[6], EX[6]}
        <3>1. <<"x", i>> \in Registers(a) \ {SP}
            BY <1>1, Arm64Register
        <3>2. <<"x", i>> \notin {<<"rx", 5>>, <<"ex", 5>>}
            OBVIOUS
        <3> QED BY <2>4, <3>1, <3>2, Pointers
    <2>5. ASSUME NEW i \in 0 .. 31, r = <<"q", i>> PROVE r \in Registers(a) /\ r \notin {SP, RX[6], EX[6]}
        <3>1. <<"q", i>> \in Registers(a) \ {SP}
            BY <1>1, Arm64Register
        <3>2. <<"q", i>> \notin {<<"rx", 5>>, <<"ex", 5>>}
            OBVIOUS
        <3> QED BY <2>5, <3>1, <3>2, Pointers
    <2> QED BY <2>3, <2>4, <2>5
<1>2. CASE a = "arm"
    <2>1. \E i \in 0 .. 13 : r = <<"r", i>>
        BY <1>2, ArmAnnotated DEF RegArm
    <2> QED BY <1>2, <2>1, ArmRegister, Pointers
<1>3. CASE a = "x64"
    <2>1. r = FLAGS \/ \E i \in 0 .. 15 \ {5} : r = <<"rx", i>>
        BY <1>3, X64Annotated DEF RegX64
    <2> QED BY <1>3, <2>1, X64Register, Pointers DEF FLAGS
<1>4. CASE a = "x86"
    <2>1. \E i \in 0 .. 7 \ {5} : r = <<"ex", i>>
        BY <1>4, X86Annotated DEF RegX86
    <2> QED BY <1>4, <2>1, X86Register, Pointers
<1> QED BY <1>1, <1>2, <1>3, <1>4 DEF Known, Arm64s

LEMMA Off64Range ==
    ASSUME NEW n \in {8, 32}, NEW p \in 1 .. 83 + 2 * n
    PROVE  Off64(n, p) \in -100 .. 0
BY DEF Off64

LEMMA OffRange ==
    ASSUME NEW a \in Known, NEW p \in 1 .. Len(Code[a])
    PROVE  Off(a, p) \in -100 .. 0
<1>1. CASE a \in Arm64s
    <2>1. PICK n \in {8, 32} : n = Q64(a) /\ Len(Code[a]) = 83 + 2 * n
        BY <1>1, Arm64Code, ZenonT(60) DEF Layout64
    <2>2. Off64(n, p) \in -100 .. 0
        <3>1. p \in Int /\ p \in 1 .. 83 + 2 * n
            BY <2>1
        <3> QED BY <3>1, Off64Range
    <2> QED BY <1>1, <2>1, <2>2, Arm64Annotated
<1>2. CASE a = "arm"
    BY <1>2, ArmAnnotated, ArmCode DEF OffArm
<1>3. CASE a = "x64"
    BY <1>3, X64Annotated, X64Code DEF OffX64
<1>4. CASE a = "x86"
    BY <1>4, X86Annotated, X86Code DEF OffX86
<1> QED BY <1>1, <1>2, <1>3, <1>4 DEF Known, Arm64s

LEMMA AtStart ==
    ASSUME NEW a \in Known
    PROVE  /\ 1 \in 1 .. Len(Code[a]) /\ Off(a, 1) = 0
           /\ \A r, s : RegHas(a, 1, r, s) => s = Own(r)
           /\ \A o, s : ~SlotHas(a, 1, o, s)
<1>1. CASE a \in Arm64s
    <2>1. PICK n \in {8, 32} : n = Q64(a) /\ Len(Code[a]) = 83 + 2 * n
        BY <1>1, Arm64Code, ZenonT(60) DEF Layout64
    <2>2. Off64(n, 1) = 0
        BY <2>1 DEF Off64
    <2>3. ASSUME NEW r, NEW s, Reg64(n, 1, r, s) PROVE s = Own(r)
        BY <2>3 DEF Reg64, Turn
    <2>4. ASSUME NEW o, NEW s, Slot64(n, 1, o, s) PROVE FALSE
        <3>1. Turn(1) = 1
            BY DEF Turn
        <3>2. \A i \in 0 .. 29 \ {17} : ~(Turn(1) > Stored64(n, i))
            BY <3>1 DEF Stored64
        <3>3. \A i \in 0 .. n - 1 : ~(Turn(1) > 11 + i)
            BY <3>1
        <3>4. \/ 1 > 2 \/ Turn(1) \in 5 .. 49 + n \/ 1 \in 42 + n .. 82 + n
              \/ 1 \in 47 + n .. 49 + n \/ 1 \in 50 + n .. 69 + n
            BY <2>4, <3>2, <3>3, Zenon DEF Slot64
        <3> QED BY <3>1, <3>4
    <2> QED BY <1>1, <2>1, <2>2, <2>3, <2>4, Arm64Annotated
<1>2. CASE a = "arm"
    <2>1. OffArm(1) = 0
        BY DEF OffArm
    <2>2. ASSUME NEW r, NEW s, RegArm(1, r, s) PROVE s = Own(r)
        BY <2>2 DEF RegArm
    <2>3. ASSUME NEW o, NEW s, SlotArm(1, o, s) PROVE FALSE
        <3>1. (\E i \in 0 .. 13 \ {12} : 1 > 3 + i) \/ 1 \in 20 .. 23 \/ 1 \in 24 .. 38
            BY <2>3, Zenon DEF SlotArm
        <3> QED BY <3>1
    <2> QED BY <1>2, <2>1, <2>2, <2>3, ArmAnnotated, ArmCode
<1>3. CASE a = "x64"
    <2>1. OffX64(1) = 0
        BY DEF OffX64
    <2>2. ASSUME NEW r, NEW s, RegX64(1, r, s) PROVE s = Own(r)
        BY <2>2 DEF RegX64, Before64
    <2>3. ASSUME NEW o, NEW s, SlotX64(1, o, s) PROVE FALSE
        <3>1. (\E i \in 0 .. 15 \ {5} : 1 > 5 + i) \/ 1 \in 3 .. 51 \/ 1 > 1 \/ ~Before64(1) \/ 1 > 23
            BY <2>3, Zenon DEF SlotX64
        <3> QED BY <3>1 DEF Before64
    <2> QED BY <1>3, <2>1, <2>2, <2>3, X64Annotated, X64Code
<1>4. CASE a = "x86"
    <2>1. OffX86(1) = 0
        BY DEF OffX86
    <2>2. ASSUME NEW r, NEW s, RegX86(1, r, s) PROVE s = Own(r)
        BY <2>2 DEF RegX86
    <2>3. ASSUME NEW o, NEW s, SlotX86(1, o, s) PROVE FALSE
        <3>1. \/ \E i \in 0 .. 7 \ {5} : 1 > 4 + i
              \/ 1 \in 3 .. 24 \/ 1 > 24 \/ 1 \in 19 .. 24 \/ 1 \in 22 .. 24 \/ 1 = 24
            BY <2>3, Zenon DEF SlotX86
        <3> QED BY <3>1
    <2> QED BY <1>4, <2>1, <2>2, <2>3, X86Annotated, X86Code
<1> QED BY <1>1, <1>2, <1>3, <1>4 DEF Known, Arm64s

\* What the handler is called with.
Called(a, p) ==
    /\ p \in 1 .. Len(Code[a]) /\ p + 1 \in 1 .. Len(Code[a])
    /\ Off(a, p) < -3 /\ Off(a, p + 1) = Off(a, p)
    /\ \A r, s : ~RegHas(a, p + 1, r, s)
    /\ Before(a, p) /\ ~Before(a, p + 1)
    /\ a = "x64" => p + 1 \notin {28, 30, 31}
    /\ SlotHas(a, p, SpAt[a] - Above(a), TheBase)
    /\ \A o, s : SlotHas(a, p, o, s) => o \in Off(a, p) .. -1

Arguments(a, p) ==
    /\ a \in Arm64s => RegHas(a, p, X[1], TheContext) /\ RegHas(a, p, X[2], TheEntry)
    /\ a = "arm" => RegHas(a, p, R[1], TheContext) /\ RegHas(a, p, R[2], TheEntry)
    /\ a = "x64" => RegHas(a, p, RX[7], TheContext) /\ RegHas(a, p, RX[8], TheEntry)
    /\ a = "x86" => SlotHas(a, p, Off(a, p), TheContext) /\ SlotHas(a, p, Off(a, p) + 1, TheEntry)

\* What the slots of the context hold before the handler is called, and what
\* the slots hold when it has returned.
Shown(a, p) == \A r, k : Field(a, r, k) /\ r \notin Used[a] => SlotHas(a, p, k - Above(a), Own(r))
HeldSo(a, j, s) ==
    \/ \E r : /\ s = Own(r)
              /\ \A q : Field(a, q, j) /\ q \notin Used[a] => q = r
              /\ \A k : Field(a, r, k) /\ r \notin Used[a] => k = j
    \/ s = TheReturn /\ \A q : Field(a, q, j) => q \in Used[a]
Returned(a, p) ==
    \A o, s : SlotHas(a, p + 1, o, s) =>
        /\ o \in Off(a, p) + (IF a = "x86" THEN 2 ELSE 0) .. -1
        /\ \/ s = TheHop /\ o = HopOff(a)
           \/ /\ o # HopOff(a) /\ SlotHas(a, p, o, s)
              /\ HeldSo(a, o + Above(a), s)

LEMMA ArmCalled == Called("arm", 23) /\ Arguments("arm", 23) /\ Shown("arm", 23) /\ Returned("arm", 23)
<1>1. Called("arm", 23)
    <2>1. OffArm(23) = -18 /\ OffArm(24) = -18
        BY DEF OffArm
    <2>2. \A r, s : ~RegArm(24, r, s)
        BY DEF RegArm
    <2>3. SlotArm(23, -15, TheBase)
        BY DEF SlotArm
    <2>4. ASSUME NEW o, NEW s, SlotArm(23, o, s) PROVE o \in -18 .. -1
        <3>1. (\E i \in 0 .. 13 \ {12} : o = i - 14) \/ o = -15 \/ o = -2
            BY <2>4, Zenon DEF SlotArm
        <3> QED BY <3>1
    <2> QED BY <2>1, <2>2, <2>3, <2>4, ArmAnnotated, ArmCode DEF Called, SpAt
<1>2. Arguments("arm", 23)
    <2>1. RegArm(23, <<"r", 0>>, TheContext) /\ RegArm(23, <<"r", 1>>, TheEntry)
        BY DEF RegArm
    <2>2. R[1] = <<"r", 0>> /\ R[2] = <<"r", 1>>
        BY Banks
    <2> QED BY <2>1, <2>2, ArmAnnotated DEF Arguments, Arm64s
<1>3. Shown("arm", 23)
    <2>1. ASSUME NEW r, NEW k, Field("arm", r, k), r \notin Used["arm"] PROVE SlotArm(23, k - 18, Own(r))
        <3>1. PICK i \in 0 .. 13 : r = <<"r", i>> /\ k = 4 + i
            BY <2>1 DEF Field, Arm64s
        <3>2. i # 12
            BY <2>1, <3>1, Banks DEF Used
        <3> QED BY <3>1, <3>2 DEF SlotArm
    <2> QED BY <2>1, ArmAnnotated DEF Shown
<1>4. Returned("arm", 23)
    <2>1. ASSUME NEW o, NEW s, SlotArm(24, o, s), ~(s = TheHop /\ o = -2)
          PROVE  /\ SlotArm(23, o, s) /\ o # -2 /\ o \in -18 .. -1
                 /\ HeldSo("arm", o + 18, s)
        <3>1. PICK i \in 0 .. 13 \ {12} : o = i - 14 /\ s = Own(<<"r", i>>)
            BY <2>1 DEF SlotArm
        <3>2. SlotArm(23, o, s) /\ o # -2 /\ o \in -18 .. -1
            BY <3>1 DEF SlotArm
        <3>3. \A q : Field("arm", q, o + 18) => q = <<"r", i>>
            BY <3>1 DEF Field, Arm64s
        <3>4. \A k : Field("arm", <<"r", i>>, k) => k = o + 18
            BY <3>1 DEF Field, Arm64s
        <3> QED BY <3>1, <3>2, <3>3, <3>4 DEF HeldSo
    <2>2. OffArm(23) = -18 /\ HopOff("arm") = -2
        BY DEF OffArm, HopOff, Arm64s
    <2> QED BY <2>1, <2>2, ArmAnnotated DEF Returned
<1> QED BY <1>1, <1>2, <1>3, <1>4

LEMMA X64Called ==
    ASSUME NEW p \in {28, 31}
    PROVE  Called("x64", p) /\ Arguments("x64", p) /\ Shown("x64", p) /\ Returned("x64", p)
<1>1. Called("x64", p)
    <2>1. OffX64(p) \in {-21, -22} /\ OffX64(p + 1) = OffX64(p)
        BY DEF OffX64
    <2>2. ASSUME NEW r, NEW s, RegX64(p + 1, r, s) PROVE FALSE
        BY <2>2 DEF RegX64, Before64
    <2>3. SlotX64(p, -20, TheBase)
        BY DEF SlotX64, Before64
    <2>4. ASSUME NEW o, NEW s, SlotX64(p, o, s) PROVE o \in OffX64(p) .. -1
        <3>1. (\E i \in 0 .. 15 \ {5} : o = i - 19) \/ o = -2 \/ o = -1 \/ o = -20
            BY <2>4, Zenon DEF SlotX64
        <3> QED BY <2>1, <3>1
    <2>5. Before64(p) /\ ~Before64(p + 1)
        BY DEF Before64
    <2> QED BY <2>1, <2>2, <2>3, <2>4, <2>5, X64Annotated, X64Code DEF Called, SpAt
<1>2. Arguments("x64", p)
    <2>1. RegX64(p, <<"rx", 6>>, TheContext) /\ RegX64(p, <<"rx", 7>>, TheEntry)
        BY DEF RegX64, Before64
    <2>2. RX[7] = <<"rx", 6>> /\ RX[8] = <<"rx", 7>>
        BY Banks
    <2> QED BY <2>1, <2>2, X64Annotated DEF Arguments, Arm64s
<1>3. Shown("x64", p)
    <2>1. ASSUME NEW r, NEW k, Field("x64", r, k) PROVE SlotX64(p, k - 21, Own(r))
        <3>1. CASE r = FLAGS /\ k = 19
            BY <3>1 DEF SlotX64
        <3>2. CASE \E i \in 0 .. 15 \ {5} : r = <<"rx", i>> /\ k = 2 + i
            BY <3>2 DEF SlotX64
        <3> QED BY <2>1, <3>1, <3>2 DEF Field, Arm64s
    <2> QED BY <2>1, X64Annotated DEF Shown
<1>4. Returned("x64", p)
    <2>1. ASSUME NEW o, NEW s, SlotX64(p + 1, o, s), ~(s = TheHop /\ o = -1)
          PROVE  /\ SlotX64(p, o, s) /\ o # -1 /\ o \in OffX64(p) .. -1
                 /\ HeldSo("x64", o + 21, s)
        <3>0. OffX64(p) \in {-21, -22}
            BY DEF OffX64
        <3>1. CASE o = -2 /\ s = Own(FLAGS)
            <4>1. SlotX64(p, o, s)
                BY <3>1 DEF SlotX64
            <4>2. \A q : Field("x64", q, o + 21) => q = FLAGS
                BY <3>1 DEF Field, Arm64s
            <4>3. \A k : Field("x64", FLAGS, k) => k = o + 21
                BY <3>1 DEF Field, Arm64s, FLAGS
            <4> QED BY <3>0, <3>1, <4>1, <4>2, <4>3 DEF HeldSo
        <3>2. CASE \E i \in 0 .. 15 \ {5} : o = i - 19 /\ s = Own(<<"rx", i>>)
            <4>1. PICK i \in 0 .. 15 \ {5} : o = i - 19 /\ s = Own(<<"rx", i>>)
                BY <3>2
            <4>2. SlotX64(p, o, s)
                BY <4>1 DEF SlotX64
            <4>3. \A q : Field("x64", q, o + 21) => q = <<"rx", i>>
                BY <4>1 DEF Field, Arm64s
            <4>4. \A k : Field("x64", <<"rx", i>>, k) => k = o + 21
                BY <4>1 DEF Field, Arm64s, FLAGS
            <4> QED BY <3>0, <4>1, <4>2, <4>3, <4>4 DEF HeldSo
        <3>3. ~Before64(p + 1)
            BY DEF Before64
        <3> QED BY <2>1, <3>1, <3>2, <3>3 DEF SlotX64
    <2>2. HopOff("x64") = -1
        BY DEF HopOff, Arm64s
    <2>3. -1 \in OffX64(p) .. -1 /\ OffX64(p) + 0 = OffX64(p)
        BY DEF OffX64
    <2>4. ASSUME NEW o, NEW s, SlotX64(p + 1, o, s)
          PROVE  /\ o \in OffX64(p) .. -1
                 /\ (s = TheHop /\ o = -1) \/ (o # -1 /\ SlotX64(p, o, s) /\ HeldSo("x64", o + 21, s))
        BY <2>1, <2>3, <2>4
    <2> QED BY <2>2, <2>3, <2>4, X64Annotated DEF Returned
<1> QED BY <1>1, <1>2, <1>3, <1>4

LEMMA X86Called == Called("x86", 24) /\ Arguments("x86", 24) /\ Shown("x86", 24) /\ Returned("x86", 24)
<1>1. Called("x86", 24)
    <2>1. OffX86(24) = -15 /\ OffX86(25) = -15
        BY DEF OffX86
    <2>2. ASSUME NEW r, NEW s, RegX86(25, r, s) PROVE FALSE
        BY <2>2 DEF RegX86
    <2>3. SlotX86(24, -12, TheBase)
        BY DEF SlotX86
    <2>4. ASSUME NEW o, NEW s, SlotX86(24, o, s) PROVE o \in -15 .. -1
        <3>1. (\E i \in 0 .. 7 \ {5} : o = i - 9) \/ o = -1 \/ o = -12 \/ o = -14 \/ o = -15
            BY <2>4, Zenon DEF SlotX86
        <3> QED BY <3>1
    <2> QED BY <2>1, <2>2, <2>3, <2>4, X86Annotated, X86Code DEF Called, SpAt
<1>2. Arguments("x86", 24)
    <2>1. SlotX86(24, -15, TheContext) /\ SlotX86(24, -14, TheEntry) /\ OffX86(24) = -15
        BY DEF SlotX86, OffX86
    <2> QED BY <2>1, X86Annotated DEF Arguments, Arm64s
<1>3. Shown("x86", 24)
    <2>1. ASSUME NEW r, NEW k, Field("x86", r, k), r \notin Used["x86"] PROVE SlotX86(24, k - 13, Own(r))
        <3>1. PICK i \in 0 .. 7 \ {5} : r = <<"ex", i>> /\ k = 4 + i
            BY <2>1 DEF Field, Arm64s, Used
        <3> QED BY <3>1 DEF SlotX86
    <2> QED BY <2>1, X86Annotated DEF Shown
<1>4. Returned("x86", 24)
    <2>1. ASSUME NEW o, NEW s, SlotX86(25, o, s), ~(s = TheHop /\ o = -1)
          PROVE  /\ SlotX86(24, o, s) /\ o # -1 /\ o \in -13 .. -1
                 /\ HeldSo("x86", o + 13, s)
        <3>1. PICK i \in 0 .. 7 \ {5} : o = i - 9 /\ s = Own(<<"ex", i>>)
            BY <2>1 DEF SlotX86
        <3>2. SlotX86(24, o, s) /\ o # -1 /\ o \in -13 .. -1
            BY <3>1 DEF SlotX86
        <3>3. \A q : Field("x86", q, o + 13) => q = <<"ex", i>>
            BY <3>1 DEF Field, Arm64s
        <3>4. \A k : Field("x86", <<"ex", i>>, k) => k = o + 13
            BY <3>1 DEF Field, Arm64s, FLAGS
        <3> QED BY <3>1, <3>2, <3>3, <3>4 DEF HeldSo
    <2>2. OffX86(24) = -15 /\ HopOff("x86") = -1
        BY DEF OffX86, HopOff, Arm64s
    <2> QED BY <2>1, <2>2, X86Annotated DEF Returned
<1> QED BY <1>1, <1>2, <1>3, <1>4

LEMMA Hop64 ==
    ASSUME NEW a \in Arm64s, NEW n, n = Q64(a)
    PROVE  HopOff(a) = -16 - 2 * n
<1>1. a # "arm"
    BY DEF Arm64s
<1> QED BY <1>1, Zenon DEF HopOff

LEMMA Used64 ==
    ASSUME NEW a \in Arm64s
    PROVE  Used[a] = {<<"x", 17>>, <<"x", 30>>}
<1>1. X[18] = <<"x", 17>> /\ X[31] = <<"x", 30>>
    BY Banks
<1> QED BY <1>1 DEF Used, Arm64s

LEMMA Arm64Called ==
    ASSUME NEW a \in Arm64s, NEW n \in Int, n \in {8, 32}, n = Q64(a)
    PROVE  Called(a, 49 + n) /\ Arguments(a, 49 + n) /\ Shown(a, 49 + n) /\ Returned(a, 49 + n)
<1> DEFINE p == 49 + n
<1>a. /\ \A q, r, s : RegHas(a, q, r, s) <=> Reg64(n, q, r, s)
      /\ \A q, o, s : SlotHas(a, q, o, s) <=> Slot64(n, q, o, s)
      /\ \A q : Off(a, q) = Off64(n, q) /\ (Before(a, q) <=> Turn(q) <= 49 + n)
      /\ Above(a) = 36 + 2 * n /\ a # "x64" /\ a # "x86" /\ a # "arm"
    BY Arm64Annotated DEF Arm64s
<1>b. Off64(n, p) = -36 - 2 * n /\ Off64(n, p + 1) = -36 - 2 * n
    BY DEF Off64
<1>c. Turn(p) = p /\ Turn(p + 1) = p + 1
    BY DEF Turn
<1>1. Called(a, p)
    <2>2. ASSUME NEW r, NEW s, Reg64(n, p + 1, r, s) PROVE FALSE
        <3>1. \A i \in 0 .. 29 \ {17} : ~(p + 1 <= Stored64(n, i)) /\ ~(p + 1 > Loaded64(n, i))
            BY DEF Stored64, Loaded64
        <3>2. \A i \in 0 .. n - 1 : ~(p + 1 <= 11 + i) /\ ~(p + 1 > 83 + n + i)
            OBVIOUS
        <3>3. \/ p + 1 \in 1 .. 2 \/ p + 1 \in 8 .. 9 \/ p + 1 \in 10 .. 41 + n \/ p + 1 \in 83 + n .. 83 + 2 * n
              \/ p + 1 = 4 \/ p + 1 \in 45 + n .. 46 + n \/ p + 1 \in 48 + n .. 49 + n \/ p + 1 = 49 + n \/ p + 1 > 69 + n
            <4>1. PICK q : q = p + 1 /\ Turn(q) = q /\ Reg64(n, q, r, s)
                BY <1>c, <2>2
            <4>2. \A i \in 0 .. 29 \ {17} : ~(q <= Stored64(n, i) \/ q > Loaded64(n, i))
                BY <3>1, <4>1
            <4>3. \A i \in 0 .. n - 1 : ~(q <= 11 + i \/ q > 83 + n + i)
                BY <3>2, <4>1
            <4>4. \/ q \in 1 .. 2 \/ q \in 8 .. 9 \/ q \in 10 .. 41 + n \/ q \in 83 + n .. 83 + 2 * n
                  \/ q = 4 \/ q \in 45 + n .. 46 + n \/ q \in 48 + n .. 49 + n \/ q = 49 + n \/ q > 69 + n
                <5>1. \/ \E i \in 0 .. 29 \ {17} : Turn(q) <= Stored64(n, i) \/ Turn(q) > Loaded64(n, i)
                      \/ \E i \in 0 .. n - 1 : Turn(q) <= 11 + i \/ Turn(q) > 83 + n + i
                      \/ q \in 1 .. 2 \/ q \in 8 .. 9 \/ q \in 10 .. 41 + n \/ q \in 83 + n .. 83 + 2 * n
                      \/ q = 4 \/ q \in 45 + n .. 46 + n \/ q \in 48 + n .. 49 + n \/ q = 49 + n \/ Turn(q) > 69 + n
                    <6>1. Reg64(n, q, r, s)
                        BY <4>1
                    <6> QED BY <6>1, Zenon DEF Reg64
                <5> QED BY <4>1, <4>2, <4>3, <5>1
            <4> QED BY <4>1, <4>4, Zenon
        <3> QED BY <3>3
    <2>3. Slot64(n, p, -35 - 2 * n, TheBase)
        BY DEF Slot64
    <2>4. ASSUME NEW o, NEW s, Slot64(n, p, o, s) PROVE o \in -36 - 2 * n .. -1
        <3>1. \/ \E i \in 0 .. 29 \ {17} : o = i - 33 - 2 * n
              \/ \E i \in 0 .. n - 1 : o = 2 * i - 2 - 2 * n
              \/ o = -1 \/ o = -2 \/ o = -3 - 2 * n \/ o = -35 - 2 * n \/ o = -16 - 2 * n
            BY <2>4, Zenon DEF Slot64
        <3> QED BY <3>1
    <2>5. Len(Code[a]) = 83 + 2 * n
        BY Arm64Code DEF Layout64
    <2>6. SpAt[a] = 1
        BY DEF SpAt, Arm64s
    <2>7. SlotHas(a, p, SpAt[a] - Above(a), TheBase)
        BY <1>a, <2>3, <2>6
    <2>8. p \in 1 .. Len(Code[a]) /\ p + 1 \in 1 .. Len(Code[a])
        BY <2>5
    <2>9. Off(a, p) = -36 - 2 * n /\ Off(a, p + 1) = -36 - 2 * n /\ Before(a, p) /\ ~Before(a, p + 1)
        BY <1>a, <1>b, <1>c
    <2>10. -36 - 2 * n < -3
        OBVIOUS
    <2>11. \A r, s : ~RegHas(a, p + 1, r, s)
        BY <1>a, <2>2
    <2>12. \A o, s : SlotHas(a, p, o, s) => o \in Off(a, p) .. -1
        BY <1>a, <2>4, <2>9
    <2> HIDE DEF p
    <2> QED BY <1>a, <2>7, <2>8, <2>9, <2>10, <2>11, <2>12 DEF Called
<1>2. Arguments(a, p)
    <2>1. Reg64(n, p, <<"x", 0>>, TheContext) /\ Reg64(n, p, <<"x", 1>>, TheEntry)
        BY DEF Reg64
    <2>2. X[1] = <<"x", 0>> /\ X[2] = <<"x", 1>>
        BY Banks
    <2> QED BY <1>a, <2>1, <2>2 DEF Arguments
<1>3. Shown(a, p)
    <2>1. ASSUME NEW r, NEW k, Field(a, r, k), r \notin Used[a] PROVE Slot64(n, p, k - (36 + 2 * n), Own(r))
        <3>1. CASE \E i \in 0 .. 30 : r = <<"x", i>> /\ k = 3 + i
            <4>1. PICK i \in 0 .. 30 : r = <<"x", i>> /\ k = 3 + i
                BY <3>1
            <4>2. i # 17 /\ i # 30
                BY <2>1, <4>1, Used64
            <4>3. Turn(p) > Stored64(n, i) /\ Turn(p) <= Loaded64(n, i)
                BY <1>c, <4>1 DEF Stored64, Loaded64
            <4>4. PICK o \in Int : o = i - 33 - 2 * n
                OBVIOUS
            <4>5. Slot64(n, p, o, Own(r))
                BY <4>1, <4>2, <4>3, <4>4, SlotX64Of
            <4>6. k - (36 + 2 * n) = o
                BY <4>1, <4>4
            <4> QED BY <4>5, <4>6
        <3>2. CASE \E i \in 0 .. n - 1 : r = <<"q", i>> /\ k = 34 + 2 * i
            <4>1. PICK i \in 0 .. n - 1 : r = <<"q", i>> /\ k = 34 + 2 * i
                BY <3>2
            <4>3. Turn(p) > 11 + i /\ Turn(p) <= 83 + n + i
                BY <1>c, <4>1
            <4>4. PICK o \in Int : o = 2 * i - 2 - 2 * n
                OBVIOUS
            <4>5. Slot64(n, p, o, Own(r))
                BY <4>1, <4>3, <4>4, SlotQ64Of
            <4>6. k - (36 + 2 * n) = o
                BY <4>1, <4>4
            <4> QED BY <4>5, <4>6
        <3> QED BY <1>a, <2>1, <3>1, <3>2 DEF Field
    <2> QED BY <1>a, <2>1 DEF Shown
<1>4. Returned(a, p)
    <2>1. ASSUME NEW o, NEW s, Slot64(n, p + 1, o, s), ~(s = TheHop /\ o = -16 - 2 * n)
          PROVE  /\ Slot64(n, p, o, s) /\ o # -16 - 2 * n /\ o \in -36 - 2 * n .. -1
                 /\ HeldSo(a, o + (36 + 2 * n), s)
        <3>1. ASSUME NEW i \in 0 .. 29 \ {17}, o = i - 33 - 2 * n, s = Own(<<"x", i>>)
              PROVE  /\ Slot64(n, p, o, s) /\ o # -16 - 2 * n /\ o \in -36 - 2 * n .. -1
                     /\ \A q : Field(a, q, o + (36 + 2 * n)) => q = <<"x", i>>
                     /\ \A k : Field(a, <<"x", i>>, k) => k = o + (36 + 2 * n)
            <4>1. Turn(p) > Stored64(n, i) /\ Turn(p) <= Loaded64(n, i)
                BY <1>c DEF Stored64, Loaded64
            <4>2. Slot64(n, p, o, s)
                BY <3>1, <4>1, SlotX64Of
            <4>3. o + (36 + 2 * n) = 3 + i /\ o # -16 - 2 * n /\ o \in -36 - 2 * n .. -1
                BY <3>1
            <4>4. \A q : Field(a, q, 3 + i) => q = <<"x", i>>
                BY <1>a DEF Field
            <4>5. \A k : Field(a, <<"x", i>>, k) => k = 3 + i
                BY <1>a DEF Field
            <4> QED BY <4>2, <4>3, <4>4, <4>5
        <3>2. ASSUME NEW i \in 0 .. n - 1, o = 2 * i - 2 - 2 * n, s = Own(<<"q", i>>)
              PROVE  /\ Slot64(n, p, o, s) /\ o # -16 - 2 * n /\ o \in -36 - 2 * n .. -1
                     /\ \A q : Field(a, q, o + (36 + 2 * n)) => q = <<"q", i>>
                     /\ \A k : Field(a, <<"q", i>>, k) => k = o + (36 + 2 * n)
            <4>1. Turn(p) > 11 + i /\ Turn(p) <= 83 + n + i
                BY <1>c
            <4>2. Slot64(n, p, o, s)
                BY <3>2, <4>1, SlotQ64Of
            <4>3. o + (36 + 2 * n) = 34 + 2 * i /\ o # -16 - 2 * n /\ o \in -36 - 2 * n .. -1
                BY <3>2
            <4>4. \A q : Field(a, q, 34 + 2 * i) => q = <<"q", i>>
                BY <1>a DEF Field
            <4>5. \A k : Field(a, <<"q", i>>, k) => k = 34 + 2 * i
                BY <1>a DEF Field
            <4> QED BY <4>2, <4>3, <4>4, <4>5
        <3>3. ASSUME o = -1, s = Own(<<"x", 30>>)
              PROVE  /\ Slot64(n, p, o, s) /\ o # -16 - 2 * n /\ o \in -36 - 2 * n .. -1
                     /\ \A q : ~Field(a, q, o + (36 + 2 * n))
                     /\ <<"x", 30>> \in Used[a]
            <4>1. Slot64(n, p, o, s)
                BY <3>3 DEF Slot64
            <4>2. o + (36 + 2 * n) = 35 + 2 * n /\ o # -16 - 2 * n /\ o \in -36 - 2 * n .. -1
                BY <3>3
            <4>3. \A q : ~Field(a, q, 35 + 2 * n)
                BY <1>a DEF Field
            <4>4. <<"x", 30>> \in Used[a]
                BY Used64
            <4> QED BY <4>1, <4>2, <4>3, <4>4
        <3>4. ASSUME o = -3 - 2 * n, s = TheReturn
              PROVE  /\ Slot64(n, p, o, s) /\ o # -16 - 2 * n /\ o \in -36 - 2 * n .. -1
                     /\ \A q : Field(a, q, o + (36 + 2 * n)) => q \in Used[a]
            <4>1. Slot64(n, p, o, s)
                BY <3>4 DEF Slot64
            <4>2. o + (36 + 2 * n) = 33 /\ o # -16 - 2 * n /\ o \in -36 - 2 * n .. -1
                BY <3>4
            <4>3. \A q : Field(a, q, 33) => q = <<"x", 30>>
                BY <1>a DEF Field
            <4> QED BY <4>1, <4>2, <4>3, Used64
        <3>5. \/ \E i \in 0 .. 29 \ {17} : o = i - 33 - 2 * n /\ s = Own(<<"x", i>>)
              \/ \E i \in 0 .. n - 1 : o = 2 * i - 2 - 2 * n /\ s = Own(<<"q", i>>)
              \/ o = -1 /\ s = Own(<<"x", 30>>)
              \/ o = -3 - 2 * n /\ s = TheReturn
            <4>1. PICK q : q = p + 1 /\ Turn(q) = q /\ Slot64(n, q, o, s)
                BY <1>c, <2>1
            <4>2. ~(q \in 5 .. 49 + n) /\ ~(q \in 47 + n .. 49 + n)
                BY <4>1
            <4> QED BY <2>1, <4>1, <4>2, Zenon DEF Slot64
        <3>6. CASE \E i \in 0 .. 29 \ {17} : o = i - 33 - 2 * n /\ s = Own(<<"x", i>>)
            BY <3>1, <3>6 DEF HeldSo
        <3>7. CASE \E i \in 0 .. n - 1 : o = 2 * i - 2 - 2 * n /\ s = Own(<<"q", i>>)
            BY <3>2, <3>7 DEF HeldSo
        <3>8. CASE o = -1 /\ s = Own(<<"x", 30>>)
            BY <3>3, <3>8 DEF HeldSo
        <3>9. CASE o = -3 - 2 * n /\ s = TheReturn
            BY <3>4, <3>9 DEF HeldSo
        <3> QED BY <3>5, <3>6, <3>7, <3>8, <3>9
    <2>2. HopOff(a) = -16 - 2 * n
        BY Hop64
    <2>3. PICK l, h \in Int : l = -36 - 2 * n /\ h = -16 - 2 * n
        OBVIOUS
    <2>4. h \in l .. -1 /\ l + 0 = l
        BY <2>3
    <2>5. ASSUME NEW o, NEW s, Slot64(n, p + 1, o, s)
          PROVE  /\ o \in l .. -1
                 /\ (s = TheHop /\ o = h) \/ (o # h /\ Slot64(n, p, o, s) /\ HeldSo(a, o + (36 + 2 * n), s))
        BY <2>1, <2>3, <2>4, <2>5
    <2>6. Off(a, p) = l /\ HopOff(a) = h /\ Above(a) = 36 + 2 * n
        BY <1>a, <1>b, <2>2, <2>3
    <2> HIDE DEF p
    <2> QED BY <1>a, <2>4, <2>5, <2>6 DEF Returned
<1> QED BY <1>1, <1>2, <1>3, <1>4

LEMMA AtCalls ==
    ASSUME NEW a \in Known, NEW p \in Calls(a)
    PROVE  Called(a, p) /\ Arguments(a, p) /\ Shown(a, p) /\ Returned(a, p)
<1>1. CASE a \in Arm64s
    <2>1. PICK n \in Int : n \in {8, 32} /\ n = Q64(a)
        BY <1>1, Arm64Code
    <2>2. p = 49 + n
        BY <1>1, <2>1, Arm64Annotated
    <2> QED BY <1>1, <2>1, <2>2, Arm64Called
<1>2. CASE a = "arm"
    BY <1>2, ArmAnnotated, ArmCalled
<1>3. CASE a = "x64"
    BY <1>3, X64Annotated, X64Called
<1>4. CASE a = "x86"
    BY <1>4, X86Annotated, X86Called
<1> QED BY <1>1, <1>2, <1>3, <1>4 DEF Known, Arm64s

LEMMA FieldRange ==
    ASSUME NEW a \in Known, NEW r, NEW k, Field(a, r, k)
    PROVE  k \in 0 .. Above(a) - 1
<1>1. CASE a \in Arm64s
    <2>1. PICK n \in Int : n \in {8, 32} /\ n = Q64(a) /\ Above(a) = 36 + 2 * n
        BY <1>1, Arm64Code, Arm64Annotated
    <2>2. (\E i \in 0 .. 30 : k = 3 + i) \/ \E i \in 0 .. n - 1 : k = 34 + 2 * i
        BY <1>1, <2>1 DEF Field, Arm64s
    <2> QED BY <2>1, <2>2
<1>2. CASE a = "arm"
    BY <1>2, ArmAnnotated DEF Field, Arm64s
<1>3. CASE a = "x64"
    <2>1. k = 19 \/ \E i \in 0 .. 15 : k = 2 + i
        BY <1>3 DEF Field, Arm64s
    <2> QED BY <1>3, <2>1, X64Annotated
<1>4. CASE a = "x86"
    <2>1. k = 3 \/ \E i \in 0 .. 7 : k = 4 + i
        BY <1>4 DEF Field, Arm64s
    <2> QED BY <1>4, <2>1, X86Annotated
<1> QED BY <1>1, <1>2, <1>3, <1>4 DEF Known, Arm64s

LEMMA HopField ==
    ASSUME NEW a \in Known, a \notin Intel
    PROVE  \A k : Field(a, NextHop[a], k) <=> k = HopOff(a) + Above(a)
<1>1. CASE a \in Arm64s
    <2>1. PICK n \in Int : n \in {8, 32} /\ n = Q64(a) /\ Above(a) = 36 + 2 * n
        BY <1>1, Arm64Code, Arm64Annotated
    <2>2. NextHop[a] = <<"x", 17>>
        <3>1. X[18] = <<"x", 17>>
            BY Banks
        <3> QED BY <1>1, <3>1 DEF NextHop, Arm64s
    <2>3. HopOff(a) = -16 - 2 * n
        BY <1>1, <2>1, Hop64
    <2>4. HopOff(a) + Above(a) = 20
        BY <2>1, <2>3
    <2>5. ASSUME NEW k PROVE Field(a, <<"x", 17>>, k) <=> k = 20
        BY <1>1 DEF Field, Arm64s
    <2> QED BY <2>2, <2>4, <2>5
<1>2. CASE a = "arm"
    <2>1. NextHop["arm"] = <<"r", 12>>
        BY Banks DEF NextHop
    <2>2. HopOff("arm") + Above("arm") = 16
        BY ArmAnnotated DEF HopOff, Arm64s
    <2>3. ASSUME NEW k PROVE Field("arm", <<"r", 12>>, k) <=> k = 16
        BY DEF Field, Arm64s
    <2> QED BY <1>2, <2>1, <2>2, <2>3
<1> QED BY <1>1, <1>2 DEF Known, Arm64s, Intel

LEMMA HopRange ==
    ASSUME NEW a \in Known
    PROVE  HopOff(a) \in -100 .. -1 /\ Above(a) \in 0 .. 100 /\ (a \in Intel => HopOff(a) = -1)
<1>1. CASE a \in Arm64s
    <2>1. PICK n \in Int : n \in {8, 32} /\ n = Q64(a) /\ Above(a) = 36 + 2 * n
        BY <1>1, Arm64Code, Arm64Annotated
    <2>2. HopOff(a) = -16 - 2 * n
        BY <1>1, <2>1, Hop64
    <2>3. a \notin Intel
        BY <1>1 DEF Arm64s, Intel
    <2> QED BY <2>1, <2>2, <2>3
<1>2. CASE a \notin Arm64s
    BY <1>2 DEF HopOff, Above, Known, Arm64s, Intel
<1> QED BY <1>1, <1>2

\* At the end the registers hold what the program had in them.
LEMMA AtExit ==
    ASSUME NEW a \in Known, NEW r,
           ((\E k : Field(a, r, k)) /\ r \notin Used[a]) \/ (r \in Used[a] /\ r = X[31])
    PROVE  RegHas(a, Exit(a), r, Own(r))
<1>0. X[31] = <<"x", 30>>
    BY Banks
<1>1. CASE a \in Arm64s
    <2>1. PICK n \in {8, 32} : n = Q64(a)
        BY <1>1, Arm64Code
    <2>2. Turn(9) = 209
        BY DEF Turn
    <2>3. ASSUME NEW i \in 0 .. 29 \ {17}, r = <<"x", i>> PROVE Reg64(n, 9, r, Own(r))
        <3>1. Turn(9) > Loaded64(n, i)
            BY <2>2 DEF Loaded64
        <3> QED BY <2>3, <3>1 DEF Reg64
    <2>4. ASSUME NEW i \in 0 .. n - 1, r = <<"q", i>> PROVE Reg64(n, 9, r, Own(r))
        <3>1. Turn(9) > 83 + n + i
            BY <2>2
        <3> QED BY <2>4, <3>1 DEF Reg64
    <2>5. ASSUME r = <<"x", 30>> PROVE Reg64(n, 9, r, Own(r))
        BY <2>5 DEF Reg64
    <2>6. \/ \E i \in 0 .. 29 \ {17} : r = <<"x", i>>
          \/ \E i \in 0 .. n - 1 : r = <<"q", i>>
          \/ r = <<"x", 30>>
        <3>1. Used[a] = {<<"x", 17>>, <<"x", 30>>}
            BY <1>1, Used64
        <3>2. CASE \E k : Field(a, r, k) /\ r \notin Used[a]
            <4>1. (\E i \in 0 .. 30 : r = <<"x", i>>) \/ \E i \in 0 .. n - 1 : r = <<"q", i>>
                BY <1>1, <2>1, <3>2 DEF Field, Arm64s
            <4>2. r # <<"x", 17>>
                BY <3>1, <3>2
            <4> QED BY <4>1, <4>2
        <3> QED BY <1>0, <3>2
    <2> QED BY <1>1, <2>1, <2>3, <2>4, <2>5, <2>6, Arm64Annotated
<1>2. CASE a = "arm"
    <2>1. Used[a] = {<<"r", 12>>}
        <3>1. R[13] = <<"r", 12>>
            BY Banks
        <3> QED BY <1>2, <3>1 DEF Used
    <2>2. \E i \in 0 .. 13 \ {12} : r = <<"r", i>>
        BY <1>0, <1>2, <2>1 DEF Field, Arm64s
    <2>3. RegArm(40, r, Own(r))
        BY <2>2 DEF RegArm
    <2> QED BY <1>2, <2>3, ArmAnnotated
<1>3. CASE a = "x64"
    <2>1. r = FLAGS \/ \E i \in 0 .. 15 \ {5} : r = <<"rx", i>>
        BY <1>3 DEF Field, Arm64s, Used
    <2>2. RegX64(52, r, Own(r))
        BY <2>1 DEF RegX64
    <2> QED BY <1>3, <2>2, X64Annotated
<1>4. CASE a = "x86"
    <2>1. \E i \in 0 .. 7 \ {5} : r = <<"ex", i>>
        BY <1>0, <1>4 DEF Field, Arm64s, Used, FLAGS
    <2>2. RegX86(37, r, Own(r))
        BY <2>1 DEF RegX86
    <2> QED BY <1>4, <2>2, X86Annotated
<1> QED BY <1>1, <1>2, <1>3, <1>4 DEF Known, Arm64s

---------------------------------------------------------------------------
(* Steps of the processor in terms of the annotation                       *)

LEMMA KnownArch == ASSUME arch \in Archs PROVE arch \in Known
BY BridgeAssumption DEF Known

LEMMA ShareFits ==
    ASSUME NEW d \in 0 .. MaxDepth
    PROVE  Share \in Nat /\ d * Share \in Nat /\ d * Share <= StackSlots - Frame
<1>1. PICK k \in Nat, m \in Nat \ {0}, h \in Nat : k = StackSlots - Frame /\ m = MaxDepth /\ h = k \div m
    <2>1. PICK k \in Nat, m \in Nat \ {0} : k = StackSlots - Frame /\ m = MaxDepth
        BY BridgeAssumption, RoomAssumption DEF Frame
    <2>2. k \div m \in Nat
        OBVIOUS
    <2> QED BY <2>1, <2>2
<1>2. Share = h
    BY <1>1 DEF Share
<1>3. m * h <= k
    BY <1>1
<1>4. d * h <= m * h
    BY <1>1
<1>5. d * h \in Nat
    BY <1>1
<1> QED BY <1>1, <1>2, <1>3, <1>4, <1>5

LEMMA HeldSlots ==
    ASSUME NEW a \in Known, NEW p, NEW o, NEW s, SlotHas(a, p, o, s)
    PROVE  o \in Int
<1>1. CASE a \in Arm64s
    <2>1. PICK n \in Int : n = Q64(a)
        BY <1>1, Arm64Code
    <2>2. Slot64(n, p, o, s)
        BY <1>1, <2>1, Arm64Annotated
    <2>3. \/ \E i \in 0 .. 29 \ {17} : o = i - 33 - 2 * n
          \/ \E i \in 0 .. n - 1 : o = 2 * i - 2 - 2 * n
          \/ o = -1 \/ o = -2 \/ o = -3 - 2 * n \/ o = -35 - 2 * n \/ o = -16 - 2 * n
        BY <2>2, Zenon DEF Slot64
    <2> QED BY <2>3
<1>2. CASE a = "arm"
    <2>1. (\E i \in 0 .. 13 \ {12} : o = i - 14) \/ o = -15 \/ o = -2
        BY <1>2, ArmAnnotated, ZenonT(60) DEF SlotArm
    <2> QED BY <2>1
<1>3. CASE a = "x64"
    <2>0. SlotX64(p, o, s)
        BY <1>3, X64Annotated
    <2>1. (\E i \in 0 .. 15 \ {5} : o = i - 19) \/ o = -2 \/ o = -1 \/ o = -20
        BY <2>0, Zenon DEF SlotX64
    <2> QED BY <2>1
<1>4. CASE a = "x86"
    <2>0. SlotX86(p, o, s)
        BY <1>4, X86Annotated
    <2>1. (\E i \in 0 .. 7 \ {5} : o = i - 9) \/ o = -1 \/ o = -12 \/ o = -14 \/ o = -15
        BY <2>0, Zenon DEF SlotX86
    <2> QED BY <2>1
<1> QED BY <1>1, <1>2, <1>3, <1>4 DEF Known, Arm64s

\* What the invariant says of the last activation.
LEMMA LastActivation ==
    ASSUME IInv, Depth > 0
    PROVE  /\ arch \in Known /\ Depth \in 1 .. MaxDepth /\ EntryOK(arch, act, Depth)
           /\ act.base \in Int /\ act.base <= -4 /\ act.base >= 100 - StackSlots /\ StackSlots \in Nat
           /\ \A o \in -100 .. -1 : act.base + o \in Slots
           /\ \A c \in 1 .. Depth - 1 : act.base <= acts[c].sp
           /\ \A c \in 1 .. Depth - 1 : EntryOK(arch, acts[c], c) /\ Suspended(arch, mem, acts[c], c)
<1>1. arch \in Known
    BY KnownArch DEF IInv
<1>2. Depth \in 1 .. MaxDepth /\ Depth \in 0 .. MaxDepth /\ Depth \in 1 .. Depth
    BY DEF IInv
<1>3. EntryOK(arch, act, Depth) /\ \A c \in 1 .. Depth - 1 : act.base <= acts[c].sp
    BY <1>2 DEF IInv, act, Nested
<1>4. act.base \in Int /\ act.base <= -4 /\ act.base >= 100 - 4 - Depth * Share
    BY <1>3 DEF EntryOK, Largest, Frame
<1>5. Depth * Share \in Nat /\ Depth * Share <= StackSlots - 4 /\ StackSlots \in Nat
    BY <1>2, ShareFits, BridgeAssumption DEF Frame
<1>6. act.base >= 100 - StackSlots
    BY <1>4, <1>5
<1>7. \A o \in -100 .. -1 : act.base + o \in Slots
    BY <1>4, <1>5, <1>6 DEF Slots
<1>8. \A c \in 1 .. Depth - 1 : EntryOK(arch, acts[c], c) /\ Suspended(arch, mem, acts[c], c)
    BY <1>2 DEF IInv, InHandler
<1> QED BY <1>1, <1>2, <1>3, <1>4, <1>5, <1>6, <1>7, <1>8

\* What is on the stack above the last activation is not touched.
LEMMA StaysSuspended ==
    ASSUME IInv, Depth > 0, NEW m, \A s \in Slots : s >= act.base => m[s] = mem[s],
           NEW c \in 1 .. Depth - 1
    PROVE  Suspended(arch, m, acts[c], c)
<1> DEFINE e == acts[c]
<1>1. /\ arch \in Known /\ act.base \in Int /\ act.base >= 100 - StackSlots /\ StackSlots \in Nat
      /\ act.base <= e.sp /\ EntryOK(arch, e, c) /\ Suspended(arch, mem, e, c)
    BY LastActivation
<1>2. e.at \in Calls(arch) /\ e.sp = e.base + Off(arch, e.at) /\ SlotsMeet(arch, e.at, mem, e, c)
    BY <1>1 DEF Suspended
<1>3. e.base \in Int /\ e.base <= -4
    BY <1>1 DEF EntryOK, Frame
<1>4. Called(arch, e.at)
    BY <1>1, <1>2, AtCalls
<1>5. Off(arch, e.at) \in -100 .. 0
    BY <1>1, <1>4, OffRange DEF Called
<1>6. ASSUME NEW o, NEW s, SlotHas(arch, e.at, o, s)
      PROVE  m[e.base + o] = Value(arch, s, e, c)
    <2>1. o \in Off(arch, e.at) .. -1
        BY <1>4, <1>6 DEF Called
    <2>2. e.base + o \in Slots /\ e.base + o >= act.base
        BY <1>1, <1>2, <1>3, <1>5, <2>1 DEF Slots
    <2>3. m[e.base + o] = mem[e.base + o]
        BY <2>2
    <2> QED BY <1>2, <1>6, <2>3 DEF SlotsMeet
<1>7. SlotsMeet(arch, e.at, m, e, c)
    BY <1>6 DEF SlotsMeet
<1> QED BY <1>1, <1>7 DEF Suspended

\* A step of the code that leaves the registers f and the stack m as the
\* annotation of the next instruction, q, says.
LEMMA CodeStep ==
    ASSUME IInv, Depth > 0, arch' = arch, acts' = acts, NEW q \in 1 .. Len(Code[arch]), pc' = q,
           DOMAIN regs' = Registers(arch), DOMAIN mem' = Slots,
           \A s \in Slots : s >= act.base => mem'[s] = mem[s],
           Meets(arch, q, regs', mem', act, Depth)
    PROVE  IInv'
<1>1. Depth' = Depth /\ act' = act
    BY DEF Depth, act
<1>2. q \in Int /\ q > 0
    OBVIOUS
<1>3. InHandler' = 1 .. Depth - 1
    BY <1>1, <1>2 DEF InHandler, InC, IInv
<1>4. \A d \in InHandler' : Suspended(arch, mem', acts[d], d)
    BY <1>3, StaysSuspended
<1>5. (\A d \in 1 .. Depth : EntryOK(arch, acts[d], d))'
    BY <1>1 DEF IInv
<1>6. Nested'
    BY <1>1 DEF IInv, Nested
<1>7. (arch \in Archs /\ Depth \in 0 .. MaxDepth /\ acts = [d \in 1 .. Depth |-> acts[d]])'
    BY <1>1 DEF IInv
<1>8. pc' \in {Gone} \cup 0 .. Len(Code[arch]) /\ pc' # InC /\ pc' # Gone
    BY <1>2 DEF InC, Gone
<1> QED BY <1>1, <1>4, <1>5, <1>6, <1>7, <1>8 DEF IInv

LEMMA StackPointer ==
    ASSUME IInv, pc > 0
    PROVE  /\ arch \in Known /\ Depth > 0 /\ pc \in 1 .. Len(Code[arch])
           /\ Meets(arch, pc, regs, mem, act, Depth) /\ sp = act.base + Off(arch, pc)
           /\ act.base \in Int /\ Off(arch, pc) \in -100 .. 0
<1>1. arch \in Known /\ Depth > 0 /\ Meets(arch, pc, regs, mem, act, Depth)
    BY KnownArch DEF IInv, InC
<1>2. pc \in 1 .. Len(Code[arch])
    BY DEF IInv, Gone
<1>3. Off(arch, pc) \in -100 .. 0
    BY <1>1, <1>2, OffRange
<1>4. sp = act.base + Off(arch, pc)
    BY <1>1 DEF sp, Meets, Address
<1>5. act.base \in Int
    BY <1>1, LastActivation
<1> QED BY <1>1, <1>2, <1>3, <1>4, <1>5

LEMMA PathOf ==
    ASSUME NEW a, NEW p, NEW q, NEW k, NEW e, Goes(a, p, q, k), PathMeets(a, p, e)
    PROVE  PathMeets(a, q, e)
BY DEF Goes, PathMeets

LEMMA RegistersStep ==
    ASSUME IInv, pc > 0, NEW q, NEW k, Goes(arch, pc, q, k), pc' = q, UNCHANGED <<arch, mem, acts>>,
           DOMAIN regs' = Registers(arch), regs'[SP] = Address(sp + k),
           KeepsSlots(arch, pc, q), RegsMeet(arch, q, regs', act, Depth)
    PROVE  IInv'
<1>1. /\ arch \in Known /\ Depth > 0 /\ Meets(arch, pc, regs, mem, act, Depth)
      /\ sp = act.base + Off(arch, pc) /\ act.base \in Int /\ Off(arch, pc) \in -100 .. 0
    BY StackPointer
<1>2. q \in 1 .. Len(Code[arch]) /\ k \in Int /\ Off(arch, q) = Off(arch, pc) + k /\ (Before(arch, q) => Before(arch, pc))
    BY DEF Goes
<1>3. regs'[SP] = Address(act.base + Off(arch, q))
    <2>1. sp + k = act.base + Off(arch, q)
        <3>1. PICK b \in Int, x \in Int : b = act.base /\ x = Off(arch, pc)
            BY <1>1
        <3>2. (b + x) + k = b + (x + k)
            BY <1>2
        <3> QED BY <1>1, <1>2, <3>1, <3>2, Zenon
    <2> QED BY <2>1
<1>4. SlotsMeet(arch, q, mem', act, Depth)
    BY <1>1 DEF Meets, SlotsMeet, KeepsSlots
<1>5. PathMeets(arch, q, act)
    BY <1>1, PathOf DEF Meets
<1>6. Before(arch, q) => act.edited = {}
    BY <1>1, <1>2 DEF Meets
<1>7. Meets(arch, q, regs', mem', act, Depth)
    BY <1>3, <1>4, <1>5, <1>6 DEF Meets
<1>8. DOMAIN mem' = Slots
    BY DEF IInv
<1> QED BY <1>1, <1>2, <1>7, <1>8, CodeStep

\* A step leaves the stack of the program alone.
Kept == \A s \in Slots : mem'[s] # mem[s] => s < act.base

\* The slot o of the activation is written.
LEMMA WriteStep ==
    ASSUME IInv, pc > 0, NEW q, NEW k, Goes(arch, pc, q, k), pc' = q, UNCHANGED <<arch, acts>>,
           DOMAIN regs' = Registers(arch), regs'[SP] = Address(sp + k),
           RegsMeet(arch, q, regs', act, Depth),
           NEW o \in -100 .. -1, NEW v, mem' = [mem EXCEPT ![act.base + o] = v],
           KeepsOtherSlots(arch, pc, q, o),
           \A s : SlotHas(arch, q, o, s) => v = Value(arch, s, act, Depth)
    PROVE  IInv' /\ Kept
<1>1. /\ arch \in Known /\ Depth > 0 /\ Meets(arch, pc, regs, mem, act, Depth)
      /\ sp = act.base + Off(arch, pc) /\ act.base \in Int /\ Off(arch, pc) \in -100 .. 0
    BY StackPointer
<1>2. q \in 1 .. Len(Code[arch]) /\ k \in Int /\ Off(arch, q) = Off(arch, pc) + k /\ (Before(arch, q) => Before(arch, pc))
    BY DEF Goes
<1>3. regs'[SP] = Address(act.base + Off(arch, q))
    <2>1. sp + k = act.base + Off(arch, q)
        <3>1. PICK b \in Int, x \in Int : b = act.base /\ x = Off(arch, pc)
            BY <1>1
        <3>2. (b + x) + k = b + (x + k)
            BY <1>2
        <3> QED BY <1>1, <1>2, <3>1, <3>2, Zenon
    <2> QED BY <2>1
<1>4. act.base + o \in Slots
    BY <1>1, LastActivation
<1>5. DOMAIN mem' = Slots /\ DOMAIN mem = Slots /\ mem'[act.base + o] = v
    BY <1>4 DEF IInv
<1>6. \A s : s # act.base + o => mem'[s] = mem[s]
    OBVIOUS
<1>7. ASSUME NEW u, NEW s, SlotHas(arch, q, u, s)
      PROVE  mem'[act.base + u] = Value(arch, s, act, Depth)
    <2>1. CASE u = o
        BY <1>5, <1>7, <2>1
    <2>2. CASE u # o
        <3>1. SlotHas(arch, pc, u, s)
            BY <1>7, <2>2 DEF KeepsOtherSlots
        <3>2. mem[act.base + u] = Value(arch, s, act, Depth)
            BY <1>1, <3>1 DEF Meets, SlotsMeet
        <3>3. u \in Int
            BY <1>1, <3>1, HeldSlots
        <3>4. act.base + u # act.base + o
            BY <1>1, <2>2, <3>3
        <3> QED BY <1>6, <3>2, <3>4
    <2> QED BY <2>1, <2>2
<1>8. PathMeets(arch, q, act)
    BY <1>1, PathOf DEF Meets
<1>9. Before(arch, q) => act.edited = {}
    BY <1>1, <1>2 DEF Meets
<1>10. Meets(arch, q, regs', mem', act, Depth)
    BY <1>3, <1>7, <1>8, <1>9 DEF Meets, SlotsMeet
<1>11. \A s \in Slots : s >= act.base => mem'[s] = mem[s]
    <2>1. \A s \in Slots : s >= act.base => s # act.base + o
        BY <1>1, LastActivation DEF Slots
    <2> QED BY <1>6, <2>1
<1>12. Kept
    BY <1>1, <1>11, BridgeAssumption DEF Kept, Slots
<1> QED BY <1>1, <1>2, <1>5, <1>10, <1>11, <1>12, CodeStep

---------------------------------------------------------------------------
(* Instructions that change the registers                                  *)

LEMMA OwnValue ==
    ASSUME NEW a, NEW e, NEW d, NEW r
    PROVE  Value(a, Own(r), e, d) = Held(r, e, d)
<1>1. Own(r)[1] = "own" /\ Own(r)[2] = r
    BY DEF Own
<1>2. Own(r) \notin {TheEntry, TheContext, TheBase, TheHop, TheReturn}
    BY DEF Own, TheEntry, TheContext, TheBase, TheHop, TheReturn
<1> QED BY <1>1, <1>2 DEF Value

LEMMA Values ==
    ASSUME NEW a, NEW e, NEW d
    PROVE  /\ Value(a, TheEntry, e, d) = Entry(e.closure)
           /\ Value(a, TheContext, e, d) = Address(e.base - Above(a))
           /\ Value(a, TheBase, e, d) = Address(e.base)
           /\ Value(a, TheHop, e, d) = Hop(e.closure)
           /\ Value(a, TheReturn, e, d) = <<"trampoline", 7, 0>>
           /\ Value(a, TheParity, e, d) = <<"number", (e.base - 21) % 2, 0>>
<1>2. /\ TheEntry[1] # "own" /\ TheContext[1] # "own" /\ TheBase[1] # "own" /\ TheHop[1] # "own"
      /\ TheReturn[1] # "own" /\ TheParity[1] # "own"
    BY DEF TheEntry, TheContext, TheBase, TheHop, TheReturn, TheParity
<1>3. /\ TheEntry \notin {TheContext, TheBase, TheHop, TheReturn, TheParity}
      /\ TheContext \notin {TheBase, TheHop, TheReturn, TheParity}
      /\ TheBase \notin {TheHop, TheReturn, TheParity}
      /\ TheHop \notin {TheReturn, TheParity} /\ TheReturn # TheParity
    BY DEF TheEntry, TheContext, TheBase, TheHop, TheReturn, TheParity
<1>4. Value(a, TheEntry, e, d) = Entry(e.closure)
    BY <1>2, <1>3 DEF Value
<1>5. Value(a, TheContext, e, d) = Address(e.base - Above(a))
    BY <1>2, <1>3 DEF Value
<1>6. Value(a, TheBase, e, d) = Address(e.base)
    BY <1>2, <1>3 DEF Value
<1>7. Value(a, TheHop, e, d) = Hop(e.closure)
    BY <1>2, <1>3 DEF Value
<1>8. Value(a, TheReturn, e, d) = <<"trampoline", 7, 0>>
    BY <1>2, <1>3 DEF Value
<1>9. Value(a, TheParity, e, d) = <<"number", (e.base - 21) % 2, 0>>
    BY <1>2, <1>3 DEF Value
<1> QED BY <1>4, <1>5, <1>6, <1>7, <1>8, <1>9

LEMMA HopValue ==
    ASSUME NEW a, NEW e, NEW d
    PROVE  Value(a, TheHop, e, d) = Hop(e.closure)
BY Values

LEMMA ReturnValue ==
    ASSUME NEW a, NEW e, NEW d
    PROVE  Value(a, TheReturn, e, d) = <<"trampoline", 7, 0>>
BY Values

LEMMA Associates == \A b, x, k \in Int : (b + x) + k = b + (x + k)
OBVIOUS

LEMMA SoundOf ==
    ASSUME NEW a, NEW p, NEW i, Sound(a, p, i)
    PROVE  /\ i.op = "move" => MoveSound(a, p, i)
           /\ i.op = "spplus" => SpPlusSound(a, p, i)
           /\ i.op = "misalignment" => MisalignmentSound(a, p, i)
           /\ i.op = "load" => LoadSound(a, p, i)
           /\ i.op = "pop" => PopSound(a, p, i)
           /\ i.op = "entry" => EntrySound(a, p, i)
           /\ i.op = "bridge" => BridgeSound(a, p, i)
           /\ i.op = "mov" => MovSound(a, p, i)
           /\ i.op = "store" => StoreSound(a, p, i)
           /\ i.op = "storeentry" => StoreEntrySound(a, p, i)
           /\ i.op = "push" => PushSound(a, p, i)
           /\ i.op = "pushentry" => PushEntrySound(a, p, i)
           /\ i.op = "jmp" => JmpSound(a, p, i)
           /\ i.op = "jnz" => JnzSound(a, p, i)
           /\ i.op = "blr" => BlrSound(a, p, i)
           /\ i.op = "ret" => RetSound(a, p, i)
           /\ i.op = "call" => CallSound(a, p, i)
           /\ i.op = "br" => BrSound(a, p, i)
           /\ i.op = "popbr" => PopBrSound(a, p, i)
BY DEF Sound

LEMMA InsnSound ==
    ASSUME IInv, pc > 0
    PROVE  Sound(arch, pc, Insn)
<1>1. arch \in Known /\ pc \in 1 .. Len(Code[arch])
    BY StackPointer
<1> QED BY <1>1, AllSound DEF Known, Insn

LEMMA TwoRegisters ==
    ASSUME NEW a
    PROVE  SP \in Registers(a) /\ FLAGS \in Registers(a) /\ SP # FLAGS
BY DEF Registers, SP, FLAGS

\* Register r0 gets the value v, and the flags may be lost.
LEMMA SetStep ==
    ASSUME IInv, pc > 0, NEW r0, NEW v, SetSound(arch, pc, r0), pc' = pc + 1, UNCHANGED <<arch, mem, acts>>,
           \/ regs' = [regs EXCEPT ![r0] = v]
           \/ /\ arch \in Intel /\ LosesFlags(arch, pc + 1)
              /\ regs' = [[regs EXCEPT ![r0] = v] EXCEPT ![FLAGS] = Junk],
           \A s : RegHas(arch, pc + 1, r0, s) => v = Value(arch, s, act, Depth)
    PROVE  IInv'
<1>1. arch \in Known /\ Meets(arch, pc, regs, mem, act, Depth) /\ sp = act.base + Off(arch, pc)
      /\ act.base \in Int /\ Off(arch, pc) \in -100 .. 0
    BY StackPointer
<1>2. /\ Goes(arch, pc, pc + 1, 0) /\ r0 \in Registers(arch) /\ r0 # SP
      /\ KeepsOtherRegs(arch, pc, pc + 1, r0) /\ KeepsSlots(arch, pc, pc + 1)
    BY DEF SetSound
<1>3. DOMAIN regs = Registers(arch) /\ DOMAIN regs' = Registers(arch)
    BY DEF IInv
<1>4. regs'[SP] = regs[SP]
    BY <1>2, <1>3, TwoRegisters
<1>5. regs'[SP] = Address(sp + 0)
    BY <1>1, <1>4 DEF Meets
<1>6. ASSUME NEW r, NEW s, RegHas(arch, pc + 1, r, s) PROVE regs'[r] = Value(arch, s, act, Depth)
    <2>1. r \in Registers(arch)
        BY <1>1, <1>6, HeldRegisters
    <2>2. arch \in Intel /\ LosesFlags(arch, pc + 1) => r # FLAGS
        BY <1>6 DEF LosesFlags
    <2>3. CASE r = r0
        BY <1>3, <1>6, <2>1, <2>2, <2>3
    <2>4. CASE r # r0
        <3>1. regs'[r] = regs[r]
            BY <1>3, <2>1, <2>2, <2>4
        <3>2. RegHas(arch, pc, r, s)
            BY <1>2, <1>6, <2>4 DEF KeepsOtherRegs
        <3> QED BY <1>1, <3>1, <3>2 DEF Meets, RegsMeet
    <2> QED BY <2>3, <2>4
<1>7. RegsMeet(arch, pc + 1, regs', act, Depth)
    BY <1>6 DEF RegsMeet
<1> QED BY <1>2, <1>3, <1>5, <1>7, RegistersStep

LEMMA ComputeStep ==
    ASSUME IInv, pc > 0, Compute
    PROVE  IInv'
<1>1. /\ arch \in Known /\ Depth > 0 /\ Meets(arch, pc, regs, mem, act, Depth)
      /\ sp = act.base + Off(arch, pc) /\ act.base \in Int /\ Off(arch, pc) \in -100 .. 0
    BY StackPointer
<1>2. Sound(arch, pc, Insn)
    BY InsnSound
<1>3. pc' = pc + 1 /\ UNCHANGED <<arch, mem, acts>> /\ DOMAIN regs = Registers(arch)
    BY DEF Compute, IInv
<1>4. CASE Insn.op = "move" /\ regs' = IF arch \in Intel THEN [[regs EXCEPT ![SP] = Address(sp + Insn.k)] EXCEPT ![FLAGS] = Junk]
                                                      ELSE [regs EXCEPT ![SP] = Address(sp + Insn.k)]
    <2>1. MoveSound(arch, pc, Insn)
        BY <1>2, <1>4, SoundOf
    <2>2. /\ Goes(arch, pc, pc + 1, Insn.k) /\ KeepsRegs(arch, pc, pc + 1) /\ LosesFlags(arch, pc + 1)
          /\ KeepsSlots(arch, pc, pc + 1)
        BY <2>1 DEF MoveSound
    <2>3. DOMAIN regs' = Registers(arch) /\ regs'[SP] = Address(sp + Insn.k)
        BY <1>3, <1>4, TwoRegisters
    <2>4. ASSUME NEW r, NEW s, RegHas(arch, pc + 1, r, s) PROVE regs'[r] = Value(arch, s, act, Depth)
        <3>1. r \in Registers(arch) /\ r # SP
            BY <1>1, <2>4, HeldRegisters
        <3>2. arch \in Intel => r # FLAGS
            BY <2>2, <2>4 DEF LosesFlags
        <3>3. regs'[r] = regs[r]
            BY <1>3, <1>4, <3>1, <3>2
        <3>4. RegHas(arch, pc, r, s)
            BY <2>2, <2>4 DEF KeepsRegs
        <3> QED BY <1>1, <3>3, <3>4 DEF Meets, RegsMeet
    <2>5. RegsMeet(arch, pc + 1, regs', act, Depth)
        BY <2>4 DEF RegsMeet
    <2> QED BY <1>3, <2>2, <2>3, <2>5, RegistersStep
<1>5. CASE Insn.op = "spplus" /\ regs' = IF arch \in Intel THEN [[regs EXCEPT ![Insn.r] = Address(sp + Insn.k)] EXCEPT ![FLAGS] = Junk]
                                                        ELSE [regs EXCEPT ![Insn.r] = Address(sp + Insn.k)]
    <2>1. SpPlusSound(arch, pc, Insn)
        BY <1>2, <1>5, SoundOf
    <2>2. SetSound(arch, pc, Insn.r) /\ LosesFlags(arch, pc + 1) /\ Insn.k \in Int
        BY <2>1 DEF SpPlusSound
    <2>3. ASSUME NEW s, RegHas(arch, pc + 1, Insn.r, s) PROVE Address(sp + Insn.k) = Value(arch, s, act, Depth)
        <3>1. PICK b \in Int, x \in Int : b = act.base /\ x = Off(arch, pc)
            BY <1>1
        <3>2. sp + Insn.k = b + (x + Insn.k)
            BY <1>1, <2>2, <3>1
        <3>3. CASE s = TheContext /\ x + Insn.k = -Above(arch)
            <4>1. Above(arch) \in Int
                BY <1>1, HopRange
            <4>2. sp + Insn.k = b - Above(arch)
                BY <3>2, <3>3, <4>1
            <4>3. Value(arch, TheContext, act, Depth) = Address(act.base - Above(arch))
                BY Values
            <4> QED BY <3>1, <3>3, <4>2, <4>3
        <3>4. CASE s = TheBase /\ x + Insn.k = 0
            <4>1. Value(arch, TheBase, act, Depth) = Address(act.base)
                BY Values
            <4>2. sp + Insn.k = b
                BY <3>2, <3>4
            <4> QED BY <3>1, <3>4, <4>1, <4>2
        <3> QED BY <2>1, <2>3, <3>1, <3>3, <3>4 DEF SpPlusSound
    <2> QED BY <1>3, <1>5, <2>2, <2>3, SetStep
<1>6. CASE Insn.op = "misalignment" /\ regs' = IF arch \in Intel THEN [[regs EXCEPT ![Insn.r] = <<"number", sp % Insn.k, 0>>] EXCEPT ![FLAGS] = Junk]
                                                        ELSE [regs EXCEPT ![Insn.r] = <<"number", sp % Insn.k, 0>>]
    <2>1. MisalignmentSound(arch, pc, Insn)
        BY <1>2, <1>6, SoundOf
    <2>2. SetSound(arch, pc, Insn.r) /\ LosesFlags(arch, pc + 1) /\ Insn.k = 2 /\ Off(arch, pc) = -21
        BY <2>1 DEF MisalignmentSound
    <2>3. sp = act.base - 21
        BY <1>1, <2>2
    <2>4. ASSUME NEW s, RegHas(arch, pc + 1, Insn.r, s) PROVE <<"number", sp % Insn.k, 0>> = Value(arch, s, act, Depth)
        <3>1. s = TheParity
            BY <2>1, <2>4 DEF MisalignmentSound
        <3> QED BY <2>2, <2>3, <3>1, Values
    <2> QED BY <1>3, <1>6, <2>2, <2>4, SetStep
<1>7. CASE Insn.op = "load" /\ regs' = [regs EXCEPT ![Insn.r] = mem[sp + Insn.k]]
    <2>1. LoadSound(arch, pc, Insn)
        BY <1>2, <1>7, SoundOf
    <2>2. SetSound(arch, pc, Insn.r) /\ Insn.k \in Int
        BY <2>1 DEF LoadSound
    <2>3. ASSUME NEW s, RegHas(arch, pc + 1, Insn.r, s) PROVE mem[sp + Insn.k] = Value(arch, s, act, Depth)
        <3>1. SlotHas(arch, pc, Off(arch, pc) + Insn.k, s)
            BY <2>1, <2>3 DEF LoadSound
        <3>2. mem[act.base + (Off(arch, pc) + Insn.k)] = Value(arch, s, act, Depth)
            BY <1>1, <3>1 DEF Meets, SlotsMeet
        <3>3. sp + Insn.k = act.base + (Off(arch, pc) + Insn.k)
            BY <1>1, <2>2, Associates
        <3> QED BY <3>2, <3>3
    <2> QED BY <1>3, <1>7, <2>2, <2>3, SetStep
<1>8. CASE Insn.op = "pop" /\ regs' = [regs EXCEPT ![SP] = Address(sp + Insn.k), ![Insn.r] = mem[sp]]
    <2>1. PopSound(arch, pc, Insn)
        BY <1>2, <1>8, SoundOf
    <2>2. /\ Goes(arch, pc, pc + 1, Insn.k) /\ Insn.r \in Registers(arch) /\ Insn.r # SP
          /\ KeepsOtherRegs(arch, pc, pc + 1, Insn.r) /\ KeepsSlots(arch, pc, pc + 1)
        BY <2>1 DEF PopSound
    <2>3. DOMAIN regs' = Registers(arch) /\ regs'[SP] = Address(sp + Insn.k) /\ regs'[Insn.r] = mem[sp]
        BY <1>3, <1>8, <2>2, TwoRegisters
    <2>4. ASSUME NEW r, NEW s, RegHas(arch, pc + 1, r, s) PROVE regs'[r] = Value(arch, s, act, Depth)
        <3>1. r \in Registers(arch) /\ r # SP
            BY <1>1, <2>4, HeldRegisters
        <3>2. CASE r = Insn.r
            <4>1. SlotHas(arch, pc, Off(arch, pc), s)
                BY <2>1, <2>4, <3>2 DEF PopSound
            <4>2. mem[act.base + Off(arch, pc)] = Value(arch, s, act, Depth)
                BY <1>1, <4>1 DEF Meets, SlotsMeet
            <4> QED BY <1>1, <2>3, <3>2, <4>2
        <3>3. CASE r # Insn.r
            <4>1. regs'[r] = regs[r]
                BY <1>3, <1>8, <3>1, <3>3
            <4>2. RegHas(arch, pc, r, s)
                BY <2>2, <2>4, <3>3 DEF KeepsOtherRegs
            <4> QED BY <1>1, <4>1, <4>2 DEF Meets, RegsMeet
        <3> QED BY <3>2, <3>3
    <2>5. RegsMeet(arch, pc + 1, regs', act, Depth)
        BY <2>4 DEF RegsMeet
    <2> QED BY <1>3, <2>2, <2>3, <2>5, RegistersStep
<1>9. CASE Insn.op = "entry" /\ regs' = [regs EXCEPT ![Insn.r] = Entry(act.closure)]
    <2>1. EntrySound(arch, pc, Insn)
        BY <1>2, <1>9, SoundOf
    <2>2. SetSound(arch, pc, Insn.r) /\ \A s : RegHas(arch, pc + 1, Insn.r, s) => s = TheEntry
        BY <2>1 DEF EntrySound
    <2>3. Value(arch, TheEntry, act, Depth) = Entry(act.closure)
        BY Values
    <2>4. \A s : RegHas(arch, pc + 1, Insn.r, s) => Entry(act.closure) = Value(arch, s, act, Depth)
        BY <2>2, <2>3
    <2> QED BY <1>3, <1>9, <2>2, <2>4, SetStep
<1>10. CASE Insn.op = "bridge" /\ regs' = [regs EXCEPT ![Insn.r] = <<"bridge", 0, 0>>]
    <2>1. BridgeSound(arch, pc, Insn)
        BY <1>2, <1>10, SoundOf
    <2>2. SetSound(arch, pc, Insn.r) /\ \A s : ~RegHas(arch, pc + 1, Insn.r, s)
        BY <2>1 DEF BridgeSound
    <2> QED BY <1>3, <1>10, <2>2, SetStep
<1>11. CASE Insn.op = "mov" /\ regs' = [regs EXCEPT ![Insn.r] = regs[General[arch][Insn.k]]]
    <2>1. MovSound(arch, pc, Insn)
        BY <1>2, <1>11, SoundOf
    <2>2. SetSound(arch, pc, Insn.r) /\ \A s : RegHas(arch, pc + 1, Insn.r, s) => RegHas(arch, pc, General[arch][Insn.k], s)
        BY <2>1 DEF MovSound
    <2>3. \A s : RegHas(arch, pc + 1, Insn.r, s) => regs[General[arch][Insn.k]] = Value(arch, s, act, Depth)
        BY <1>1, <2>2 DEF Meets, RegsMeet
    <2> QED BY <1>3, <1>11, <2>2, <2>3, SetStep
<1> QED BY <1>4, <1>5, <1>6, <1>7, <1>8, <1>9, <1>10, <1>11 DEF Compute

---------------------------------------------------------------------------
(* Instructions that write to the stack                                    *)

\* Slot k above the stack pointer gets the value v, and the stack pointer
\* goes up m slots.
LEMMA PutStep ==
    ASSUME IInv, pc > 0, NEW k, NEW m, NEW v, WriteSound(arch, pc, k, m),
           pc' = pc + 1, UNCHANGED <<arch, acts>>, mem' = [mem EXCEPT ![sp + k] = v],
           \/ regs' = regs /\ m = 0
           \/ regs' = [regs EXCEPT ![SP] = Address(sp + m)],
           \A s : SlotHas(arch, pc + 1, Off(arch, pc) + k, s) => v = Value(arch, s, act, Depth)
    PROVE  IInv' /\ Kept
<1>1. /\ arch \in Known /\ Depth > 0 /\ Meets(arch, pc, regs, mem, act, Depth)
      /\ sp = act.base + Off(arch, pc) /\ act.base \in Int /\ Off(arch, pc) \in -100 .. 0
    BY StackPointer
<1>2. /\ Goes(arch, pc, pc + 1, m) /\ k \in Int /\ Off(arch, pc) + k \in -100 .. -1
      /\ KeepsRegs(arch, pc, pc + 1) /\ KeepsOtherSlots(arch, pc, pc + 1, Off(arch, pc) + k)
    BY DEF WriteSound, Largest
<1>3. DOMAIN regs = Registers(arch) /\ DOMAIN regs' = Registers(arch)
    BY DEF IInv
<1>4. regs'[SP] = Address(sp + m)
    <2>1. CASE regs' = regs /\ m = 0
        <3>1. regs[SP] = Address(sp) /\ sp + 0 = sp
            BY <1>1 DEF Meets
        <3> QED BY <2>1, <3>1
    <2>2. CASE regs' = [regs EXCEPT ![SP] = Address(sp + m)]
        BY <1>3, <2>2, TwoRegisters
    <2> QED BY <2>1, <2>2
<1>5. ASSUME NEW r, NEW s, RegHas(arch, pc + 1, r, s) PROVE regs'[r] = Value(arch, s, act, Depth)
    <2>1. r \in Registers(arch) /\ r # SP
        BY <1>1, <1>5, HeldRegisters
    <2>2. regs'[r] = regs[r]
        BY <1>3, <2>1
    <2>3. RegHas(arch, pc, r, s)
        BY <1>2, <1>5 DEF KeepsRegs
    <2> QED BY <1>1, <2>2, <2>3 DEF Meets, RegsMeet
<1>6. RegsMeet(arch, pc + 1, regs', act, Depth)
    BY <1>5 DEF RegsMeet
<1>7. PICK o \in -100 .. -1 : o = Off(arch, pc) + k
    BY <1>2
<1>8. sp + k = act.base + o
    <2>1. PICK b \in Int, x \in Int : b = act.base /\ x = Off(arch, pc)
        BY <1>1
    <2>2. (b + x) + k = b + (x + k)
        BY <1>2, Associates
    <2> QED BY <1>1, <1>7, <2>1, <2>2, Zenon
<1>9. mem' = [mem EXCEPT ![act.base + o] = v]
    BY <1>8
<1>10. KeepsOtherSlots(arch, pc, pc + 1, o) /\ \A s : SlotHas(arch, pc + 1, o, s) => v = Value(arch, s, act, Depth)
    BY <1>2, <1>7
<1> HIDE <1>7, <1>8
<1> QED BY <1>2, <1>3, <1>4, <1>6, <1>9, <1>10, WriteStep

LEMMA WriteActionStep ==
    ASSUME IInv, pc > 0, Write
    PROVE  IInv' /\ Kept
<1>1. arch \in Known /\ Meets(arch, pc, regs, mem, act, Depth) /\ act.base \in Int /\ sp \in Int
    <2>1. act.base \in Int /\ Off(arch, pc) \in -100 .. 0 /\ sp = act.base + Off(arch, pc)
        BY StackPointer
    <2>2. sp \in Int
        BY <2>1
    <2> QED BY <2>1, <2>2, StackPointer
<1>2. Sound(arch, pc, Insn)
    BY InsnSound
<1>3. pc' = pc + 1 /\ UNCHANGED <<arch, acts>>
    BY DEF Write
<1>4. sp - 1 = sp + (-1)
    BY <1>1
<1>5. Value(arch, TheEntry, act, Depth) = Entry(act.closure)
    BY Values
<1>6. CASE /\ Insn.op = "store" /\ UNCHANGED regs
           /\ mem' = [mem EXCEPT ![sp + Insn.k] = regs[IF Insn.r \in {RX[6], EX[6]} THEN SP ELSE Insn.r]]
    <2>1. StoreSound(arch, pc, Insn)
        BY <1>2, <1>6, SoundOf
    <2>2. WriteSound(arch, pc, Insn.k, 0)
        BY <2>1 DEF StoreSound
    <2>3. ASSUME NEW s, SlotHas(arch, pc + 1, Off(arch, pc) + Insn.k, s)
          PROVE  regs[IF Insn.r \in {RX[6], EX[6]} THEN SP ELSE Insn.r] = Value(arch, s, act, Depth)
        <3>1. RegHas(arch, pc, Insn.r, s)
            BY <2>1, <2>3 DEF StoreSound
        <3>2. Insn.r \notin {RX[6], EX[6]}
            BY <1>1, <3>1, HeldRegisters
        <3> QED BY <1>1, <3>1, <3>2 DEF Meets, RegsMeet
    <2> QED BY <1>3, <1>6, <2>2, <2>3, PutStep
<1>7. CASE Insn.op = "storeentry" /\ UNCHANGED regs /\ mem' = [mem EXCEPT ![sp + Insn.k] = Entry(act.closure)]
    <2>1. StoreEntrySound(arch, pc, Insn)
        BY <1>2, <1>7, SoundOf
    <2>2. WriteSound(arch, pc, Insn.k, 0)
        BY <2>1 DEF StoreEntrySound
    <2>3. \A s : SlotHas(arch, pc + 1, Off(arch, pc) + Insn.k, s) => Entry(act.closure) = Value(arch, s, act, Depth)
        BY <1>5, <2>1 DEF StoreEntrySound
    <2> QED BY <1>3, <1>7, <2>2, <2>3, PutStep
<1>8. CASE /\ Insn.op = "push" /\ regs' = [regs EXCEPT ![SP] = Address(sp - 1)]
           /\ mem' = [mem EXCEPT ![sp - 1] = regs[Insn.r]]
    <2>1. PushSound(arch, pc, Insn)
        BY <1>2, <1>8, SoundOf
    <2>2. WriteSound(arch, pc, -1, -1)
        BY <2>1 DEF PushSound
    <2>3. ASSUME NEW s, SlotHas(arch, pc + 1, Off(arch, pc) + (-1), s) PROVE regs[Insn.r] = Value(arch, s, act, Depth)
        <3>1. RegHas(arch, pc, Insn.r, s)
            BY <2>1, <2>3 DEF PushSound
        <3> QED BY <1>1, <3>1 DEF Meets, RegsMeet
    <2>4. regs' = [regs EXCEPT ![SP] = Address(sp + (-1))] /\ mem' = [mem EXCEPT ![sp + (-1)] = regs[Insn.r]]
        BY <1>4, <1>8
    <2> QED BY <1>3, <2>2, <2>3, <2>4, PutStep
<1>9. CASE /\ Insn.op = "pushentry" /\ regs' = [regs EXCEPT ![SP] = Address(sp - 1)]
           /\ mem' = [mem EXCEPT ![sp - 1] = Entry(act.closure)]
    <2>1. PushEntrySound(arch, pc, Insn)
        BY <1>2, <1>9, SoundOf
    <2>2. WriteSound(arch, pc, -1, -1)
        BY <2>1 DEF PushEntrySound
    <2>3. \A s : SlotHas(arch, pc + 1, Off(arch, pc) + (-1), s) => Entry(act.closure) = Value(arch, s, act, Depth)
        BY <1>5, <2>1 DEF PushEntrySound
    <2>4. regs' = [regs EXCEPT ![SP] = Address(sp + (-1))] /\ mem' = [mem EXCEPT ![sp + (-1)] = Entry(act.closure)]
        BY <1>4, <1>9
    <2> QED BY <1>3, <2>2, <2>3, <2>4, PutStep
<1> QED BY <1>6, <1>7, <1>8, <1>9 DEF Write

---------------------------------------------------------------------------
(* Jumps                                                                   *)

\* Control goes on at q and nothing else changes.
LEMMA JumpStep ==
    ASSUME IInv, pc > 0, NEW q \in 1 .. Len(Code[arch]), pc' = q, UNCHANGED <<arch, regs, mem, acts>>,
           KeepsRegs(arch, pc, q), KeepsSlots(arch, pc, q), Off(arch, q) = Off(arch, pc),
           PathMeets(arch, q, act), Before(arch, q) => Before(arch, pc)
    PROVE  IInv'
<1>1. Depth > 0 /\ Meets(arch, pc, regs, mem, act, Depth)
    BY StackPointer
<1>2. RegsMeet(arch, q, regs', act, Depth)
    BY <1>1 DEF Meets, RegsMeet, KeepsRegs
<1>3. SlotsMeet(arch, q, mem', act, Depth)
    BY <1>1 DEF Meets, SlotsMeet, KeepsSlots
<1>4. regs'[SP] = Address(act.base + Off(arch, q))
    BY <1>1 DEF Meets
<1>5. Meets(arch, q, regs', mem', act, Depth)
    BY <1>1, <1>2, <1>3, <1>4 DEF Meets
<1>6. DOMAIN regs' = Registers(arch) /\ DOMAIN mem' = Slots
    BY DEF IInv
<1> QED BY <1>1, <1>5, <1>6, CodeStep

LEMMA BranchStep ==
    ASSUME IInv, pc > 0, Branch
    PROVE  IInv'
<1>1. /\ arch \in Known /\ Depth > 0 /\ Meets(arch, pc, regs, mem, act, Depth)
      /\ sp = act.base + Off(arch, pc) /\ act.base \in Int /\ Off(arch, pc) \in -100 .. 0
    BY StackPointer
<1>2. Sound(arch, pc, Insn)
    BY InsnSound
<1>3. UNCHANGED <<arch, mem, acts>> /\ DOMAIN regs = Registers(arch)
    BY DEF Branch, IInv
<1>4. ASSUME NEW q, Goes(arch, pc, q, 0)
      PROVE  /\ q \in 1 .. Len(Code[arch]) /\ Off(arch, q) = Off(arch, pc) /\ PathMeets(arch, q, act)
             /\ Before(arch, q) => Before(arch, pc)
    <2>1. q \in 1 .. Len(Code[arch]) /\ Off(arch, q) = Off(arch, pc) + 0 /\ (Before(arch, q) => Before(arch, pc))
        BY <1>4 DEF Goes
    <2>2. Off(arch, q) = Off(arch, pc)
        <3>1. PICK x \in Int : x = Off(arch, pc)
            BY <1>1
        <3>2. x + 0 = x
            OBVIOUS
        <3> QED BY <2>1, <3>1, <3>2, Zenon
    <2>3. PathMeets(arch, q, act)
        BY <1>1, <1>4, PathOf DEF Meets
    <2> QED BY <2>1, <2>2, <2>3
<1>5. CASE Insn.op = "jmp" /\ pc' = pc + Insn.k /\ UNCHANGED regs
    <2>1. JmpSound(arch, pc, Insn)
        BY <1>2, <1>5, SoundOf
    <2>2. Goes(arch, pc, pc + Insn.k, 0) /\ KeepsRegs(arch, pc, pc + Insn.k) /\ KeepsSlots(arch, pc, pc + Insn.k)
        BY <2>1 DEF JmpSound
    <2> QED BY <1>3, <1>4, <1>5, <2>2, JumpStep
<1>6. CASE Insn.op = "jnz" /\ pc' = (IF regs[Insn.r][2] = 0 THEN pc + 1 ELSE pc + Insn.k) /\ UNCHANGED regs
    <2>1. JnzSound(arch, pc, Insn)
        BY <1>2, <1>6, SoundOf
    <2>2. /\ arch = "x64" /\ pc = 27 /\ Insn.k = 3 /\ RegHas(arch, pc, Insn.r, TheParity)
          /\ \A q \in {28, 30} : Off(arch, q) = Off(arch, pc) /\ KeepsRegs(arch, pc, q) /\ KeepsSlots(arch, pc, q)
        BY <2>1 DEF JnzSound
    <2>3. regs[Insn.r] = <<"number", (act.base - 21) % 2, 0>>
        <3>1. regs[Insn.r] = Value(arch, TheParity, act, Depth)
            BY <1>1, <2>2 DEF Meets, RegsMeet
        <3>2. Value(arch, TheParity, act, Depth) = <<"number", (act.base - 21) % 2, 0>>
            BY Values
        <3> QED BY <3>1, <3>2
    <2>4. regs[Insn.r][2] = (act.base - 21) % 2
        BY <2>3
    <2>5. (act.base - 21) % 2 \in {0, 1}
        BY <1>1
    <2>6. Len(Code[arch]) = 52 /\ Before(arch, pc)
        BY <2>2, X64Code, X64Annotated DEF Before64
    <2>7. CASE regs[Insn.r][2] = 0
        <3>1. pc' = 28
            BY <1>6, <2>2, <2>7
        <3>2. PathMeets(arch, 28, act)
            BY <2>4, <2>7 DEF PathMeets
        <3> QED BY <1>3, <1>6, <2>2, <2>6, <3>1, <3>2, JumpStep
    <2>8. CASE regs[Insn.r][2] # 0
        <3>1. pc' = 30
            BY <1>6, <2>2, <2>8
        <3>2. PathMeets(arch, 30, act)
            BY <2>4, <2>5, <2>8 DEF PathMeets
        <3> QED BY <1>3, <1>6, <2>2, <2>6, <3>1, <3>2, JumpStep
    <2> QED BY <2>7, <2>8
<1>7. CASE Insn.op = "blr" /\ pc' = Insn.k /\ regs' = [regs EXCEPT ![X[31]] = <<"trampoline", pc + 1, 0>>]
    <2>1. BlrSound(arch, pc, Insn)
        BY <1>2, <1>7, SoundOf
    <2>2. /\ arch \in Arm64s /\ pc = 6 /\ Goes(arch, pc, Insn.k, 0)
          /\ KeepsOtherRegs(arch, pc, Insn.k, X[31]) /\ KeepsSlots(arch, pc, Insn.k)
          /\ \A s : RegHas(arch, Insn.k, X[31], s) => s = TheReturn
        BY <2>1 DEF BlrSound
    <2>3. X[31] # SP
        BY Banks DEF SP
    <2>4. regs'[SP] = Address(sp + 0) /\ DOMAIN regs' = Registers(arch)
        <3>1. regs[SP] = Address(sp) /\ sp + 0 = sp
            BY <1>1 DEF Meets
        <3>2. regs'[SP] = regs[SP] /\ DOMAIN regs' = Registers(arch)
            BY <1>3, <1>7, <2>3, TwoRegisters
        <3> QED BY <3>1, <3>2
    <2>5. ASSUME NEW r, NEW s, RegHas(arch, Insn.k, r, s) PROVE regs'[r] = Value(arch, s, act, Depth)
        <3>1. r \in Registers(arch)
            BY <1>1, <2>5, HeldRegisters
        <3>2. CASE r = X[31]
            <4>1. s = TheReturn
                BY <2>2, <2>5, <3>2
            <4>2. Value(arch, TheReturn, act, Depth) = <<"trampoline", 7, 0>>
                BY Values
            <4>3. regs'[r] = <<"trampoline", 7, 0>>
                BY <1>3, <1>7, <2>2, <3>1, <3>2
            <4> QED BY <4>1, <4>2, <4>3
        <3>3. CASE r # X[31]
            <4>1. regs'[r] = regs[r]
                BY <1>3, <1>7, <3>1, <3>3
            <4>2. RegHas(arch, pc, r, s)
                BY <2>2, <2>5, <3>3 DEF KeepsOtherRegs
            <4> QED BY <1>1, <4>1, <4>2 DEF Meets, RegsMeet
        <3> QED BY <3>2, <3>3
    <2>6. RegsMeet(arch, Insn.k, regs', act, Depth)
        BY <2>5 DEF RegsMeet
    <2> QED BY <1>3, <1>7, <2>2, <2>4, <2>6, RegistersStep
<1>8. CASE Insn.op = "ret" /\ pc' = regs[Insn.r][2] /\ UNCHANGED regs
    <2>1. RetSound(arch, pc, Insn)
        BY <1>2, <1>8, SoundOf
    <2>2. RegHas(arch, pc, Insn.r, TheReturn) /\ Goes(arch, pc, 7, 0) /\ KeepsRegs(arch, pc, 7) /\ KeepsSlots(arch, pc, 7)
        BY <2>1 DEF RetSound
    <2>3. regs[Insn.r] = Value(arch, TheReturn, act, Depth)
        BY <1>1, <2>2 DEF Meets, RegsMeet
    <2>4. Value(arch, TheReturn, act, Depth) = <<"trampoline", 7, 0>>
        BY Values
    <2>5. pc' = 7
        BY <1>8, <2>3, <2>4
    <2> QED BY <1>3, <1>4, <1>8, <2>2, <2>5, JumpStep
<1> QED BY <1>5, <1>6, <1>7, <1>8 DEF Branch

---------------------------------------------------------------------------
(* The handler is called                                                   *)

\* Sequences and activations that differ in one place.
WithLast(t, s, n, e) == t = [s EXCEPT ![n] = e]
AtCall(f, e, s, p, r, x, n) == f = [e EXCEPT !.sp = s, !.at = p, !.regs = r, !.ctx = x, !.entry = n]
Edited(f, e, w) == f = [e EXCEPT !.edited = w]
GoesTo(f, e, w) == f = [e EXCEPT !.to = w]

LEMMA LastReplaced ==
    ASSUME NEW n \in Nat \ {0}, NEW s, Spans(s, n), NEW e, NEW t, WithLast(t, s, n, e)
    PROVE  Spans(t, n) /\ t[n] = e /\ \A i \in 1 .. n - 1 : t[i] = s[i]
<1>1. DOMAIN s = 1 .. n
    BY DEF Spans, IsSeq
<1>2. DOMAIN t = 1 .. n /\ t[n] = e
    BY <1>1 DEF WithLast
<1>3. t = [i \in 1 .. n |-> t[i]]
    BY <1>1, <1>2, Zenon DEF WithLast
<1>4. \A i \in 1 .. n - 1 : t[i] = s[i]
    BY <1>1 DEF WithLast
<1>5. Spans(t, n)
    BY <1>3, FunIsSeq DEF Spans
<1> QED BY <1>2, <1>4, <1>5

LEMMA CalledActivation ==
    ASSUME NEW e, IsActivation(e), NEW s, NEW p, NEW r, NEW x, NEW n, NEW f,
           AtCall(f, e, s, p, r, x, n)
    PROVE  /\ IsActivation(f) /\ f.base = e.base /\ f.closure = e.closure /\ f.edited = e.edited
           /\ f.sp = s /\ f.at = p /\ f.regs = r /\ f.ctx = x /\ f.entry = n
<1>1. f = [closure |-> e.closure, base |-> e.base, sp |-> s, at |-> p, regs |-> r,
           ctx |-> x, entry |-> n, to |-> e.to, edited |-> e.edited]
    BY DEF IsActivation, AtCall, Edited, GoesTo
<1>2. /\ f.base = e.base /\ f.closure = e.closure /\ f.edited = e.edited /\ f.to = e.to
      /\ f.sp = s /\ f.at = p /\ f.regs = r /\ f.ctx = x /\ f.entry = n
    BY <1>1
<1> QED BY <1>1, <1>2, Zenon DEF IsActivation

LEMMA EditedActivation ==
    ASSUME NEW e, IsActivation(e), NEW w, NEW f, Edited(f, e, w)
    PROVE  /\ IsActivation(f) /\ f.base = e.base /\ f.closure = e.closure /\ f.edited = w
           /\ f.sp = e.sp /\ f.at = e.at /\ f.regs = e.regs /\ f.ctx = e.ctx /\ f.entry = e.entry
<1>1. f = [closure |-> e.closure, base |-> e.base, sp |-> e.sp, at |-> e.at, regs |-> e.regs,
           ctx |-> e.ctx, entry |-> e.entry, to |-> e.to, edited |-> w]
    BY DEF IsActivation, AtCall, Edited, GoesTo
<1>2. /\ f.base = e.base /\ f.closure = e.closure /\ f.edited = w /\ f.to = e.to
      /\ f.sp = e.sp /\ f.at = e.at /\ f.regs = e.regs /\ f.ctx = e.ctx /\ f.entry = e.entry
    BY <1>1
<1> QED BY <1>1, <1>2, Zenon DEF IsActivation

LEMMA LeavingActivation ==
    ASSUME NEW e, IsActivation(e), NEW w, NEW f, GoesTo(f, e, w)
    PROVE  IsActivation(f) /\ f.base = e.base /\ f.closure = e.closure /\ f.edited = e.edited /\ f.to = w
<1>1. f = [closure |-> e.closure, base |-> e.base, sp |-> e.sp, at |-> e.at, regs |-> e.regs,
           ctx |-> e.ctx, entry |-> e.entry, to |-> w, edited |-> e.edited]
    BY DEF IsActivation, AtCall, Edited, GoesTo
<1>2. /\ f.base = e.base /\ f.closure = e.closure /\ f.edited = e.edited /\ f.to = w
      /\ f.sp = e.sp /\ f.at = e.at /\ f.regs = e.regs /\ f.ctx = e.ctx /\ f.entry = e.entry
    BY <1>1
<1> QED BY <1>1, <1>2, Zenon DEF IsActivation

\* The last activation becomes e; nothing above it on the stack changes.
LEMMA LastChanges ==
    ASSUME IInv, Depth > 0, arch' = arch, NEW e, WithLast(acts', acts, Depth, e),
           EntryOK(arch, e, Depth), e.base = act.base,
           \A s \in Slots : s >= act.base => mem'[s] = mem[s]
    PROVE  /\ Depth' = Depth /\ act' = e /\ Nested'
           /\ (arch \in Archs /\ Depth \in 0 .. MaxDepth /\ acts = [d \in 1 .. Depth |-> acts[d]])'
           /\ (\A d \in 1 .. Depth : EntryOK(arch, acts[d], d))'
           /\ \A c \in 1 .. Depth - 1 : Suspended(arch, mem', acts'[c], c)
<1>1. Depth \in Nat \ {0} /\ acts = [d \in 1 .. Depth |-> acts[d]] /\ Depth \in 0 .. MaxDepth
    BY DEF IInv
<1>2. /\ Len(acts') = Depth /\ acts'[Depth] = e /\ acts' = [d \in 1 .. Depth |-> acts'[d]]
      /\ \A d \in 1 .. Depth - 1 : acts'[d] = acts[d]
    <2>1. PICK n \in Nat \ {0} : n = Depth
        BY <1>1
    <2>2. Spans(acts, n) /\ WithLast(acts', acts, n, e)
        BY <1>1, <2>1, FunIsSeq DEF Spans
    <2>3. Spans(acts', n) /\ acts'[n] = e /\ \A i \in 1 .. n - 1 : acts'[i] = acts[i]
        BY <2>1, <2>2, LastReplaced
    <2>4. Len(acts') = n /\ acts' = [i \in 1 .. n |-> acts'[i]]
        BY <2>3 DEF Spans, IsSeq
    <2> QED BY <2>1, <2>3, <2>4
<1>3. Depth' = Depth /\ act' = e
    BY <1>2 DEF Depth, act
<1>4. \A d \in 1 .. Depth : d = Depth \/ d \in 1 .. Depth - 1
    BY <1>1
<1>5. \A d \in 1 .. Depth : acts'[d].base = acts[d].base
    BY <1>2, <1>4 DEF act
<1>6. Nested'
    <2>1. ASSUME NEW d \in 1 .. Depth, NEW c \in 1 .. d - 1 PROVE acts'[d].base <= acts'[c].sp
        <3>1. c \in 1 .. Depth - 1
            BY <1>1
        <3>2. acts[d].base <= acts[c].sp
            BY DEF IInv, Nested
        <3> QED BY <1>2, <1>5, <3>1, <3>2
    <2> QED BY <1>3, <2>1 DEF Nested
<1>7. \A d \in 1 .. Depth : EntryOK(arch, acts'[d], d)
    <2>1. \A d \in 1 .. Depth : EntryOK(arch, acts[d], d)
        BY DEF IInv
    <2> QED BY <1>2, <1>4, <2>1
<1>8. \A c \in 1 .. Depth - 1 : Suspended(arch, mem', acts'[c], c)
    BY <1>2, StaysSuspended
<1>9. (arch \in Archs)'
    BY DEF IInv
<1> QED BY <1>1, <1>2, <1>3, <1>6, <1>7, <1>8, <1>9

\* What the annotation stands for depends on these parts of an activation.
LEMMA SameValue ==
    ASSUME NEW a, NEW e, NEW f, e.base = f.base, e.closure = f.closure, e.edited = f.edited, NEW d
    PROVE  \A s : Value(a, s, e, d) = Value(a, s, f, d)
BY DEF Value, Held

LEMMA CallHandlerStep ==
    ASSUME IInv, pc > 0, CallHandler
    PROVE  IInv'
<1>0. PICK e : e = [act EXCEPT !.sp = sp, !.at = pc, !.regs = regs, !.ctx = Argument(1), !.entry = Argument(2)]
    OBVIOUS
<1>1. /\ arch \in Known /\ Depth > 0 /\ Meets(arch, pc, regs, mem, act, Depth)
      /\ sp = act.base + Off(arch, pc) /\ act.base \in Int /\ Off(arch, pc) \in -100 .. 0
    BY StackPointer
<1>2. UNCHANGED <<arch, mem>> /\ pc' = 0 /\ WithLast(acts', acts, Depth, e)
    BY <1>0 DEF CallHandler, InC, act, WithLast
<1>3. pc \in Calls(arch)
    <2>1. CallSound(arch, pc, Insn)
        BY InsnSound, SoundOf DEF CallHandler
    <2> QED BY <2>1 DEF CallSound
<1>4. Called(arch, pc) /\ Arguments(arch, pc)
    BY <1>1, <1>3, AtCalls
<1>5. EntryOK(arch, act, Depth)
    BY <1>1, LastActivation
<1>6. /\ IsActivation(e) /\ e.base = act.base /\ e.closure = act.closure /\ e.edited = act.edited
      /\ e.sp = sp /\ e.at = pc /\ e.regs = regs /\ e.ctx = Argument(1) /\ e.entry = Argument(2)
    <2>1. IsActivation(act)
        BY <1>5 DEF EntryOK
    <2>2. AtCall(e, act, sp, pc, regs, Argument(1), Argument(2))
        BY <1>0 DEF AtCall
    <2> QED BY <2>1, <2>2, CalledActivation
<1>7. EntryOK(arch, e, Depth)
    BY <1>5, <1>6 DEF EntryOK
<1>8. /\ Depth' = Depth /\ act' = e /\ Nested'
      /\ (arch \in Archs /\ Depth \in 0 .. MaxDepth /\ acts = [d \in 1 .. Depth |-> acts[d]])'
      /\ (\A d \in 1 .. Depth : EntryOK(arch, acts[d], d))'
      /\ \A c \in 1 .. Depth - 1 : Suspended(arch, mem', acts'[c], c)
    BY <1>1, <1>2, <1>6, <1>7, LastChanges
<1>9. Value(arch, TheContext, act, Depth) = Address(act.base - Above(arch)) /\ Value(arch, TheEntry, act, Depth) = Entry(act.closure)
    BY Values
<1>10. Argument(1) = Address(act.base - Above(arch)) /\ Argument(2) = Entry(act.closure)
    <2>1. CASE arch \in Arm64s
        <3>1. Argument(1) = regs[X[1]] /\ Argument(2) = regs[X[2]]
            BY <2>1 DEF Argument, Arm64s
        <3>2. RegHas(arch, pc, X[1], TheContext) /\ RegHas(arch, pc, X[2], TheEntry)
            BY <1>4, <2>1 DEF Arguments
        <3> QED BY <1>1, <1>9, <3>1, <3>2 DEF Meets, RegsMeet
    <2>2. CASE arch = "arm"
        <3>1. Argument(1) = regs[R[1]] /\ Argument(2) = regs[R[2]]
            BY <2>2 DEF Argument
        <3>2. RegHas(arch, pc, R[1], TheContext) /\ RegHas(arch, pc, R[2], TheEntry)
            BY <1>4, <2>2 DEF Arguments
        <3> QED BY <1>1, <1>9, <3>1, <3>2 DEF Meets, RegsMeet
    <2>3. CASE arch = "x64"
        <3>1. Argument(1) = regs[RX[7]] /\ Argument(2) = regs[RX[8]]
            BY <2>3 DEF Argument
        <3>2. RegHas(arch, pc, RX[7], TheContext) /\ RegHas(arch, pc, RX[8], TheEntry)
            BY <1>4, <2>3 DEF Arguments
        <3> QED BY <1>1, <1>9, <3>1, <3>2 DEF Meets, RegsMeet
    <2>4. CASE arch = "x86"
        <3>1. Argument(1) = mem[sp + 1 - 1] /\ Argument(2) = mem[sp + 2 - 1]
            BY <2>4 DEF Argument
        <3>2. PICK b \in Int, x \in Int : b = act.base /\ x = Off(arch, pc)
            BY <1>1
        <3>3. (b + x) + 1 - 1 = b + x /\ (b + x) + 2 - 1 = b + (x + 1)
            OBVIOUS
        <3>4. SlotHas(arch, pc, x, TheContext) /\ SlotHas(arch, pc, x + 1, TheEntry)
            BY <1>4, <2>4, <3>2 DEF Arguments
        <3>5. mem[b + x] = Value(arch, TheContext, act, Depth) /\ mem[b + (x + 1)] = Value(arch, TheEntry, act, Depth)
            BY <1>1, <3>2, <3>4 DEF Meets, SlotsMeet
        <3>6. sp = b + x
            BY <1>1, <3>2
        <3> QED BY <1>9, <3>1, <3>3, <3>5, <3>6
    <2> QED BY <1>1, <2>1, <2>2, <2>3, <2>4 DEF Known, Arm64s
<1>11. Suspended(arch, mem', e, Depth)
    <2>1. e.edited = {}
        BY <1>1, <1>4, <1>6 DEF Meets, Called
    <2>2. e.sp = e.base + Off(arch, e.at) /\ e.regs[SP] = Address(e.sp)
        BY <1>1, <1>6 DEF Meets
    <2>3. SlotsMeet(arch, e.at, mem', e, Depth)
        <3>1. \A s : Value(arch, s, e, Depth) = Value(arch, s, act, Depth)
            BY <1>6, SameValue
        <3> QED BY <1>1, <1>2, <1>6, <3>1 DEF Meets, SlotsMeet
    <2>4. PathMeets(arch, e.at, e)
        BY <1>1, <1>6 DEF Meets, PathMeets
    <2>5. e.ctx = Address(e.base - Above(arch)) /\ e.entry = Entry(e.closure)
        BY <1>6, <1>10
    <2> QED BY <1>3, <1>6, <2>1, <2>2, <2>3, <2>4, <2>5 DEF Suspended
<1>12. \A d \in InHandler' : Suspended(arch', mem', acts'[d], d)
    <2>1. act' = acts'[Depth]
        BY <1>8 DEF act
    <2>2. \A d \in InHandler' : d \in 1 .. Depth - 1 \/ d = Depth
        BY <1>1, <1>8 DEF InHandler
    <2> QED BY <1>2, <1>8, <1>11, <2>1, <2>2
<1>13. regs'[SP] = Address(act'.sp) /\ DOMAIN regs' = Registers(arch)
    <2>1. regs'[SP] = regs[SP] /\ DOMAIN regs' = Registers(arch)
        BY TwoRegisters DEF CallHandler
    <2> QED BY <1>1, <1>6, <1>8, <2>1 DEF Meets
<1>14. DOMAIN mem' = Slots /\ pc' \in {Gone} \cup 0 .. Len(Code[arch]') /\ ~(pc' > 0) /\ pc' # Gone
    <2>1. pc \in 1 .. Len(Code[arch])
        BY StackPointer
    <2>2. 0 \in 0 .. Len(Code[arch])
        BY <2>1, <1>4 DEF Called
    <2> QED BY <1>2, <2>2 DEF IInv, Gone
<1> QED BY <1>1, <1>2, <1>8, <1>12, <1>13, <1>14 DEF IInv, InC

---------------------------------------------------------------------------
(* The handler returns                                                     *)

\* What the invariant says of the activation whose handler is running.
LEMMA Running ==
    ASSUME IInv, pc = InC, Depth > 0
    PROVE  /\ arch \in Known /\ Suspended(arch, mem, act, Depth) /\ EntryOK(arch, act, Depth)
           /\ act.at \in Calls(arch) /\ act.base \in Int /\ Off(arch, act.at) \in -100 .. 0
           /\ act.sp = act.base + Off(arch, act.at) /\ act.sp \in Int
<1>1. Depth \in InHandler
    BY DEF IInv, InHandler
<1>2. Suspended(arch, mem, act, Depth)
    BY <1>1 DEF IInv, act
<1>3. arch \in Known /\ EntryOK(arch, act, Depth) /\ act.base \in Int
    BY LastActivation
<1>4. act.at \in Calls(arch) /\ act.sp = act.base + Off(arch, act.at)
    BY <1>2 DEF Suspended
<1>5. Off(arch, act.at) \in -100 .. 0
    BY <1>3, <1>4, AtCalls, OffRange DEF Called
<1>6. act.sp \in Int
    BY <1>3, <1>4, <1>5
<1> QED BY <1>2, <1>3, <1>4, <1>5, <1>6

LEMMA NextHopSlotIs ==
    ASSUME IInv, pc = InC, Depth > 0
    PROVE  NextHopSlot(act.base - Above(arch)) = act.base + HopOff(arch)
<1>1. /\ arch \in Known /\ Suspended(arch, mem, act, Depth) /\ act.at \in Calls(arch) /\ act.base \in Int
    BY Running
<1>2. Called(arch, act.at)
    BY <1>1, AtCalls
<1>3. HopOff(arch) \in -100 .. -1 /\ Above(arch) \in 0 .. 100 /\ (arch \in Intel => HopOff(arch) = -1)
    BY <1>1, HopRange
<1>4. PICK b \in Int, h \in Int, k \in Int : b = act.base /\ h = HopOff(arch) /\ k = Above(arch)
    <2>1. HopOff(arch) \in Int /\ Above(arch) \in Int
        BY <1>3
    <2> QED BY <1>1, <2>1, Zenon
<1>5. CASE arch \in Intel
    <2>1. SpAt[arch] = 1
        BY <1>5 DEF SpAt, Intel
    <2>2. mem[b + (1 - k)] = Value(arch, TheBase, act, Depth)
        BY <1>1, <1>2, <1>4, <2>1 DEF Called, Suspended, SlotsMeet
    <2>3. Value(arch, TheBase, act, Depth) = Address(act.base)
        BY Values
    <2>4. (b - k) + 1 = b + (1 - k)
        OBVIOUS
    <2>5. mem[(b - k) + SpAt[arch]][2] = b
        BY <1>4, <2>1, <2>2, <2>3, <2>4 DEF Address
    <2>6. b - 1 = b + h
        BY <1>3, <1>4, <1>5
    <2> QED BY <1>4, <1>5, <2>5, <2>6 DEF NextHopSlot
<1>6. CASE arch \notin Intel
    <2>1. ASSUME NEW s \in Slots PROVE <<NextHop[arch], s - (b - k)>> \in RegisterContext(arch) <=> s = b + h
        <3>1. Field(arch, NextHop[arch], s - (b - k)) <=> s - (b - k) = h + k
            BY <1>1, <1>4, <1>6, HopField
        <3>2. s \in Int
            BY BridgeAssumption DEF Slots
        <3>3. s - (b - k) = h + k <=> s = b + h
            BY <3>2
        <3> QED BY <1>1, <3>1, <3>3, Fields
    <2>2. b + h \in Slots
        BY <1>3, <1>4, LastActivation
    <2>3. NextHopSlot(b - k) = CHOOSE s \in Slots : <<NextHop[arch], s - (b - k)>> \in RegisterContext(arch)
        BY <1>6 DEF NextHopSlot
    <2> QED BY <1>4, <2>1, <2>2, <2>3
<1> QED BY <1>5, <1>6

LEMMA EditableAre ==
    ASSUME NEW a \in Known, NEW r
    PROVE  r \in EditableOf(a) <=> (\E k : Field(a, r, k)) /\ r \notin Used[a]
<1>1. ASSUME NEW f \in RegisterContext(a), r = f[1] PROVE \E k : Field(a, r, k)
    <2>1. PICK q, k : f = <<q, k>> /\ Field(a, q, k)
        BY Fields
    <2> QED BY <1>1, <2>1
<1>2. ASSUME NEW k, Field(a, r, k) PROVE \E f \in RegisterContext(a) : r = f[1]
    <2>1. <<r, k>> \in RegisterContext(a) /\ <<r, k>>[1] = r
        BY <1>2, Fields
    <2> QED BY <2>1
<1> QED BY <1>1, <1>2 DEF EditableOf

\* The slot a handler that changes the registers in edits leaves at s.
Left(edits, ctx, s) ==
    IF s = NextHopSlot(ctx) THEN Hop(act.entry[2])
    ELSE IF \E r \in edits : <<r, s - ctx>> \in RegisterContext(arch)
    THEN (CHOOSE r \in edits : <<r, s - ctx>> \in RegisterContext(arch)) \o <<-1>>
    ELSE mem[s]

\* The slots of the context after the handler.
LEMMA SlotsAfter ==
    ASSUME IInv, pc = InC, Depth > 0, NEW edits \in {{}, EditableOf(arch)},
           NEW o, NEW s, SlotHas(arch, act.at + 1, o, s), NEW e,
           e.base = act.base, e.closure = act.closure, e.edited = edits
    PROVE  Left(edits, act.base - Above(arch), act.base + o) = Value(arch, s, e, Depth)
<1>1. /\ arch \in Known /\ Suspended(arch, mem, act, Depth) /\ act.at \in Calls(arch) /\ act.base \in Int
    BY Running
<1>2. Called(arch, act.at) /\ Returned(arch, act.at)
    BY <1>1, AtCalls
<1>3. PICK b \in Int, h \in Int, k \in Int : b = act.base /\ h = HopOff(arch) /\ k = Above(arch)
    <2>1. HopOff(arch) \in Int /\ Above(arch) \in Int
        BY <1>1, HopRange
    <2> QED BY <1>1, <2>1, Zenon
<1>4. NextHopSlot(b - k) = b + h
    BY <1>3, NextHopSlotIs
<1>5. o \in Int
    BY <1>1, HeldSlots
<1>6. act.edited = {} /\ act.entry = Entry(act.closure)
    BY <1>1 DEF Suspended
<1>7. CASE s = TheHop /\ o = h
    <2>1. Left(edits, b - k, b + o) = Hop(act.entry[2])
        BY <1>4, <1>7 DEF Left
    <2>2. act.entry[2] = act.closure
        BY <1>6 DEF Entry
    <2>3. Value(arch, TheHop, e, Depth) = Hop(e.closure)
        BY HopValue
    <2> QED BY <1>3, <1>7, <2>1, <2>2, <2>3
<1>8. CASE o # h /\ SlotHas(arch, act.at, o, s) /\ HeldSo(arch, o + k, s)
    <2>1. b + o # b + h
        BY <1>5, <1>8
    <2>2. (b + o) - (b - k) = o + k
        BY <1>5
    <2>3. mem[b + o] = Value(arch, s, act, Depth)
        BY <1>1, <1>3, <1>8 DEF Suspended, SlotsMeet
    <2>4. \A r : <<r, (b + o) - (b - k)>> \in RegisterContext(arch) <=> Field(arch, r, o + k)
        BY <1>1, <2>2, Fields
    <2>5. \A r \in edits : (\E j : Field(arch, r, j)) /\ r \notin Used[arch]
        BY <1>1, EditableAre
    <2>6. CASE s = TheReturn /\ \A q : Field(arch, q, o + k) => q \in Used[arch]
        <3>1. ~\E r \in edits : <<r, (b + o) - (b - k)>> \in RegisterContext(arch)
            BY <2>4, <2>5, <2>6
        <3>2. Left(edits, b - k, b + o) = mem[b + o]
            BY <1>4, <2>1, <3>1 DEF Left
        <3>3. Value(arch, TheReturn, e, Depth) = Value(arch, TheReturn, act, Depth)
            <4>1. Value(arch, TheReturn, e, Depth) = <<"trampoline", 7, 0>>
                BY ReturnValue
            <4>2. Value(arch, TheReturn, act, Depth) = <<"trampoline", 7, 0>>
                BY ReturnValue
            <4> QED BY <4>1, <4>2
        <3> QED BY <1>3, <2>3, <2>6, <3>2, <3>3
    <2>7. ASSUME NEW r, s = Own(r),
                 \A q : Field(arch, q, o + k) /\ q \notin Used[arch] => q = r,
                 \A j : Field(arch, r, j) /\ r \notin Used[arch] => j = o + k
          PROVE  Left(edits, b - k, b + o) = Value(arch, s, e, Depth)
        <3>1. Value(arch, Own(r), e, Depth) = IF r \in edits THEN r \o <<-1>> ELSE r \o <<Depth>>
            <4>1. Value(arch, Own(r), e, Depth) = Held(r, e, Depth)
                BY OwnValue
            <4> QED BY <4>1 DEF Held
        <3>2. Value(arch, Own(r), act, Depth) = r \o <<Depth>>
            <4>1. Value(arch, Own(r), act, Depth) = Held(r, act, Depth)
                BY OwnValue
            <4> QED BY <1>6, <4>1 DEF Held
        <3>3. CASE r \in edits
            <4>1. Field(arch, r, o + k)
                BY <2>5, <2>7, <3>3
            <4>2. \A q \in edits : <<q, (b + o) - (b - k)>> \in RegisterContext(arch) <=> q = r
                BY <2>4, <2>5, <2>7, <4>1
            <4>3. (CHOOSE q \in edits : <<q, (b + o) - (b - k)>> \in RegisterContext(arch)) = r
                BY <3>3, <4>2
            <4>4. Left(edits, b - k, b + o) = r \o <<-1>>
                BY <1>4, <2>1, <3>3, <4>2, <4>3 DEF Left
            <4> QED BY <2>7, <3>1, <3>3, <4>4
        <3>4. CASE r \notin edits
            <4>1. ~\E q \in edits : <<q, (b + o) - (b - k)>> \in RegisterContext(arch)
                BY <2>4, <2>5, <2>7, <3>4
            <4>2. Left(edits, b - k, b + o) = mem[b + o]
                BY <1>4, <2>1, <4>1 DEF Left
            <4> QED BY <2>3, <2>7, <3>1, <3>2, <3>4, <4>2
        <3> QED BY <3>3, <3>4
    <2> QED BY <1>3, <1>8, <2>6, <2>7 DEF HeldSo
<1> QED BY <1>2, <1>3, <1>7, <1>8 DEF Returned

\* The stack of the program after the handler.
LEMMA ProgramAfter ==
    ASSUME IInv, pc = InC, Depth > 0, NEW edits \in {{}, EditableOf(arch)},
           NEW s \in Slots, s >= act.base
    PROVE  Left(edits, act.base - Above(arch), s) = mem[s]
<1>1. arch \in Known /\ act.base \in Int
    BY Running
<1>2. HopOff(arch) \in -100 .. -1 /\ Above(arch) \in 0 .. 100
    BY <1>1, HopRange
<1>3. PICK b \in Int, h \in -100 .. -1, k \in 0 .. 100 : b = act.base /\ h = HopOff(arch) /\ k = Above(arch)
    BY <1>1, <1>2, Zenon
<1>4. s \in Int /\ s >= b
    BY <1>3, BridgeAssumption DEF Slots
<1>5. NextHopSlot(b - k) = b + h
    BY <1>3, NextHopSlotIs
<1>6. s # b + h
    BY <1>3, <1>4
<1>7. ASSUME NEW r, <<r, s - (b - k)>> \in RegisterContext(arch) PROVE FALSE
    <2>1. Field(arch, r, s - (b - k))
        BY <1>1, <1>7, Fields
    <2>2. s - (b - k) \in 0 .. k - 1
        BY <1>1, <1>3, <2>1, FieldRange
    <2> QED BY <1>3, <1>4, <2>2
<1>8. Left(edits, b - k, s) = mem[s]
    BY <1>5, <1>6, <1>7 DEF Left
<1> QED BY <1>3, <1>8

LEMMA HandlerReturnsStep ==
    ASSUME IInv, NEW edits \in {{}, EditableOf(arch)}, HandlerReturns(edits)
    PROVE  IInv' /\ Kept
<1>0. PICK e : e = [act EXCEPT !.edited = edits]
    OBVIOUS
<1>1. pc = InC /\ Depth > 0 /\ arch' = arch
    BY DEF HandlerReturns
<1>2. /\ arch \in Known /\ Suspended(arch, mem, act, Depth) /\ EntryOK(arch, act, Depth)
      /\ act.at \in Calls(arch) /\ act.base \in Int /\ Off(arch, act.at) \in -100 .. 0
      /\ act.sp = act.base + Off(arch, act.at) /\ act.sp \in Int
    BY <1>1, Running
<1>3. Called(arch, act.at) /\ Returned(arch, act.at)
    BY <1>2, AtCalls
<1>4. PICK own \in Int : own = act.sp + (IF arch = "x86" THEN 2 ELSE 0)
    BY <1>2
<1>5. act.ctx[2] = act.base - Above(arch) /\ act.regs[SP] = Address(act.sp)
    BY <1>2 DEF Suspended, Address
<1>6. /\ DOMAIN mem' = Slots
      /\ \A s \in Slots : mem'[s] = IF s < own THEN Junk ELSE Left(edits, act.base - Above(arch), s)
    <2>1. mem' = [s \in Slots |-> IF s < own THEN Junk ELSE Left(edits, act.ctx[2], s)]
        BY <1>4, Zenon DEF HandlerReturns, Left
    <2>2. mem' = [s \in Slots |-> IF s < own THEN Junk ELSE Left(edits, act.base - Above(arch), s)]
        BY <1>5, <2>1, Zenon
    <2> QED BY <2>2, Zenon
<1>7. \A s \in Slots : s >= act.base => mem'[s] = mem[s]
    <2>1. ASSUME NEW s \in Slots, s >= act.base PROVE mem'[s] = mem[s]
        <3>1. s \in Int
            BY BridgeAssumption DEF Slots
        <3>2. Off(arch, act.at) < -3
            BY <1>3 DEF Called
        <3>3. ~(s < own)
            BY <1>2, <1>4, <2>1, <3>1, <3>2
        <3>4. Left(edits, act.base - Above(arch), s) = mem[s]
            BY <1>1, <2>1, ProgramAfter
        <3> QED BY <1>6, <3>3, <3>4
    <2> QED BY <2>1
<1>8. /\ IsActivation(e) /\ e.base = act.base /\ e.closure = act.closure /\ e.edited = edits
      /\ e.sp = act.sp /\ e.at = act.at
    <2>1. IsActivation(act)
        BY <1>2 DEF EntryOK
    <2>2. Edited(e, act, edits)
        BY <1>0 DEF Edited
    <2> QED BY <2>1, <2>2, EditedActivation
<1>9. EntryOK(arch, e, Depth)
    BY <1>2, <1>8 DEF EntryOK
<1>10. WithLast(acts', acts, Depth, e)
    BY <1>0 DEF HandlerReturns, WithLast, act
<1>11. /\ Depth' = Depth /\ act' = e /\ Nested'
       /\ (arch \in Archs /\ Depth \in 0 .. MaxDepth /\ acts = [d \in 1 .. Depth |-> acts[d]])'
       /\ (\A d \in 1 .. Depth : EntryOK(arch, acts[d], d))'
       /\ \A c \in 1 .. Depth - 1 : Suspended(arch, mem', acts'[c], c)
    BY <1>1, <1>7, <1>8, <1>9, <1>10, LastChanges
<1>12. /\ pc' = act.at + 1 /\ pc' \in 1 .. Len(Code[arch]) /\ Off(arch, pc') = Off(arch, act.at)
       /\ (\A r, s : ~RegHas(arch, pc', r, s)) /\ ~Before(arch, pc')
       /\ arch = "x64" => pc' \notin {28, 30, 31}
    BY <1>3 DEF HandlerReturns, Called
<1>13. Meets(arch, pc', regs', mem', e, Depth)
    <2>1. regs'[SP] = Address(e.base + Off(arch, pc'))
        <3>1. regs'[SP] = act.regs[SP]
            BY TwoRegisters DEF HandlerReturns
        <3> QED BY <1>2, <1>5, <1>8, <1>12, <3>1
    <2>2. RegsMeet(arch, pc', regs', e, Depth)
        BY <1>12 DEF RegsMeet
    <2>3. ASSUME NEW o, NEW s, SlotHas(arch, pc', o, s) PROVE mem'[e.base + o] = Value(arch, s, e, Depth)
        <3>0. SlotHas(arch, act.at + 1, o, s)
            BY <1>12, <2>3
        <3>1. o \in Off(arch, act.at) + (IF arch = "x86" THEN 2 ELSE 0) .. -1
            BY <1>3, <3>0 DEF Returned
        <3>2. o \in -100 .. -1 /\ ~(act.base + o < own)
            BY <1>2, <1>4, <3>1
        <3>3. act.base + o \in Slots
            BY <1>1, <3>2, LastActivation
        <3>4. Left(edits, act.base - Above(arch), act.base + o) = Value(arch, s, e, Depth)
            BY <1>1, <1>8, <3>0, SlotsAfter
        <3> QED BY <1>6, <1>8, <3>2, <3>3, <3>4
    <2>4. SlotsMeet(arch, pc', mem', e, Depth)
        BY <2>3 DEF SlotsMeet
    <2>5. PathMeets(arch, pc', e)
        BY <1>12 DEF PathMeets
    <2> QED BY <1>12, <2>1, <2>2, <2>4, <2>5 DEF Meets
<1>14. pc' \in Int /\ pc' > 0 /\ pc' \in {Gone} \cup 0 .. Len(Code[arch]) /\ pc' # InC /\ pc' # Gone
    BY <1>12 DEF InC, Gone
<1>15. \A d \in InHandler' : Suspended(arch', mem', acts'[d], d)
    <2>1. \A d \in InHandler' : d \in 1 .. Depth - 1
        BY <1>1, <1>11, <1>14 DEF InHandler, InC
    <2> QED BY <1>1, <1>11, <2>1
<1>16. DOMAIN regs' = Registers(arch)
    BY DEF HandlerReturns
<1>17. IInv'
    BY <1>1, <1>6, <1>11, <1>13, <1>14, <1>15, <1>16 DEF IInv
<1>18. Kept
    BY <1>2, <1>7, BridgeAssumption DEF Kept, Slots
<1> QED BY <1>17, <1>18

---------------------------------------------------------------------------
(* The bridge is left and the instrumented code has run                    *)

LEMMA LeaveStep ==
    ASSUME IInv, pc > 0, Leave
    PROVE  IInv'
<1>1. /\ arch \in Known /\ Depth > 0 /\ Meets(arch, pc, regs, mem, act, Depth) /\ pc \in 1 .. Len(Code[arch])
      /\ sp = act.base + Off(arch, pc) /\ act.base \in Int /\ Off(arch, pc) \in -100 .. 0
    BY StackPointer
<1>2. UNCHANGED <<arch, mem>> /\ pc' = -1
    BY DEF Leave, Gone
<1>3. Value(arch, TheHop, act, Depth) = Hop(act.closure)
    BY HopValue
<1>4. DOMAIN regs = Registers(arch) /\ DOMAIN mem = Slots
    BY DEF IInv
<1>5. PICK w : /\ acts' = [acts EXCEPT ![Depth].to = w] /\ w = Hop(act.closure) /\ pc = Exit(arch)
               /\ regs'[SP] = Address(act.base) /\ DOMAIN regs' = Registers(arch)
               /\ \A r \in Registers(arch) : r # SP => regs'[r] = regs[r]
    <2>1. CASE Insn.op = "br" /\ acts' = [acts EXCEPT ![Depth].to = regs[Insn.r]] /\ UNCHANGED regs
        <3>1. BrSound(arch, pc, Insn)
            BY <2>1, InsnSound, SoundOf
        <3>2. pc = Exit(arch) /\ Off(arch, pc) = 0 /\ RegHas(arch, pc, Insn.r, TheHop)
            BY <3>1 DEF BrSound
        <3>3. regs[Insn.r] = Hop(act.closure)
            BY <1>1, <1>3, <3>2 DEF Meets, RegsMeet
        <3>4. act.base + 0 = act.base
            BY <1>1
        <3>5. regs'[SP] = Address(act.base)
            BY <1>1, <2>1, <3>2, <3>4 DEF Meets
        <3> QED BY <1>4, <2>1, <3>2, <3>3, <3>5
    <2>2. CASE /\ Insn.op = "popbr" /\ acts' = [acts EXCEPT ![Depth].to = mem[sp]]
               /\ regs' = [regs EXCEPT ![SP] = Address(sp + 1)]
        <3>1. PopBrSound(arch, pc, Insn)
            BY <2>2, InsnSound, SoundOf
        <3>2. pc = Exit(arch) /\ Off(arch, pc) = -1 /\ SlotHas(arch, pc, -1, TheHop)
            BY <3>1 DEF PopBrSound
        <3>3. mem[act.base + (-1)] = Hop(act.closure)
            BY <1>1, <1>3, <3>2 DEF Meets, SlotsMeet
        <3>4. sp = act.base + (-1) /\ sp + 1 = act.base
            BY <1>1, <3>2
        <3>5. regs'[SP] = Address(act.base) /\ DOMAIN regs' = Registers(arch)
            BY <1>4, <2>2, <3>4, TwoRegisters
        <3>6. \A r \in Registers(arch) : r # SP => regs'[r] = regs[r]
            BY <1>4, <2>2
        <3> QED BY <2>2, <3>2, <3>3, <3>4, <3>5, <3>6
    <2> QED BY <2>1, <2>2 DEF Leave
<1>6. PICK e : e = [act EXCEPT !.to = w]
    OBVIOUS
<1>7. EntryOK(arch, act, Depth)
    BY <1>1, LastActivation
<1>8. IsActivation(e) /\ e.base = act.base /\ e.closure = act.closure /\ e.edited = act.edited /\ e.to = w
    <2>1. IsActivation(act)
        BY <1>7 DEF EntryOK
    <2>2. GoesTo(e, act, w)
        BY <1>6 DEF GoesTo
    <2> QED BY <2>1, <2>2, LeavingActivation
<1>9. EntryOK(arch, e, Depth)
    BY <1>7, <1>8 DEF EntryOK
<1>10. WithLast(acts', acts, Depth, e)
    BY <1>5, <1>6 DEF WithLast, act
<1>11. /\ Depth' = Depth /\ act' = e /\ Nested'
       /\ (arch \in Archs /\ Depth \in 0 .. MaxDepth /\ acts = [d \in 1 .. Depth |-> acts[d]])'
       /\ (\A d \in 1 .. Depth : EntryOK(arch, acts[d], d))'
       /\ \A c \in 1 .. Depth - 1 : Suspended(arch, mem', acts'[c], c)
    BY <1>1, <1>2, <1>8, <1>9, <1>10, LastChanges
<1>12. \A d \in InHandler' : Suspended(arch', mem', acts'[d], d)
    <2>1. \A d \in InHandler' : d \in 1 .. Depth - 1
        BY <1>1, <1>2, <1>11 DEF InHandler, InC
    <2> QED BY <1>2, <1>11, <2>1
<1>13. RegsMeet(arch, Exit(arch), regs', e, Depth)
    <2>1. \A s : Value(arch, s, e, Depth) = Value(arch, s, act, Depth)
        BY <1>8, SameValue
    <2>2. ASSUME NEW r, NEW s, RegHas(arch, Exit(arch), r, s) PROVE regs'[r] = Value(arch, s, e, Depth)
        <3>1. r \in Registers(arch) /\ r # SP
            BY <1>1, <2>2, HeldRegisters
        <3>2. regs[r] = Value(arch, s, act, Depth)
            BY <1>1, <1>5, <2>2 DEF Meets, RegsMeet
        <3> QED BY <1>5, <2>1, <3>1, <3>2
    <2> QED BY <2>2 DEF RegsMeet
<1>14. (pc \in {Gone} \cup 0 .. Len(Code[arch]))' /\ pc' # InC /\ ~(pc' > 0)
    BY <1>2 DEF Gone, InC
<1>15. (act.to = Hop(act.closure) /\ regs[SP] = Address(act.base))'
    BY <1>5, <1>8, <1>11
<1> QED BY <1>1, <1>2, <1>4, <1>5, <1>11, <1>12, <1>13, <1>14, <1>15 DEF IInv

LEMMA FrontIs ==
    ASSUME NEW n \in Nat \ {0}, NEW s, Spans(s, n)
    PROVE  Spans(Front(s), n - 1) /\ \A i \in 1 .. n - 1 : Front(s)[i] = s[i]
<1> DEFINE S == {s[i] : i \in 1 .. n}
<1>1. s \in Seq(S) /\ Len(s) = n
    BY IsSeqSeq DEF Spans
<1> HIDE DEF S
<1>2. Front(s) = SubSeq(s, 1, n - 1)
    BY <1>1 DEF Front
<1>3. \A i \in 1 .. n - 1 : s[i] \in S
    BY <1>1
<1>4. /\ SubSeq(s, 1, n - 1) \in Seq(S) /\ Len(SubSeq(s, 1, n - 1)) = n - 1
      /\ \A i \in 1 .. n - 1 : SubSeq(s, 1, n - 1)[i] = s[i]
    BY <1>1, <1>3
<1> QED BY <1>2, <1>4, SeqIsSeq DEF Spans

LEMMA FinishStep ==
    ASSUME IInv, Finish
    PROVE  IInv' /\ Kept
<1>1. pc = Gone /\ arch' = arch /\ pc' = 0 /\ Depth > 0
    BY DEF Finish, InC, IInv, Gone
<1>2. Depth \in 1 .. MaxDepth /\ act.base \in Int /\ acts = [d \in 1 .. Depth |-> acts[d]]
    BY <1>1, LastActivation DEF IInv
<1>3. PICK n \in Nat \ {0} : n = Depth
    BY <1>2
<1>4. Spans(acts', n - 1) /\ \A i \in 1 .. n - 1 : acts'[i] = acts[i]
    <2>1. Spans(acts, n)
        BY <1>2, <1>3, FunIsSeq DEF Spans
    <2> QED BY <1>3, <2>1, FrontIs DEF Finish
<1>5. Depth' = n - 1 /\ acts' = [d \in 1 .. n - 1 |-> acts'[d]]
    BY <1>4 DEF Depth, Spans, IsSeq
<1>6. DOMAIN mem' = Slots /\ \A s \in Slots : mem'[s] = IF s < act.base THEN Junk ELSE mem[s]
    BY DEF Finish
<1>7. \A s \in Slots : s >= act.base => mem'[s] = mem[s]
    BY <1>2, <1>6, BridgeAssumption DEF Slots
<1>8. \A c \in 1 .. n - 1 : Suspended(arch, mem', acts'[c], c)
    BY <1>1, <1>3, <1>4, <1>7, StaysSuspended
<1>9. \A d \in InHandler' : Suspended(arch', mem', acts'[d], d)
    BY <1>1, <1>5, <1>8 DEF InHandler
<1>10. (\A d \in 1 .. Depth : EntryOK(arch, acts[d], d))'
    <2>1. \A d \in 1 .. n - 1 : EntryOK(arch, acts[d], d)
        BY <1>3 DEF IInv
    <2> QED BY <1>1, <1>4, <1>5, <2>1
<1>11. Nested'
    <2>1. ASSUME NEW d \in 1 .. n - 1, NEW c \in 1 .. d - 1 PROVE acts'[d].base <= acts'[c].sp
        <3>0. d \in 1 .. Depth
            BY <1>3
        <3>1. acts[d].base <= acts[c].sp
            BY <3>0 DEF IInv, Nested
        <3>2. c \in 1 .. n - 1
            BY <1>3
        <3> QED BY <1>4, <3>1, <3>2
    <2> QED BY <1>5, <2>1 DEF Nested
<1>12. Depth' > 0 => regs'[SP] = Address(act'.sp)
    <2> SUFFICES ASSUME n - 1 > 0 PROVE regs'[SP] = Address(act'.sp)
        BY <1>5
    <2>1. regs'[SP] = Address(acts[n - 1].sp)
        BY <1>3, TwoRegisters DEF Finish
    <2>2. act' = acts[n - 1]
        BY <1>3, <1>4, <1>5 DEF act
    <2> QED BY <2>1, <2>2
<1>13. (arch \in Archs /\ Depth \in 0 .. MaxDepth)' /\ DOMAIN regs' = Registers(arch)
    <2>1. MaxDepth \in Nat /\ n - 1 \in 0 .. MaxDepth
        BY <1>2, <1>3, BridgeAssumption
    <2>2. arch' \in Archs /\ DOMAIN regs' = Registers(arch)
        BY <1>1 DEF IInv, Finish
    <2> QED BY <1>5, <2>1, <2>2
<1>14. (pc \in {Gone} \cup 0 .. Len(Code[arch]))'
    <2>1. arch \in Known
        BY <1>1, LastActivation
    <2>2. 1 \in 1 .. Len(Code[arch])
        BY <2>1, AtStart
    <2> QED BY <1>1, <2>2
<1>15. IInv'
    BY <1>1, <1>5, <1>6, <1>9, <1>10, <1>11, <1>12, <1>13, <1>14 DEF IInv, InC, Gone
<1>16. Kept
    BY <1>2, <1>6 DEF Kept
<1> QED BY <1>15, <1>16

---------------------------------------------------------------------------
(* An instrumented address is reached                                      *)

Appended(t, s, e) == t = Append(s, e)

LEMMA AppendIs ==
    ASSUME NEW n \in Nat, NEW s, Spans(s, n), NEW e, NEW t, Appended(t, s, e)
    PROVE  Spans(t, n + 1) /\ t[n + 1] = e /\ \A i \in 1 .. n : t[i] = s[i]
<1> DEFINE S == {s[i] : i \in 1 .. n} \cup {e}
<1>1. s \in Seq(S) /\ Len(s) = n /\ e \in S
    BY IsSeqSeq DEF Spans
<1> HIDE DEF S
<1>2. /\ Append(s, e) \in Seq(S) /\ Len(Append(s, e)) = n + 1 /\ Append(s, e)[n + 1] = e
      /\ \A i \in 1 .. n : Append(s, e)[i] = s[i]
    BY <1>1
<1> QED BY <1>2, SeqIsSeq DEF Spans, Appended

LEMMA NewShare ==
    ASSUME NEW d \in 0 .. MaxDepth - 1, NEW pad \in Pads, NEW b \in Int, b >= -4 - d * Share
    PROVE  b - pad >= 100 - 4 - (d + 1) * Share
<1>1. Share \in Nat /\ d * Share \in Nat
    BY ShareFits, BridgeAssumption
<1>2. pad \in Nat /\ pad + 100 <= Share
    BY BridgeAssumption, RoomAssumption DEF Largest
<1>3. PICK h \in Nat, x \in Nat : h = Share /\ x = d * Share
    BY <1>1
<1>4. d \in Int
    BY BridgeAssumption
<1>5. (d + 1) * h = d * h + h
    BY <1>3, <1>4
<1>6. b - pad >= 100 - 4 - (x + h)
    BY <1>2, <1>3
<1> QED BY <1>3, <1>5, <1>6

\* The instrumented address n is reached with the stack pointer base.
Begins(n, pad, base) ==
    /\ base = (IF Depth = 0 THEN -Frame ELSE act.sp) - pad
    /\ acts' = Append(acts, [closure |-> n, base |-> base, sp |-> base, at |-> 0,
                             regs |-> regs, ctx |-> Junk, entry |-> Junk,
                             to |-> Junk, edited |-> {}])
    /\ regs' = [r \in Registers(arch) |-> IF r = SP THEN Address(base) ELSE r \o <<Depth + 1>>]

LEMMA InstrumentedStep ==
    ASSUME IInv, NEW n \in Closures, Instrumented(n)
    PROVE  IInv' /\ Kept
<1>1. pc = InC /\ Depth < MaxDepth /\ pc' = 1 /\ arch' = arch /\ mem' = mem
    BY DEF Instrumented
<1>2. arch \in Known /\ Depth \in 0 .. MaxDepth /\ acts = [d \in 1 .. Depth |-> acts[d]] /\ MaxDepth \in Nat
    BY KnownArch, BridgeAssumption DEF IInv
<1>3. PICK m \in Nat : m = Depth
    BY <1>2
<1>a. PICK pad \in Pads : \E base : Begins(n, pad, base)
    BY Zenon DEF Instrumented, Begins
<1>b. PICK base : Begins(n, pad, base)
    BY <1>a
<1>4. /\ base = (IF Depth = 0 THEN -Frame ELSE act.sp) - pad
      /\ acts' = Append(acts, [closure |-> n, base |-> base, sp |-> base, at |-> 0,
                               regs |-> regs, ctx |-> Junk, entry |-> Junk,
                               to |-> Junk, edited |-> {}])
      /\ regs' = [r \in Registers(arch) |-> IF r = SP THEN Address(base) ELSE r \o <<Depth + 1>>]
    BY <1>b, Zenon DEF Begins
<1>5. PICK e : e = [closure |-> n, base |-> base, sp |-> base, at |-> 0,
                    regs |-> regs, ctx |-> Junk, entry |-> Junk, to |-> Junk, edited |-> {}]
    OBVIOUS
<1>6. /\ IsActivation(e) /\ e.base = base /\ e.closure = n /\ e.edited = {}
    BY <1>5 DEF IsActivation
<1>7. Spans(acts', m + 1) /\ acts'[m + 1] = e /\ \A i \in 1 .. m : acts'[i] = acts[i]
    <2>1. Spans(acts, m)
        BY <1>2, <1>3, FunIsSeq DEF Spans
    <2>2. Appended(acts', acts, e)
        BY <1>4, <1>5, Zenon DEF Appended
    <2> QED BY <1>3, <2>1, <2>2, AppendIs
<1>8. Depth' = m + 1 /\ act' = e /\ acts' = [d \in 1 .. m + 1 |-> acts'[d]]
    BY <1>7 DEF Depth, act, Spans, IsSeq
<1>9. /\ base \in Int /\ base <= -4 /\ base >= 100 - 4 - (m + 1) * Share
      /\ \A c \in 1 .. m : base <= acts[c].sp
    <2>0. pad \in Nat /\ m \in 0 .. MaxDepth - 1
        BY <1>1, <1>2, <1>3, <1>a, BridgeAssumption
    <2>1. CASE m = 0
        <3>1. base = -4 - pad
            BY <1>3, <1>4, <2>1 DEF Frame
        <3>2. 0 * Share = 0
            BY ShareFits, BridgeAssumption
        <3>3. -4 - pad >= 100 - 4 - (m + 1) * Share
            BY <1>a, <2>0, <2>1, <3>2, NewShare
        <3> QED BY <2>0, <2>1, <3>1, <3>3
    <2>2. CASE m > 0
        <3>1. /\ act.base \in Int /\ Off(arch, act.at) \in -100 .. 0 /\ EntryOK(arch, act, Depth)
              /\ act.sp = act.base + Off(arch, act.at) /\ act.sp \in Int
            BY <1>1, <1>3, <2>2, Running
        <3>2. base = act.sp - pad
            BY <1>3, <1>4, <2>2
        <3>3. act.base <= -4 /\ act.base >= 100 - 4 - m * Share
            BY <1>3, <3>1 DEF EntryOK, Frame, Largest
        <3>4. m * Share \in Nat
            BY <2>0, ShareFits, <1>2, <1>3
        <3>5. act.sp >= -4 - m * Share
            BY <3>1, <3>3, <3>4
        <3>6. act.sp - pad >= 100 - 4 - (m + 1) * Share
            BY <1>a, <2>0, <3>1, <3>5, NewShare
        <3>7. base \in Int /\ base <= act.sp /\ act.sp <= act.base /\ base <= -4
            BY <2>0, <3>1, <3>2, <3>3
        <3>8. ASSUME NEW c \in 1 .. m PROVE base <= acts[c].sp
            <4>1. CASE c = m
                BY <1>3, <3>7, <4>1 DEF act
            <4>2. CASE c # m
                <5>1. c \in 1 .. Depth - 1
                    BY <1>3, <4>2
                <5>2. act.base <= acts[c].sp /\ acts[c].sp \in Int
                    <6>1. act.base <= acts[c].sp /\ EntryOK(arch, acts[c], c) /\ Suspended(arch, mem, acts[c], c)
                        BY <1>3, <2>2, <5>1, LastActivation
                    <6>2. acts[c].at \in Calls(arch) /\ acts[c].base \in Int /\ acts[c].sp = acts[c].base + Off(arch, acts[c].at)
                        BY <6>1 DEF EntryOK, Suspended
                    <6>3. Off(arch, acts[c].at) \in -100 .. 0
                        BY <1>2, <6>2, AtCalls, OffRange DEF Called
                    <6> QED BY <6>1, <6>2, <6>3
                <5> QED BY <3>1, <3>7, <5>2
            <4> QED BY <4>1, <4>2
        <3> QED BY <3>2, <3>6, <3>7, <3>8
    <2> QED BY <1>3, <2>1, <2>2
<1>10. (\A d \in 1 .. Depth : EntryOK(arch, acts[d], d))'
    <2>1. EntryOK(arch, e, m + 1)
        BY <1>6, <1>9 DEF EntryOK, Frame, Largest
    <2>2. \A d \in 1 .. m : EntryOK(arch, acts[d], d)
        BY <1>3 DEF IInv
    <2>3. \A d \in 1 .. m + 1 : d = m + 1 \/ d \in 1 .. m
        BY <1>3
    <2> QED BY <1>1, <1>7, <1>8, <2>1, <2>2, <2>3
<1>11. Nested'
    <2>1. ASSUME NEW d \in 1 .. m + 1, NEW c \in 1 .. d - 1 PROVE acts'[d].base <= acts'[c].sp
        <3>1. c \in 1 .. m
            BY <1>3
        <3>2. CASE d = m + 1
            BY <1>6, <1>7, <1>9, <3>1, <3>2
        <3>3. CASE d # m + 1
            <4>1. d \in 1 .. m /\ d \in 1 .. Depth
                BY <1>3, <3>3
            <4>2. acts[d].base <= acts[c].sp
                BY <4>1 DEF IInv, Nested
            <4> QED BY <1>7, <3>1, <4>1, <4>2
        <3> QED BY <3>2, <3>3
    <2> QED BY <1>8, <2>1 DEF Nested
<1>12. \A d \in InHandler' : Suspended(arch', mem', acts'[d], d)
    <2>1. \A d \in InHandler' : d \in 1 .. m
        BY <1>1, <1>3, <1>8 DEF InHandler, InC
    <2>2. \A d \in 1 .. m : Suspended(arch, mem, acts[d], d)
        BY <1>1, <1>3 DEF IInv, InHandler
    <2> QED BY <1>1, <1>7, <2>1, <2>2
<1>13. Meets(arch, 1, regs', mem, e, m + 1)
    <2>1. /\ Off(arch, 1) = 0 /\ (\A r, s : RegHas(arch, 1, r, s) => s = Own(r))
          /\ (\A o, s : ~SlotHas(arch, 1, o, s))
        BY <1>2, AtStart
    <2>2. regs'[SP] = Address(e.base + Off(arch, 1))
        <3>1. base + 0 = base
            BY <1>9
        <3>2. regs'[SP] = Address(base)
            BY <1>4, TwoRegisters
        <3> QED BY <1>6, <2>1, <3>1, <3>2
    <2>3. ASSUME NEW r, NEW s, RegHas(arch, 1, r, s) PROVE regs'[r] = Value(arch, s, e, m + 1)
        <3>1. s = Own(r) /\ r \in Registers(arch) /\ r # SP
            BY <1>2, <2>1, <2>3, HeldRegisters
        <3>2. regs'[r] = r \o <<m + 1>>
            BY <1>3, <1>4, <3>1
        <3>3. Value(arch, Own(r), e, m + 1) = Held(r, e, m + 1)
            BY OwnValue
        <3> QED BY <1>6, <3>1, <3>2, <3>3 DEF Held
    <2>4. RegsMeet(arch, 1, regs', e, m + 1)
        BY <2>3 DEF RegsMeet
    <2>5. SlotsMeet(arch, 1, mem, e, m + 1)
        BY <2>1 DEF SlotsMeet
    <2>6. PathMeets(arch, 1, e)
        BY DEF PathMeets
    <2> QED BY <1>6, <2>2, <2>4, <2>5, <2>6 DEF Meets
<1>14. (pc \in {Gone} \cup 0 .. Len(Code[arch]))' /\ pc' # InC /\ pc' # Gone
    <2>1. 1 \in 1 .. Len(Code[arch])
        BY <1>2, AtStart
    <2> QED BY <1>1, <2>1 DEF InC, Gone
<1>15. Depth' \in 0 .. MaxDepth /\ Depth' > 0
    BY <1>1, <1>2, <1>3, <1>8
<1>16. (arch \in Archs /\ DOMAIN regs = Registers(arch) /\ DOMAIN mem = Slots)'
    BY <1>1, <1>4 DEF IInv
<1>17. acts' = [d \in 1 .. Depth' |-> acts'[d]]
    BY <1>8
<1>18. IInv'
    BY <1>1, <1>8, <1>10, <1>11, <1>12, <1>13, <1>14, <1>15, <1>16, <1>17 DEF IInv
<1>19. Kept
    BY <1>1 DEF Kept
<1> QED BY <1>18, <1>19

LEMMA Starts ==
    ASSUME Init
    PROVE  IInv
<1>1. arch \in Known /\ arch \in Archs
    BY KnownArch DEF Init
<1>2. Depth = 0 /\ acts = [d \in 1 .. 0 |-> acts[d]] /\ MaxDepth \in Nat
    BY BridgeAssumption DEF Init, Depth
<1>3. 1 \in 1 .. Len(Code[arch])
    BY <1>1, AtStart
<1>4. pc = 0 /\ DOMAIN regs = Registers(arch) /\ DOMAIN mem = Slots
    BY DEF Init, InC
<1>5. InHandler = {} /\ Nested
    BY <1>2 DEF InHandler, Nested
<1> QED BY <1>1, <1>2, <1>3, <1>4, <1>5 DEF IInv, InC, Gone

---------------------------------------------------------------------------
(* The theorems                                                            *)

\* No step breaks the invariant or changes the stack of the program.
LEMMA InvariantStep ==
    ASSUME IInv, Next
    PROVE  IInv' /\ Kept
<1>0. ASSUME mem' = mem PROVE Kept
    BY <1>0 DEF Kept
<1>1. ASSUME NEW n \in Closures, Instrumented(n) PROVE IInv' /\ Kept
    BY <1>1, InstrumentedStep
<1>2. CASE pc > 0 /\ Compute
    <2>1. IInv'
        BY <1>2, ComputeStep
    <2>2. mem' = mem
        BY <1>2 DEF Compute
    <2> QED BY <1>0, <2>1, <2>2
<1>3. CASE pc > 0 /\ Write
    BY <1>3, WriteActionStep
<1>4. CASE pc > 0 /\ Branch
    <2>1. IInv'
        BY <1>4, BranchStep
    <2>2. mem' = mem
        BY <1>4 DEF Branch
    <2> QED BY <1>0, <2>1, <2>2
<1>5. CASE pc > 0 /\ CallHandler
    <2>1. IInv'
        BY <1>5, CallHandlerStep
    <2>2. mem' = mem
        BY <1>5 DEF CallHandler
    <2> QED BY <1>0, <2>1, <2>2
<1>6. CASE pc > 0 /\ Leave
    <2>1. IInv'
        BY <1>6, LeaveStep
    <2>2. mem' = mem
        BY <1>6 DEF Leave
    <2> QED BY <1>0, <2>1, <2>2
<1>7. CASE HandlerReturns({})
    BY <1>7, HandlerReturnsStep
<1>8. CASE HandlerReturns(Editable)
    <2>1. Editable = EditableOf(arch)
        BY DEF Editable, EditableOf
    <2> QED BY <1>8, <2>1, HandlerReturnsStep
<1>9. CASE Finish
    BY <1>9, FinishStep
<1> QED BY <1>1, <1>2, <1>3, <1>4, <1>5, <1>6, <1>7, <1>8, <1>9 DEF Next

LEMMA InvariantStutter ==
    ASSUME IInv, UNCHANGED vars
    PROVE  IInv'
<1>1. Depth' = Depth /\ act' = act /\ InHandler' = InHandler
    BY DEF Depth, act, InHandler, vars
<1>2. (Nested <=> Nested')
    BY <1>1 DEF Nested, vars
<1> QED BY <1>1, <1>2 DEF IInv, vars

\* The inductive invariant: the processor keeps to the annotation of the
\* code, and so does the stack below every handler that is running.
THEOREM BridgeInvariant == Spec => []IInv
<1>1. Init => IInv
    BY Starts
<1>2. IInv /\ [Next]_vars => IInv'
    BY InvariantStep, InvariantStutter
<1> QED BY <1>1, <1>2, PTL DEF Spec

\* The stack pointer stays in the stack and below that of the program, and
\* the program counter in the code.
THEOREM BridgeTypeCorrect == Spec => []TypeOK
<1>1. IInv => TypeOK
    <2> SUFFICES ASSUME IInv PROVE TypeOK
        OBVIOUS
    <2>1. ASSUME Depth > 0 PROVE regs[SP][1] = "stack" /\ sp \in -StackSlots .. act.base
        <3>1. act.base \in Int /\ act.base >= 100 - StackSlots /\ StackSlots \in Nat
            BY <2>1, LastActivation
        <3>2. PICK k \in -100 .. 0 : regs[SP] = Address(act.base + k)
            <4>1. CASE pc > 0
                BY <4>1, StackPointer DEF Meets
            <4>2. CASE pc = InC
                <5>1. act.sp = act.base + Off(arch, act.at) /\ Off(arch, act.at) \in -100 .. 0
                    BY <2>1, <4>2, Running
                <5> QED BY <2>1, <4>2, <5>1 DEF IInv
            <4>3. CASE pc = Gone
                <5>1. regs[SP] = Address(act.base) /\ act.base + 0 = act.base
                    BY <3>1, <4>3 DEF IInv
                <5> QED BY <5>1
            <4> QED BY <4>1, <4>2, <4>3 DEF IInv, InC, Gone
        <3>3. sp = act.base + k /\ regs[SP][1] = "stack"
            BY <3>2 DEF sp, Address
        <3>4. act.base + k \in -StackSlots .. act.base
            BY <3>1, <3>2
        <3> QED BY <3>3, <3>4
    <2> QED BY <2>1 DEF IInv, TypeOK
<1> QED BY <1>1, BridgeInvariant, PTL

\* As long as its handler runs, the RegisterContext of an activation shows
\* the registers of the program, x17 and x30 of arm64, r12 of arm and the
\* flags of x86 excepted, and the entry is the one of the trampoline.
THEOREM ContextShown == Spec => []ContextShowsProgram
<1>1. IInv => ContextShowsProgram
    <2> SUFFICES ASSUME IInv, NEW d \in InHandler
                 PROVE  /\ acts[d].ctx[1] = "stack" /\ acts[d].entry = Entry(acts[d].closure)
                        /\ mem[acts[d].ctx[2] + SpAt[arch]] = Address(acts[d].base)
                        /\ \A f \in RegisterContext(arch) :
                            f[1] \notin Used[arch] => mem[acts[d].ctx[2] + f[2]] = f[1] \o <<d>>
        BY DEF ContextShowsProgram
    <2>1. PICK e : e = acts[d]
        OBVIOUS
    <2>2. arch \in Known /\ Suspended(arch, mem, e, d) /\ EntryOK(arch, e, d)
        BY <2>1, KnownArch DEF IInv, InHandler
    <2>3. /\ e.at \in Calls(arch) /\ e.ctx = Address(e.base - Above(arch)) /\ e.entry = Entry(e.closure)
          /\ e.edited = {} /\ e.base \in Int /\ SlotsMeet(arch, e.at, mem, e, d)
        BY <2>2 DEF Suspended, EntryOK
    <2>4. Called(arch, e.at) /\ Shown(arch, e.at)
        BY <2>2, <2>3, AtCalls
    <2>5. PICK b \in Int, k \in Int : b = e.base /\ k = Above(arch)
        <3>1. Above(arch) \in Int
            BY <2>2, HopRange
        <3> QED BY <2>3, <3>1
    <2>6. e.ctx[1] = "stack" /\ e.ctx[2] = b - k
        BY <2>3, <2>5 DEF Address
    <2>7. \A j \in Int : (b - k) + j = b + (j - k)
        OBVIOUS
    <2>8. mem[(b - k) + SpAt[arch]] = Address(b)
        <3>1. SpAt[arch] \in Int
            BY <2>2 DEF SpAt, Known
        <3>2. mem[b + (SpAt[arch] - k)] = Value(arch, TheBase, e, d)
            BY <2>3, <2>4, <2>5 DEF Called, SlotsMeet
        <3>3. Value(arch, TheBase, e, d) = Address(e.base)
            BY Values
        <3> QED BY <2>5, <2>7, <3>1, <3>2, <3>3
    <2>9. ASSUME NEW f \in RegisterContext(arch), f[1] \notin Used[arch]
          PROVE  mem[(b - k) + f[2]] = f[1] \o <<d>>
        <3>1. PICK r, j : f = <<r, j>> /\ Field(arch, r, j)
            BY <2>2, Fields
        <3>2. j \in Int /\ r \notin Used[arch]
            BY <2>2, <2>9, <3>1, FieldRange
        <3>3. mem[b + (j - k)] = Value(arch, Own(r), e, d)
            BY <2>3, <2>4, <2>5, <3>1, <3>2 DEF Shown, SlotsMeet
        <3>4. Value(arch, Own(r), e, d) = Held(r, e, d)
            BY OwnValue
        <3>5. Held(r, e, d) = r \o <<d>>
            BY <2>3 DEF Held
        <3> QED BY <2>3, <2>7, <3>1, <3>2, <3>3, <3>4, <3>5
    <2> QED BY <2>1, <2>3, <2>5, <2>6, <2>8, <2>9
<1> QED BY <1>1, BridgeInvariant, PTL

\* The program goes on in the relocated code of the address it was
\* instrumented at, with its stack pointer and with the registers it had or
\* the handler has put in the context; x17, r12 and the flags of x86 excepted.
THEOREM Resumes == Spec => []ProgramResumes
<1>1. IInv => ProgramResumes
    <2> SUFFICES ASSUME IInv, pc = Gone
                 PROVE  /\ act.to = Hop(act.closure) /\ sp = act.base
                        /\ \A r \in Editable \cup (Used[arch] \cap {X[31]}) :
                            regs[r] = IF r \in act.edited THEN r \o <<-1>> ELSE r \o <<Depth>>
        BY DEF ProgramResumes
    <2>1. act.to = Hop(act.closure) /\ regs[SP] = Address(act.base) /\ RegsMeet(arch, Exit(arch), regs, act, Depth)
        BY DEF IInv
    <2>2. arch \in Known
        BY KnownArch DEF IInv
    <2>3. ASSUME NEW r \in Editable \cup (Used[arch] \cap {X[31]})
          PROVE  regs[r] = IF r \in act.edited THEN r \o <<-1>> ELSE r \o <<Depth>>
        <3>1. r \in EditableOf(arch) \/ (r \in Used[arch] /\ r = X[31])
            BY DEF Editable, EditableOf
        <3>2. ((\E k : Field(arch, r, k)) /\ r \notin Used[arch]) \/ (r \in Used[arch] /\ r = X[31])
            BY <2>2, <3>1, EditableAre
        <3>3. RegHas(arch, Exit(arch), r, Own(r))
            BY <2>2, <3>2, AtExit
        <3>4. regs[r] = Value(arch, Own(r), act, Depth)
            BY <2>1, <3>3 DEF RegsMeet
        <3>5. Value(arch, Own(r), act, Depth) = Held(r, act, Depth)
            BY OwnValue
        <3> QED BY <3>4, <3>5 DEF Held
    <2>4. sp = act.base
        BY <2>1 DEF sp, Address
    <2> QED BY <2>1, <2>3, <2>4
<1> QED BY <1>1, BridgeInvariant, PTL

\* The handler is called on a stack that is aligned as the C functions of the
\* architecture expect it; on x64 wherever the instrumented instruction is.
THEOREM HandlerAligned == Spec => []HandlerStackAligned
<1>1. IInv => HandlerStackAligned
    <2> SUFFICES ASSUME IInv, NEW d \in InHandler, arch = "x64" \/ AtFunction(acts[d].base)
                 PROVE  acts[d].sp % (IF arch = "x86" THEN 4 ELSE 2) = 0
        BY DEF HandlerStackAligned
    <2>1. arch \in Known /\ Suspended(arch, mem, acts[d], d) /\ EntryOK(arch, acts[d], d)
        BY KnownArch DEF IInv, InHandler
    <2>2. /\ acts[d].at \in Calls(arch) /\ acts[d].sp = acts[d].base + Off(arch, acts[d].at)
          /\ PathMeets(arch, acts[d].at, acts[d])
        BY <2>1 DEF Suspended
    <2>a. PICK p : p = acts[d].at
        OBVIOUS
    <2>b. PICK b \in Int : b = acts[d].base
        BY <2>1 DEF EntryOK
    <2>3. b = acts[d].base /\ p = acts[d].at
        BY <2>a, <2>b
    <2>4. CASE arch \in Arm64s
        <3>1. PICK n \in Int : n \in {8, 32} /\ n = Q64(arch)
            BY <2>4, Arm64Code
        <3>2. p = 49 + n
            BY <2>2, <2>3, <2>4, <3>1, Arm64Annotated
        <3>3. Off(arch, p) = Off64(n, p)
            BY <2>4, <3>1, Arm64Annotated
        <3>4. Off64(n, p) = -36 - 2 * n
            BY <3>1, <3>2 DEF Off64
        <3>5. b % 2 = 0
            BY <2>3, <2>4 DEF AtFunction, Arm64s
        <3>6. (b + (-36 - 2 * n)) % 2 = 0
            BY <3>1, <3>5
        <3> QED BY <2>2, <2>3, <2>4, <3>3, <3>4, <3>6 DEF Arm64s
    <2>5. CASE arch = "arm"
        <3>1. Off(arch, p) = -18
            BY <2>2, <2>3, <2>5, ArmAnnotated DEF OffArm
        <3>2. b % 2 = 0
            BY <2>3, <2>5 DEF AtFunction
        <3>3. (b + (-18)) % 2 = 0
            BY <3>2
        <3> QED BY <2>2, <2>3, <2>5, <3>1, <3>3
    <2>6. CASE arch = "x64"
        <3>1. p \in {28, 31} /\ Off(arch, p) = OffX64(p)
            BY <2>2, <2>3, <2>6, X64Annotated
        <3>2. CASE p = 28
            <4>1. OffX64(p) = -21 /\ (b - 21) % 2 = 0
                BY <2>2, <2>3, <2>6, <3>2 DEF OffX64, PathMeets
            <4>2. (b + (-21)) % 2 = 0
                BY <4>1
            <4> QED BY <2>2, <2>3, <2>6, <3>1, <4>1, <4>2
        <3>3. CASE p = 31
            <4>1. OffX64(p) = -22 /\ (b - 21) % 2 = 1
                BY <2>2, <2>3, <2>6, <3>3 DEF OffX64, PathMeets
            <4>2. (b + (-22)) % 2 = 0
                BY <4>1
            <4> QED BY <2>2, <2>3, <2>6, <3>1, <4>1, <4>2
        <3> QED BY <3>1, <3>2, <3>3
    <2>7. CASE arch = "x86"
        <3>1. Off(arch, p) = -15
            BY <2>2, <2>3, <2>7, X86Annotated DEF OffX86
        <3>2. b % 4 = 3
            BY <2>3, <2>7 DEF AtFunction
        <3>3. (b + (-15)) % 4 = 0
            BY <3>2
        <3> QED BY <2>2, <2>3, <2>7, <3>1, <3>3
    <2> QED BY <2>1, <2>4, <2>5, <2>6, <2>7 DEF Known, Arm64s
<1> QED BY <1>1, BridgeInvariant, PTL

\* No step of the trampoline, the bridge or the handler changes the stack of
\* the code that was interrupted at or above its stack pointer; the red zone of
\* x64 is below it.
THEOREM StackKept == Spec => StackOfProgramKept
<1>1. IInv /\ [Next]_vars => [\A s \in Slots : mem'[s] # mem[s] => s < act.base]_vars
    BY InvariantStep DEF Kept
<1> QED BY <1>1, BridgeInvariant, PTL DEF Spec, StackOfProgramKept
=============================================================================
