------------------------ MODULE ArmRelocationProofs ------------------------
(***************************************************************************)
(* The buffer GenRelocateCodeAndBranch fills on ARM: items follow each     *)
(* other without gaps, and in Thumb code every address and every load of a *)
(* literal is at a multiple of four, for functions of any instructions.    *)
(***************************************************************************)
EXTENDS ArmRelocation, SequenceTheorems, WellFoundedInduction, TLAPS

\* A set of numbers that is not empty has a least one.
LEMMA LeastNat ==
    ASSUME NEW T \in SUBSET Nat, T # {}
    PROVE  \E n \in T : \A m \in T : n <= m
<1>1. IsWellFoundedOn(OpToRel(<, Nat), Nat)
    BY NatLessThanWellFounded
<1>2. PICK x \in T : \A y \in T : ~(<<y, x>> \in OpToRel(<, Nat))
    BY <1>1, WFMin
<1>3. \A y \in T : ~(y < x)
    BY <1>2 DEF OpToRel
<1> QED BY <1>3

---------------------------------------------------------------------------
(* Sequences of whatever elements                                          *)

IsSeq(s) == Len(s) \in Nat /\ s = [i \in 1 .. Len(s) |-> s[i]]

LEMMA SeqIsSeq ==
    ASSUME NEW S, NEW s \in Seq(S)
    PROVE  IsSeq(s)
BY DEF IsSeq

LEMMA IsSeqSeq ==
    ASSUME NEW s, IsSeq(s), NEW S, \A i \in 1 .. Len(s) : s[i] \in S
    PROVE  s \in Seq(S)
<1>1. s \in [1 .. Len(s) -> S] /\ Len(s) \in Nat
    BY DEF IsSeq
<1> QED BY <1>1

LEMMA FunIsSeq ==
    ASSUME NEW n \in Nat, NEW f, f = [i \in 1 .. n |-> f[i]]
    PROVE  IsSeq(f) /\ Len(f) = n
<1> DEFINE S == {f[i] : i \in 1 .. n}
<1>1. f \in [1 .. n -> S]
    OBVIOUS
<1> HIDE DEF S
<1>2. f \in Seq(S) /\ DOMAIN f = 1 .. n
    BY <1>1
<1>3. Len(f) = n
    BY <1>2
<1> QED BY <1>2, <1>3, SeqIsSeq

LEMMA ConcatIs ==
    ASSUME NEW s, NEW t, IsSeq(s), IsSeq(t), NEW u, u = s \o t
    PROVE  /\ IsSeq(u) /\ Len(u) = Len(s) + Len(t)
           /\ \A i \in 1 .. Len(s) : u[i] = s[i]
           /\ \A i \in 1 .. Len(t) : u[Len(s) + i] = t[i]
<1> DEFINE S == {s[i] : i \in 1 .. Len(s)} \cup {t[i] : i \in 1 .. Len(t)}
<1>1. (\A i \in 1 .. Len(s) : s[i] \in S) /\ (\A i \in 1 .. Len(t) : t[i] \in S)
    OBVIOUS
<1> HIDE DEF S
<1>2. s \in Seq(S) /\ t \in Seq(S)
    BY <1>1, IsSeqSeq
<1>3. /\ u \in Seq(S)
      /\ Len(u) = Len(s) + Len(t)
      /\ \A i \in 1 .. Len(s) + Len(t) : u[i] = IF i <= Len(s) THEN s[i] ELSE t[i - Len(s)]
    BY <1>2, ConcatProperties
<1>4. Len(s) \in Nat /\ Len(t) \in Nat
    BY DEF IsSeq
<1>5. \A i \in 1 .. Len(s) : u[i] = s[i]
    BY <1>3, <1>4
<1>6. ASSUME NEW i \in 1 .. Len(t) PROVE u[Len(s) + i] = t[i]
    <2>1. Len(s) + i \in 1 .. Len(s) + Len(t) /\ ~(Len(s) + i <= Len(s)) /\ Len(s) + i - Len(s) = i
        BY <1>4
    <2> QED BY <1>3, <2>1
<1> QED BY <1>3, <1>5, <1>6, SeqIsSeq

---------------------------------------------------------------------------
(* SizeOf                                                                  *)

\* f sums the sizes of the first n items.
Sums(f, items, n) == f = [i \in 0 .. n |-> IF i = 0 THEN 0 ELSE f[i - 1] + items[i].size]

LEMMA SumsExists ==
    ASSUME NEW items, NEW len \in Nat
    PROVE  \E f : Sums(f, items, len)
<1> DEFINE T == {n \in Nat : ~\E f : Sums(f, items, n)}
<1>1. SUFFICES ASSUME T # {} PROVE FALSE
    OBVIOUS
<1>2. PICK n \in T : \A m \in T : n <= m
    BY <1>1, LeastNat
<1>3. CASE n = 0
    <2>1. Sums([i \in 0 .. 0 |-> 0], items, 0)
        BY DEF Sums
    <2> QED BY <1>2, <1>3, <2>1
<1>4. CASE n > 0
    <2>1. n \in Nat /\ n - 1 \in Nat /\ ~(n <= n - 1)
        BY <1>2, <1>4
    <2>2. PICK g : Sums(g, items, n - 1)
        BY <1>2, <2>1
    <2> DEFINE f == [i \in 0 .. n |-> IF i = n THEN g[n - 1] + items[n].size ELSE g[i]]
    <2>3. \A i \in 0 .. n - 1 : g[i] = IF i = 0 THEN 0 ELSE g[i - 1] + items[i].size
        BY <2>2 DEF Sums
    <2>4. f[n] = g[n - 1] + items[n].size /\ \A i \in 0 .. n - 1 : f[i] = g[i]
        BY <2>1
    <2>5. f = [i \in 0 .. n |-> f[i]]
        OBVIOUS
    <2> HIDE DEF f
    <2>6. \A i \in 0 .. n : f[i] = IF i = 0 THEN 0 ELSE f[i - 1] + items[i].size
        <3> SUFFICES ASSUME NEW i \in 0 .. n
                     PROVE  f[i] = IF i = 0 THEN 0 ELSE f[i - 1] + items[i].size
            OBVIOUS
        <3>1. CASE i = n
            <4>1. n - 1 \in 0 .. n - 1 /\ n # 0
                BY <1>4, <2>1
            <4> QED BY <2>4, <3>1, <4>1
        <3>2. CASE i = 0
            BY <1>4, <2>1, <2>3, <2>4, <3>2
        <3>3. CASE i \in 1 .. n - 1
            <4>1. i \in 0 .. n - 1 /\ i - 1 \in 0 .. n - 1 /\ i # 0
                BY <2>1, <3>3
            <4> QED BY <2>3, <2>4, <4>1
        <3> QED BY <2>1, <3>1, <3>2, <3>3
    <2>7. Sums(f, items, n)
        BY <2>5, <2>6 DEF Sums
    <2> QED BY <1>2, <2>7
<1> QED BY <1>2, <1>3, <1>4

\* The recursive definition of SizeOf says what it seems to say.
LEMMA SizeOfRule ==
    ASSUME NEW items, Len(items) \in Nat
    PROVE  /\ SizeOf(items)[0] = 0
           /\ \A n \in 1 .. Len(items) : SizeOf(items)[n] = SizeOf(items)[n - 1] + items[n].size
<1> DEFINE f == CHOOSE f : Sums(f, items, Len(items))
<1>1. Sums(f, items, Len(items))
    BY SumsExists
<1>2. SizeOf(items) = f
    BY DEF SizeOf, Sums
<1> HIDE DEF f
<1>3. \A i \in 0 .. Len(items) : f[i] = IF i = 0 THEN 0 ELSE f[i - 1] + items[i].size
    BY <1>1 DEF Sums
<1>4. f[0] = 0
    BY <1>3
<1>5. ASSUME NEW n \in 1 .. Len(items) PROVE f[n] = f[n - 1] + items[n].size
    <2>1. n \in 0 .. Len(items) /\ n # 0
        OBVIOUS
    <2> QED BY <1>3, <2>1
<1> QED BY <1>2, <1>4, <1>5

---------------------------------------------------------------------------
(* The buffer                                                              *)

Literals == {"word", "ldrlit", "ldrlab"}

\* An item in its place.
IsItem(i) == \E op, rt, k : \E size \in {2, 4} : i = Item(op, rt, k, size)
IsPlaced(x) ==
    \E pos \in Nat : \E item, label : pos % 2 = 0 /\ IsItem(item) /\ x = [pos |-> pos, item |-> item, label |-> label]

\* Placed items follow each other without gaps; in Thumb code literals are
\* aligned.
CodeOK(c) ==
    /\ IsSeq(c)
    /\ \A n \in 1 .. Len(c) :
        /\ IsPlaced(c[n])
        /\ c[n].pos = (IF n = 1 THEN 0 ELSE c[n - 1].pos + c[n - 1].item.size)
        /\ thumb /\ c[n].item.op \in Literals => c[n].pos % 4 = 0

ItemsOK(items) == IsSeq(items) /\ \A n \in 1 .. Len(items) : IsItem(items[n])

\* The literals among the items are aligned if they are emitted at p.
AlignedFrom(p, items) ==
    \A n \in 1 .. Len(items) :
        items[n].op \in Literals => (p + SizeOf(items)[n - 1]) % 4 = 0

LEMMA EvenSum ==
    ASSUME NEW a \in Nat, NEW b \in Nat, a % 2 = 0, b % 2 = 0
    PROVE  a + b \in Nat /\ (a + b) % 2 = 0
OBVIOUS

LEMMA ItemSize ==
    ASSUME NEW i, IsItem(i)
    PROVE  i.size \in {2, 4} /\ i.size \in Nat /\ i.size % 2 = 0
BY DEF IsItem, Item

LEMMA PlacedParts ==
    ASSUME NEW x, IsPlaced(x)
    PROVE  x.pos \in Nat /\ x.pos % 2 = 0 /\ IsItem(x.item)
BY DEF IsPlaced

LEMMA SizesEven ==
    ASSUME NEW items, ItemsOK(items)
    PROVE  \A n \in 0 .. Len(items) : SizeOf(items)[n] \in Nat /\ SizeOf(items)[n] % 2 = 0
<1> DEFINE f == SizeOf(items)
           T == {n \in 0 .. Len(items) : ~(f[n] \in Nat /\ f[n] % 2 = 0)}
<1>1. Len(items) \in Nat
    BY DEF ItemsOK, IsSeq
<1>2. f[0] = 0 /\ \A n \in 1 .. Len(items) : f[n] = f[n - 1] + items[n].size
    BY <1>1, SizeOfRule
<1> HIDE DEF f
<1>3. SUFFICES ASSUME T # {} PROVE FALSE
    BY DEF f
<1>4. T \in SUBSET Nat
    BY <1>1
<1>5. PICK n \in T : \A m \in T : n <= m
    BY <1>3, <1>4, LeastNat
<1>6. n \in 0 .. Len(items) /\ ~(f[n] \in Nat /\ f[n] % 2 = 0)
    OBVIOUS
<1>7. n # 0
    BY <1>2, <1>6
<1>8. n \in 1 .. Len(items) /\ n - 1 \in 0 .. Len(items) /\ ~(n <= n - 1)
    BY <1>1, <1>6, <1>7
<1>9. f[n - 1] \in Nat /\ f[n - 1] % 2 = 0
    BY <1>5, <1>8
<1>10. f[n] = f[n - 1] + items[n].size /\ items[n].size \in Nat /\ items[n].size % 2 = 0
    BY <1>2, <1>8, ItemSize DEF ItemsOK
<1>11. f[n] \in Nat /\ f[n] % 2 = 0
    BY <1>9, <1>10, EvenSum
<1> QED BY <1>6, <1>11

LEMMA GetSizeEven ==
    ASSUME NEW c, CodeOK(c)
    PROVE  getSize(c) \in Nat /\ getSize(c) % 2 = 0
<1>1. CASE c = <<>>
    BY <1>1 DEF getSize
<1>2. CASE c # <<>>
    <2>1. Len(c) \in Nat /\ Len(c) # 0
        BY <1>2 DEF CodeOK, IsSeq
    <2>2. Len(c) \in 1 .. Len(c)
        BY <2>1
    <2>3. IsPlaced(c[Len(c)])
        BY <2>2 DEF CodeOK
    <2>4. PICK p \in Nat, s \in Nat : p = c[Len(c)].pos /\ s = c[Len(c)].item.size /\ p % 2 = 0 /\ s % 2 = 0
        BY <2>3, PlacedParts, ItemSize
    <2>5. getSize(c) = p + s
        BY <1>2, <2>4 DEF getSize
    <2> QED BY <2>4, <2>5, EvenSum
<1> QED BY <1>1, <1>2

LEMMA EmittedOK ==
    ASSUME NEW c, CodeOK(c), NEW items, ItemsOK(items), thumb => AlignedFrom(getSize(c), items)
    PROVE  CodeOK(Emitted(c, items)) /\ getSize(Emitted(c, items)) = getSize(c) + SizeOf(items)[Len(items)]
<1> DEFINE f == SizeOf(items)
           g == getSize(c)
           t == [n \in DOMAIN items |-> [pos |-> g + f[n - 1], item |-> items[n], label |-> Len(labels) + 1]]
           k == Len(items)
           l == Len(c)
<1>1. k \in Nat /\ l \in Nat /\ DOMAIN items = 1 .. k /\ IsSeq(c)
    BY DEF ItemsOK, CodeOK, IsSeq
<1>2. f[0] = 0 /\ \A n \in 1 .. k : f[n] = f[n - 1] + items[n].size
    BY <1>1, SizeOfRule
<1>3. \A n \in 0 .. k : f[n] \in Nat /\ f[n] % 2 = 0
    BY SizesEven
<1>4. g \in Nat /\ g % 2 = 0
    BY GetSizeEven
<1>5. Emitted(c, items) = c \o t
    BY DEF Emitted
<1>6. /\ IsSeq(t) /\ Len(t) = k
      /\ \A n \in 1 .. k : t[n] = [pos |-> g + f[n - 1], item |-> items[n], label |-> Len(labels) + 1]
    <2>1. t = [n \in 1 .. k |-> t[n]]
        BY <1>1
    <2> HIDE DEF f, g
    <2>2. IsSeq(t) /\ Len(t) = k
        BY <1>1, <2>1, FunIsSeq
    <2> QED BY <1>1, <2>2
<1> HIDE DEF f, g, t
<1>7. PICK e : e = c \o t
    OBVIOUS
<1>8. /\ IsSeq(e) /\ Len(e) = l + k
      /\ \A i \in 1 .. l : e[i] = c[i]
      /\ \A i \in 1 .. k : e[l + i] = t[i]
    <2>1. IsSeq(c) /\ IsSeq(t) /\ Len(t) = k
        BY <1>1, <1>6
    <2>2. /\ IsSeq(e) /\ Len(e) = Len(c) + Len(t)
          /\ \A i \in 1 .. Len(c) : e[i] = c[i]
          /\ \A i \in 1 .. Len(t) : e[Len(c) + i] = t[i]
        <3>1. PICK u : u = t
            OBVIOUS
        <3>2. e = c \o u /\ IsSeq(c) /\ IsSeq(u)
            BY <1>7, <2>1, <3>1
        <3>3. IsSeq(e) /\ Len(e) = Len(c) + Len(u)
            BY <3>2, ConcatIs
        <3>4. \A i \in 1 .. Len(c) : e[i] = c[i]
            BY <3>2, ConcatIs
        <3>5. \A i \in 1 .. Len(u) : e[Len(c) + i] = u[i]
            BY <3>2, ConcatIs
        <3> QED BY <3>1, <3>3, <3>4, <3>5
    <2> QED BY <2>1, <2>2
<1>9. l # 0 => g = c[l].pos + c[l].item.size
    <2>1. l # 0 => c # <<>>
        OBVIOUS
    <2> QED BY <2>1 DEF g, getSize
<1>10. l = 0 => g = 0
    <2>1. l = 0 => c = <<>>
        BY <1>1 DEF IsSeq
    <2> QED BY <2>1 DEF g, getSize
<1>11. ASSUME NEW n \in 1 .. l
       PROVE  /\ IsPlaced(e[n])
              /\ e[n].pos = (IF n = 1 THEN 0 ELSE e[n - 1].pos + e[n - 1].item.size)
              /\ thumb /\ e[n].item.op \in Literals => e[n].pos % 4 = 0
    <2>1. e[n] = c[n] /\ (n # 1 => e[n - 1] = c[n - 1])
        BY <1>1, <1>8
    <2> QED BY <2>1 DEF CodeOK
<1>12. ASSUME NEW j \in 1 .. k
       PROVE  LET n == l + j IN
              /\ IsPlaced(e[n])
              /\ e[n].pos = (IF n = 1 THEN 0 ELSE e[n - 1].pos + e[n - 1].item.size)
              /\ thumb /\ e[n].item.op \in Literals => e[n].pos % 4 = 0
    <2>1. e[l + j] = [pos |-> g + f[j - 1], item |-> items[j], label |-> Len(labels) + 1]
        BY <1>6, <1>8
    <2>2. e[l + j].pos = g + f[j - 1] /\ e[l + j].item = items[j]
        BY <2>1
    <2>3. j - 1 \in 0 .. k /\ IsItem(items[j])
        BY <1>1 DEF ItemsOK
    <2>4. PICK q \in Nat : q = f[j - 1] /\ q % 2 = 0
        BY <1>3, <2>3
    <2>5. g + q \in Nat /\ (g + q) % 2 = 0
        BY <1>4, <2>4, SMTT(30)
    <2>6. IsPlaced(e[l + j])
        BY <2>1, <2>3, <2>4, <2>5 DEF IsPlaced
    <2>7. thumb /\ e[l + j].item.op \in Literals => e[l + j].pos % 4 = 0
        BY <2>2 DEF AlignedFrom, f, g
    <2>8. e[l + j].pos = (IF l + j = 1 THEN 0 ELSE e[l + j - 1].pos + e[l + j - 1].item.size)
        <3>1. CASE j = 1
            <4>1. e[l + j].pos = g
                <5>1. j - 1 = 0
                    BY <3>1
                <5>2. f[j - 1] = 0
                    BY <1>2, <5>1
                <5>3. e[l + j].pos = g + 0
                    BY <2>2, <5>2
                <5> QED BY <1>4, <5>3
            <4>2. CASE l = 0
                BY <1>10, <3>1, <4>1, <4>2
            <4>3. CASE l # 0
                <5>1. l + j # 1 /\ l + j - 1 = l /\ l \in 1 .. l
                    BY <1>1, <3>1, <4>3
                <5>2. e[l + j - 1] = c[l]
                    BY <1>8, <5>1
                <5> QED BY <1>9, <4>1, <4>3, <5>1, <5>2
            <4> QED BY <4>2, <4>3
        <3>2. CASE j # 1
            <4>1. j - 1 \in 1 .. k /\ l + j # 1 /\ l + j - 1 = l + (j - 1) /\ j - 1 - 1 \in 0 .. k
                BY <1>1, <3>2
            <4>2. e[l + j - 1] = [pos |-> g + f[j - 1 - 1], item |-> items[j - 1], label |-> Len(labels) + 1]
                BY <1>6, <1>8, <4>1
            <4>3. f[j - 1] = f[j - 1 - 1] + items[j - 1].size /\ f[j - 1 - 1] \in Nat
                BY <1>2, <1>3, <4>1
            <4>4. items[j - 1].size \in Nat
                BY <4>1, ItemSize DEF ItemsOK
            <4>5. e[l + j - 1].pos + e[l + j - 1].item.size = (g + f[j - 1 - 1]) + items[j - 1].size
                BY <4>2
            <4>6. PICK a \in Nat, b \in Nat : a = f[j - 1 - 1] /\ b = items[j - 1].size
                BY <4>3, <4>4
            <4>7. e[l + j].pos = g + (a + b) /\ e[l + j - 1].pos + e[l + j - 1].item.size = (g + a) + b
                BY <2>2, <4>3, <4>5, <4>6
            <4>8. g + (a + b) = (g + a) + b
                BY <1>4
            <4> QED BY <4>1, <4>7, <4>8
        <3> QED BY <3>1, <3>2
    <2> QED BY <2>6, <2>7, <2>8
<1>13. CodeOK(e)
    <2> SUFFICES ASSUME NEW n \in 1 .. Len(e)
                 PROVE  /\ IsPlaced(e[n])
                        /\ e[n].pos = (IF n = 1 THEN 0 ELSE e[n - 1].pos + e[n - 1].item.size)
                        /\ thumb /\ e[n].item.op \in Literals => e[n].pos % 4 = 0
        BY <1>8 DEF CodeOK
    <2>1. CASE n \in 1 .. l
        BY <1>11, <2>1
    <2>2. CASE n \notin 1 .. l
        <3>1. n - l \in 1 .. k /\ l + (n - l) = n
            BY <1>1, <1>8, <2>2
        <3> QED BY <1>12, <3>1
    <2> QED BY <2>1, <2>2
<1>14. getSize(e) = g + f[k]
    <2>1. CASE k = 0
        <3>1. e = c
            BY <1>1, <1>8, <2>1 DEF IsSeq
        <3> QED BY <1>2, <1>4, <2>1, <3>1 DEF g
    <2>2. CASE k # 0
        <3>1. k \in 1 .. k /\ l + k # 0 /\ k - 1 \in 0 .. k
            BY <1>1, <2>2
        <3>2. e # <<>>
            BY <1>1, <1>8, <3>1
        <3>3. e[l + k] = [pos |-> g + f[k - 1], item |-> items[k], label |-> Len(labels) + 1]
            BY <1>6, <1>8, <3>1
        <3>4. getSize(e) = (g + f[k - 1]) + items[k].size
            BY <1>8, <3>2, <3>3 DEF getSize
        <3>5. f[k] = f[k - 1] + items[k].size /\ f[k - 1] \in Nat /\ items[k].size \in Nat
            BY <1>2, <1>3, <3>1, ItemSize DEF ItemsOK
        <3> QED BY <1>4, <3>4, <3>5
    <2> QED BY <2>1, <2>2
<1> QED BY <1>5, <1>7, <1>13, <1>14 DEF f, g

---------------------------------------------------------------------------
(* What instructions become                                                *)

\* At most four items, with the literals at multiples of four.
NiceList(items) ==
    /\ ItemsOK(items)
    /\ Len(items) \in 1 .. 4
    /\ Len(items) >= 2 /\ items[2].op \in Literals => items[1].size = 4
    /\ Len(items) >= 3 /\ items[3].op \in Literals => items[1].size + items[2].size = 8
    /\ Len(items) >= 4 /\ items[4].op \in Literals =>
            items[1].size + items[2].size + items[3].size \in {8, 12}

LabelsOK(ls) ==
    IsSeq(ls) /\ \A n \in 1 .. Len(ls) : ls[n].data \in Int /\ ls[n].used_for_branch \in BOOLEAN

BecomesOK(b) == NiceList(b.items) /\ LabelsOK(b.data)

LEMMA Nice1 ==
    ASSUME NEW a, IsItem(a)
    PROVE  NiceList(<<a>>)
<1>1. IsSeq(<<a>>) /\ Len(<<a>>) = 1
    <2>1. <<a>> \in Seq({a}) /\ Len(<<a>>) = 1
        OBVIOUS
    <2> QED BY <2>1, SeqIsSeq
<1>2. ItemsOK(<<a>>)
    BY <1>1 DEF ItemsOK
<1> QED BY <1>1, <1>2 DEF NiceList

LEMMA Nice2 ==
    ASSUME NEW a, NEW b, IsItem(a), IsItem(b), b.op \in Literals => a.size = 4
    PROVE  NiceList(<<a, b>>)
<1>1. IsSeq(<<a, b>>) /\ Len(<<a, b>>) = 2
    <2>1. <<a, b>> \in Seq({a, b}) /\ Len(<<a, b>>) = 2
        OBVIOUS
    <2> QED BY <2>1, SeqIsSeq
<1>2. ItemsOK(<<a, b>>)
    BY <1>1 DEF ItemsOK
<1> QED BY <1>1, <1>2 DEF NiceList

LEMMA Nice3 ==
    ASSUME NEW a, NEW b, NEW c, IsItem(a), IsItem(b), IsItem(c), b.op \in Literals => a.size = 4,
           c.op \in Literals => a.size + b.size = 8
    PROVE  NiceList(<<a, b, c>>)
<1>1. IsSeq(<<a, b, c>>) /\ Len(<<a, b, c>>) = 3
    <2>1. <<a, b, c>> \in Seq({a, b, c}) /\ Len(<<a, b, c>>) = 3
        OBVIOUS
    <2> QED BY <2>1, SeqIsSeq
<1>2. ItemsOK(<<a, b, c>>)
    BY <1>1 DEF ItemsOK
<1> QED BY <1>1, <1>2 DEF NiceList

LEMMA Nice4 ==
    ASSUME NEW a, NEW b, NEW c, NEW d, IsItem(a), IsItem(b), IsItem(c), IsItem(d),
           b.op \in Literals => a.size = 4,
           c.op \in Literals => a.size + b.size = 8,
           d.op \in Literals => a.size + b.size + c.size \in {8, 12}
    PROVE  NiceList(<<a, b, c, d>>)
<1>1. IsSeq(<<a, b, c, d>>) /\ Len(<<a, b, c, d>>) = 4
    <2>1. <<a, b, c, d>> \in Seq({a, b, c, d}) /\ Len(<<a, b, c, d>>) = 4
        OBVIOUS
    <2> QED BY <2>1, SeqIsSeq
<1>2. ItemsOK(<<a, b, c, d>>)
    BY <1>1 DEF ItemsOK
<1> QED BY <1>1, <1>2 DEF NiceList

LEMMA NiceIsAligned ==
    ASSUME NEW items, NiceList(items), NEW p \in Nat, p % 4 = 0
    PROVE  AlignedFrom(p, items)
<1> DEFINE f == SizeOf(items)
           k == Len(items)
<1>1. k \in 1 .. 4 /\ k \in Nat /\ ItemsOK(items)
    BY DEF NiceList
<1>2. f[0] = 0 /\ \A n \in 1 .. k : f[n] = f[n - 1] + items[n].size
    BY <1>1, SizeOfRule
<1>3. \A n \in 1 .. k : items[n].size \in Nat
    BY ItemSize DEF NiceList, ItemsOK
<1> HIDE DEF f
<1>4. SUFFICES ASSUME NEW n \in 1 .. k, items[n].op \in Literals PROVE (p + f[n - 1]) % 4 = 0
    BY DEF AlignedFrom, f
<1>5. CASE n = 1
    <2>1. f[n - 1] = 0
        BY <1>2, <1>5
    <2> QED BY <2>1
<1>6. CASE n = 2
    <2>1. 1 \in 1 .. k /\ 1 - 1 = 0 /\ n - 1 = 1 /\ items[1].size = 4
        BY <1>1, <1>4, <1>6 DEF NiceList
    <2>2. f[n - 1] = 4
        BY <1>2, <2>1
    <2> QED BY <2>2
<1>7. CASE n = 3
    <2>1. 1 \in 1 .. k /\ 2 \in 1 .. k /\ 1 - 1 = 0 /\ 2 - 1 = 1 /\ n - 1 = 2
          /\ items[1].size + items[2].size = 8
        BY <1>1, <1>4, <1>7 DEF NiceList
    <2>2. f[1] = items[1].size /\ f[2] = f[1] + items[2].size
        BY <1>2, <1>3, <2>1
    <2>3. f[n - 1] = 8
        BY <2>1, <2>2
    <2> QED BY <2>3
<1>8. CASE n = 4
    <2>1. 1 \in 1 .. k /\ 2 \in 1 .. k /\ 3 \in 1 .. k /\ 1 - 1 = 0 /\ 2 - 1 = 1 /\ 3 - 1 = 2 /\ n - 1 = 3
          /\ items[1].size + items[2].size + items[3].size \in {8, 12}
        BY <1>1, <1>4, <1>8 DEF NiceList
    <2>2. f[1] = items[1].size /\ f[2] = f[1] + items[2].size /\ f[3] = f[2] + items[3].size
        BY <1>2, <1>3, <2>1
    <2>3. f[n - 1] = 8 \/ f[n - 1] = 12
        BY <2>1, <2>2
    <2>4. (p + 8) % 4 = 0 /\ (p + 12) % 4 = 0
        OBVIOUS
    <2>5. CASE f[n - 1] = 8
        BY <2>4, <2>5
    <2>6. CASE f[n - 1] = 12
        BY <2>4, <2>6
    <2> QED BY <2>3, <2>5, <2>6
<1>9. n = 1 \/ n = 2 \/ n = 3 \/ n = 4
    <2>1. PICK q \in 1 .. 4 : q = k
        BY <1>1
    <2>2. n \in 1 .. q
        BY <2>1
    <2> QED BY <2>2
<1> QED BY <1>5, <1>6, <1>7, <1>8, <1>9

LEMMA ItemIs ==
    ASSUME NEW op, NEW rt, NEW k, NEW size \in {2, 4}
    PROVE  IsItem(Item(op, rt, k, size)) /\ Item(op, rt, k, size).op = op /\ Item(op, rt, k, size).size = size
BY DEF IsItem, Item

LEMMA BecomesIs ==
    ASSUME NEW items, NiceList(items)
    PROVE  BecomesOK(Becomes(items))
<1>1. LabelsOK(<<>>)
    <2>1. <<>> \in Seq({}) /\ Len(<<>>) = 0
        OBVIOUS
    <2>2. IsSeq(<<>>)
        BY <2>1, SeqIsSeq
    <2>3. \A n \in 1 .. Len(<<>>) : FALSE
        BY <2>1
    <2> QED BY <2>2, <2>3 DEF LabelsOK
<1> QED BY <1>1 DEF BecomesOK, Becomes

LEMMA WithLabelIs ==
    ASSUME NEW items, NiceList(items), NEW data \in Int, NEW branch \in BOOLEAN
    PROVE  BecomesOK(WithLabel(items, data, branch))
<1> DEFINE l == [data |-> data, used_for_branch |-> branch]
<1>1. l.data \in Int /\ l.used_for_branch \in BOOLEAN
    OBVIOUS
<1>2. WithLabel(items, data, branch) = [items |-> items, data |-> <<l>>]
    BY DEF WithLabel
<1> HIDE DEF l
<1>3. LabelsOK(<<l>>)
    <2>1. <<l>> \in Seq({l}) /\ Len(<<l>>) = 1
        OBVIOUS
    <2>2. IsSeq(<<l>>)
        BY <2>1, SeqIsSeq
    <2>3. \A n \in 1 .. Len(<<l>>) : <<l>>[n] = l
        BY <2>1
    <2> QED BY <1>1, <2>2, <2>3 DEF LabelsOK
<1> QED BY <1>2, <1>3 DEF BecomesOK

LEMMA ItemShapes ==
    /\ IsItem(nop) /\ nop.op = "nop" /\ nop.size = 2
    /\ \A k : IsItem(t2_b(k)) /\ t2_b(k).op = "b" /\ t2_b(k).size = 4
    /\ \A k : IsItem(t2_bl(k)) /\ t2_bl(k).op = "bl" /\ t2_bl(k).size = 4
    /\ \A rt, k : IsItem(t2_ldr_pc(rt, k)) /\ t2_ldr_pc(rt, k).op = "ldrlit" /\ t2_ldr_pc(rt, k).size = 4
    /\ \A rt : IsItem(ldr_reg(rt)) /\ ldr_reg(rt).op = "ldrreg" /\ ldr_reg(rt).size = 4
    /\ \A x : IsItem(EmitAddress(x)) /\ EmitAddress(x).op = "word" /\ EmitAddress(x).size = 4
    /\ \A rt : IsItem(Ldr(rt)) /\ Ldr(rt).op = "ldrlab" /\ Ldr(rt).size = 4
    /\ IsItem(Plain(2)) /\ IsItem(Plain(4))
BY ItemIs DEF nop, t2_b, t2_bl, t2_ldr_pc, ldr_reg, EmitAddress, Ldr, Plain

LEMMA NumbersAre ==
    ASSUME NEW a \in Int, NEW b \in Int
    PROVE  /\ Align(a + b, 4) \in Int /\ a + b \in Int /\ a + b + 1 \in Int /\ a + (b \div 4) \in Int
           /\ a + 2 * Unsigned(b, 8) + 1 \in Int
           /\ a + 2 * Unsigned(b, 11) + 1 \in Int
<1>1. Unsigned(b, 8) \in Int /\ Unsigned(b, 11) \in Int
    BY DEF Unsigned
<1> QED BY <1>1 DEF Align

\* What a two byte instruction becomes.
LEMMA Thumb1Nice ==
    ASSUME NEW i, i.off \in Int, NEW from_pc \in Int
    PROVE  BecomesOK(Thumb1Relocate(i, from_pc))
<1>1. CASE i.op = "hireg"
    <2>1. Thumb1Relocate(i, from_pc) = WithLabel(<<Ldr("v"), Item("usev", "none", 0, 2)>>, from_pc, FALSE)
        BY <1>1 DEF Thumb1Relocate
    <2>2. NiceList(<<Ldr("v"), Item("usev", "none", 0, 2)>>)
        BY ItemShapes, ItemIs, Nice2 DEF Literals
    <2>3. from_pc \in Int
        BY NumbersAre
    <2> QED BY <2>1, <2>2, <2>3, WithLabelIs
<1>2. CASE i.op = "bxpc"
    <2>1. Thumb1Relocate(i, from_pc) = WithLabel(<<Ldr("pc")>>, from_pc, TRUE)
        BY <1>2 DEF Thumb1Relocate
    <2>2. NiceList(<<Ldr("pc")>>)
        BY ItemShapes, ItemIs, Nice1 DEF Literals
    <2>3. from_pc \in Int
        BY NumbersAre
    <2> QED BY <2>1, <2>2, <2>3, WithLabelIs
<1>3. CASE i.op = "ldr1"
    <2>1. Thumb1Relocate(i, from_pc) = WithLabel(<<Ldr("r"), ldr_reg("r")>>, Align(from_pc + i.off, 4), FALSE)
        BY <1>3 DEF Thumb1Relocate
    <2>2. NiceList(<<Ldr("r"), ldr_reg("r")>>)
        BY ItemShapes, ItemIs, Nice2 DEF Literals
    <2>3. Align(from_pc + i.off, 4) \in Int
        BY NumbersAre
    <2> QED BY <2>1, <2>2, <2>3, WithLabelIs
<1>4. CASE i.op = "adr1"
    <2>1. Thumb1Relocate(i, from_pc) = WithLabel(<<Ldr("r")>>, from_pc + (i.off \div 4), FALSE)
        BY <1>4 DEF Thumb1Relocate
    <2>2. NiceList(<<Ldr("r")>>)
        BY ItemShapes, ItemIs, Nice1 DEF Literals
    <2>3. from_pc + (i.off \div 4) \in Int
        BY NumbersAre
    <2> QED BY <2>1, <2>2, <2>3, WithLabelIs
<1>5. CASE i.op = "bcond1"
    <2>1. Thumb1Relocate(i, from_pc) = WithLabel(<<Item("bcond", "none", 2 * (Align(Unsigned(i.off, 8), 16) + 2), 2), nop, t2_b(4), Ldr("pc")>>, from_pc + 2 * Unsigned(i.off, 8) + 1, TRUE)
        BY <1>5 DEF Thumb1Relocate
    <2>2. NiceList(<<Item("bcond", "none", 2 * (Align(Unsigned(i.off, 8), 16) + 2), 2), nop, t2_b(4), Ldr("pc")>>)
        BY ItemShapes, ItemIs, Nice4 DEF Literals
    <2>3. from_pc + 2 * Unsigned(i.off, 8) + 1 \in Int
        BY NumbersAre
    <2> QED BY <2>1, <2>2, <2>3, WithLabelIs
<1>6. CASE i.op = "cbz"
    <2>1. Thumb1Relocate(i, from_pc) = WithLabel(<<Item("bcond", "none", 2, 2), nop, t2_b(0), Ldr("pc")>>, from_pc + i.off + 1, TRUE)
        BY <1>6 DEF Thumb1Relocate
    <2>2. NiceList(<<Item("bcond", "none", 2, 2), nop, t2_b(0), Ldr("pc")>>)
        BY ItemShapes, ItemIs, Nice4 DEF Literals
    <2>3. from_pc + i.off + 1 \in Int
        BY NumbersAre
    <2> QED BY <2>1, <2>2, <2>3, WithLabelIs
<1>7. CASE i.op = "b1"
    <2>1. Thumb1Relocate(i, from_pc) = WithLabel(<<Ldr("pc")>>, from_pc + 2 * Unsigned(i.off, 11) + 1, TRUE)
        BY <1>7 DEF Thumb1Relocate
    <2>2. NiceList(<<Ldr("pc")>>)
        BY ItemShapes, ItemIs, Nice1 DEF Literals
    <2>3. from_pc + 2 * Unsigned(i.off, 11) + 1 \in Int
        BY NumbersAre
    <2> QED BY <2>1, <2>2, <2>3, WithLabelIs
<1>8. CASE i.op \notin {"hireg", "bxpc", "ldr1", "adr1", "bcond1", "cbz", "b1"}
    <2>1. Thumb1Relocate(i, from_pc) = Becomes(<<Plain(2)>>)
        BY <1>8 DEF Thumb1Relocate
    <2>2. NiceList(<<Plain(2)>>)
        BY ItemShapes, ItemIs, Nice1 DEF Literals
    <2> QED BY <2>1, <2>2, BecomesIs
<1> QED BY <1>1, <1>2, <1>3, <1>4, <1>5, <1>6, <1>7, <1>8

\* What a four byte Thumb instruction becomes.
LEMMA Thumb2Nice ==
    ASSUME NEW i, i.off \in Int, NEW from_pc \in Int
    PROVE  BecomesOK(Thumb2Relocate(i, from_pc))
<1>1. CASE i.op = "bcond2"
    <2>1. Thumb2Relocate(i, from_pc) = Becomes(<<Item("bcond", "none", IF i.off < 0 THEN 4 - 2 ^ 20 ELSE 4, 4), t2_b(4), t2_ldr_pc("pc", 0), EmitAddress(from_pc + i.off + 1)>>)
        BY <1>1 DEF Thumb2Relocate
    <2>2. NiceList(<<Item("bcond", "none", IF i.off < 0 THEN 4 - 2 ^ 20 ELSE 4, 4), t2_b(4), t2_ldr_pc("pc", 0), EmitAddress(from_pc + i.off + 1)>>)
        BY ItemShapes, ItemIs, Nice4 DEF Literals
    <2> QED BY <2>1, <2>2, BecomesIs
<1>2. CASE i.op = "bw"
    <2>1. Thumb2Relocate(i, from_pc) = Becomes(<<t2_ldr_pc("pc", 0), EmitAddress(from_pc + i.off + 1)>>)
        BY <1>2 DEF Thumb2Relocate
    <2>2. NiceList(<<t2_ldr_pc("pc", 0), EmitAddress(from_pc + i.off + 1)>>)
        BY ItemShapes, ItemIs, Nice2 DEF Literals
    <2> QED BY <2>1, <2>2, BecomesIs
<1>3. CASE i.op = "bl"
    <2>1. Thumb2Relocate(i, from_pc) = Becomes(<<t2_bl(4), t2_b(8), t2_ldr_pc("pc", 0), EmitAddress(from_pc + i.off + 1)>>)
        BY <1>3 DEF Thumb2Relocate
    <2>2. NiceList(<<t2_bl(4), t2_b(8), t2_ldr_pc("pc", 0), EmitAddress(from_pc + i.off + 1)>>)
        BY ItemShapes, ItemIs, Nice4 DEF Literals
    <2> QED BY <2>1, <2>2, BecomesIs
<1>4. CASE i.op = "blx"
    <2>1. Thumb2Relocate(i, from_pc) = Becomes(<<t2_bl(4), t2_b(8), t2_ldr_pc("pc", 0), EmitAddress(Align(from_pc, 4) + i.off)>>)
        BY <1>4 DEF Thumb2Relocate
    <2>2. NiceList(<<t2_bl(4), t2_b(8), t2_ldr_pc("pc", 0), EmitAddress(Align(from_pc, 4) + i.off)>>)
        BY ItemShapes, ItemIs, Nice4 DEF Literals
    <2> QED BY <2>1, <2>2, BecomesIs
<1>5. CASE i.op = "adr2"
    <2>1. Thumb2Relocate(i, from_pc) = Becomes(<<t2_ldr_pc("r", 4), t2_b(0), EmitAddress(from_pc + i.off)>>)
        BY <1>5 DEF Thumb2Relocate
    <2>2. NiceList(<<t2_ldr_pc("r", 4), t2_b(0), EmitAddress(from_pc + i.off)>>)
        BY ItemShapes, ItemIs, Nice3 DEF Literals
    <2> QED BY <2>1, <2>2, BecomesIs
<1>6. CASE i.op = "ldr2"
    <2>1. Thumb2Relocate(i, from_pc) = Becomes(<<t2_ldr_pc(i.rt, 4), t2_b(4), EmitAddress(Align(from_pc + i.off, 4)), ldr_reg(i.rt)>>)
        BY <1>6 DEF Thumb2Relocate
    <2>2. NiceList(<<t2_ldr_pc(i.rt, 4), t2_b(4), EmitAddress(Align(from_pc + i.off, 4)), ldr_reg(i.rt)>>)
        BY ItemShapes, ItemIs, Nice4 DEF Literals
    <2> QED BY <2>1, <2>2, BecomesIs
<1>7. CASE i.op \notin {"bcond2", "bw", "bl", "blx", "adr2", "ldr2"}
    <2>1. Thumb2Relocate(i, from_pc) = Becomes(<<Plain(4)>>)
        BY <1>7 DEF Thumb2Relocate
    <2>2. NiceList(<<Plain(4)>>)
        BY ItemShapes, ItemIs, Nice1 DEF Literals
    <2> QED BY <2>1, <2>2, BecomesIs
<1> QED BY <1>1, <1>2, <1>3, <1>4, <1>5, <1>6, <1>7

\* What an ARM instruction becomes.
LEMMA ARMNice ==
    ASSUME NEW i, i.off \in Int, NEW from_pc \in Int
    PROVE  BecomesOK(ARMRelocate(i, from_pc))
<1>1. CASE i.op = "ldrA" /\ i.rt = "pc"
    <2>1. ARMRelocate(i, from_pc) = WithLabel(<<Ldr("v"), ldr_reg("pc")>>, from_pc + i.off, FALSE)
        BY <1>1 DEF ARMRelocate
    <2>2. NiceList(<<Ldr("v"), ldr_reg("pc")>>)
        BY ItemShapes, ItemIs, Nice2 DEF Literals
    <2>3. from_pc + i.off \in Int
        BY NumbersAre
    <2> QED BY <2>1, <2>2, <2>3, WithLabelIs
<1>2. CASE i.op = "ldrA" /\ i.rt # "pc"
    <2>1. ARMRelocate(i, from_pc) = WithLabel(<<Ldr("r"), ldr_reg("r")>>, from_pc + i.off, FALSE)
        BY <1>2 DEF ARMRelocate
    <2>2. NiceList(<<Ldr("r"), ldr_reg("r")>>)
        BY ItemShapes, ItemIs, Nice2 DEF Literals
    <2>3. from_pc + i.off \in Int
        BY NumbersAre
    <2> QED BY <2>1, <2>2, <2>3, WithLabelIs
<1>3. CASE i.op = "adrA"
    <2>1. ARMRelocate(i, from_pc) = WithLabel(<<Ldr("r")>>, from_pc + i.off, FALSE)
        BY <1>3 DEF ARMRelocate
    <2>2. NiceList(<<Ldr("r")>>)
        BY ItemShapes, ItemIs, Nice1 DEF Literals
    <2>3. from_pc + i.off \in Int
        BY NumbersAre
    <2> QED BY <2>1, <2>2, <2>3, WithLabelIs
<1>4. CASE i.op \in {"bA", "blA", "bcondA"}
    <2>1. ARMRelocate(i, from_pc) = Becomes(<<Item(CASE i.op = "bA" -> "b" [] i.op = "blA" -> "bl" [] OTHER -> "bcond", "none", 4, 4), t2_b(4), t2_ldr_pc("pc", -4), EmitAddress(from_pc + (i.off % (2 ^ 26)))>>)
        BY <1>4 DEF ARMRelocate
    <2>2. NiceList(<<Item(CASE i.op = "bA" -> "b" [] i.op = "blA" -> "bl" [] OTHER -> "bcond", "none", 4, 4), t2_b(4), t2_ldr_pc("pc", -4), EmitAddress(from_pc + (i.off % (2 ^ 26)))>>)
        BY ItemShapes, ItemIs, Nice4 DEF Literals
    <2> QED BY <2>1, <2>2, BecomesIs
<1>5. CASE i.op \notin {"ldrA", "adrA", "bA", "blA", "bcondA"}
    <2>1. ARMRelocate(i, from_pc) = Becomes(<<Plain(4)>>)
        BY <1>5 DEF ARMRelocate
    <2>2. NiceList(<<Plain(4)>>)
        BY ItemShapes, ItemIs, Nice1 DEF Literals
    <2> QED BY <2>1, <2>2, BecomesIs
<1> QED BY <1>1, <1>2, <1>3, <1>4, <1>5

---------------------------------------------------------------------------
(* The invariant                                                           *)

RInv ==
    /\ image \in Images /\ thumb \in BOOLEAN
    /\ \A a \in DOMAIN image : image[a].thumb = thumb
    /\ cursor \in Nat
    /\ stage = "relocate" => cursor \in DOMAIN image \/ cursor >= Entry + TrampolineSize
    /\ CodeOK(code) /\ LabelsOK(labels)
    /\ stage = "bind" /\ thumb => getSize(code) % 4 = 0
    /\ stage \in {"relocate", "bind", "run", "none"}
    /\ at[1] \in {"copy", "call", "go"}
    /\ linked \in BOOLEAN

\* The function starts at its lowest address and is as long as a trampoline.
LEMMA EntryIs ==
    ASSUME image \in Images, \A a \in DOMAIN image : image[a].thumb = thumb
    PROVE  /\ Entry \in DOMAIN image
           /\ \A a \in DOMAIN image :
                /\ a \in Nat /\ image[a].size \in {2, 4} /\ image[a].off \in Int
                /\ \/ a + image[a].size \in DOMAIN image
                   \/ a + image[a].size >= Entry + TrampolineSize
<1>1. PICK e \in DOMAIN image : \A a \in DOMAIN image :
        /\ a \in Nat /\ e <= a
        /\ image[a].size \in {2, 4} /\ image[a].off \in Int
        /\ \/ a + image[a].size \in DOMAIN image
           \/ a + image[a].size >= e + (IF image[e].thumb /\ e % 4 # 0 THEN 10 ELSE 8)
    BY ImagesAssumption
<1>2. Entry \in DOMAIN image /\ \A b \in DOMAIN image : Entry <= b
    BY <1>1 DEF Entry
<1>3. Entry = e
    BY <1>1, <1>2
<1>4. TrampolineSize = IF image[e].thumb /\ e % 4 # 0 THEN 10 ELSE 8
    BY <1>3 DEF TrampolineSize
<1> QED BY <1>1, <1>3, <1>4

\* AlignThumbNop fills up to a multiple of four.
LEMMA AlignOK ==
    ASSUME NEW c, CodeOK(c)
    PROVE  /\ CodeOK(AlignThumbNop(c))
           /\ getSize(AlignThumbNop(c)) \in Nat /\ getSize(AlignThumbNop(c)) % 4 = 0
<1>1. getSize(c) \in Nat /\ getSize(c) % 2 = 0
    BY GetSizeEven
<1>2. CASE getSize(c) % 4 = 0
    BY <1>1, <1>2 DEF AlignThumbNop
<1>3. CASE getSize(c) % 4 # 0
    <2>1. AlignThumbNop(c) = Emitted(c, <<nop>>)
        BY <1>3 DEF AlignThumbNop
    <2>2. NiceList(<<nop>>)
        BY ItemShapes, Nice1
    <2>3. ItemsOK(<<nop>>) /\ Len(<<nop>>) = 1 /\ <<nop>>[1] = nop
        BY <2>2 DEF NiceList
    <2>4. AlignedFrom(getSize(c), <<nop>>)
        BY <2>3, ItemShapes DEF AlignedFrom, Literals
    <2>5. CodeOK(Emitted(c, <<nop>>)) /\ getSize(Emitted(c, <<nop>>)) = getSize(c) + SizeOf(<<nop>>)[1]
        BY <2>3, <2>4, EmittedOK
    <2>6. SizeOf(<<nop>>)[0] = 0 /\ \A n \in 1 .. 1 : SizeOf(<<nop>>)[n] = SizeOf(<<nop>>)[n - 1] + <<nop>>[n].size
        BY <2>3, SizeOfRule
    <2>7. SizeOf(<<nop>>)[1] = 2
        <3>1. SizeOf(<<nop>>)[1] = SizeOf(<<nop>>)[0] + 2
            BY <2>3, <2>6, ItemShapes
        <3> QED BY <2>6, <3>1
    <2>8. PICK g \in Nat : g = getSize(c) /\ g % 2 = 0 /\ g % 4 # 0
        BY <1>1, <1>3
    <2>9. g + 2 \in Nat /\ (g + 2) % 4 = 0
        BY <2>8
    <2> QED BY <2>1, <2>5, <2>7, <2>8, <2>9
<1> QED BY <1>2, <1>3

\* A nop may be emitted anywhere.
LEMMA NopOK ==
    ASSUME NEW c, CodeOK(c)
    PROVE  CodeOK(Emitted(c, <<nop>>))
<1>1. NiceList(<<nop>>)
    BY ItemShapes, Nice1
<1>2. ItemsOK(<<nop>>) /\ Len(<<nop>>) = 1 /\ <<nop>>[1] = nop
    BY <1>1 DEF NiceList
<1>3. AlignedFrom(getSize(c), <<nop>>)
    BY <1>2, ItemShapes DEF AlignedFrom, Literals
<1> QED BY <1>2, <1>3, EmittedOK

LEMMA RelocatedKeeps ==
    ASSUME RInv, InLoop, NEW c, CodeOK(c), thumb => getSize(c) \in Nat /\ getSize(c) % 4 = 0,
           NEW b, BecomesOK(b), Relocated(c, b)
    PROVE  RInv'
<1>1. UNCHANGED <<image, thumb, stage, at, linked>> /\ stage = "relocate"
    BY DEF Relocated, runVars, InLoop
<1>2. /\ Entry \in DOMAIN image
      /\ \A a \in DOMAIN image :
           /\ a \in Nat /\ image[a].size \in {2, 4}
           /\ \/ a + image[a].size \in DOMAIN image
              \/ a + image[a].size >= Entry + TrampolineSize
    BY EntryIs DEF RInv
<1>3. cursor \in DOMAIN image
    <2>1. TrampolineSize \in Nat /\ Entry \in Nat
        BY <1>2 DEF TrampolineSize
    <2> QED BY <1>1, <2>1 DEF RInv, InLoop
<1>4. cursor' = cursor + image[cursor].size
    BY DEF Relocated
<1>5. cursor' \in Nat /\ (cursor' \in DOMAIN image \/ cursor' >= Entry + TrampolineSize)
    BY <1>2, <1>3, <1>4
<1>6. Entry' = Entry /\ TrampolineSize' = TrampolineSize
    BY <1>1 DEF Entry, TrampolineSize
<1>7. CodeOK(code')
    <2>1. NiceList(b.items) /\ ItemsOK(b.items)
        BY DEF BecomesOK, NiceList
    <2>2. thumb => AlignedFrom(getSize(c), b.items)
        BY <2>1, NiceIsAligned
    <2>3. CodeOK(Emitted(c, b.items))
        BY <2>1, <2>2, EmittedOK
    <2> QED BY <2>3 DEF Relocated
<1>8. CodeOK(code)'
    BY <1>1, <1>7 DEF CodeOK
<1>9. LabelsOK(labels')
    <2> DEFINE d == b.data
    <2>1. IsSeq(labels) /\ IsSeq(d) /\ labels' = labels \o d
        BY DEF RInv, BecomesOK, LabelsOK, Relocated
    <2>2. PICK l, e : l = labels /\ e = labels' /\ e = l \o d
        BY <2>1
    <2>3. PICK t : t = d
        OBVIOUS
    <2>4. IsSeq(l) /\ IsSeq(t) /\ e = l \o t
        BY <2>1, <2>2, <2>3
    <2>5. IsSeq(e) /\ Len(e) = Len(l) + Len(t)
        BY <2>4, ConcatIs
    <2>6. \A i \in 1 .. Len(l) : e[i] = l[i]
        BY <2>4, ConcatIs
    <2>7. \A i \in 1 .. Len(t) : e[Len(l) + i] = t[i]
        BY <2>4, ConcatIs
    <2>8. \A n \in 1 .. Len(e) : (\E i \in 1 .. Len(l) : e[n] = l[i]) \/ (\E i \in 1 .. Len(t) : e[n] = t[i])
        <3> SUFFICES ASSUME NEW n \in 1 .. Len(e), n \notin 1 .. Len(l)
                     PROVE  \E i \in 1 .. Len(t) : e[n] = t[i]
            BY <2>6
        <3>1. n - Len(l) \in 1 .. Len(t) /\ Len(l) + (n - Len(l)) = n
            BY <2>4, <2>5 DEF IsSeq
        <3> QED BY <2>7, <3>1
    <2>9. LabelsOK(l) /\ LabelsOK(t)
        BY <2>2, <2>3 DEF RInv, BecomesOK
    <2>10. LabelsOK(e)
        BY <2>5, <2>8, <2>9 DEF LabelsOK
    <2> QED BY <2>2, <2>10
<1> QED BY <1>1, <1>5, <1>6, <1>8, <1>9 DEF RInv

\* Behind the last copy, aligned in Thumb code.
LEMMA RestKeeps ==
    ASSUME RInv, BranchToRest
    PROVE  RInv'
<1>1. UNCHANGED <<image, thumb, labels, cursor, at, linked>> /\ stage' = "bind"
    BY DEF BranchToRest, runVars
<1> DEFINE to == <<t2_ldr_pc("pc", 0), EmitAddress(cursor + 1)>>
           ta == <<t2_ldr_pc("pc", -4), EmitAddress(cursor)>>
           c == AlignThumbNop(code)
<1>2. NiceList(to) /\ NiceList(ta)
    BY ItemShapes, Nice2
<1>3. ItemsOK(to) /\ ItemsOK(ta) /\ Len(to) = 2 /\ to[1] = t2_ldr_pc("pc", 0) /\ to[2] = EmitAddress(cursor + 1)
    BY <1>2 DEF NiceList
<1>4. CodeOK(code) /\ CodeOK(c) /\ getSize(c) \in Nat /\ getSize(c) % 4 = 0
    BY AlignOK DEF RInv
<1>5. code' = IF thumb THEN Emitted(c, to) ELSE Emitted(code, ta)
    BY DEF BranchToRest
<1>6. AlignedFrom(getSize(c), to)
    BY <1>2, <1>4, NiceIsAligned
<1> HIDE DEF to, ta, c
<1>7. SizeOf(to)[2] = 8
    <2>1. SizeOf(to)[0] = 0 /\ \A n \in 1 .. 2 : SizeOf(to)[n] = SizeOf(to)[n - 1] + to[n].size
        BY <1>3, SizeOfRule, SMTT(30)
    <2>2. to[1].size = 4 /\ to[2].size = 4
        BY <1>3, ItemShapes
    <2>3. SizeOf(to)[1] = SizeOf(to)[0] + 4 /\ SizeOf(to)[2] = SizeOf(to)[1] + 4
        <3>1. 1 \in 1 .. 2 /\ 2 \in 1 .. 2 /\ 1 - 1 = 0 /\ 2 - 1 = 1
            OBVIOUS
        <3> QED BY <2>1, <2>2, <3>1
    <2> QED BY <2>1, <2>3
<1>8. CASE thumb
    <2>1. CodeOK(Emitted(c, to)) /\ getSize(Emitted(c, to)) = getSize(c) + SizeOf(to)[2]
        BY <1>3, <1>4, <1>6, EmittedOK
    <2>2. PICK g \in Nat : g = getSize(c) /\ g % 4 = 0
        BY <1>4
    <2>3. (g + 8) % 4 = 0
        BY <2>2
    <2>4. CodeOK(code') /\ getSize(code') % 4 = 0
        BY <1>5, <1>7, <1>8, <2>1, <2>2, <2>3
    <2>5. CodeOK(code)' /\ getSize(code)' % 4 = 0
        BY <1>1, <2>4 DEF CodeOK, getSize
    <2> QED BY <1>1, <2>5 DEF RInv
<1>9. CASE ~thumb
    <2>1. CodeOK(Emitted(code, ta))
        BY <1>3, <1>4, <1>9, EmittedOK
    <2>2. CodeOK(code)'
        BY <1>1, <1>5, <1>9, <2>1 DEF CodeOK
    <2> QED BY <1>1, <1>9, <2>2 DEF RInv
<1> QED BY <1>8, <1>9

\* Linking a load leaves its place and its size.
LEMMA LinkedIs ==
    ASSUME NEW x, IsPlaced(x), NEW n
    PROVE  /\ IsPlaced(LinkedTo(x, n)) /\ LinkedTo(x, n).pos = x.pos
           /\ LinkedTo(x, n).item.size = x.item.size /\ LinkedTo(x, n).item.op = "ldrlit"
<1>1. PICK pos, item, label : /\ pos \in Nat /\ pos % 2 = 0 /\ IsItem(item)
                              /\ x = [pos |-> pos, item |-> item, label |-> label]
    BY DEF IsPlaced
<1>2. PICK op, rt, k : \E size \in {2, 4} : item = Item(op, rt, k, size)
    BY <1>1 DEF IsItem
<1>3. PICK size \in {2, 4} : item = Item(op, rt, k, size)
    BY <1>2
<1>4. PICK q : q = LabelPos(n) - (IF thumb THEN Align(x.pos, 4) + 4 ELSE x.pos + 8)
    OBVIOUS
<1>5. LinkedTo(x, n) = [x EXCEPT !.item.op = "ldrlit", !.item.k = q]
    BY <1>4 DEF LinkedTo
<1>6. [x EXCEPT !.item.op = "ldrlit"] = [pos |-> pos, item |-> Item("ldrlit", rt, k, size), label |-> label]
    BY <1>1, <1>3 DEF Item
<1>7. PICK y : y = [pos |-> pos, item |-> Item("ldrlit", rt, k, size), label |-> label]
    OBVIOUS
<1>8. [y EXCEPT !.item.k = q] = [pos |-> pos, item |-> Item("ldrlit", rt, q, size), label |-> label]
    BY <1>7 DEF Item
<1>9. LinkedTo(x, n) = [pos |-> pos, item |-> Item("ldrlit", rt, q, size), label |-> label]
    BY <1>5, <1>6, <1>7, <1>8
<1>10. IsItem(Item("ldrlit", rt, q, size)) /\ Item("ldrlit", rt, q, size).size = size
       /\ Item("ldrlit", rt, q, size).op = "ldrlit" /\ item.size = size
    BY <1>3, ItemIs
<1>11. LinkedTo(x, n).pos = pos /\ LinkedTo(x, n).item = Item("ldrlit", rt, q, size) /\ x.pos = pos /\ x.item = item
    BY <1>1, <1>9
<1>12. IsPlaced(LinkedTo(x, n))
    BY <1>1, <1>9, <1>10 DEF IsPlaced
<1> QED BY <1>10, <1>11, <1>12

\* The words of the labels follow the code.
LEMMA BindKeeps ==
    ASSUME RInv, RelocBind
    PROVE  RInv'
<1>1. UNCHANGED <<image, thumb, labels, cursor, at, linked>> /\ stage = "bind" /\ stage' = "run"
    BY DEF RelocBind, runVars
<1> DEFINE c == [m \in DOMAIN code |-> IF code[m].item.op = "ldrlab"
                                       THEN LinkedTo(code[m], code[m].label) ELSE code[m]]
           items == [n \in DOMAIN labels |-> EmitAddress(Fixup(labels[n]))]
           k == Len(labels)
           l == Len(code)
<1>2. k \in Nat /\ l \in Nat /\ DOMAIN labels = 1 .. k /\ DOMAIN code = 1 .. l
    BY DEF RInv, CodeOK, LabelsOK, IsSeq
<1>3. code' = Emitted(c, items)
    BY DEF RelocBind
<1>4. IsSeq(c) /\ Len(c) = l
    <2>1. c = [m \in 1 .. l |-> c[m]]
        BY <1>2
    <2> HIDE DEF c
    <2> QED BY <1>2, <2>1, FunIsSeq
<1>5. IsSeq(items) /\ Len(items) = k
    <2>1. items = [n \in 1 .. k |-> items[n]]
        BY <1>2
    <2> HIDE DEF items
    <2> QED BY <1>2, <2>1, FunIsSeq
<1>6. \A m \in 1 .. l : c[m] = IF code[m].item.op = "ldrlab" THEN LinkedTo(code[m], code[m].label) ELSE code[m]
    BY <1>2
<1>7. \A n \in 1 .. k : items[n] = EmitAddress(Fixup(labels[n]))
    BY <1>2
<1> HIDE DEF c, items
<1>8. \A m \in 1 .. l :
        /\ IsPlaced(c[m]) /\ c[m].pos = code[m].pos /\ c[m].item.size = code[m].item.size
        /\ c[m].item.op \in Literals => code[m].item.op \in Literals
    <2> SUFFICES ASSUME NEW m \in 1 .. l
                 PROVE  /\ IsPlaced(c[m]) /\ c[m].pos = code[m].pos /\ c[m].item.size = code[m].item.size
                        /\ c[m].item.op \in Literals => code[m].item.op \in Literals
        OBVIOUS
    <2>1. IsPlaced(code[m])
        BY DEF RInv, CodeOK
    <2>2. CASE code[m].item.op = "ldrlab"
        <3>1. PICK x : x = code[m]
            OBVIOUS
        <3>2. PICK n : n = code[m].label
            OBVIOUS
        <3>3. c[m] = LinkedTo(x, n)
            BY <1>6, <2>2, <3>1, <3>2
        <3>4. /\ IsPlaced(LinkedTo(x, n)) /\ LinkedTo(x, n).pos = x.pos
              /\ LinkedTo(x, n).item.size = x.item.size
            BY <2>1, <3>1, LinkedIs
        <3> QED BY <2>2, <3>1, <3>3, <3>4 DEF Literals
    <2>3. CASE code[m].item.op # "ldrlab"
        BY <1>6, <2>1, <2>3
    <2> QED BY <2>2, <2>3
<1>9. CodeOK(c)
    <2> SUFFICES ASSUME NEW n \in 1 .. l
                 PROVE  /\ IsPlaced(c[n])
                        /\ c[n].pos = (IF n = 1 THEN 0 ELSE c[n - 1].pos + c[n - 1].item.size)
                        /\ thumb /\ c[n].item.op \in Literals => c[n].pos % 4 = 0
        BY <1>4 DEF CodeOK
    <2>1. /\ code[n].pos = (IF n = 1 THEN 0 ELSE code[n - 1].pos + code[n - 1].item.size)
          /\ thumb /\ code[n].item.op \in Literals => code[n].pos % 4 = 0
        BY DEF RInv, CodeOK
    <2>2. n # 1 => n - 1 \in 1 .. l
        BY <1>2
    <2> QED BY <1>8, <2>1, <2>2
<1>10. getSize(c) = getSize(code)
    <2>1. CASE l = 0
        <3>1. c = <<>> /\ code = <<>>
            BY <1>4, <2>1 DEF IsSeq, RInv, CodeOK
        <3> QED BY <3>1
    <2>2. CASE l # 0
        <3>1. c # <<>> /\ code # <<>> /\ l \in 1 .. l
            BY <1>2, <1>4, <2>2
        <3> QED BY <1>4, <1>8, <3>1 DEF getSize
    <2> QED BY <2>1, <2>2
<1>11. ItemsOK(items) /\ \A n \in 1 .. k : items[n].size = 4
    BY <1>5, <1>7, ItemShapes DEF ItemsOK
<1>12. thumb => AlignedFrom(getSize(c), items)
    <2> DEFINE f == SizeOf(items)
               g == getSize(c)
               T == {n \in 0 .. k : f[n] % 4 # 0}
    <2>1. f[0] = 0 /\ \A n \in 1 .. k : f[n] = f[n - 1] + 4
        <3>1. f[0] = 0 /\ \A n \in 1 .. k : f[n] = f[n - 1] + items[n].size
            BY <1>2, <1>5, SizeOfRule
        <3> QED BY <1>11, <3>1
    <2>2. \A n \in 0 .. k : f[n] \in Nat
        BY <1>5, <1>11, SizesEven
    <2> HIDE DEF f
    <2>3. T = {}
        <3>1. SUFFICES ASSUME T # {} PROVE FALSE
            OBVIOUS
        <3>2. T \in SUBSET Nat
            BY <1>2
        <3>3. PICK n \in T : \A m \in T : n <= m
            BY <3>1, <3>2, LeastNat
        <3>4. n \in 0 .. k /\ f[n] % 4 # 0
            OBVIOUS
        <3>5. n # 0
            BY <2>1, <3>4
        <3>6. n \in 1 .. k /\ n - 1 \in 0 .. k /\ ~(n <= n - 1)
            BY <1>2, <3>4, <3>5
        <3>7. PICK q \in Nat : q = f[n - 1] /\ q % 4 = 0
            BY <2>2, <3>3, <3>6
        <3>8. f[n] = q + 4 /\ (q + 4) % 4 = 0
            BY <2>1, <3>6, <3>7
        <3> QED BY <3>4, <3>8
    <2>4. ASSUME thumb PROVE g \in Nat /\ g % 4 = 0
        <3>1. getSize(code) \in Nat /\ getSize(code) % 4 = 0
            BY <1>1, <2>4, GetSizeEven DEF RInv
        <3> QED BY <1>10, <3>1
    <2> HIDE DEF g
    <2>5. ASSUME thumb, NEW n \in 1 .. k PROVE (g + f[n - 1]) % 4 = 0
        <3>1. n - 1 \in 0 .. k
            BY <1>2
        <3>2. PICK a \in Nat, b \in Nat : a = g /\ b = f[n - 1] /\ a % 4 = 0 /\ b % 4 = 0
            BY <2>2, <2>3, <2>4, <2>5, <3>1
        <3>3. (a + b) % 4 = 0
            BY <3>2, SMTT(30)
        <3> QED BY <3>2, <3>3
    <2> QED BY <1>5, <2>5 DEF AlignedFrom, f, g
<1>13. CodeOK(code')
    BY <1>3, <1>9, <1>11, <1>12, EmittedOK
<1>14. CodeOK(code)'
    BY <1>1, <1>13 DEF CodeOK
<1> QED BY <1>1, <1>14 DEF RInv, LabelsOK

\* Running the copy does not write to it.
LEMMA RunKeeps ==
    ASSUME RInv, UNCHANGED <<image, thumb, stage, relocVars>>,
           at'[1] \in {"copy", "call", "go"}, linked' \in BOOLEAN
    PROVE  RInv'
<1>1. UNCHANGED <<image, thumb, stage, code, labels, cursor>>
    BY DEF relocVars
<1>2. CodeOK(code)' /\ LabelsOK(labels)' /\ getSize(code)' = getSize(code)
    BY <1>1 DEF RInv, CodeOK, LabelsOK, getSize
<1>3. Entry' = Entry /\ TrampolineSize' = TrampolineSize
    BY <1>1 DEF Entry, TrampolineSize
<1> QED BY <1>1, <1>2, <1>3 DEF RInv

LEMMA InitRInv == Init => RInv
<1> SUFFICES ASSUME Init PROVE RInv
    OBVIOUS
<1>1. image \in Images /\ thumb \in BOOLEAN /\ \A a \in DOMAIN image : image[a].thumb = thumb
    BY DEF Init
<1>2. Entry \in DOMAIN image /\ Entry \in Nat /\ cursor = Entry
    BY <1>1, EntryIs DEF Init
<1>3. code = <<>> /\ labels = <<>> /\ stage = "relocate"
    BY DEF Init
<1>4. IsSeq(<<>>) /\ Len(<<>>) = 0
    <2>1. <<>> \in Seq({}) /\ Len(<<>>) = 0
        OBVIOUS
    <2> QED BY <2>1, SeqIsSeq
<1>5. \A n \in 1 .. 0 : FALSE
    OBVIOUS
<1>6. CodeOK(code) /\ LabelsOK(labels)
    BY <1>3, <1>4, <1>5 DEF CodeOK, LabelsOK
<1>7. at[1] = "copy" /\ linked = FALSE
    BY DEF Init
<1> QED BY <1>1, <1>2, <1>3, <1>6, <1>7 DEF RInv

LEMMA NextRInv == RInv /\ [Next]_vars => RInv'
<1> SUFFICES ASSUME RInv, [Next]_vars PROVE RInv'
    OBVIOUS
<1>1. ASSUME InLoop PROVE image[cursor].off \in Int /\ cursor + 4 \in Int /\ cursor + 8 \in Int
    <2>1. /\ Entry \in DOMAIN image
          /\ \A a \in DOMAIN image : a \in Nat /\ image[a].off \in Int
        BY EntryIs DEF RInv
    <2>2. TrampolineSize \in Nat /\ Entry \in Nat
        BY <2>1 DEF TrampolineSize
    <2>3. cursor \in DOMAIN image
        BY <1>1, <2>2 DEF RInv, InLoop
    <2> QED BY <2>1, <2>3
<1> DEFINE c == AlignThumbNop(Emitted(code, <<nop>>))
<1>2. CodeOK(c) /\ getSize(c) \in Nat /\ getSize(c) % 4 = 0
    BY NopOK, AlignOK DEF RInv
<1> HIDE DEF c
<1>3. CASE RelocateThumb1
    <2>1. InLoop /\ Relocated(c, Thumb1Relocate(image[cursor], cursor + 4))
        BY <1>3 DEF RelocateThumb1, c
    <2>2. BecomesOK(Thumb1Relocate(image[cursor], cursor + 4))
        BY <1>1, <2>1, Thumb1Nice
    <2> QED BY <1>2, <2>1, <2>2, RelocatedKeeps
<1>4. CASE RelocateThumb2
    <2>1. InLoop /\ Relocated(c, Thumb2Relocate(image[cursor], cursor + 4))
        BY <1>4 DEF RelocateThumb2, c
    <2>2. BecomesOK(Thumb2Relocate(image[cursor], cursor + 4))
        BY <1>1, <2>1, Thumb2Nice
    <2> QED BY <1>2, <2>1, <2>2, RelocatedKeeps
<1>5. CASE RelocateARM
    <2>1. InLoop /\ ~thumb /\ Relocated(code, ARMRelocate(image[cursor], cursor + 8))
        BY <1>5 DEF RelocateARM
    <2>2. BecomesOK(ARMRelocate(image[cursor], cursor + 8)) /\ CodeOK(code)
        BY <1>1, <2>1, ARMNice DEF RInv
    <2> QED BY <2>1, <2>2, RelocatedKeeps
<1>6. linked \in BOOLEAN
    BY DEF RInv
<1>7. ASSUME NEW to, MovesTo(to), to[1] \in {"copy", "call", "go"}, linked' \in BOOLEAN
      PROVE  RInv'
    BY <1>7, RunKeeps DEF MovesTo
<1>8. Onwards[1] = "copy" /\ Branch[1] = "copy"
    BY DEF Onwards, Branch
<1>9. ASSUME NEW x, Jump(x) PROVE RInv'
    <2> DEFINE to == IF x >= Chunk THEN <<"copy", Align(x, 2) - Chunk, x % 2 = 1>>
                     ELSE <<IF linked THEN "call" ELSE "go", Align(x, 2), x % 2 = 1>>
    <2>1. MovesTo(to) /\ linked' = FALSE
        BY <1>9 DEF Jump
    <2>2. to[1] \in {"copy", "call", "go"}
        OBVIOUS
    <2> HIDE DEF to
    <2> QED BY <1>7, <2>1, <2>2
<1>10. CASE RunNop \/ RunPlain \/ RunUseV \/ RunB \/ RunBcond
    <2>1. linked' = linked /\ (MovesTo(Onwards) \/ MovesTo(Branch))
        BY <1>10 DEF RunNop, RunPlain, RunUseV, RunB, RunBcond
    <2> QED BY <1>6, <1>7, <1>8, <2>1
<1>11. CASE RunBL
    <2>1. linked' = TRUE /\ MovesTo(Branch)
        BY <1>11 DEF RunBL
    <2> QED BY <1>7, <1>8, <2>1
<1>12. CASE RunLdrLiteral
    <2>1. (linked' = linked /\ MovesTo(Onwards)) \/ Jump(WordAt(Align(PC, 4) + This.k))
        BY <1>12 DEF RunLdrLiteral
    <2> QED BY <1>6, <1>7, <1>8, <1>9, <2>1
<1>13. CASE RunLdrRegister
    <2>1. linked' = linked /\ (MovesTo(Onwards) \/ MovesTo(<<"go", Mem(v), TRUE>>))
        BY <1>13 DEF RunLdrRegister
    <2>2. <<"go", Mem(v), TRUE>>[1] = "go"
        OBVIOUS
    <2> QED BY <1>6, <1>7, <1>8, <2>1, <2>2
<1>14. CASE RunReturn
    <2>1. linked' = linked /\ MovesTo(<<"copy", lr, thumb>>)
        BY <1>14 DEF RunReturn
    <2>2. <<"copy", lr, thumb>>[1] = "copy"
        OBVIOUS
    <2> QED BY <1>6, <1>7, <2>1, <2>2
<1>15. CASE NoChunk
    <2>1. UNCHANGED <<image, thumb, code, labels, cursor, at, linked>> /\ stage' = "none"
        BY <1>15 DEF NoChunk, relocVars, runVars
    <2>2. CodeOK(code)' /\ LabelsOK(labels)'
        BY <2>1 DEF RInv, CodeOK, LabelsOK
    <2> QED BY <2>1, <2>2 DEF RInv
<1>16. CASE UNCHANGED vars
    <2>1. UNCHANGED <<image, thumb, stage, relocVars>> /\ at' = at /\ linked' = linked
        BY <1>16 DEF vars, runVars
    <2> QED BY <2>1, RunKeeps DEF RInv
<1> QED BY <1>3, <1>4, <1>5, <1>10, <1>11, <1>12, <1>13, <1>14, <1>15, <1>16, RestKeeps, BindKeeps DEF Next

\* The buffer GenRelocateCodeAndBranch and RelocBind fill has no gaps and no
\* overlaps, whatever the instructions of the function are.
THEOREM ArmTypeCorrect == Spec => []TypeOK
<1>1. RInv => TypeOK
    <2> SUFFICES ASSUME RInv PROVE TypeOK
        OBVIOUS
    <2>1. DOMAIN code = 1 .. Len(code) /\ DOMAIN labels = 1 .. Len(labels)
        BY DEF RInv, CodeOK, LabelsOK, IsSeq
    <2>2. \A n \in DOMAIN code :
            /\ code[n].pos = (IF n = 1 THEN 0 ELSE code[n - 1].pos + code[n - 1].item.size)
            /\ code[n].item.size \in {2, 4}
        BY <2>1, PlacedParts, ItemSize DEF RInv, CodeOK
    <2>3. \A n \in DOMAIN labels : labels[n].data \in Int /\ labels[n].used_for_branch \in BOOLEAN
        BY <2>1 DEF RInv, LabelsOK
    <2> QED BY <2>2, <2>3 DEF RInv, TypeOK
<1> QED BY <1>1, InitRInv, NextRInv, PTL DEF Spec

\* In the copy of every Thumb function the addresses and the loads of literals
\* are at multiples of four, wherever two and four byte instructions alternate.
THEOREM ThumbWordsAligned == Spec => []WordsAligned
<1>1. RInv => WordsAligned
    <2> SUFFICES ASSUME RInv, thumb, NEW n \in DOMAIN code, code[n].item.op \in Literals
                 PROVE  code[n].pos % 4 = 0
        BY DEF WordsAligned, Literals
    <2>1. DOMAIN code = 1 .. Len(code)
        BY DEF RInv, CodeOK, IsSeq
    <2> QED BY <2>1 DEF RInv, CodeOK
<1> QED BY <1>1, InitRInv, NextRInv, PTL DEF Spec
===========================================================================
