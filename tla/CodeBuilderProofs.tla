------------------------- MODULE CodeBuilderProofs -------------------------
(***************************************************************************)
(* The assembler and the builder for every number of labels, every size of *)
(* buffer, list and page.  First the arena: chunks never overlap and never *)
(* leave their page.  Then its client: the arena is used as MemoryArena    *)
(* allows, cursors stay in their blocks, and no load loses its data.  At   *)
(* last what it is for: CodeBuilder implements AssemblyText.               *)
(***************************************************************************)
EXTENDS CodeBuilder, SequenceTheorems, TLAPS

---------------------------------------------------------------------------
(* The arena                                                               *)


Pages == [frame : Frames, permission : {"rx", "rw"}, cursor : 0 .. PageSize]

\* Two pages of the list are two pages of the address space.
PagesDistinct ==
    \A i, j \in DOMAIN page_chunks :
        i # j => page_chunks[i].frame # page_chunks[j].frame

\* A chunk lies before the cursor of its page.
BehindCursor ==
    \A k \in DOMAIN chunks :
        /\ chunks[k].offset + chunks[k].length <= page_chunks[chunks[k].page].cursor
        /\ page_chunks[chunks[k].page].permission = chunks[k].permission

\* Two chunks of one page do not overlap.
DisjointOnPage ==
    \A k, l \in DOMAIN chunks :
        (k # l /\ chunks[k].page = chunks[l].page) =>
            \/ chunks[k].offset + chunks[k].length <= chunks[l].offset
            \/ chunks[l].offset + chunks[l].length <= chunks[k].offset

IInv == TypeOK /\ PagesDistinct /\ BehindCursor /\ DisjointOnPage

\* The two ways to get a chunk in one: the list of pages keeps its frames and
\* permissions and may grow by one, page p is the one the chunk is cut from,
\* and it is cut at offset o, where its cursor was.
Cuts(p, o, size, permission) ==
    /\ page_chunks' \in Seq(Pages)
    /\ Len(page_chunks) <= Len(page_chunks')
    /\ p \in DOMAIN page_chunks'
    /\ PagesDistinct'
    /\ \A i \in DOMAIN page_chunks :
        /\ page_chunks'[i].permission = page_chunks[i].permission
        /\ page_chunks'[i].cursor >= page_chunks[i].cursor
    /\ p \in DOMAIN page_chunks => o = page_chunks[p].cursor
    /\ page_chunks'[p].cursor = o + size
    /\ page_chunks'[p].permission = permission
    /\ chunks' = Append(chunks, Chunk(p, o, size, permission))

\* What the types say of a chunk and its page.
LEMMA PageOfChunk ==
    ASSUME TypeOK, NEW k \in DOMAIN chunks
    PROVE  /\ chunks[k].page \in DOMAIN page_chunks
           /\ chunks[k].offset \in Nat /\ chunks[k].length \in Nat
           /\ page_chunks[chunks[k].page].cursor \in 0 .. PageSize
<1> DEFINE CSet == [page : 1 .. Len(page_chunks), offset : 0 .. PageSize,
                    length : 1 .. PageSize, permission : {"rx", "rw"}]
<1>1. page_chunks \in Seq(Pages) /\ chunks \in Seq(CSet) /\ PageSize \in Nat
    BY ArenaAssumption DEF TypeOK, Pages
<1>2. k \in 1 .. Len(chunks)
    BY <1>1
<1>3. chunks[k] \in CSet
    BY <1>1, <1>2, ElementOfSeq
<1>4. chunks[k].page \in 1 .. Len(page_chunks) /\ chunks[k].offset \in Nat /\ chunks[k].length \in Nat
    BY <1>1, <1>3
<1>5. page_chunks[chunks[k].page] \in Pages
    BY <1>1, <1>4, ElementOfSeq
<1>6. page_chunks[chunks[k].page].cursor \in 0 .. PageSize
    BY <1>5 DEF Pages
<1> QED BY <1>1, <1>4, <1>6

LEMMA CutsIInv ==
    ASSUME IInv, NEW size \in Sizes, NEW permission \in {"rx", "rw"},
           NEW p \in Nat, NEW o \in Nat,
           Cuts(p, o, size, permission), failed' \in BOOLEAN
    PROVE  IInv'
<1> DEFINE N == Len(chunks)
           CSet == [page : 1 .. Len(page_chunks), offset : 0 .. PageSize,
                    length : 1 .. PageSize, permission : {"rx", "rw"}]
           CSetNew == [page : 1 .. Len(page_chunks'), offset : 0 .. PageSize,
                       length : 1 .. PageSize, permission : {"rx", "rw"}]
           c == Chunk(p, o, size, permission)
<1>0. /\ PageSize \in Nat \ {0}
      /\ size \in 1 .. PageSize
      /\ page_chunks \in Seq(Pages)
      /\ chunks \in Seq(CSet)
      /\ page_chunks' \in Seq(Pages)
    BY ArenaAssumption DEF IInv, TypeOK, Cuts, Pages
<1>1. Len(page_chunks) \in Nat /\ Len(page_chunks') \in Nat /\ N \in Nat
    BY <1>0
<1>2. DOMAIN page_chunks = 1 .. Len(page_chunks) /\ DOMAIN page_chunks' = 1 .. Len(page_chunks')
      /\ DOMAIN chunks = 1 .. N
    BY <1>0
<1>3. page_chunks'[p] \in Pages /\ p \in 1 .. Len(page_chunks')
    BY <1>0, <1>2 DEF Cuts
<1>4. o + size <= PageSize
    BY <1>0, <1>3 DEF Cuts, Pages
<1>5. c \in CSetNew
    BY <1>0, <1>3, <1>4 DEF Chunk
<1>6. CSet \subseteq CSetNew
    BY <1>1 DEF Cuts
<1>7. chunks \in Seq(CSetNew)
    BY <1>0, <1>6, SeqMonotonic
<1>8. chunks' \in Seq(CSetNew)
    BY <1>5, <1>7 DEF Cuts
<1>9. TypeOK'
    BY <1>0, <1>8 DEF TypeOK, Pages
<1>10. /\ DOMAIN chunks' = 1 .. N + 1
       /\ \A k \in 1 .. N : chunks'[k] = chunks[k]
       /\ chunks'[N + 1] = c
    BY <1>0, <1>1 DEF Cuts
<1>11. c.page = p /\ c.offset = o /\ c.length = size /\ c.permission = permission
    BY DEF Chunk
<1>12. \A k \in 1 .. N :
            /\ chunks[k] \in CSet
            /\ chunks[k].page \in DOMAIN page_chunks
            /\ page_chunks[chunks[k].page] \in Pages
            /\ page_chunks'[chunks[k].page] \in Pages
    <2> SUFFICES ASSUME NEW k \in 1 .. N
                 PROVE  /\ chunks[k] \in CSet
                        /\ chunks[k].page \in DOMAIN page_chunks
                        /\ page_chunks[chunks[k].page] \in Pages
                        /\ page_chunks'[chunks[k].page] \in Pages
        OBVIOUS
    <2>1. chunks[k] \in CSet
        BY <1>0, ElementOfSeq
    <2>2. chunks[k].page \in 1 .. Len(page_chunks)
        BY <2>1
    <2>3. chunks[k].page \in 1 .. Len(page_chunks')
        BY <1>1, <2>2 DEF Cuts
    <2>4. page_chunks[chunks[k].page] \in Pages
        BY <1>0, <2>2, ElementOfSeq
    <2>5. page_chunks'[chunks[k].page] \in Pages
        BY <1>0, <2>3, ElementOfSeq
    <2> QED BY <1>2, <2>1, <2>2, <2>4, <2>5
<1>13. BehindCursor'
    <2> SUFFICES ASSUME NEW k \in 1 .. N + 1
                 PROVE  /\ chunks'[k].offset + chunks'[k].length <= page_chunks'[chunks'[k].page].cursor
                        /\ page_chunks'[chunks'[k].page].permission = chunks'[k].permission
        BY <1>10 DEF BehindCursor
    <2>1. CASE k = N + 1
        <3>1. chunks'[k] = c
            BY <1>10, <2>1
        <3>2. /\ chunks'[k].page = p /\ chunks'[k].offset = o
              /\ chunks'[k].length = size /\ chunks'[k].permission = permission
            BY <1>11, <3>1
        <3>3. page_chunks'[p].cursor = o + size /\ page_chunks'[p].permission = permission
            BY DEF Cuts
        <3>4. size \in Nat
            BY <1>0
        <3> QED BY <3>2, <3>3, <3>4
    <2>2. CASE k \in 1 .. N
        <3>1. chunks[k].offset + chunks[k].length <= page_chunks[chunks[k].page].cursor
              /\ page_chunks[chunks[k].page].permission = chunks[k].permission
            BY <1>2, <2>2 DEF IInv, BehindCursor
        <3>2. page_chunks'[chunks[k].page].cursor >= page_chunks[chunks[k].page].cursor
              /\ page_chunks'[chunks[k].page].permission = page_chunks[chunks[k].page].permission
            BY <1>12, <2>2 DEF Cuts
        <3>3. /\ chunks[k].offset \in Nat /\ chunks[k].length \in Nat
              /\ page_chunks[chunks[k].page].cursor \in Nat
              /\ page_chunks'[chunks[k].page].cursor \in Nat
            <4>1. /\ chunks[k].offset \in Nat /\ chunks[k].length \in Nat
                  /\ page_chunks[chunks[k].page].cursor \in 0 .. PageSize
                BY <1>2, <2>2, PageOfChunk DEF IInv
            <4>2. page_chunks'[chunks[k].page].cursor \in 0 .. PageSize
                BY <1>12, <2>2 DEF Pages
            <4> QED BY <4>1, <4>2
        <3>4. chunks'[k] = chunks[k]
            BY <1>10, <2>2
        <3>5. chunks[k].offset + chunks[k].length <= page_chunks'[chunks[k].page].cursor
            BY <3>1, <3>2, <3>3, SMTT(30)
        <3>6. page_chunks'[chunks[k].page].permission = chunks[k].permission
            BY <3>1, <3>2
        <3> QED BY <3>4, <3>5, <3>6
    <2> QED BY <1>1, <2>1, <2>2
<1>14. \A k \in 1 .. N : chunks[k].page = p => chunks[k].offset + chunks[k].length <= o
    BY <1>2, <1>12 DEF IInv, BehindCursor, Cuts
<1>15. DisjointOnPage'
    <2> SUFFICES ASSUME NEW k \in 1 .. N + 1, NEW l \in 1 .. N + 1, k # l,
                        chunks'[k].page = chunks'[l].page
                 PROVE  \/ chunks'[k].offset + chunks'[k].length <= chunks'[l].offset
                        \/ chunks'[l].offset + chunks'[l].length <= chunks'[k].offset
        BY <1>10 DEF DisjointOnPage
    <2>1. CASE k \in 1 .. N /\ l \in 1 .. N
        BY <1>2, <1>10, <2>1 DEF IInv, DisjointOnPage
    <2>2. CASE k = N + 1 /\ l \in 1 .. N
        BY <1>10, <1>11, <1>14, <2>2
    <2>3. CASE l = N + 1 /\ k \in 1 .. N
        BY <1>10, <1>11, <1>14, <2>3
    <2> QED BY <1>1, <2>1, <2>2, <2>3
<1> QED BY <1>9, <1>13, <1>15 DEF IInv, Cuts

LEMMA InitIInv == Init => IInv
<1> SUFFICES ASSUME Init PROVE IInv
    OBVIOUS
<1>1. TypeOK
    BY EmptySeq DEF Init, TypeOK
<1>2. DOMAIN page_chunks = {} /\ DOMAIN chunks = {}
    BY DEF Init
<1> QED BY <1>1, <1>2 DEF IInv, PagesDistinct, BehindCursor, DisjointOnPage

LEMMA NextIInv == IInv /\ [Next]_vars => IInv'
<1> SUFFICES ASSUME IInv, [Next]_vars PROVE IInv'
    OBVIOUS
<1>0. /\ PageSize \in Nat \ {0}
      /\ page_chunks \in Seq(Pages)
      /\ failed \in BOOLEAN
    BY ArenaAssumption DEF IInv, TypeOK, Pages
<1>1. ASSUME NEW size \in Sizes, NEW permission \in {"rx", "rw"}, TakeFromPage(size, permission)
      PROVE  IInv'
    <2>1. PICK p \in DOMAIN page_chunks :
            /\ FirstWithRoom(p, size, permission)
            /\ chunks' = Append(chunks, Chunk(p, page_chunks[p].cursor, size, permission))
            /\ page_chunks' = [page_chunks EXCEPT ![p].cursor = @ + size]
            /\ UNCHANGED failed
        BY <1>1 DEF TakeFromPage
    <2>2. size \in 1 .. PageSize /\ p \in Nat /\ page_chunks[p] \in Pages
        BY <1>0, ArenaAssumption
    <2>3. page_chunks[p].cursor + size \in 0 .. PageSize /\ page_chunks[p].permission = permission
        BY <1>0, <2>1, <2>2 DEF FirstWithRoom, HasRoom, Pages
    <2> DEFINE new == [page_chunks[p] EXCEPT !.cursor = @ + size]
    <2>4. /\ new \in Pages
          /\ new.frame = page_chunks[p].frame
          /\ new.permission = page_chunks[p].permission
          /\ new.cursor = page_chunks[p].cursor + size
        BY <2>2, <2>3 DEF Pages
    <2>5. DOMAIN page_chunks = 1 .. Len(page_chunks)
        BY <1>0
    <2>6. /\ page_chunks' \in Seq(Pages)
          /\ Len(page_chunks') = Len(page_chunks)
          /\ DOMAIN page_chunks' = DOMAIN page_chunks
          /\ \A i \in DOMAIN page_chunks :
                page_chunks'[i] = IF i = p THEN new ELSE page_chunks[i]
        <3>1. page_chunks' = [page_chunks EXCEPT ![p] = new]
            BY <2>1
        <3>2. p \in 1 .. Len(page_chunks)
            BY <2>5
        <3> HIDE DEF new
        <3> QED BY <1>0, <2>4, <2>5, <3>1, <3>2, ExceptSeq
    <2> HIDE DEF new
    <2>7. PagesDistinct'
        BY <2>4, <2>6 DEF IInv, PagesDistinct
    <2>8. \A i \in DOMAIN page_chunks : page_chunks'[i].cursor >= page_chunks[i].cursor
        <3>1. \A i \in DOMAIN page_chunks : page_chunks[i].cursor \in 0 .. PageSize
            <4>1. \A i \in DOMAIN page_chunks : page_chunks[i] \in Pages
                BY <1>0, <2>5, ElementOfSeq
            <4> QED BY <4>1 DEF Pages
        <3> QED BY <1>0, <2>2, <2>4, <2>6, <3>1
    <2>9. Cuts(p, page_chunks[p].cursor, size, permission)
        <3>1. Len(page_chunks) <= Len(page_chunks')
            BY <1>0, <2>6
        <3>2. \A i \in DOMAIN page_chunks : page_chunks'[i].permission = page_chunks[i].permission
            BY <2>4, <2>6
        <3>3. page_chunks'[p].cursor = page_chunks[p].cursor + size
              /\ page_chunks'[p].permission = permission
            BY <2>3, <2>4, <2>6
        <3> QED BY <2>1, <2>6, <2>7, <2>8, <3>1, <3>2, <3>3 DEF Cuts
    <2>10. page_chunks[p].cursor \in Nat
        BY <1>0, <2>2 DEF Pages
    <2> QED BY <1>0, <2>1, <2>2, <2>9, <2>10, CutsIInv
<1>2. ASSUME NEW size \in Sizes, NEW permission \in {"rx", "rw"}, TakeFromNewPage(size, permission)
      PROVE  IInv'
    <2>1. PICK f \in Frames :
            /\ \A i \in DOMAIN page_chunks : page_chunks[i].frame # f
            /\ page_chunks' = Append(page_chunks, [frame |-> f, permission |-> permission,
                                                   cursor |-> size])
        BY <1>2 DEF TakeFromNewPage
    <2> DEFINE new == [frame |-> f, permission |-> permission, cursor |-> size]
               p == Len(page_chunks) + 1
    <2>2. size \in 1 .. PageSize /\ p \in Nat
        BY <1>0, ArenaAssumption
    <2>3. new \in Pages
        BY <1>0, <2>2 DEF Pages
    <2>4. /\ page_chunks' \in Seq(Pages)
          /\ Len(page_chunks') = p
          /\ DOMAIN page_chunks = 1 .. Len(page_chunks)
          /\ DOMAIN page_chunks' = 1 .. p
          /\ \A i \in DOMAIN page_chunks : page_chunks'[i] = page_chunks[i]
          /\ page_chunks'[p] = new
        BY <1>0, <2>1, <2>3
    <2>5. PagesDistinct'
        <3>1. \A i \in DOMAIN page_chunks' : i \in DOMAIN page_chunks \/ i = p
            BY <1>0, <2>4
        <3>2. new.frame = f
            OBVIOUS
        <3> QED BY <2>1, <2>4, <3>1, <3>2 DEF IInv, PagesDistinct
    <2>6. \A i \in DOMAIN page_chunks : page_chunks[i].cursor \in 0 .. PageSize
        <3>1. \A i \in DOMAIN page_chunks : page_chunks[i] \in Pages
            BY <1>0, <2>4, ElementOfSeq
        <3> QED BY <3>1 DEF Pages
    <2>7. Cuts(p, 0, size, permission)
        BY <1>0, <1>2, <2>2, <2>4, <2>5, <2>6 DEF Cuts, TakeFromNewPage
    <2> QED BY <1>0, <1>2, <2>2, <2>7, CutsIInv DEF TakeFromNewPage
<1>3. CASE UNCHANGED <<page_chunks, chunks>> /\ failed' \in BOOLEAN
    BY <1>3 DEF IInv, TypeOK, PagesDistinct, BehindCursor, DisjointOnPage
<1>4. CASE UNCHANGED vars
    BY <1>0, <1>3, <1>4 DEF vars
<1>5. ASSUME NEW size \in Sizes, NEW permission \in {"rx", "rw"}, AllocateChunk(size, permission)
      PROVE  IInv'
    BY <1>1, <1>2, <1>3, <1>5 DEF AllocateChunk, ReturnNull
<1> QED BY <1>4, <1>5 DEF Next, AllocateCodeChunk, AllocateDataChunk

LEMMA IInvDisjoint == IInv => ChunksDisjoint
<1> SUFFICES ASSUME IInv, NEW k \in DOMAIN chunks, NEW l \in DOMAIN chunks, k # l,
                    Frame(chunks[k]) = Frame(chunks[l])
             PROVE  \/ chunks[k].offset + chunks[k].length <= chunks[l].offset
                    \/ chunks[l].offset + chunks[l].length <= chunks[k].offset
    BY DEF ChunksDisjoint
<1>1. chunks[k].page \in DOMAIN page_chunks /\ chunks[l].page \in DOMAIN page_chunks
    BY PageOfChunk DEF IInv
<1>2. chunks[k].page = chunks[l].page
    BY <1>1 DEF IInv, PagesDistinct, Frame
<1> QED BY <1>2 DEF IInv, DisjointOnPage

LEMMA IInvInOnePage == IInv => ChunksInOnePage
<1> SUFFICES ASSUME IInv, NEW k \in DOMAIN chunks
             PROVE  /\ chunks[k].offset + chunks[k].length <= PageSize
                    /\ page_chunks[chunks[k].page].permission = chunks[k].permission
    BY DEF ChunksInOnePage
<1>1. /\ chunks[k].offset \in Nat /\ chunks[k].length \in Nat
      /\ page_chunks[chunks[k].page].cursor \in 0 .. PageSize
    BY PageOfChunk DEF IInv
<1> QED BY <1>1, ArenaAssumption DEF IInv, BehindCursor

\* The bookkeeping of the arena is well formed in every reachable state.
THEOREM ArenaTypeCorrect == Spec => []TypeOK
<1>1. IInv => TypeOK
    BY DEF IInv
<1> QED BY <1>1, InitIInv, NextIInv, PTL DEF Spec

\* No two chunks AllocateChunk has handed out share a word.
THEOREM ArenaDisjoint == Spec => []ChunksDisjoint
BY IInvDisjoint, InitIInv, NextIInv, PTL DEF Spec

\* Every chunk lies in one page that has the permission asked for.
THEOREM ArenaInOnePage == Spec => []ChunksInOnePage
BY IInvInOnePage, InitIInv, NextIInv, PTL DEF Spec

---------------------------------------------------------------------------
(* The assembler and the builder                                           *)


Words == [op : {"A", "inst", "ldr", "data"}, label : Labels \cup {"none"}, k : Int]

\* A CodeBuffer whose content lies in its block.
BufferOK(b) ==
    /\ b = [block |-> b.block, cursor |-> b.cursor, capacity |-> b.capacity]
    /\ b.cursor \in Nat /\ b.capacity \in Nat
    /\ 4 * b.cursor <= b.capacity
    /\ b.block \in [1 .. b.capacity \div 4 -> Words]

\* A LiteMutableArray with objects of S.
ArrayOK(a, S) ==
    /\ a = [array |-> a.array, count |-> a.count]
    /\ a.array \in Seq(S \cup {"A"})
    /\ a.count \in 0 .. Len(a.array)
    /\ \A n \in 1 .. a.count : a.array[n] \in S

---------------------------------------------------------------------------
(* The buffer                                                              *)

LEMMA NewBufferOK ==
    ASSUME NEW bytes \in Nat
    PROVE  BufferOK(NewBuffer(bytes)) /\ NewBuffer(bytes).cursor = 0
<1>1. Junk \in Words
    BY DEF Junk, Word, Words
<1>2. bytes \div 4 \in Nat
    OBVIOUS
<1> QED BY <1>1, <1>2 DEF NewBuffer, BufferOK

\* Half as much again as c + m words is room for them.
LEMMA HalfMore ==
    ASSUME NEW c \in Nat, NEW m \in Nat, NEW want, want = 4 * c + 4 * m,
           NEW n, n = want + want \div 2
    PROVE  n \in Nat /\ 4 * (c + m) <= n /\ c <= n \div 4 /\ n \div 4 \in Nat
OBVIOUS

LEMMA WordsInBytes ==
    ASSUME NEW c \in Nat, NEW n \in Nat, 4 * c <= n
    PROVE  c <= n \div 4 /\ n \div 4 \in Nat
OBVIOUS

\* Growing makes room for m more words and keeps the content.
LEMMA EnsureOK ==
    ASSUME NEW b, BufferOK(b), NEW m \in Nat
    PROVE  LET e == ensureCapacity(b, getSize(b) + 4 * m)
           IN  /\ BufferOK(e)
               /\ e.cursor = b.cursor
               /\ 4 * (b.cursor + m) <= e.capacity
               /\ \A i \in 1 .. b.cursor : e.block[i] = b.block[i]
<1> DEFINE c == b.cursor
           want == 4 * c + 4 * m
           n == want + want \div 2
           e == ensureCapacity(b, getSize(b) + 4 * m)
<1>1. /\ c \in Nat /\ b.capacity \in Nat /\ 4 * c <= b.capacity
      /\ b.block \in [1 .. b.capacity \div 4 -> Words]
    BY DEF BufferOK
<1>2. CASE want <= b.capacity
    BY <1>1, <1>2 DEF ensureCapacity, getSize
<1>3. CASE ~(want <= b.capacity)
    <2> DEFINE block == [i \in 1 .. n \div 4 |-> IF i <= c THEN b.block[i] ELSE Junk]
    <2>1. e = [block |-> block, cursor |-> c, capacity |-> n]
        BY <1>3 DEF ensureCapacity, getSize
    <2> HIDE DEF c
    <2>2. n \in Nat /\ 4 * (c + m) <= n /\ c <= n \div 4 /\ n \div 4 \in Nat
        BY <1>1, HalfMore
    <2>3. c <= b.capacity \div 4 /\ b.capacity \div 4 \in Nat
        BY <1>1, WordsInBytes
    <2> HIDE DEF n
    <2>4. Junk \in Words
        BY DEF Junk, Word, Words
    <2>5. \A i \in 1 .. c : i \in 1 .. b.capacity \div 4 /\ i \in 1 .. n \div 4
        BY <1>1, <2>2, <2>3
    <2>6. \A i \in 1 .. n \div 4 : (IF i <= c THEN b.block[i] ELSE Junk) \in Words
        BY <1>1, <2>2, <2>4, <2>5
    <2>7. block \in [1 .. n \div 4 -> Words]
        BY <2>6
    <2>8. \A i \in 1 .. c : block[i] = b.block[i]
        BY <1>1, <2>5
    <2>9. 4 * c <= n
        BY <1>1, <2>2
    <2> HIDE DEF block
    <2> QED BY <1>1, <2>1, <2>2, <2>7, <2>8, <2>9 DEF BufferOK, c
<1> QED BY <1>2, <1>3

\* Emitting keeps the content and puts the words behind it.
LEMMA EmittedOK ==
    ASSUME NEW b, BufferOK(b), NEW words \in Seq(Words)
    PROVE  LET e == Emitted(b, words)
           IN  /\ BufferOK(e)
               /\ e.cursor = b.cursor + Len(words)
               /\ \A i \in 1 .. b.cursor : e.block[i] = b.block[i]
               /\ \A i \in 1 .. Len(words) : e.block[b.cursor + i] = words[i]
<1> DEFINE m == Len(words)
           c == b.cursor
           e == ensureCapacity(b, getSize(b) + 4 * m)
           block == [i \in DOMAIN e.block |->
                        IF i \in c + 1 .. c + m THEN words[i - c] ELSE e.block[i]]
           f == Emitted(b, words)
<1>1. m \in Nat /\ c \in Nat
    BY DEF BufferOK
<1>2. /\ BufferOK(e)
      /\ e.cursor = c
      /\ 4 * (c + m) <= e.capacity
      /\ \A i \in 1 .. c : e.block[i] = b.block[i]
    BY <1>1, EnsureOK
<1>3. f = [e EXCEPT !.block = block, !.cursor = @ + m]
    BY DEF Emitted
<1> HIDE DEF e
<1>4. f = [block |-> block, cursor |-> c + m, capacity |-> e.capacity]
    BY <1>2, <1>3 DEF BufferOK
<1>5. /\ e.capacity \in Nat
      /\ c + m <= e.capacity \div 4
      /\ e.block \in [1 .. e.capacity \div 4 -> Words]
    BY <1>1, <1>2 DEF BufferOK
<1>6. block \in [1 .. e.capacity \div 4 -> Words]
    <2>1. \A i \in c + 1 .. c + m : words[i - c] \in Words
        BY <1>1, ElementOfSeq
    <2> QED BY <1>5, <2>1
<1>7. \A i \in 1 .. c : block[i] = b.block[i]
    BY <1>1, <1>2, <1>5
<1>8. \A i \in 1 .. m : block[c + i] = words[i]
    BY <1>1, <1>5, SMTT(30)
<1> HIDE DEF block, f
<1> QED BY <1>1, <1>2, <1>4, <1>5, <1>6, <1>7, <1>8 DEF BufferOK, f

\* One word more.
LEMMA EmittedOne ==
    ASSUME NEW b, BufferOK(b), NEW w \in Words
    PROVE  LET e == Emitted(b, <<w>>)
           IN  /\ BufferOK(e)
               /\ e.cursor = b.cursor + 1
               /\ \A i \in 1 .. b.cursor : e.block[i] = b.block[i]
               /\ e.block[b.cursor + 1] = w
<1> DEFINE words == <<w>>
<1>1. words \in Seq(Words) /\ Len(words) = 1 /\ words[1] = w
    OBVIOUS
<1> HIDE DEF words
<1>2. LET e == Emitted(b, words)
      IN  /\ BufferOK(e)
          /\ e.cursor = b.cursor + Len(words)
          /\ \A i \in 1 .. b.cursor : e.block[i] = b.block[i]
          /\ \A i \in 1 .. Len(words) : e.block[b.cursor + i] = words[i]
    BY <1>1, EmittedOK
<1> QED BY <1>1, <1>2 DEF words

---------------------------------------------------------------------------
(* The array                                                               *)

LEMMA CapacityGrows ==
    ASSUME NEW n \in Nat
    PROVE  NewCapacity(n) \in Nat /\ n <= NewCapacity(n)
BY BuilderAssumption DEF NewCapacity

LEMMA NewArrayOK ==
    ASSUME NEW S, NEW n \in Nat
    PROVE  ArrayOK(NewArray(n), S) /\ NewArray(n).count = 0
<1>1. [i \in 1 .. n |-> "A"] \in Seq(S \cup {"A"})
    OBVIOUS
<1> QED BY <1>1 DEF NewArray, ArrayOK

LEMMA PushOK ==
    ASSUME NEW S, NEW a, ArrayOK(a, S), NEW x \in S
    PROVE  /\ ArrayOK(pushObject(a, x), S)
           /\ pushObject(a, x).count = a.count + 1
           /\ Objects(pushObject(a, x)) = Objects(a) \cup {x}
           /\ pushObject(a, x).array[a.count + 1] = x
           /\ \A n \in 1 .. a.count : pushObject(a, x).array[n] = a.array[n]
<1> DEFINE e == ensureArrayCapacity(a)
           T == S \cup {"A"}
           p == pushObject(a, x)
           new == [e.array EXCEPT ![a.count + 1] = x]
<1>1. a.count \in Nat /\ a.array \in Seq(T) /\ a.count <= Len(a.array)
    BY DEF ArrayOK
<1>2. e.array \in Seq(T) /\ a.count + 1 <= Len(e.array) /\ \A n \in 1 .. a.count : e.array[n] = a.array[n]
    <2>1. CASE ~IsFull(a)
        BY <1>1, <2>1 DEF ensureArrayCapacity, IsFull
    <2>2. CASE IsFull(a)
        <3> DEFINE N == NewCapacity(a.count + 1)
                   big == [i \in 1 .. N |-> IF i <= a.count THEN a.array[i] ELSE "A"]
        <3>1. N \in Nat /\ a.count + 1 <= N
            <4>1. a.count + 1 \in Nat
                BY <1>1
            <4> QED BY <4>1, CapacityGrows
        <3>2. e = [a EXCEPT !.array = big]
            BY <2>2 DEF ensureArrayCapacity
        <3>3. \A i \in 1 .. a.count : a.array[i] \in T
            BY <1>1, ElementOfSeq
        <3> HIDE DEF N
        <3>4. big \in Seq(T) /\ Len(big) = N
            BY <1>1, <3>1, <3>3
        <3>5. \A i \in 1 .. a.count : big[i] = a.array[i]
            BY <1>1, <3>1
        <3> HIDE DEF big
        <3>6. e.array = big
            BY <3>2 DEF ArrayOK
        <3> QED BY <3>1, <3>4, <3>5, <3>6
    <2> QED BY <2>1, <2>2
<1>3. p = [array |-> new, count |-> a.count + 1]
    BY DEF pushObject
<1> HIDE DEF e
<1>4. /\ new \in Seq(T) /\ Len(new) = Len(e.array)
      /\ \A n \in 1 .. a.count : new[n] = a.array[n]
      /\ new[a.count + 1] = x
    BY <1>1, <1>2
<1> HIDE DEF new, p
<1>5. ArrayOK(p, S)
    BY <1>1, <1>2, <1>3, <1>4 DEF ArrayOK
<1>6. Objects(p) = Objects(a) \cup {x}
    <2>1. Objects(p) = {new[n] : n \in 1 .. a.count + 1}
        BY <1>3 DEF Objects
    <2>2. \A n : n \in 1 .. a.count + 1 <=> n \in 1 .. a.count \/ n = a.count + 1
        BY <1>1
    <2> QED BY <1>4, <2>1, <2>2 DEF Objects
<1> QED BY <1>3, <1>4, <1>5, <1>6 DEF p

---------------------------------------------------------------------------
(* The invariant                                                           *)

Pieces == [frame : Frames \cup Sites, offset : Nat, length : Nat, spent : Nat]

Types ==
    /\ BufferOK(buffer)
    /\ pos \in [Labels -> Int]
    /\ DOMAIN instructions = Labels
    /\ \A l \in Labels : ArrayOK(instructions[l], Nat)
    /\ ArrayOK(data_labels, Labels)
    /\ binding \in 0 .. data_labels.count
    /\ realized \in Sites \cup {"NULL"}
    /\ stage \in {"none", "code", "lost"}
    /\ starved \in BOOLEAN
    /\ built \in Seq(Pieces)

\* The words that are spent, written, and still to be written by RelocBind.
Budget == Spent + buffer.cursor + 2 * (data_labels.count - binding) <= MaxWords

IsLoad(b, i, l) == b.block[i].op = "ldr" /\ b.block[i].label = l

\* What is on the list of a label are the places of loads that name it.
ListsLoads ==
    \A l \in Labels : \A x \in Objects(instructions[l]) :
        \E i \in 1 .. buffer.cursor : x = 4 * (i - 1) /\ IsLoad(buffer, i, l)

LoadsNameLabels ==
    \A i \in 1 .. buffer.cursor : buffer.block[i].op = "ldr" => buffer.block[i].label \in Labels

\* Load i reaches the data of its label or is on its list.
Reaches(i) ==
    LET w == buffer.block[i]
        j == i + w.k
    IN  w.op = "ldr" =>
            IF is_bound(w.label)
            THEN j \in 1 .. buffer.cursor - 1 /\ buffer.block[j] = Data(w.label)[1]
            ELSE 4 * (i - 1) \in Objects(instructions[w.label])

AllReach == ~starved => \A i \in 1 .. buffer.cursor : Reaches(i)

BInv == Types /\ Budget /\ ListsLoads /\ LoadsNameLabels /\ AllReach

\* The state of an assembler that has not written anything.
Fresh ==
    /\ buffer = NewBuffer(BufferBytes)
    /\ pos = [l \in Labels |-> 0]
    /\ instructions = [l \in Labels |-> NewArray(ArrayCapacity)]
    /\ data_labels = NewArray(ArrayCapacity)
    /\ binding = 0
    /\ realized = "NULL"
    /\ stage = "none"

LEMMA SpentNat ==
    ASSUME built \in Seq(Pieces)
    PROVE  Spent \in Nat
<1>1. CASE built = <<>>
    BY <1>1 DEF Spent
<1>2. CASE built # <<>>
    <2>1. Len(built) \in 1 .. Len(built)
        BY <1>2
    <2>2. built[Len(built)] \in Pieces
        BY <2>1, ElementOfSeq
    <2> QED BY <1>2, <2>2 DEF Spent, Pieces
<1> QED BY <1>1, <1>2

LEMMA FreshBInv ==
    Fresh /\ built \in Seq(Pieces) /\ Spent <= MaxWords /\ starved \in BOOLEAN => BInv
<1> SUFFICES ASSUME Fresh, built \in Seq(Pieces), Spent <= MaxWords, starved \in BOOLEAN
             PROVE  BInv
    OBVIOUS
<1>0. BufferBytes \in Nat /\ ArrayCapacity \in Nat
    BY BuilderAssumption
<1>1. BufferOK(buffer) /\ buffer.cursor = 0
    BY <1>0, NewBufferOK DEF Fresh
<1>2. \A l \in Labels : ArrayOK(instructions[l], Nat) /\ instructions[l].count = 0
    BY <1>0, NewArrayOK DEF Fresh
<1>3. ArrayOK(data_labels, Labels) /\ data_labels.count = 0
    BY <1>0, NewArrayOK DEF Fresh
<1>4. Types
    BY <1>1, <1>2, <1>3 DEF Fresh, Types
<1>5. Budget
    BY <1>1, <1>3, SpentNat, BuilderAssumption DEF Fresh, Budget
<1>6. ListsLoads
    <2>1. \A l \in Labels : Objects(instructions[l]) = {}
        BY <1>2 DEF Objects
    <2> QED BY <2>1 DEF ListsLoads
<1>7. LoadsNameLabels /\ AllReach
    BY <1>1 DEF LoadsNameLabels, AllReach
<1> QED BY <1>4, <1>5, <1>6, <1>7 DEF BInv

---------------------------------------------------------------------------
(* Writing                                                                 *)

\* What was written before stays reachable and listed when words are added.
LEMMA AddedBehind ==
    ASSUME BInv, NEW m \in Nat,
           buffer'.cursor = buffer.cursor + m,
           \A i \in 1 .. buffer.cursor : buffer'.block[i] = buffer.block[i],
           pos' = pos,
           \A l \in Labels : Objects(instructions[l]) \subseteq Objects(instructions[l])'
    PROVE  /\ ~starved => \A i \in 1 .. buffer.cursor : Reaches(i)'
           /\ \A i \in 1 .. buffer.cursor : i \in 1 .. buffer'.cursor
           /\ \A l \in Labels : \A x \in Objects(instructions[l]) :
                \E i \in 1 .. buffer'.cursor : x = 4 * (i - 1) /\ IsLoad(buffer', i, l)
           /\ \A i \in 1 .. buffer.cursor :
                buffer'.block[i].op = "ldr" => buffer'.block[i].label \in Labels
<1> DEFINE c == buffer.cursor
<1>1. c \in Nat /\ c + m \in Nat
    BY DEF BInv, Types, BufferOK
<1>2. \A i \in 1 .. c : i \in 1 .. buffer'.cursor
    BY <1>1
<1>3. \A l \in Labels : \A x \in Objects(instructions[l]) :
            \E i \in 1 .. buffer'.cursor : x = 4 * (i - 1) /\ IsLoad(buffer', i, l)
    BY <1>2 DEF BInv, ListsLoads, IsLoad
<1>4. \A i \in 1 .. c : buffer'.block[i].op = "ldr" => buffer'.block[i].label \in Labels
    BY DEF BInv, LoadsNameLabels
<1>5. ASSUME ~starved, NEW i \in 1 .. c
      PROVE  Reaches(i)'
    <2> DEFINE w == buffer.block[i]
               j == i + w.k
    <2>1. Reaches(i)
        BY <1>5 DEF BInv, AllReach
    <2>2. buffer'.block[i] = w
        OBVIOUS
    <2>3. CASE w.op # "ldr"
        BY <2>2, <2>3 DEF Reaches
    <2>4. CASE w.op = "ldr" /\ is_bound(w.label)
        <3>1. j \in 1 .. c - 1 /\ buffer.block[j] = Data(w.label)[1]
            BY <2>1, <2>4 DEF Reaches
        <3>2. j \in 1 .. c /\ j \in 1 .. buffer'.cursor - 1
            BY <1>1, <3>1
        <3>3. buffer'.block[j] = Data(w.label)[1]
            BY <3>1, <3>2
        <3>4. is_bound(w.label)'
            BY <2>2, <2>4 DEF is_bound
        <3> QED BY <2>2, <3>2, <3>3, <3>4 DEF Reaches, is_bound, Data
    <2>5. CASE w.op = "ldr" /\ ~is_bound(w.label)
        <3>1. w.label \in Labels
            BY <2>5 DEF BInv, LoadsNameLabels
        <3>2. 4 * (i - 1) \in Objects(instructions[w.label])
            BY <2>1, <2>5 DEF Reaches
        <3>3. 4 * (i - 1) \in Objects(instructions[w.label])'
            BY <3>1, <3>2
        <3> QED BY <2>2, <2>5, <3>3 DEF Reaches, is_bound
    <2> QED BY <2>3, <2>4, <2>5
<1> QED BY <1>2, <1>3, <1>4, <1>5

LEMMA EmitBInv == ASSUME BInv, Emit PROVE BInv'
<1> DEFINE c == buffer.cursor
           w == Word("inst", "none", 0)
<1>1. w \in Words /\ buffer' = Emitted(buffer, <<w>>)
    BY DEF Emit, Inst, Word, Words
<1>2. c \in Nat /\ BufferOK(buffer)
    BY DEF BInv, Types, BufferOK
<1> HIDE DEF w
<1>3. /\ BufferOK(buffer')
      /\ buffer'.cursor = c + 1
      /\ \A i \in 1 .. c : buffer'.block[i] = buffer.block[i]
      /\ buffer'.block[c + 1] = w
    BY <1>1, <1>2, EmittedOne
<1>4. /\ UNCHANGED <<pos, instructions, data_labels, binding, realized, stage, starved, built>>
      /\ binding = 0 /\ Room(1)
    BY DEF Emit, CanWrite, KeptElsewhere
<1>5. Types'
    BY <1>3, <1>4 DEF BInv, Types
<1>6. Budget'
    <2>1. Spent' = Spent /\ Spent \in Nat /\ data_labels.count \in Nat
        BY <1>4, SpentNat DEF Spent, BInv, Types, ArrayOK
    <2> QED BY <1>2, <1>3, <1>4, <2>1, BuilderAssumption DEF Budget, Room
<1>7. \A i \in 1 .. c + 1 : i \in 1 .. c \/ i = c + 1
    BY <1>2
<1>8. /\ ~starved => \A i \in 1 .. c : Reaches(i)'
      /\ \A l \in Labels : \A x \in Objects(instructions[l]) :
            \E i \in 1 .. buffer'.cursor : x = 4 * (i - 1) /\ IsLoad(buffer', i, l)
      /\ \A i \in 1 .. c : buffer'.block[i].op = "ldr" => buffer'.block[i].label \in Labels
    BY <1>3, <1>4, AddedBehind
<1>9. ListsLoads'
    BY <1>4, <1>8 DEF ListsLoads, IsLoad
<1>10. w.op # "ldr"
    BY DEF Word, w
<1>11. LoadsNameLabels'
    BY <1>3, <1>7, <1>8, <1>10 DEF LoadsNameLabels
<1>12. AllReach'
    <2>1. \A i : i = c + 1 => Reaches(i)'
        BY <1>3, <1>10 DEF Reaches
    <2> QED BY <1>3, <1>4, <1>7, <1>8, <2>1 DEF AllReach
<1> QED BY <1>5, <1>6, <1>9, <1>11, <1>12 DEF BInv

\* A load is written, and its place put on the list of its label unless the
\* list cannot grow.
LEMMA LdrBInv ==
    ASSUME BInv, NEW l \in Labels, LdrLinked(l) \/ LdrDropped(l)
    PROVE  BInv'
<1> DEFINE c == buffer.cursor
           w == Word("ldr", l, 0)
<1>1. w \in Words /\ buffer' = Emitted(buffer, <<w>>)
    BY DEF LdrLinked, LdrDropped, Word, Words
<1>2. c \in Nat /\ BufferOK(buffer) /\ getSize(buffer) = 4 * c /\ 4 * c \in Nat
    BY DEF BInv, Types, BufferOK, getSize
<1> HIDE DEF w
<1>3. /\ BufferOK(buffer')
      /\ buffer'.cursor = c + 1
      /\ \A i \in 1 .. c : buffer'.block[i] = buffer.block[i]
      /\ buffer'.block[c + 1] = w
    BY <1>1, <1>2, EmittedOne
<1>4. /\ UNCHANGED <<pos, data_labels, binding, realized, stage, built>>
      /\ binding = 0 /\ Room(1) /\ ~is_bound(l)
      /\ starved' \in BOOLEAN
    BY DEF LdrLinked, LdrDropped, CanWrite, KeptElsewhere, BInv, Types
<1>5. /\ DOMAIN instructions' = Labels
      /\ \A k \in Labels : ArrayOK(instructions'[k], Nat)
      /\ \A k \in Labels : Objects(instructions[k]) \subseteq Objects(instructions'[k])
      /\ \A k \in Labels : \A x \in Objects(instructions'[k]) :
            x \in Objects(instructions[k]) \/ (k = l /\ x = 4 * c)
      /\ starved' \/ (~starved /\ 4 * c \in Objects(instructions'[l])) \/ starved
    <2>1. DOMAIN instructions = Labels /\ \A k \in Labels : ArrayOK(instructions[k], Nat)
        BY DEF BInv, Types
    <2>2. CASE LdrDropped(l)
        BY <2>1, <2>2 DEF LdrDropped
    <2>3. CASE LdrLinked(l)
        <3> DEFINE new == pushObject(instructions[l], 4 * c)
        <3>1. ArrayOK(new, Nat) /\ Objects(new) = Objects(instructions[l]) \cup {4 * c}
            BY <1>2, <2>1, PushOK
        <3>2. instructions' = [instructions EXCEPT ![l] = new]
            BY <1>2, <2>3 DEF LdrLinked
        <3> HIDE DEF new, c
        <3>3. /\ DOMAIN instructions' = Labels
              /\ \A k \in Labels : instructions'[k] = IF k = l THEN new ELSE instructions[k]
            BY <2>1, <3>2
        <3>4. \A k \in Labels : ArrayOK(instructions'[k], Nat)
            BY <2>1, <3>1, <3>3
        <3>5. starved' = starved
            BY <2>3 DEF LdrLinked
        <3> QED BY <3>1, <3>3, <3>4, <3>5
    <2> QED BY <2>2, <2>3
<1>6. Types'
    BY <1>3, <1>4, <1>5 DEF BInv, Types
<1>7. Budget'
    <2>1. Spent' = Spent /\ Spent \in Nat /\ data_labels.count \in Nat
        BY <1>4, SpentNat DEF Spent, BInv, Types, ArrayOK
    <2> QED BY <1>2, <1>3, <1>4, <2>1, BuilderAssumption DEF Budget, Room
<1>8. \A i \in 1 .. c + 1 : i \in 1 .. c \/ i = c + 1
    BY <1>2
<1>9. /\ ~starved => \A i \in 1 .. c : Reaches(i)'
      /\ \A k \in Labels : \A x \in Objects(instructions[k]) :
            \E i \in 1 .. buffer'.cursor : x = 4 * (i - 1) /\ IsLoad(buffer', i, k)
      /\ \A i \in 1 .. c : buffer'.block[i].op = "ldr" => buffer'.block[i].label \in Labels
    BY <1>3, <1>4, <1>5, AddedBehind
<1>10. w.op = "ldr" /\ w.label = l
    BY DEF Word, w
<1>11. ListsLoads'
    <2> SUFFICES ASSUME NEW k \in Labels, NEW x \in Objects(instructions'[k])
                 PROVE  \E i \in 1 .. buffer'.cursor : x = 4 * (i - 1) /\ IsLoad(buffer', i, k)
        BY DEF ListsLoads, IsLoad
    <2>1. CASE x \in Objects(instructions[k])
        BY <1>9, <2>1
    <2>2. CASE k = l /\ x = 4 * c
        <3>1. c + 1 \in 1 .. buffer'.cursor /\ x = 4 * ((c + 1) - 1)
            BY <1>2, <1>3, <2>2
        <3>2. IsLoad(buffer', c + 1, k)
            BY <1>3, <1>10, <2>2 DEF IsLoad
        <3> QED BY <3>1, <3>2
    <2> QED BY <1>5, <2>1, <2>2
<1>12. LoadsNameLabels'
    BY <1>3, <1>8, <1>9, <1>10 DEF LoadsNameLabels
<1>13. AllReach'
    <2> SUFFICES ASSUME ~starved' PROVE \A i \in 1 .. c + 1 : Reaches(i)'
        BY <1>3 DEF AllReach
    <2>1. ~starved
        BY DEF LdrLinked, LdrDropped
    <2>2. ASSUME NEW i, i = c + 1 PROVE Reaches(i)'
        <3>1. 4 * ((c + 1) - 1) \in Objects(instructions'[l])
            BY <1>2, <1>5, <2>1
        <3>2. ~is_bound(l)'
            BY <1>4 DEF is_bound
        <3> QED BY <1>3, <1>10, <2>2, <3>1, <3>2 DEF Reaches, is_bound
    <2> QED BY <1>8, <1>9, <2>1, <2>2
<1> QED BY <1>6, <1>7, <1>11, <1>12, <1>13 DEF BInv

---------------------------------------------------------------------------
(* Binding                                                                 *)

LEMMA LinkOK ==
    ASSUME NEW b, BufferOK(b), NEW l \in Labels, NEW bound \in Nat
    PROVE  LET g == link_confused_instructions(b, l, bound)
           IN  /\ BufferOK(g)
               /\ g.cursor = b.cursor
               /\ \A i \in 1 .. b.cursor :
                    g.block[i] = IF 4 * (i - 1) \in Objects(instructions[l])
                                 THEN [b.block[i] EXCEPT !.k = (bound - 4 * (i - 1)) \div 4]
                                 ELSE b.block[i]
<1> DEFINE g == link_confused_instructions(b, l, bound)
           N == b.capacity \div 4
           new(i) == IF 4 * (i - 1) \in Objects(instructions[l])
                     THEN [b.block[i] EXCEPT !.k = (bound - 4 * (i - 1)) \div 4]
                     ELSE b.block[i]
           block == [i \in 1 .. N |-> new(i)]
<1>1. /\ b = [block |-> b.block, cursor |-> b.cursor, capacity |-> b.capacity]
      /\ b.cursor \in Nat /\ b.capacity \in Nat /\ 4 * b.cursor <= b.capacity
      /\ b.block \in [1 .. N -> Words]
    BY DEF BufferOK
<1>2. b.cursor <= N /\ N \in Nat
    BY <1>1, WordsInBytes
<1>3. g = [b EXCEPT !.block = block]
    BY <1>1 DEF link_confused_instructions
<1>4. \A i \in 1 .. N : new(i) \in Words
    <2> TAKE i \in 1 .. N
    <2>1. b.block[i] \in Words
        BY <1>1
    <2>2. i \in Nat /\ (bound - 4 * (i - 1)) \div 4 \in Int
        BY <1>2
    <2> QED BY <2>1, <2>2 DEF Words
<1> HIDE DEF new, N
<1>5. block \in [1 .. N -> Words]
    BY <1>4
<1>6. g = [block |-> block, cursor |-> b.cursor, capacity |-> b.capacity]
    BY <1>1, <1>3
<1>7. \A i \in 1 .. b.cursor : block[i] = new(i)
    BY <1>1, <1>2
<1> HIDE DEF block
<1>8. g.block = block /\ g.cursor = b.cursor /\ g.capacity = b.capacity
    BY <1>6
<1> HIDE DEF g
<1>9. BufferOK(g)
    BY <1>1, <1>5, <1>6, <1>8 DEF BufferOK, N
<1>10. \A i \in 1 .. b.cursor : g.block[i] = new(i)
    BY <1>7, <1>8
<1> QED BY <1>8, <1>9, <1>10 DEF g, new

\* A place on a list is the place of a load of that label, and of no other word.
LEMMA ListedIsLoad ==
    ASSUME BInv, NEW l \in Labels, NEW i \in 1 .. buffer.cursor,
           4 * (i - 1) \in Objects(instructions[l])
    PROVE  buffer.block[i].op = "ldr" /\ buffer.block[i].label = l
<1>1. PICK n \in 1 .. buffer.cursor : 4 * (i - 1) = 4 * (n - 1) /\ IsLoad(buffer, n, l)
    BY DEF BInv, ListsLoads
<1>2. n = i
    BY <1>1 DEF BInv, Types, BufferOK
<1> QED BY <1>1, <1>2 DEF IsLoad

\* Binding l: the listed loads get their distance, the data follows the code.
LEMMA BindEffect ==
    ASSUME BInv, NEW l \in Labels, BindAndEmit(l)
    PROVE  /\ pos' \in [Labels -> Int] /\ pos'[l] < 0
           /\ \A k \in Labels : k # l => pos'[k] = pos[k]
           /\ BufferOK(buffer')
           /\ buffer'.cursor = buffer.cursor + 2
           /\ buffer'.block[buffer.cursor + 1] = Data(l)[1]
           /\ buffer'.block[buffer.cursor + 2] = Data(l)[2]
           /\ \A i \in 1 .. buffer.cursor :
                buffer'.block[i] = IF 4 * (i - 1) \in Objects(instructions[l])
                                   THEN [buffer.block[i] EXCEPT !.k = (4 * buffer.cursor - 4 * (i - 1)) \div 4]
                                   ELSE buffer.block[i]
<1> DEFINE c == buffer.cursor
           g == link_confused_instructions(buffer, l, 4 * c)
           listed(i) == 4 * (i - 1) \in Objects(instructions[l])
<1>1. c \in Nat /\ BufferOK(buffer) /\ getSize(buffer) = 4 * c /\ 4 * c \in Nat
      /\ pos \in [Labels -> Int]
    BY DEF BInv, Types, BufferOK, getSize
<1>2. /\ pos' = [pos EXCEPT ![l] = -(4 * c) - 1]
      /\ pos' \in [Labels -> Int]
      /\ pos'[l] < 0
      /\ \A k \in Labels : k # l => pos'[k] = pos[k]
      /\ PosOf(pos'[l]) = 4 * c
    BY <1>1 DEF BindAndEmit, bind_to, PosOf
<1>3. buffer' = Emitted(g, Data(l))
    BY <1>2 DEF BindAndEmit
<1>4. /\ BufferOK(g)
      /\ g.cursor = c
      /\ \A i \in 1 .. c :
            g.block[i] = IF listed(i)
                         THEN [buffer.block[i] EXCEPT !.k = (4 * c - 4 * (i - 1)) \div 4]
                         ELSE buffer.block[i]
    BY <1>1, LinkOK
<1> HIDE DEF g
<1>5. Data(l) \in Seq(Words) /\ Len(Data(l)) = 2
    BY DEF Data, Word, Words
<1>6. /\ BufferOK(buffer')
      /\ buffer'.cursor = c + 2
      /\ \A i \in 1 .. c : buffer'.block[i] = g.block[i]
      /\ buffer'.block[c + 1] = Data(l)[1]
      /\ buffer'.block[c + 2] = Data(l)[2]
    <2> DEFINE words == Data(l)
    <2>1. BufferOK(g) /\ words \in Seq(Words)
        BY <1>4, <1>5
    <2> HIDE DEF words
    <2>2. LET e == Emitted(g, words)
          IN  /\ BufferOK(e)
              /\ e.cursor = g.cursor + Len(words)
              /\ \A i \in 1 .. g.cursor : e.block[i] = g.block[i]
              /\ \A i \in 1 .. Len(words) : e.block[g.cursor + i] = words[i]
        BY <2>1, EmittedOK
    <2>3. buffer' = Emitted(g, words) /\ Len(words) = 2 /\ g.cursor = c
        BY <1>3, <1>4, <1>5 DEF words
    <2>4. words[1] = Data(l)[1] /\ words[2] = Data(l)[2]
        BY DEF words
    <2> QED BY <2>2, <2>3, <2>4
<1> QED BY <1>2, <1>4, <1>6

\* All loads of l are linked to the data that is emitted behind the code; the
\* other loads, and the data they reach, stay as they are.
LEMMA BindBInv ==
    ASSUME BInv, NEW l \in Labels, BindAndEmit(l),
           UNCHANGED <<instructions, data_labels, realized, stage, starved, built>>,
           binding' \in 0 .. data_labels.count,
           Budget'
    PROVE  BInv'
<1> DEFINE c == buffer.cursor
           listed(i) == 4 * (i - 1) \in Objects(instructions[l])
<1>1. c \in Nat /\ BufferOK(buffer)
    BY DEF BInv, Types, BufferOK
<1>2. /\ pos' \in [Labels -> Int] /\ pos'[l] < 0
      /\ \A k \in Labels : k # l => pos'[k] = pos[k]
    BY BindEffect
<1>3. Data(l)[1].op = "data" /\ Data(l)[2].op = "data"
    BY DEF Data, Word
<1>4. /\ BufferOK(buffer')
      /\ buffer'.cursor = c + 2
      /\ buffer'.block[c + 1] = Data(l)[1]
      /\ buffer'.block[c + 2] = Data(l)[2]
      /\ \A i \in 1 .. c :
            buffer'.block[i] = IF listed(i)
                               THEN [buffer.block[i] EXCEPT !.k = (4 * c - 4 * (i - 1)) \div 4]
                               ELSE buffer.block[i]
    BY BindEffect
<1>5. Types'
    BY <1>2, <1>4 DEF BInv, Types
<1>6. \A i \in 1 .. c : buffer.block[i] \in Words
    <2>1. c <= buffer.capacity \div 4 /\ buffer.capacity \div 4 \in Nat
        BY <1>1, WordsInBytes DEF BufferOK
    <2> QED BY <1>1, <2>1 DEF BufferOK
<1>7. \A i \in 1 .. c :
        /\ buffer'.block[i].op = buffer.block[i].op
        /\ buffer'.block[i].label = buffer.block[i].label
        /\ listed(i) => buffer'.block[i].k = (4 * c - 4 * (i - 1)) \div 4
        /\ ~listed(i) => buffer'.block[i] = buffer.block[i]
    <2> SUFFICES ASSUME NEW i \in 1 .. c
                 PROVE  /\ buffer'.block[i].op = buffer.block[i].op
                        /\ buffer'.block[i].label = buffer.block[i].label
                        /\ listed(i) => buffer'.block[i].k = (4 * c - 4 * (i - 1)) \div 4
                        /\ ~listed(i) => buffer'.block[i] = buffer.block[i]
        OBVIOUS
    <2> DEFINE w == buffer.block[i]
               d == (4 * c - 4 * (i - 1)) \div 4
    <2>1. w \in Words /\ buffer'.block[i] = IF listed(i) THEN [w EXCEPT !.k = d] ELSE w
        BY <1>4, <1>6
    <2> HIDE DEF w, d, listed
    <2>2. [w EXCEPT !.k = d].op = w.op /\ [w EXCEPT !.k = d].label = w.label /\ [w EXCEPT !.k = d].k = d
        BY <2>1 DEF Words
    <2>3. /\ buffer'.block[i].op = w.op
          /\ buffer'.block[i].label = w.label
          /\ listed(i) => buffer'.block[i].k = d
          /\ ~listed(i) => buffer'.block[i] = w
        BY <2>1, <2>2
    <2> QED BY <2>3 DEF w, d
<1>8. \A i \in 1 .. c : i \in 1 .. buffer'.cursor
    BY <1>1, <1>4
<1>9. \A i \in 1 .. buffer'.cursor : i \in 1 .. c \/ i = c + 1 \/ i = c + 2
    BY <1>1, <1>4
<1>10. ListsLoads'
    BY <1>7, <1>8 DEF BInv, ListsLoads, IsLoad
<1>11. LoadsNameLabels'
    BY <1>3, <1>4, <1>7, <1>9 DEF BInv, LoadsNameLabels
<1>12. ASSUME ~starved, NEW i \in 1 .. c, buffer.block[i].op = "ldr"
       PROVE  Reaches(i)'
    <2> DEFINE w == buffer.block[i]
               v == buffer'.block[i]
    <2>0. v.op = "ldr" /\ v.label = w.label /\ w.label \in Labels
        BY <1>7, <1>12 DEF BInv, LoadsNameLabels
    <2>1. CASE listed(i)
        <3>1. v.k = (4 * c - 4 * (i - 1)) \div 4
            BY <1>7, <2>1
        <3>2. i + v.k = c + 1
            BY <1>1, <3>1
        <3>3. v.label = l
            BY <2>0, <2>1, ListedIsLoad
        <3>4. i + v.k \in 1 .. buffer'.cursor - 1
            BY <1>1, <1>4, <3>2
        <3>5. buffer'.block[i + v.k] = Data(l)[1]
            BY <1>4, <3>2
        <3>6. is_bound(l)'
            BY <1>2 DEF is_bound
        <3> QED BY <3>3, <3>4, <3>5, <3>6 DEF Reaches, is_bound, Data
    <2>2. CASE ~listed(i) /\ is_bound(w.label)
        <3> DEFINE j == i + w.k
        <3>1. j \in 1 .. c - 1 /\ buffer.block[j] = Data(w.label)[1]
            BY <1>12, <2>2 DEF BInv, AllReach, Reaches
        <3>2. j \in 1 .. c /\ j \in 1 .. buffer'.cursor - 1
            BY <1>1, <1>4, <3>1
        <3>3. buffer.block[j].op # "ldr"
            BY <3>1 DEF Data, Word
        <3>4. ~listed(j)
            BY <3>2, <3>3, ListedIsLoad
        <3>5. buffer'.block[j] = Data(w.label)[1] /\ v = w
            BY <1>7, <2>2, <3>1, <3>2, <3>4
        <3>6. pos'[w.label] < 0
            BY <1>2, <2>0, <2>2 DEF is_bound
        <3> QED BY <3>2, <3>5, <3>6 DEF Reaches, is_bound, Data
    <2>3. CASE ~listed(i) /\ ~is_bound(w.label)
        <3>1. 4 * (i - 1) \in Objects(instructions[w.label])
            BY <1>12, <2>3 DEF BInv, AllReach, Reaches
        <3>2. w.label # l
            BY <2>3, <3>1
        <3>3. ~(pos'[w.label] < 0)
            BY <1>2, <2>0, <2>3, <3>2 DEF is_bound
        <3> QED BY <2>0, <3>1, <3>3 DEF Reaches, is_bound
    <2> QED BY <2>1, <2>2, <2>3
<1>13. AllReach'
    <2> SUFFICES ASSUME ~starved, NEW i \in 1 .. buffer'.cursor PROVE Reaches(i)'
        BY DEF AllReach
    <2>1. CASE i \in 1 .. c /\ buffer.block[i].op = "ldr"
        BY <1>12, <2>1
    <2>2. CASE ~(i \in 1 .. c /\ buffer.block[i].op = "ldr")
        <3>1. buffer'.block[i].op # "ldr"
            BY <1>3, <1>4, <1>7, <1>9, <2>2
        <3> QED BY <3>1 DEF Reaches
    <2> QED BY <2>1, <2>2
<1> QED BY <1>5, <1>10, <1>11, <1>13 DEF BInv

---------------------------------------------------------------------------
(* Finishing                                                               *)

\* The copy of a buffer has its content.
LEMMA CopyOK ==
    ASSUME NEW b, BufferOK(b)
    PROVE  /\ Copy(b).cursor = b.cursor
           /\ \A i \in 1 .. b.cursor : Copy(b).block[i] = b.block[i]
<1> DEFINE words == Content(b)
           empty == NewBuffer(b.capacity)
<1>1. b.cursor \in Nat /\ b.capacity \in Nat /\ b.block \in [1 .. b.capacity \div 4 -> Words]
      /\ 4 * b.cursor <= b.capacity
    BY DEF BufferOK
<1>2. b.cursor <= b.capacity \div 4 /\ b.capacity \div 4 \in Nat
    BY <1>1, WordsInBytes
<1>3. b.block \in Seq(Words) /\ Len(b.block) = b.capacity \div 4
    BY <1>1, <1>2, SMTT(30)
<1>4. /\ words \in Seq(Words)
      /\ Len(words) = b.cursor
      /\ \A i \in 1 .. b.cursor : words[i] = b.block[i]
    BY <1>1, <1>2, <1>3 DEF Content
<1>5. BufferOK(empty) /\ empty.cursor = 0
    BY <1>1, NewBufferOK
<1> HIDE DEF words, empty
<1>6. LET e == Emitted(empty, words)
      IN  /\ e.cursor = empty.cursor + Len(words)
          /\ \A i \in 1 .. Len(words) : e.block[empty.cursor + i] = words[i]
    BY <1>4, <1>5, EmittedOK
<1>7. Copy(b) = Emitted(empty, words)
    BY DEF Copy, words, empty
<1>8. \A i \in 1 .. b.cursor : 0 + i = i
    BY <1>1
<1> QED BY <1>1, <1>4, <1>5, <1>6, <1>7, <1>8

\* The finished piece goes to the list and its words are spent.
LEMMA PatchedBuilt ==
    ASSUME BInv, NEW frame \in Frames \cup Sites, NEW offset \in Nat, NEW b,
           b.cursor = buffer.cursor, Patched(frame, offset, b)
    PROVE  built' \in Seq(Pieces) /\ Spent' <= MaxWords
<1> DEFINE piece == [frame |-> frame, offset |-> offset, length |-> b.cursor,
                     spent |-> Spent + b.cursor]
<1>1. built \in Seq(Pieces) /\ Spent \in Nat /\ b.cursor \in Nat
    BY SpentNat DEF BInv, Types, BufferOK
<1>2. piece \in Pieces /\ piece.spent = Spent + b.cursor
    BY <1>1 DEF Pieces
<1>3. built' = Append(built, piece)
    BY DEF Patched
<1> HIDE DEF piece
<1>4. /\ built' \in Seq(Pieces) /\ Len(built') = Len(built) + 1 /\ Len(built) \in Nat
      /\ built'[Len(built')] = piece /\ built' # <<>>
    BY <1>1, <1>2, <1>3
<1>5. Spent' = Spent + b.cursor
    BY <1>2, <1>4 DEF Spent
<1>6. data_labels.count \in Nat /\ binding \in 0 .. data_labels.count
    BY DEF BInv, Types, ArrayOK
<1> QED BY <1>1, <1>4, <1>5, <1>6, BuilderAssumption, SMTT(30) DEF BInv, Budget

LEMMA DestroyedBInv ==
    ASSUME BInv, Destroyed, built' \in Seq(Pieces), Spent' <= MaxWords
    PROVE  BInv'
<1>1. (Fresh /\ built \in Seq(Pieces) /\ Spent <= MaxWords /\ starved \in BOOLEAN)' => BInv'
    BY FreshBInv, PTL
<1>2. Fresh' /\ starved' \in BOOLEAN
    BY DEF Destroyed, NoLabels, Fresh, BInv, Types
<1> QED BY <1>1, <1>2

---------------------------------------------------------------------------
(* All steps                                                               *)

\* The chunk handed out last lies in one of the frames.
LEMMA LastChunk ==
    ASSUME TypeOK, TypeOK', Len(chunks') > Len(chunks)
    PROVE  LET c == chunks'[Len(chunks')]
           IN  page_chunks'[c.page].frame \in Frames /\ c.offset \in Nat
<1> DEFINE S == [page : 1 .. Len(page_chunks), offset : 0 .. PageSize,
                 length : 1 .. PageSize, permission : {"rx", "rw"}]
           T == [page : 1 .. Len(page_chunks'), offset : 0 .. PageSize,
                 length : 1 .. PageSize, permission : {"rx", "rw"}]
           c == chunks'[Len(chunks')]
<1>1. chunks \in Seq(S) /\ chunks' \in Seq(T) /\ page_chunks' \in Seq(Pages) /\ PageSize \in Nat
    BY ArenaAssumption DEF TypeOK, Pages
<1>2. Len(chunks') \in 1 .. Len(chunks')
    <2>1. Len(chunks) \in Nat /\ Len(chunks') \in Nat
        BY <1>1
    <2> QED BY <2>1
<1>3. c \in T
    BY <1>1, <1>2, ElementOfSeq
<1>4. c.page \in 1 .. Len(page_chunks') /\ c.offset \in Nat
    BY <1>1, <1>3
<1>5. page_chunks'[c.page] \in Pages
    BY <1>1, <1>4, ElementOfSeq
<1> QED BY <1>4, <1>5 DEF Pages

\* The builder asks the arena for nothing but chunks of the sizes it serves.
LEMMA ArenaStep ==
    ASSUME BInv, [BuilderNext]_bvars
    PROVE  [Next]_vars
<1>1. CASE ArenaKept
    BY <1>1 DEF ArenaKept, vars
<1>2. CASE UNCHANGED bvars
    BY <1>2 DEF bvars
<1>3. CASE FinalizeInArena
    <2>1. buffer.cursor \in Nat /\ buffer.cursor > 0 /\ Spent \in Nat /\ MaxWords \in Nat
        BY <1>3, SpentNat, BuilderAssumption DEF FinalizeInArena, IsComplete, BInv, Types, BufferOK
    <2>2. data_labels.count \in Nat /\ binding \in 0 .. data_labels.count
        BY DEF BInv, Types, ArrayOK
    <2>3. buffer.cursor + 1 \in 2 .. MaxWords + 1
        BY <2>1, <2>2 DEF BInv, Budget
    <2>4. buffer.cursor + 1 \in Sizes
        BY <2>3, BuilderAssumption
    <2> QED BY <1>3, <2>4 DEF FinalizeInArena, ChunkForCode, Next
<1>4. CASE OtherChunk
    BY <1>4, BuilderAssumption DEF OtherChunk, Next
<1> QED BY <1>1, <1>2, <1>3, <1>4
    DEF BuilderNext, TurboAssembler, Emit, Overrun, RelocBind, LdrLinked, LdrDropped, PseudoBind,
        AppendRelocLabelEntry, EntryDropped, FinalizeFromAddress, FinishCopy, KeptElsewhere

LEMMA BuilderInitInv == BuilderInit => IInv /\ BInv
<1> SUFFICES ASSUME BuilderInit PROVE IInv /\ BInv
    OBVIOUS
<1>1. IInv
    BY InitIInv DEF BuilderInit
<1>2. Fresh /\ starved \in BOOLEAN
    BY DEF BuilderInit, Fresh
<1>3. built \in Seq(Pieces) /\ Spent <= MaxWords
    BY BuilderAssumption DEF BuilderInit, Spent
<1> QED BY <1>1, <1>2, <1>3, FreshBInv

LEMMA BuilderNextInv == IInv /\ BInv /\ [BuilderNext]_bvars => IInv' /\ BInv'
<1> SUFFICES ASSUME IInv, BInv, [BuilderNext]_bvars PROVE IInv' /\ BInv'
    OBVIOUS
<1>0. IInv'
    BY ArenaStep, NextIInv
<1> SUFFICES BInv'
    BY <1>0
<1>1. ASSUME UNCHANGED <<buffer, pos, instructions, data_labels, binding, built>>,
             realized' \in Sites \cup {"NULL"}, stage' \in {"none", "code", "lost"},
             starved' = starved \/ starved' = TRUE
      PROVE  BInv'
    <2>1. Types'
        BY <1>1 DEF BInv, Types
    <2>2. Budget' /\ ListsLoads' /\ LoadsNameLabels'
        BY <1>1 DEF BInv, Budget, Spent, ListsLoads, LoadsNameLabels, IsLoad
    <2>3. AllReach'
        BY <1>1 DEF BInv, AllReach, Reaches, is_bound
    <2> QED BY <2>1, <2>2, <2>3 DEF BInv
<1>2. CASE UNCHANGED bvars
    BY <1>1, <1>2 DEF bvars, asm, BInv, Types
<1>3. ASSUME NEW address \in Sites \cup {"NULL"}, TurboAssembler(address) PROVE BInv'
    BY <1>1, <1>3 DEF TurboAssembler, KeptElsewhere
<1>4. CASE Emit
    BY <1>4, EmitBInv
<1>5. CASE Overrun
    BY <1>1, <1>5 DEF Overrun, KeptElsewhere, BInv, Types
<1>6. CASE RelocBind
    <2> DEFINE l == data_labels.array[binding + 1]
    <2>1. data_labels.count \in Nat /\ binding \in 0 .. data_labels.count /\ binding < data_labels.count
        BY <1>6 DEF RelocBind, BInv, Types, ArrayOK
    <2>2. l \in Labels
        <3>1. binding + 1 \in 1 .. data_labels.count
            BY <2>1
        <3> QED BY <3>1 DEF BInv, Types, ArrayOK
    <2>3. BindAndEmit(l) /\ binding' = binding + 1
          /\ UNCHANGED <<instructions, data_labels, realized, stage, starved, built>>
        BY <1>6 DEF RelocBind, KeptElsewhere
    <2> HIDE DEF l
    <2>4. buffer'.cursor = buffer.cursor + 2
        BY <2>2, <2>3, BindEffect
    <2>5. Budget'
        <3>1. Spent' = Spent /\ Spent \in Nat /\ buffer.cursor \in Nat
            BY <2>3, SpentNat DEF Spent, BInv, Types, BufferOK
        <3> QED BY <2>1, <2>3, <2>4, <3>1, BuilderAssumption DEF BInv, Budget
    <2>6. binding' \in 0 .. data_labels.count
        BY <2>1, <2>3
    <2> QED BY <2>2, <2>3, <2>5, <2>6, BindBInv
<1>7. ASSUME NEW l \in Labels, LdrLinked(l) \/ LdrDropped(l) PROVE BInv'
    BY <1>7, LdrBInv
<1>8. ASSUME NEW l \in Labels, PseudoBind(l) PROVE BInv'
    <2>1. /\ BindAndEmit(l) /\ binding' = binding /\ binding = 0 /\ Room(2)
          /\ UNCHANGED <<instructions, data_labels, realized, stage, starved, built>>
        BY <1>8 DEF PseudoBind, CanWrite, KeptElsewhere
    <2>2. buffer'.cursor = buffer.cursor + 2
        BY <2>1, BindEffect
    <2>3. data_labels.count \in Nat /\ binding' \in 0 .. data_labels.count
        BY <2>1 DEF BInv, Types, ArrayOK
    <2>4. Budget'
        <3>1. Spent' = Spent /\ Spent \in Nat /\ buffer.cursor \in Nat
            BY <2>1, SpentNat DEF Spent, BInv, Types, BufferOK
        <3> QED BY <2>1, <2>2, <2>3, <3>1, BuilderAssumption DEF Budget, Room
    <2> QED BY <2>1, <2>3, <2>4, BindBInv
<1>9. ASSUME NEW l \in Labels, AppendRelocLabelEntry(l) PROVE BInv'
    <2>1. /\ data_labels' = pushObject(data_labels, l) /\ binding = 0 /\ Room(2)
          /\ UNCHANGED <<buffer, pos, instructions, binding, realized, stage, starved, built>>
        BY <1>9 DEF AppendRelocLabelEntry, CanWrite, KeptElsewhere
    <2>2. ArrayOK(data_labels, Labels) /\ data_labels.count \in Nat
        BY DEF BInv, Types, ArrayOK
    <2>3. ArrayOK(data_labels', Labels) /\ data_labels'.count = data_labels.count + 1
        BY <2>1, <2>2, PushOK
    <2>4. Types'
        BY <2>1, <2>2, <2>3 DEF BInv, Types
    <2>5. Budget'
        <3>1. Spent' = Spent /\ Spent \in Nat /\ buffer.cursor \in Nat
            BY <2>1, SpentNat DEF Spent, BInv, Types, BufferOK
        <3> QED BY <2>1, <2>2, <2>3, <3>1, BuilderAssumption DEF Budget, Room
    <2>6. ListsLoads' /\ LoadsNameLabels' /\ AllReach'
        BY <2>1 DEF BInv, ListsLoads, LoadsNameLabels, IsLoad, AllReach, Reaches, is_bound
    <2> QED BY <2>4, <2>5, <2>6 DEF BInv
<1>10. ASSUME NEW l \in Labels, EntryDropped(l) PROVE BInv'
    BY <1>1, <1>10 DEF EntryDropped, KeptElsewhere, BInv, Types
<1>11. CASE FinalizeInArena
    <2>1. Destroyed /\ BufferOK(buffer)
        BY <1>11 DEF FinalizeInArena, BInv, Types
    <2>2. CASE UNCHANGED built
        <3>1. built \in Seq(Pieces) /\ Spent' = Spent /\ Spent \in Nat
            BY <2>2, SpentNat DEF Spent, BInv, Types
        <3>2. /\ data_labels.count \in Nat /\ binding \in 0 .. data_labels.count
              /\ buffer.cursor \in Nat
            BY DEF BInv, Types, ArrayOK, BufferOK
        <3>3. Spent' <= MaxWords
            BY <3>1, <3>2, BuilderAssumption DEF BInv, Budget
        <3> QED BY <2>1, <2>2, <3>1, <3>3, DestroyedBInv
    <2>3. CASE Len(chunks') > Len(chunks)
        <3> DEFINE c == chunks'[Len(chunks')]
        <3>1. Patched(page_chunks'[c.page].frame, c.offset, buffer)
            BY <1>11, <2>3 DEF FinalizeInArena
        <3>2. page_chunks'[c.page].frame \in Frames /\ c.offset \in Nat
            BY <1>0, <2>3, LastChunk DEF IInv
        <3> QED BY <2>1, <3>1, <3>2, PatchedBuilt, DestroyedBInv
    <2> QED BY <1>11, <2>2, <2>3 DEF FinalizeInArena
<1>12. CASE FinalizeFromAddress
    <2>1. Destroyed /\ realized \in Sites /\ Patched(realized, 0, buffer)
        BY <1>12 DEF FinalizeFromAddress, BInv, Types
    <2> QED BY <2>1, PatchedBuilt, DestroyedBInv
<1>13. CASE FinishCopy
    <2>1. /\ Destroyed /\ realized \in Sites /\ Patched(realized, 0, Copy(buffer))
          /\ BufferOK(buffer)
        BY <1>13 DEF FinishCopy, BInv, Types
    <2>2. Copy(buffer).cursor = buffer.cursor
        BY <2>1, CopyOK
    <2> QED BY <2>1, <2>2, PatchedBuilt, DestroyedBInv
<1>14. CASE OtherChunk
    BY <1>1, <1>14 DEF OtherChunk, asm, BInv, Types
<1> QED BY <1>0, <1>2, <1>3, <1>4, <1>5, <1>6, <1>7, <1>8, <1>9, <1>10, <1>11, <1>12, <1>13, <1>14
    DEF BuilderNext

---------------------------------------------------------------------------
(* Theorems                                                                *)

\* The builder, with every other user of the arena, is a client MemoryArena is
\* specified for: FinalizeFromTurboAssembler asks for no chunk larger than a
\* page, and nothing but AllocateChunk touches the lists of pages and chunks.
THEOREM BuilderUsesArena == BuilderSpec => Spec
<1>1. BuilderInit => Init
    BY DEF BuilderInit
<1>2. BInv /\ [BuilderNext]_bvars => [Next]_vars
    BY ArenaStep
<1> QED BY <1>1, <1>2, BuilderInitInv, BuilderNextInv, PTL DEF BuilderSpec, Spec

\* Chunks stay apart while code is built into them.
THEOREM BuiltChunksDisjoint == BuilderSpec => []ChunksDisjoint
BY BuilderUsesArena, ArenaDisjoint, PTL

\* The code of a chunk lies in the one page CodePatch makes writable.
THEOREM BuiltChunksInOnePage == BuilderSpec => []ChunksInOnePage
BY BuilderUsesArena, ArenaInOnePage, PTL

\* The cursor of the buffer stays in its block and the counts of the lists in
\* their arrays, however often they grow.
THEOREM BuilderTypeCorrect == BuilderSpec => []BuilderTypeOK
<1>1. BInv => BuilderTypeOK
    BY DEF BInv, Types, BufferOK, ArrayOK, BuilderTypeOK, getSize
<1> QED BY <1>1, BuilderInitInv, BuilderNextInv, PTL DEF BuilderSpec

\* As long as malloc succeeds, every load an assembler has written reaches the
\* data of its label once link_confused_instructions has run for it, and is on
\* the label's list until then.
THEOREM BuiltLoadsReachData == BuilderSpec => []LoadsReachData
<1>1. BInv => LoadsReachData
    BY DEF BInv, AllReach, Reaches, LoadsReachData
<1> QED BY <1>1, BuilderInitInv, BuilderNextInv, PTL DEF BuilderSpec

---------------------------------------------------------------------------
(* CodeBuilder implements AssemblyText: what buffers, lists, labels, the   *)
(* arena and the patches do together is to store the text a client asks    *)
(* for, linked, in memory nobody writes again.                             *)


W(i) == buffer.block[i]
FirstData(i) == W(i).op = "data" /\ W(i).k = 1

\* The data of a label is in the text at most once.
DataOnce ==
    \A i, j \in 1 .. buffer.cursor :
        FirstData(i) /\ FirstData(j) /\ W(i).label = W(j).label => i = j

DataBound ==
    \A i \in 1 .. buffer.cursor : W(i).op = "data" => W(i).label \in Labels /\ is_bound(W(i).label)

\* The labels RelocBind has still to bind are not bound and in the list once.
Pending ==
    \A n \in binding + 1 .. data_labels.count :
        /\ ~is_bound(data_labels.array[n])
        /\ \A m \in 1 .. data_labels.count :
             data_labels.array[m] = data_labels.array[n] => m = n

TInv == DataOnce /\ DataBound /\ Pending

LEMMA WordsOfText ==
    ASSUME BInv, NEW i \in 1 .. buffer.cursor
    PROVE  W(i) \in Words
<1>1. /\ buffer.cursor \in Nat /\ buffer.capacity \in Nat /\ 4 * buffer.cursor <= buffer.capacity
      /\ buffer.block \in [1 .. buffer.capacity \div 4 -> Words]
    BY DEF BInv, Types, BufferOK
<1>2. buffer.cursor <= buffer.capacity \div 4 /\ buffer.capacity \div 4 \in Nat
    BY <1>1, WordsInBytes
<1>3. i \in 1 .. buffer.capacity \div 4
    BY <1>1, <1>2
<1> QED BY <1>1, <1>3 DEF W

\* A word that is no data is added.
LEMMA AddedWordTInv ==
    ASSUME BInv, TInv, NEW w \in Words, w.op # "data",
           buffer' = Emitted(buffer, <<w>>),
           UNCHANGED <<pos, data_labels, binding>>
    PROVE  TInv'
<1> DEFINE c == buffer.cursor
<1>1. c \in Nat /\ BufferOK(buffer)
    BY DEF BInv, Types, BufferOK
<1>2. /\ buffer'.cursor = c + 1
      /\ \A i \in 1 .. c : buffer'.block[i] = buffer.block[i]
      /\ buffer'.block[c + 1] = w
    BY <1>1, EmittedOne
<1>3. \A i \in 1 .. buffer'.cursor : i \in 1 .. c \/ i = c + 1
    BY <1>1, <1>2
<1>4. DataOnce'
    BY <1>2, <1>3 DEF TInv, DataOnce, FirstData, W
<1>5. DataBound'
    BY <1>2, <1>3 DEF TInv, DataBound, W, is_bound
<1>6. Pending'
    BY DEF TInv, Pending, is_bound
<1> QED BY <1>4, <1>5, <1>6 DEF TInv

\* A label that was not bound gets its data.
LEMMA BindTInv ==
    ASSUME BInv, TInv, NEW l \in Labels, ~is_bound(l), BindAndEmit(l), UNCHANGED data_labels,
           \A n \in binding' + 1 .. data_labels.count :
                n \in binding + 1 .. data_labels.count /\ data_labels.array[n] # l
    PROVE  TInv'
<1> DEFINE c == buffer.cursor
           listed(i) == 4 * (i - 1) \in Objects(instructions[l])
<1>1. c \in Nat /\ ArrayOK(data_labels, Labels) /\ binding \in Nat
    BY DEF BInv, Types, BufferOK, ArrayOK
<1>2. /\ pos' \in [Labels -> Int] /\ pos'[l] < 0
      /\ \A k \in Labels : k # l => pos'[k] = pos[k]
      /\ buffer'.cursor = c + 2
      /\ buffer'.block[c + 1] = Data(l)[1]
      /\ buffer'.block[c + 2] = Data(l)[2]
      /\ \A i \in 1 .. c :
            buffer'.block[i] = IF listed(i)
                               THEN [buffer.block[i] EXCEPT !.k = (4 * c - 4 * (i - 1)) \div 4]
                               ELSE buffer.block[i]
    BY BindEffect
<1>3. /\ Data(l)[1].op = "data" /\ Data(l)[1].label = l /\ Data(l)[1].k = 1
      /\ Data(l)[2].op = "data" /\ Data(l)[2].label = l /\ Data(l)[2].k = 2
    BY DEF Data, Word
<1>4. \A i \in 1 .. buffer'.cursor : i \in 1 .. c \/ i = c + 1 \/ i = c + 2
    BY <1>1, <1>2
<1>5. ASSUME NEW i \in 1 .. c, buffer'.block[i].op = "data"
      PROVE  buffer'.block[i] = buffer.block[i]
    <2>1. CASE listed(i)
        <3>1. W(i).op = "ldr" /\ W(i) \in Words
            BY <2>1, ListedIsLoad, WordsOfText DEF W
        <3>2. buffer'.block[i] = [W(i) EXCEPT !.k = (4 * c - 4 * (i - 1)) \div 4]
            BY <1>2, <2>1 DEF W
        <3>3. buffer'.block[i].op = "ldr"
            BY <3>1, <3>2 DEF Words
        <3> QED BY <1>5, <3>3
    <2>2. CASE ~listed(i)
        BY <1>2, <2>2
    <2> QED BY <2>1, <2>2
<1>6. DataBound'
    <2> SUFFICES ASSUME NEW i \in 1 .. buffer'.cursor, buffer'.block[i].op = "data"
                 PROVE  buffer'.block[i].label \in Labels /\ pos'[buffer'.block[i].label] < 0
        BY DEF DataBound, W, is_bound
    <2>1. CASE i \in 1 .. c
        <3>1. buffer'.block[i] = W(i) /\ W(i).op = "data"
            BY <1>5, <2>1 DEF W
        <3>2. W(i).label \in Labels /\ pos[W(i).label] < 0
            BY <2>1, <3>1 DEF TInv, DataBound, is_bound
        <3> QED BY <1>2, <3>1, <3>2 DEF is_bound
    <2>2. CASE i = c + 1 \/ i = c + 2
        BY <1>2, <1>3, <2>2
    <2> QED BY <1>4, <2>1, <2>2
<1>7. DataOnce'
    <2> DEFINE First(i) == buffer'.block[i].op = "data" /\ buffer'.block[i].k = 1
    <2>1. ASSUME NEW i \in 1 .. c, First(i)
          PROVE  buffer'.block[i] = W(i) /\ FirstData(i) /\ W(i).label # l
        <3>1. buffer'.block[i] = W(i)
            BY <1>5, <2>1 DEF W
        <3>2. FirstData(i)
            BY <2>1, <3>1 DEF FirstData
        <3>3. is_bound(W(i).label)
            BY <3>2 DEF TInv, DataBound, FirstData
        <3> QED BY <3>1, <3>2, <3>3
    <2>2. \A i \in 1 .. buffer'.cursor : First(i) => i \in 1 .. c \/ i = c + 1
        BY <1>2, <1>3, <1>4
    <2> SUFFICES ASSUME NEW i \in 1 .. buffer'.cursor, NEW j \in 1 .. buffer'.cursor, First(i), First(j),
                        buffer'.block[i].label = buffer'.block[j].label
                 PROVE  i = j
        BY DEF DataOnce, FirstData, W
    <2>3. CASE i \in 1 .. c /\ j \in 1 .. c
        BY <2>1, <2>3 DEF TInv, DataOnce
    <2>4. CASE ~(i \in 1 .. c /\ j \in 1 .. c)
        BY <1>2, <1>3, <2>1, <2>2, <2>4
    <2> QED BY <2>3, <2>4
<1>8. Pending'
    <2> SUFFICES ASSUME NEW n \in binding' + 1 .. data_labels.count
                 PROVE  /\ ~(pos'[data_labels.array[n]] < 0)
                        /\ \A m \in 1 .. data_labels.count :
                             data_labels.array[m] = data_labels.array[n] => m = n
        BY DEF Pending, is_bound
    <2>1. n \in binding + 1 .. data_labels.count /\ data_labels.array[n] # l
        OBVIOUS
    <2>2. n \in 1 .. data_labels.count
        BY <1>1, <2>1
    <2>3. data_labels.array[n] \in Labels
        BY <1>1, <2>2 DEF ArrayOK
    <2>4. pos'[data_labels.array[n]] = pos[data_labels.array[n]]
        BY <1>2, <2>1, <2>3
    <2> QED BY <2>1, <2>4 DEF TInv, Pending, is_bound
<1> QED BY <1>6, <1>7, <1>8 DEF TInv

LEMMA FreshTInv == Fresh => TInv
<1> SUFFICES ASSUME Fresh PROVE TInv
    OBVIOUS
<1>0. BufferBytes \in Nat /\ ArrayCapacity \in Nat
    BY BuilderAssumption
<1>1. buffer.cursor = 0
    BY <1>0, NewBufferOK DEF Fresh
<1>2. data_labels.count = 0 /\ binding = 0
    BY <1>0, NewArrayOK DEF Fresh
<1> QED BY <1>1, <1>2 DEF TInv, DataOnce, DataBound, Pending

LEMMA NextTInv == BInv /\ TInv /\ [BuilderNext]_bvars => TInv'
<1> SUFFICES ASSUME BInv, TInv, [BuilderNext]_bvars PROVE TInv'
    OBVIOUS
<1>1. CASE UNCHANGED <<buffer, pos, data_labels, binding>>
    BY <1>1 DEF TInv, DataOnce, DataBound, Pending, FirstData, W, is_bound
<1>2. CASE Destroyed
    <2>1. Fresh' => TInv'
        BY FreshTInv, PTL
    <2>2. Fresh'
        BY <1>2 DEF Destroyed, NoLabels, Fresh
    <2> QED BY <2>1, <2>2
<1>3. CASE Emit
    <2> DEFINE w == Word("inst", "none", 0)
    <2>1. w \in Words /\ w.op # "data" /\ buffer' = Emitted(buffer, <<w>>)
          /\ UNCHANGED <<pos, data_labels, binding>>
        BY <1>3 DEF Emit, Inst, Word, Words
    <2> HIDE DEF w
    <2> QED BY <2>1, AddedWordTInv
<1>4. ASSUME NEW l \in Labels, LdrLinked(l) \/ LdrDropped(l) PROVE TInv'
    <2> DEFINE w == Word("ldr", l, 0)
    <2>1. w \in Words /\ w.op # "data" /\ buffer' = Emitted(buffer, <<w>>)
          /\ UNCHANGED <<pos, data_labels, binding>>
        BY <1>4 DEF LdrLinked, LdrDropped, Word, Words
    <2> HIDE DEF w
    <2> QED BY <2>1, AddedWordTInv
<1>5. data_labels.count \in Nat /\ binding \in 0 .. data_labels.count /\ ArrayOK(data_labels, Labels)
    BY DEF BInv, Types, ArrayOK
<1>6. ASSUME NEW l \in Labels, PseudoBind(l) PROVE TInv'
    <2>1. ~is_bound(l) /\ BindAndEmit(l) /\ UNCHANGED <<data_labels, binding>> /\ l \notin Objects(data_labels)
        BY <1>6 DEF PseudoBind
    <2>2. \A n \in 1 .. data_labels.count : data_labels.array[n] # l
        BY <2>1 DEF Objects
    <2>3. \A n \in binding + 1 .. data_labels.count : n \in 1 .. data_labels.count
        BY <1>5
    <2> QED BY <2>1, <2>2, <2>3, BindTInv
<1>7. CASE RelocBind
    <2> DEFINE l == data_labels.array[binding + 1]
    <2>1. BindAndEmit(l) /\ UNCHANGED data_labels /\ binding' = binding + 1 /\ binding < data_labels.count
        BY <1>7 DEF RelocBind
    <2>2. binding + 1 \in 1 .. data_labels.count /\ binding + 1 \in binding + 1 .. data_labels.count
        BY <1>5, <2>1
    <2>3. l \in Labels /\ ~is_bound(l)
        BY <1>5, <2>2 DEF ArrayOK, TInv, Pending
    <2>4. ASSUME NEW n \in binding' + 1 .. data_labels.count
          PROVE  n \in binding + 1 .. data_labels.count /\ data_labels.array[n] # l
        <3>1. n \in binding + 1 .. data_labels.count /\ n # binding + 1
            BY <1>5, <2>1
        <3> QED BY <2>2, <3>1 DEF TInv, Pending
    <2> HIDE DEF l
    <2> QED BY <2>1, <2>3, <2>4, BindTInv
<1>8. ASSUME NEW l \in Labels, AppendRelocLabelEntry(l) PROVE TInv'
    <2>1. /\ data_labels' = pushObject(data_labels, l) /\ binding = 0 /\ ~is_bound(l)
          /\ l \notin Objects(data_labels) /\ UNCHANGED <<buffer, pos, binding>>
        BY <1>8 DEF AppendRelocLabelEntry, CanWrite
    <2>2. /\ data_labels'.count = data_labels.count + 1
          /\ data_labels'.array[data_labels.count + 1] = l
          /\ \A n \in 1 .. data_labels.count : data_labels'.array[n] = data_labels.array[n]
        BY <1>5, <2>1, PushOK
    <2>3. \A n \in 1 .. data_labels.count : data_labels.array[n] # l
        BY <2>1 DEF Objects
    <2>4. \A n \in 1 .. data_labels'.count : n \in 1 .. data_labels.count \/ n = data_labels.count + 1
        BY <1>5, <2>2
    <2>5. \A n \in 1 .. data_labels.count : n \in binding + 1 .. data_labels.count
        BY <1>5, <2>1
    <2>6. \A n \in binding' + 1 .. data_labels'.count : n \in 1 .. data_labels'.count
        BY <1>5, <2>1
    <2>7. Pending'
        BY <2>1, <2>2, <2>3, <2>4, <2>5, <2>6 DEF TInv, Pending, is_bound
    <2>8. DataOnce' /\ DataBound'
        BY <2>1 DEF TInv, DataOnce, DataBound, FirstData, W, is_bound
    <2> QED BY <2>7, <2>8 DEF TInv
<1> QED BY <1>1, <1>2, <1>3, <1>4, <1>6, <1>7, <1>8
    DEF BuilderNext, TurboAssembler, Overrun, EntryDropped, FinalizeInArena, FinalizeFromAddress,
        FinishCopy, OtherChunk, bvars, asm

---------------------------------------------------------------------------
(* The memory                                                              *)

Cells == (Frames \cup Sites) \X (0 .. PageSize - 1)

AtSite(p) == p.frame \in Sites /\ p.offset = 0 /\ p.length <= PageSize

InChunk(p, k) ==
    /\ p.frame = Frame(chunks[k])
    /\ p.offset = chunks[k].offset
    /\ p.length <= chunks[k].length

\* A finished piece is at the address it was made for or in a chunk.
InPlace(p) == AtSite(p) \/ \E k \in DOMAIN chunks : InChunk(p, k)

PiecesInPlace == \A n \in DOMAIN built : InPlace(built[n])

\* The address an assembler is made for holds no finished piece.
SiteFree == realized # "NULL" => \A n \in DOMAIN built : built[n].frame # realized

SInv == DOMAIN memory = Cells /\ PiecesInPlace /\ SiteFree

Store == [n \in DOMAIN built |-> Image(built[n])]

\* What is in a chunk stays there, and a chunk that is handed out has the size
\* that was asked for.
LEMMA ChunksKept ==
    ASSUME IInv, [Next]_vars
    PROVE  /\ Len(chunks) \in Nat /\ DOMAIN chunks = 1 .. Len(chunks)
           /\ Len(chunks') \in Nat /\ DOMAIN chunks' = 1 .. Len(chunks')
           /\ Len(chunks) <= Len(chunks')
           /\ \A k \in DOMAIN chunks :
                /\ k \in DOMAIN chunks'
                /\ chunks'[k] = chunks[k]
                /\ page_chunks'[chunks[k].page].frame = Frame(chunks[k])
<1> DEFINE CSet == [page : 1 .. Len(page_chunks), offset : 0 .. PageSize,
                    length : 1 .. PageSize, permission : {"rx", "rw"}]
<1>1. page_chunks \in Seq(Pages) /\ chunks \in Seq(CSet)
    BY DEF IInv, TypeOK, Pages
<1>2. Len(chunks) \in Nat /\ DOMAIN chunks = 1 .. Len(chunks)
    BY <1>1
<1>3. \A k \in DOMAIN chunks : chunks[k].page \in DOMAIN page_chunks
    BY PageOfChunk DEF IInv
<1>4. CASE UNCHANGED <<page_chunks, chunks>>
    BY <1>2, <1>4 DEF Frame
<1>5. ASSUME NEW c, chunks' = Append(chunks, c),
             \A i \in DOMAIN page_chunks : page_chunks'[i].frame = page_chunks[i].frame
      PROVE  /\ Len(chunks') = Len(chunks) + 1 /\ DOMAIN chunks' = 1 .. Len(chunks')
             /\ \A k \in DOMAIN chunks :
                  /\ k \in DOMAIN chunks'
                  /\ chunks'[k] = chunks[k]
                  /\ page_chunks'[chunks[k].page].frame = Frame(chunks[k])
    <2>1. Len(chunks') = Len(chunks) + 1 /\ DOMAIN chunks' = 1 .. Len(chunks) + 1
          /\ \A k \in 1 .. Len(chunks) : chunks'[k] = chunks[k]
        BY <1>1, <1>5, AppendProperties
    <2>2. \A k \in 1 .. Len(chunks) : k \in 1 .. Len(chunks) + 1
        BY <1>2
    <2> QED BY <1>2, <1>3, <1>5, <2>1, <2>2 DEF Frame
<1>6. ASSUME NEW s \in Sizes, NEW p \in {"rx", "rw"}, TakeFromPage(s, p)
      PROVE  \E c : chunks' = Append(chunks, c)
                    /\ \A i \in DOMAIN page_chunks : page_chunks'[i].frame = page_chunks[i].frame
    <2>1. PICK i \in DOMAIN page_chunks :
             /\ chunks' = Append(chunks, Chunk(i, page_chunks[i].cursor, s, p))
             /\ page_chunks' = [page_chunks EXCEPT ![i].cursor = @ + s]
        BY <1>6 DEF TakeFromPage
    <2>2. \A j \in DOMAIN page_chunks : page_chunks[j] \in Pages
        BY <1>1
    <2>3. \A j \in DOMAIN page_chunks : page_chunks'[j].frame = page_chunks[j].frame
        BY <1>1, <2>1, <2>2 DEF Pages
    <2> QED BY <2>1, <2>3
<1>7. ASSUME NEW s \in Sizes, NEW p \in {"rx", "rw"}, TakeFromNewPage(s, p)
      PROVE  \E c : chunks' = Append(chunks, c)
                    /\ \A i \in DOMAIN page_chunks : page_chunks'[i].frame = page_chunks[i].frame
    <2>1. PICK q : page_chunks' = Append(page_chunks, q)
        BY <1>7 DEF TakeFromNewPage
    <2>2. \A i \in DOMAIN page_chunks : page_chunks'[i] = page_chunks[i]
        BY <1>1, <2>1, AppendProperties
    <2> QED BY <1>7, <2>2 DEF TakeFromNewPage
<1>8. CASE Next
    <2>1. PICK s \in Sizes, p \in {"rx", "rw"} : AllocateChunk(s, p)
        BY <1>8 DEF Next, AllocateCodeChunk, AllocateDataChunk
    <2>2. CASE ReturnNull(s, p)
        BY <1>4, <2>2, <1>2 DEF ReturnNull
    <2>3. CASE TakeFromPage(s, p) \/ TakeFromNewPage(s, p)
        BY <1>2, <1>5, <1>6, <1>7, <2>3
    <2> QED BY <2>1, <2>2, <2>3 DEF AllocateChunk
<1> QED BY <1>4, <1>8 DEF vars

LEMMA SizeOfNewChunk ==
    ASSUME IInv, NEW s \in Sizes, AllocateCodeChunk(s), Len(chunks') > Len(chunks)
    PROVE  /\ Len(chunks') = Len(chunks) + 1
           /\ chunks'[Len(chunks')].length = s
<1> DEFINE CSet == [page : 1 .. Len(page_chunks), offset : 0 .. PageSize,
                    length : 1 .. PageSize, permission : {"rx", "rw"}]
<1>1. chunks \in Seq(CSet)
    BY DEF IInv, TypeOK
<1>2. ~ReturnNull(s, "rx")
    <2>1. Len(chunks) \in Nat
        BY <1>1
    <2> QED BY <2>1 DEF ReturnNull
<1>3. PICK i, o : chunks' = Append(chunks, Chunk(i, o, s, "rx"))
    BY <1>2 DEF AllocateCodeChunk, AllocateChunk, TakeFromPage, TakeFromNewPage
<1>4. Chunk(i, o, s, "rx").length = s
    BY DEF Chunk
<1>5. Len(chunks') = Len(chunks) + 1 /\ chunks'[Len(chunks) + 1] = Chunk(i, o, s, "rx")
    BY <1>1, <1>3, AppendProperties
<1> QED BY <1>4, <1>5

\* The words a finished piece has in memory are cells.
LEMMA PieceCells ==
    ASSUME IInv, BInv, SInv, NEW n \in DOMAIN built
    PROVE  /\ built[n] \in Pieces
           /\ \A i \in 1 .. built[n].length :
                <<built[n].frame, built[n].offset + i - 1>> \in Cells
<1> DEFINE p == built[n]
<1>1. p \in Pieces
    BY DEF BInv, Types
<1> HIDE DEF p
<1>2. p.frame \in Frames \cup Sites /\ p.offset \in Nat /\ p.length \in Nat
    BY <1>1 DEF Pieces
<1>3. p.offset + p.length <= PageSize
    <2>1. CASE AtSite(p)
        BY <1>2, <2>1, ArenaAssumption DEF AtSite
    <2>2. CASE \E k \in DOMAIN chunks : InChunk(p, k)
        <3>1. PICK k \in DOMAIN chunks : InChunk(p, k)
            BY <2>2
        <3>2. chunks[k].offset + chunks[k].length <= PageSize
            BY IInvInOnePage DEF ChunksInOnePage
        <3>3. chunks[k].offset \in Nat /\ chunks[k].length \in Nat
            BY PageOfChunk DEF IInv
        <3> QED BY <1>2, <3>1, <3>2, <3>3, ArenaAssumption DEF InChunk
    <2> QED BY <2>1, <2>2 DEF SInv, PiecesInPlace, InPlace, p
<1>4. \A i \in 1 .. p.length : p.offset + i - 1 \in 0 .. PageSize - 1
    BY <1>2, <1>3, ArenaAssumption
<1> QED BY <1>1, <1>2, <1>4 DEF Cells, p

LEMMA ContentOK ==
    ASSUME NEW b, BufferOK(b)
    PROVE  /\ Content(b) \in Seq(Words)
           /\ Len(Content(b)) = b.cursor
           /\ DOMAIN Content(b) = 1 .. b.cursor
           /\ \A i \in 1 .. b.cursor : Content(b)[i] = b.block[i]
<1>1. b.cursor \in Nat /\ b.capacity \in Nat /\ b.block \in [1 .. b.capacity \div 4 -> Words]
      /\ 4 * b.cursor <= b.capacity
    BY DEF BufferOK
<1>2. b.cursor <= b.capacity \div 4 /\ b.capacity \div 4 \in Nat
    BY <1>1, WordsInBytes
<1>3. b.block \in Seq(Words) /\ Len(b.block) = b.capacity \div 4
    BY <1>1, <1>2, SMTT(30)
<1> QED BY <1>1, <1>2, <1>3 DEF Content

\* A patch that hits no finished piece adds its words to the store.
LEMMA PatchedStore ==
    ASSUME IInv, BInv, SInv, NEW f \in Frames \cup Sites, NEW o \in Nat, NEW b,
           b.cursor = buffer.cursor,
           \A i \in 1 .. buffer.cursor : b.block[i] = buffer.block[i],
           Patched(f, o, b),
           o + b.cursor <= PageSize,
           \A n \in DOMAIN built : \/ built[n].frame # f
                                   \/ built[n].offset + built[n].length <= o
                                   \/ o + b.cursor <= built[n].offset
    PROVE  Store' = Append(Store, Content(buffer))
<1> DEFINE c == b.cursor
           piece == [frame |-> f, offset |-> o, length |-> c, spent |-> Spent + c]
           N == Len(built)
<1>1. c \in Nat /\ built \in Seq(Pieces) /\ BufferOK(buffer) /\ PageSize \in Nat
    BY ArenaAssumption DEF BInv, Types, BufferOK
<1>2. N \in Nat /\ DOMAIN built = 1 .. N
    BY <1>1
<1>3. piece.frame = f /\ piece.offset = o /\ piece.length = c
    OBVIOUS
<1>4. built' = Append(built, piece)
    BY DEF Patched
<1> HIDE DEF piece
<1>5. DOMAIN built' = 1 .. N + 1 /\ built'[N + 1] = piece /\ \A n \in 1 .. N : built'[n] = built[n]
    BY <1>1, <1>4, AppendProperties
<1>6. \A a \in Cells : memory'[a] = IF a[1] = f /\ a[2] \in o .. o + c - 1
                                   THEN b.block[a[2] - o + 1] ELSE memory[a]
    BY DEF Patched, SInv
<1>7. ASSUME NEW n \in 1 .. N
      PROVE  Store'[n] = Store[n]
    <2> DEFINE p == built[n]
    <2>1. /\ p \in Pieces
          /\ \A i \in 1 .. p.length : <<p.frame, p.offset + i - 1>> \in Cells
        BY <1>2, PieceCells
    <2>2. \/ p.frame # f
          \/ p.offset + p.length <= o
          \/ o + c <= p.offset
        BY <1>2
    <2>3. n \in 1 .. N + 1
        BY <1>2
    <2>4. Store'[n] = [i \in 1 .. p.length |-> memory'[<<p.frame, p.offset + i - 1>>]]
        BY <1>5, <2>3 DEF Store, Image
    <2>5. Store[n] = [i \in 1 .. p.length |-> memory[<<p.frame, p.offset + i - 1>>]]
        BY <1>2 DEF Store, Image
    <2> HIDE DEF p
    <2>6. p.offset \in Nat /\ p.length \in Nat
        BY <2>1 DEF Pieces
    <2>7. ASSUME NEW i \in 1 .. p.length
          PROVE  memory'[<<p.frame, p.offset + i - 1>>] = memory[<<p.frame, p.offset + i - 1>>]
        <3> DEFINE a == <<p.frame, p.offset + i - 1>>
        <3>1. a \in Cells /\ a[1] = p.frame /\ a[2] = p.offset + i - 1
            BY <2>1
        <3> HIDE DEF a, c
        <3>2. p.frame # f \/ ~(p.offset + i - 1 \in o .. o + c - 1)
            BY <1>1, <2>2, <2>6
        <3>3. ~(a[1] = f /\ a[2] \in o .. o + c - 1)
            BY <3>1, <3>2
        <3>4. memory'[a] = memory[a]
            BY <1>6, <3>1, <3>3
        <3> QED BY <3>4 DEF a
    <2> QED BY <2>4, <2>5, <2>7
<1>8. Store'[N + 1] = Content(buffer)
    <2>1. N + 1 \in 1 .. N + 1
        BY <1>2
    <2>2. Store'[N + 1] = [i \in 1 .. c |-> memory'[<<f, o + i - 1>>]]
        BY <1>3, <1>5, <2>1 DEF Store, Image
    <2>3. ASSUME NEW i \in 1 .. c
          PROVE  memory'[<<f, o + i - 1>>] = buffer.block[i]
        <3> DEFINE a == <<f, o + i - 1>>
        <3>1. a \in Cells
            BY <1>1 DEF Cells
        <3>2. a[1] = f /\ a[2] \in o .. o + c - 1 /\ a[2] - o + 1 = i
            BY <1>1
        <3> HIDE DEF a
        <3>3. memory'[a] = b.block[i]
            BY <1>6, <3>1, <3>2
        <3> QED BY <3>3 DEF a
    <2>4. /\ DOMAIN Content(buffer) = 1 .. c /\ Content(buffer) \in Seq(Words)
          /\ \A i \in 1 .. c : Content(buffer)[i] = buffer.block[i]
        BY <1>1, ContentOK
    <2>5. Content(buffer) = [i \in 1 .. c |-> Content(buffer)[i]]
        BY <2>4
    <2> QED BY <2>2, <2>3, <2>4, <2>5, ZenonT(60)
<1>9. DOMAIN Store = 1 .. N /\ DOMAIN Store' = 1 .. N + 1 /\ Len(Store) = N
    BY <1>2, <1>5 DEF Store
<1>10. Store' = [n \in 1 .. N + 1 |-> Store'[n]]
    BY <1>5 DEF Store
<1>11. \A n \in 1 .. N + 1 : n = N + 1 \/ n \in 1 .. N
    BY <1>2
<1> DEFINE T == {Store[n] : n \in 1 .. N} \cup {Content(buffer)}
           A == Append(Store, Content(buffer))
<1>12. Store \in Seq(T)
    <2>1. Store = [n \in 1 .. N |-> Store[n]]
        BY <1>2 DEF Store
    <2> QED BY <1>2, <2>1
<1> HIDE DEF Store
<1>13. A \in Seq(T) /\ Len(A) = N + 1 /\ A[N + 1] = Content(buffer)
       /\ \A n \in 1 .. N : A[n] = Store[n]
    BY <1>9, <1>12, AppendProperties
<1> HIDE DEF A, T
<1>14. A = [n \in 1 .. N + 1 |-> A[n]]
    BY <1>13
<1> QED BY <1>7, <1>8, <1>10, <1>11, <1>13, <1>14 DEF A

\* InPlace in the next state, of a piece p of either state.
InPlaceNext(p) ==
    \/ AtSite(p)
    \/ \E k \in DOMAIN chunks' :
        /\ p.frame = page_chunks'[chunks'[k].page].frame
        /\ p.offset = chunks'[k].offset
        /\ p.length <= chunks'[k].length

LEMMA InPlaceKept ==
    ASSUME IInv, [Next]_vars, NEW p, InPlace(p)
    PROVE  InPlaceNext(p)
<1>1. CASE AtSite(p)
    BY <1>1 DEF InPlaceNext
<1>2. CASE \E k \in DOMAIN chunks : InChunk(p, k)
    <2>1. PICK k \in DOMAIN chunks : InChunk(p, k)
        BY <1>2
    <2>2. /\ k \in DOMAIN chunks' /\ chunks'[k] = chunks[k]
          /\ page_chunks'[chunks[k].page].frame = Frame(chunks[k])
        BY ChunksKept
    <2> QED BY <2>1, <2>2 DEF InPlaceNext, InChunk
<1> QED BY <1>1, <1>2 DEF InPlace

\* A patch of a place of its own, for code that is finished.
LEMMA PatchedSInv ==
    ASSUME IInv, BInv, SInv, [Next]_vars, Destroyed,
           NEW f, NEW o, NEW b, Patched(f, o, b),
           \A p : p.frame = f /\ p.offset = o /\ p.length = b.cursor => InPlaceNext(p)
    PROVE  SInv'
<1> DEFINE piece == [frame |-> f, offset |-> o, length |-> b.cursor, spent |-> Spent + b.cursor]
           N == Len(built)
<1>1. built \in Seq(Pieces) /\ N \in Nat /\ DOMAIN built = 1 .. N
    BY DEF BInv, Types
<1>2. built' = Append(built, piece)
    BY DEF Patched
<1>3. InPlaceNext(piece)
    OBVIOUS
<1> HIDE DEF piece
<1>4. DOMAIN built' = 1 .. N + 1 /\ built'[N + 1] = piece /\ \A n \in 1 .. N : built'[n] = built[n]
    BY <1>1, <1>2, AppendProperties
<1>5. \A n \in 1 .. N + 1 : n = N + 1 \/ n \in 1 .. N
    BY <1>1
<1>6. \A n \in 1 .. N : InPlaceNext(built[n])
    BY <1>1, InPlaceKept DEF SInv, PiecesInPlace
<1>7. \A n \in DOMAIN built' : InPlaceNext(built'[n])
    BY <1>3, <1>4, <1>5, <1>6
<1>8. PiecesInPlace'
    BY <1>7 DEF PiecesInPlace, InPlace, InPlaceNext, InChunk, AtSite, Frame
<1>9. (DOMAIN memory = Cells)'
    BY DEF Patched, SInv, Cells
<1>10. SiteFree'
    BY DEF Destroyed, SiteFree
<1> QED BY <1>8, <1>9, <1>10 DEF SInv

\* What the buffer holds is at most the whole budget.
LEMMA PartOfBudget ==
    ASSUME NEW b \in Nat, NEW d \in Nat, NEW g \in Nat, NEW t \in Nat, NEW w \in Nat,
           g <= d, t + b + 2 * (d - g) <= w
    PROVE  b <= w
<1>1. PICK e \in Nat : d - g = e
    <2>1. d - g \in Nat
        OBVIOUS
    <2> QED BY <2>1
<1>2. t + b + 2 * e <= w
    BY <1>1
<1> QED BY <1>2

\* A chunk one word longer than the code has one of the sizes of Sizes.
LEMMA RoomForTerminator ==
    ASSUME NEW b \in Nat, NEW w \in Nat, b > 0, b <= w
    PROVE  b + 1 \in 2 .. w + 1
OBVIOUS

\* The builder writes code into the chunk it was just given.
LEMMA ChunkPatch ==
    ASSUME IInv, BInv, SInv, [BuilderNext]_bvars, FinalizeInArena, Len(chunks') > Len(chunks)
    PROVE  SInv' /\ Store' = Append(Store, Content(buffer))
<1> DEFINE K == Len(chunks')
           c == chunks'[K]
           f == page_chunks'[c.page].frame
           o == c.offset
<1>1. IInv' /\ [Next]_vars
    BY ArenaStep, BuilderNextInv
<1>2. ChunksDisjoint' /\ ChunksInOnePage'
    <2>1. IInv' => ChunksDisjoint' /\ ChunksInOnePage'
        BY IInvDisjoint, IInvInOnePage, PTL
    <2> QED BY <1>1, <2>1
<1>3. buffer.cursor + 1 \in Sizes /\ buffer.cursor \in Nat /\ PageSize \in Nat
    <2>1. buffer.cursor \in Nat /\ buffer.cursor > 0 /\ Spent \in Nat /\ MaxWords \in Nat
        BY SpentNat, BuilderAssumption DEF FinalizeInArena, IsComplete, BInv, Types, BufferOK
    <2>2. data_labels.count \in Nat /\ binding \in 0 .. data_labels.count
        BY DEF BInv, Types, ArrayOK
    <2>3. Spent + buffer.cursor + 2 * (data_labels.count - binding) <= MaxWords
        BY DEF BInv, Budget
    <2>4. buffer.cursor + 1 \in 2 .. MaxWords + 1
        <3>1. binding \in Nat /\ binding <= data_labels.count
            BY <2>2
        <3>2. buffer.cursor <= MaxWords
            BY <2>1, <2>2, <2>3, <3>1, PartOfBudget
        <3> QED BY <2>1, <3>2, RoomForTerminator
    <2> QED BY <2>1, <2>4, BuilderAssumption, ArenaAssumption
<1>4. AllocateCodeChunk(buffer.cursor + 1) /\ Patched(f, o, buffer) /\ Destroyed
    BY DEF FinalizeInArena, ChunkForCode
<1>5. K = Len(chunks) + 1 /\ c.length = buffer.cursor + 1
    BY <1>3, <1>4, SizeOfNewChunk
<1>6. /\ Len(chunks) \in Nat /\ DOMAIN chunks = 1 .. Len(chunks) /\ DOMAIN chunks' = 1 .. K
      /\ \A k \in DOMAIN chunks :
            /\ k \in DOMAIN chunks'
            /\ chunks'[k] = chunks[k]
            /\ page_chunks'[chunks[k].page].frame = Frame(chunks[k])
    BY <1>1, ChunksKept
<1>7. K \in DOMAIN chunks'
    BY <1>5, <1>6
<1>8. f \in Frames /\ o \in Nat
    BY <1>1, LastChunk DEF IInv
<1>9. o + c.length <= PageSize
    BY <1>2, <1>7 DEF ChunksInOnePage
<1>10. \A k \in DOMAIN chunks : \/ Frame(chunks[k]) # f
                                \/ chunks[k].offset + chunks[k].length <= o
                                \/ o + c.length <= chunks[k].offset
    <2> SUFFICES ASSUME NEW k \in DOMAIN chunks
                 PROVE  \/ Frame(chunks[k]) # f
                        \/ chunks[k].offset + chunks[k].length <= o
                        \/ o + c.length <= chunks[k].offset
        OBVIOUS
    <2>1. k # K
        BY <1>5, <1>6
    <2> QED BY <1>2, <1>6, <1>7, <2>1 DEF ChunksDisjoint, Frame
<1> HIDE DEF f, o, c, K
<1>11. o + buffer.cursor <= PageSize
    BY <1>3, <1>5, <1>8, <1>9
<1>12. ASSUME NEW n \in DOMAIN built
       PROVE  \/ built[n].frame # f
              \/ built[n].offset + built[n].length <= o
              \/ o + buffer.cursor <= built[n].offset
    <2>1. built[n] \in Pieces /\ InPlace(built[n])
        BY PieceCells DEF SInv, PiecesInPlace
    <2>2. CASE AtSite(built[n])
        BY <1>8, <2>2, BuilderAssumption DEF AtSite
    <2>3. CASE \E k \in DOMAIN chunks : InChunk(built[n], k)
        <3>1. PICK k \in DOMAIN chunks : InChunk(built[n], k)
            BY <2>3
        <3>2. chunks[k].offset \in Nat /\ chunks[k].length \in Nat
            BY PageOfChunk DEF IInv
        <3>3. built[n].offset = chunks[k].offset /\ built[n].length <= chunks[k].length
              /\ built[n].frame = Frame(chunks[k]) /\ built[n].length \in Nat
            BY <2>1, <3>1 DEF InChunk, Pieces
        <3>4. \/ Frame(chunks[k]) # f
              \/ chunks[k].offset + chunks[k].length <= o
              \/ o + c.length <= chunks[k].offset
            BY <1>10
        <3> QED BY <1>3, <1>5, <1>8, <3>2, <3>3, <3>4, SMTT(30)
    <2> QED BY <2>1, <2>2, <2>3 DEF InPlace
<1>13. \A p : p.frame = f /\ p.offset = o /\ p.length = buffer.cursor => InPlaceNext(p)
    <2>1. buffer.cursor <= c.length
        BY <1>3, <1>5
    <2> QED BY <1>7, <2>1 DEF InPlaceNext, f, o, c
<1>14. SInv'
    BY <1>1, <1>4, <1>13, PatchedSInv
<1>15. Store' = Append(Store, Content(buffer))
    BY <1>4, <1>8, <1>11, <1>12, PatchedStore
<1> QED BY <1>14, <1>15

\* Code is written to the address the assembler was made for.
LEMMA SitePatch ==
    ASSUME IInv, BInv, SInv, [BuilderNext]_bvars, realized # "NULL", Destroyed,
           NEW b, b.cursor = buffer.cursor,
           \A i \in 1 .. buffer.cursor : b.block[i] = buffer.block[i],
           Patched(realized, 0, b)
    PROVE  SInv' /\ Store' = Append(Store, Content(buffer))
<1>1. IInv' /\ [Next]_vars
    BY ArenaStep, BuilderNextInv
<1>2. realized \in Sites
    BY DEF BInv, Types
<1>3. buffer.cursor \in Nat /\ buffer.cursor <= PageSize /\ PageSize \in Nat
    <2>1. buffer.cursor \in Nat /\ Spent \in Nat /\ MaxWords \in Nat
        BY SpentNat, BuilderAssumption DEF BInv, Types, BufferOK
    <2>2. data_labels.count \in Nat /\ binding \in 0 .. data_labels.count
        BY DEF BInv, Types, ArrayOK
    <2>3. buffer.cursor <= MaxWords
        BY <2>1, <2>2 DEF BInv, Budget
    <2>4. CASE MaxWords = 0
        BY <2>1, <2>3, <2>4, ArenaAssumption
    <2>5. CASE MaxWords # 0
        <3>1. MaxWords + 1 \in 1 .. PageSize /\ PageSize \in Nat
            BY <2>1, <2>5, BuilderAssumption, ArenaAssumption
        <3> QED BY <2>1, <2>3, <3>1
    <2> QED BY <2>4, <2>5
<1>4. \A n \in DOMAIN built : built[n].frame # realized
    BY DEF SInv, SiteFree
<1>5. \A p : p.frame = realized /\ p.offset = 0 /\ p.length = b.cursor => InPlaceNext(p)
    BY <1>2, <1>3 DEF InPlaceNext, AtSite
<1>6. SInv'
    BY <1>1, <1>5, PatchedSInv
<1>7. 0 + b.cursor <= PageSize
    BY <1>3
<1>8. Store' = Append(Store, Content(buffer))
    BY <1>2, <1>4, <1>7, PatchedStore
<1> QED BY <1>6, <1>8

\* A step that leaves pieces and memory alone leaves the store alone.
LEMMA KeptSInv ==
    ASSUME IInv, BInv, SInv, [Next]_vars, UNCHANGED <<memory, built>>,
           realized' # "NULL" => \A n \in DOMAIN built : built[n].frame # realized'
    PROVE  SInv' /\ Store' = Store
<1>1. \A n \in DOMAIN built : InPlaceNext(built[n])
    BY InPlaceKept DEF SInv, PiecesInPlace
<1>2. PiecesInPlace'
    BY <1>1 DEF PiecesInPlace, InPlace, InPlaceNext, InChunk, AtSite, Frame
<1>3. (DOMAIN memory = Cells)' /\ SiteFree'
    BY DEF SInv, Cells, SiteFree
<1>4. Store' = Store
    BY DEF Store, Image
<1> QED BY <1>2, <1>3, <1>4 DEF SInv

\* The steps that finish a piece of code.
Finishes ==
    \/ FinalizeInArena /\ Len(chunks') > Len(chunks)
    \/ FinalizeFromAddress
    \/ FinishCopy

LEMMA FinishesStore ==
    ASSUME IInv, BInv, SInv, [BuilderNext]_bvars, Finishes
    PROVE  SInv' /\ Store' = Append(Store, Content(buffer))
<1>1. BufferOK(buffer)
    BY DEF BInv, Types
<1>2. CASE FinalizeInArena /\ Len(chunks') > Len(chunks)
    BY <1>2, ChunkPatch
<1>3. CASE FinalizeFromAddress
    BY <1>3, SitePatch DEF FinalizeFromAddress
<1>4. CASE FinishCopy
    <2>1. /\ Copy(buffer).cursor = buffer.cursor
          /\ \A i \in 1 .. buffer.cursor : Copy(buffer).block[i] = buffer.block[i]
        BY <1>1, CopyOK
    <2> QED BY <1>4, <2>1, SitePatch DEF FinishCopy
<1> QED BY <1>2, <1>3, <1>4 DEF Finishes

LEMMA OtherStepsStore ==
    ASSUME IInv, BInv, SInv, [BuilderNext]_bvars, ~Finishes
    PROVE  SInv' /\ Store' = Store
<1>1. [Next]_vars
    BY ArenaStep
<1>2. CASE UNCHANGED <<memory, built, realized>>
    BY <1>1, <1>2, KeptSInv DEF SInv, SiteFree
<1>3. ASSUME NEW address \in Sites \cup {"NULL"}, TurboAssembler(address)
      PROVE  SInv' /\ Store' = Store
    BY <1>1, <1>3, KeptSInv DEF TurboAssembler, KeptElsewhere
<1>4. CASE FinalizeInArena
    BY <1>1, <1>4, KeptSInv DEF FinalizeInArena, Finishes, Destroyed
<1> QED BY <1>2, <1>3, <1>4
    DEF BuilderNext, bvars, asm, Emit, Overrun, RelocBind, LdrLinked, LdrDropped, PseudoBind,
        AppendRelocLabelEntry, EntryDropped, Finishes, OtherChunk, KeptElsewhere

LEMMA InitSInv == BuilderInit => TInv /\ SInv
<1> SUFFICES ASSUME BuilderInit PROVE TInv /\ SInv
    OBVIOUS
<1>1. Fresh
    BY DEF BuilderInit, Fresh
<1>2. SInv
    BY DEF BuilderInit, SInv, Cells, PiecesInPlace, SiteFree
<1> QED BY <1>1, <1>2, FreshTInv

LEMMA NextSInv == IInv /\ BInv /\ SInv /\ [BuilderNext]_bvars => SInv'
BY FinishesStore, OtherStepsStore

---------------------------------------------------------------------------
(* The text                                                                *)

TextOf(b) == Unlinked(Content(b))

LEMMA TextWords ==
    ASSUME NEW b, BufferOK(b)
    PROVE  /\ TextOf(b) \in Seq(Words) /\ Len(TextOf(b)) = b.cursor
           /\ DOMAIN TextOf(b) = 1 .. b.cursor /\ b.cursor \in Nat
           /\ \A i \in 1 .. b.cursor :
                /\ b.block[i] \in Words
                /\ TextOf(b)[i] = IF b.block[i].op = "ldr" THEN [b.block[i] EXCEPT !.k = 0]
                                                          ELSE b.block[i]
<1> DEFINE words == Content(b)
           t == TextOf(b)
<1>1. /\ words \in Seq(Words) /\ Len(words) = b.cursor /\ DOMAIN words = 1 .. b.cursor
      /\ \A i \in 1 .. b.cursor : words[i] = b.block[i]
    BY ContentOK
<1>2. b.cursor \in Nat
    BY DEF BufferOK
<1>3. t = [i \in DOMAIN words |-> IF words[i].op = "ldr" THEN [words[i] EXCEPT !.k = 0] ELSE words[i]]
    BY DEF TextOf, Unlinked
<1> HIDE DEF words, t
<1>4. \A i \in 1 .. b.cursor : b.block[i] \in Words
    BY <1>1, ElementOfSeq
<1>5. \A w \in Words : [w EXCEPT !.k = 0] \in Words
    BY DEF Words
<1>6. \A i \in 1 .. b.cursor : t[i] = IF b.block[i].op = "ldr" THEN [b.block[i] EXCEPT !.k = 0]
                                                               ELSE b.block[i]
    BY <1>1, <1>3
<1>7. t \in [1 .. b.cursor -> Words]
    BY <1>1, <1>3, <1>4, <1>5
<1>8. t \in Seq(Words) /\ Len(t) = b.cursor /\ DOMAIN t = 1 .. b.cursor
    BY <1>2, <1>7
<1> QED BY <1>2, <1>4, <1>6, <1>8 DEF t

\* A longer buffer that agrees with a shorter one, distances of loads aside.
LEMMA LongerText ==
    ASSUME NEW b, NEW d, BufferOK(b), BufferOK(d), b.cursor < d.cursor,
           \A i \in 1 .. b.cursor : TextOf(d)[i] = TextOf(b)[i]
    PROVE  /\ Len(TextOf(d)) > Len(TextOf(b))
           /\ SubSeq(TextOf(d), 1, Len(TextOf(b))) = TextOf(b)
<1> DEFINE t == TextOf(b)
           u == TextOf(d)
           r == SubSeq(u, 1, Len(t))
<1>1. t \in Seq(Words) /\ Len(t) = b.cursor /\ b.cursor \in Nat
    BY TextWords
<1>2. u \in Seq(Words) /\ Len(u) = d.cursor /\ d.cursor \in Nat
    BY TextWords
<1>3. \A i \in 1 .. b.cursor : u[i] = t[i]
    OBVIOUS
<1> HIDE DEF t, u
<1>4. Len(r) = Len(t) /\ r \in Seq(Words) /\ \A i \in 1 .. Len(t) : r[i] = u[i]
    BY <1>1, <1>2
<1> HIDE DEF r
<1>5. r = [i \in 1 .. Len(t) |-> r[i]] /\ t = [i \in 1 .. Len(t) |-> t[i]]
    BY <1>1, <1>4
<1>6. r = t
    BY <1>1, <1>3, <1>4, <1>5
<1> QED BY <1>1, <1>2, <1>6 DEF r, t, u

LEMMA AddedWordText ==
    ASSUME BInv, NEW w \in Words, buffer' = Emitted(buffer, <<w>>)
    PROVE  /\ Len(TextOf(buffer')) > Len(TextOf(buffer))
           /\ SubSeq(TextOf(buffer'), 1, Len(TextOf(buffer))) = TextOf(buffer)
<1>1. BufferOK(buffer) /\ buffer.cursor \in Nat
    BY DEF BInv, Types, BufferOK
<1>2. /\ BufferOK(buffer') /\ buffer'.cursor = buffer.cursor + 1
      /\ \A i \in 1 .. buffer.cursor : buffer'.block[i] = buffer.block[i]
    BY <1>1, EmittedOne
<1>3. \A i \in 1 .. buffer.cursor : i \in 1 .. buffer'.cursor
    BY <1>1, <1>2
<1>4. ASSUME NEW i \in 1 .. buffer.cursor
      PROVE  TextOf(buffer')[i] = TextOf(buffer)[i]
    <2>1. TextOf(buffer)[i] = IF buffer.block[i].op = "ldr" THEN [buffer.block[i] EXCEPT !.k = 0]
                                                           ELSE buffer.block[i]
        BY <1>1, TextWords
    <2>2. TextOf(buffer')[i] = IF buffer'.block[i].op = "ldr" THEN [buffer'.block[i] EXCEPT !.k = 0]
                                                             ELSE buffer'.block[i]
        BY <1>2, <1>3, TextWords
    <2> QED BY <1>2, <2>1, <2>2
<1>5. buffer.cursor < buffer'.cursor
    BY <1>1, <1>2
<1> QED BY <1>1, <1>2, <1>4, <1>5, LongerText

\* Linking changes nothing but the distances of loads.
LEMMA BindText ==
    ASSUME BInv, NEW l \in Labels, BindAndEmit(l)
    PROVE  /\ Len(TextOf(buffer')) > Len(TextOf(buffer))
           /\ SubSeq(TextOf(buffer'), 1, Len(TextOf(buffer))) = TextOf(buffer)
<1> DEFINE c == buffer.cursor
           listed(i) == 4 * (i - 1) \in Objects(instructions[l])
<1>1. BufferOK(buffer) /\ c \in Nat
    BY DEF BInv, Types, BufferOK
<1>2. /\ buffer'.cursor = c + 2 /\ BufferOK(buffer')
      /\ \A i \in 1 .. c :
            buffer'.block[i] = IF listed(i)
                               THEN [buffer.block[i] EXCEPT !.k = (4 * c - 4 * (i - 1)) \div 4]
                               ELSE buffer.block[i]
    BY BindEffect
<1>3. ASSUME NEW i \in 1 .. c
      PROVE  TextOf(buffer')[i] = TextOf(buffer)[i]
    <2>1. i \in 1 .. buffer'.cursor
        BY <1>1, <1>2
    <2>2. /\ buffer.block[i] \in Words
          /\ TextOf(buffer)[i] = IF buffer.block[i].op = "ldr" THEN [buffer.block[i] EXCEPT !.k = 0]
                                                              ELSE buffer.block[i]
        BY <1>1, TextWords
    <2>3. TextOf(buffer')[i] = IF buffer'.block[i].op = "ldr" THEN [buffer'.block[i] EXCEPT !.k = 0]
                                                             ELSE buffer'.block[i]
        BY <1>2, <2>1, TextWords
    <2>4. CASE listed(i)
        <3>1. buffer.block[i].op = "ldr"
            BY <2>4, ListedIsLoad
        <3>2. PICK d : buffer'.block[i] = [buffer.block[i] EXCEPT !.k = d]
            BY <1>2, <2>4
        <3>3. buffer'.block[i].op = "ldr"
            BY <2>2, <3>1, <3>2 DEF Words
        <3>4. [buffer'.block[i] EXCEPT !.k = 0] = [buffer.block[i] EXCEPT !.k = 0]
            BY <2>2, <3>2 DEF Words
        <3> QED BY <2>2, <2>3, <3>1, <3>3, <3>4
    <2>5. CASE ~listed(i)
        BY <1>2, <2>2, <2>3, <2>5
    <2> QED BY <2>4, <2>5
<1>4. c < buffer'.cursor
    BY <1>1, <1>2
<1> QED BY <1>1, <1>2, <1>3, <1>4, LongerText

LEMMA EmptyText ==
    ASSUME NEW b, b = NewBuffer(BufferBytes)
    PROVE  TextOf(b) = <<>>
<1>1. BufferOK(b) /\ b.cursor = 0
    BY NewBufferOK, BuilderAssumption
<1>2. TextOf(b) \in Seq(Words) /\ Len(TextOf(b)) = 0
    BY <1>1, TextWords
<1> QED BY <1>2, EmptySeq

\* In complete code every load has the distance to the one place of its data.
LEMMA CompleteIsLinked ==
    ASSUME BInv, TInv, IsComplete, ~starved
    PROVE  Text!HasData(TextOf(buffer)) /\ Text!Linked(TextOf(buffer)) = Content(buffer)
<1> DEFINE c == buffer.cursor
           t == TextOf(buffer)
<1>1. BufferOK(buffer)
    BY DEF BInv, Types
<1>2. /\ DOMAIN t = 1 .. c /\ c \in Nat
      /\ \A i \in 1 .. c : /\ W(i) \in Words
                           /\ t[i] = IF W(i).op = "ldr" THEN [W(i) EXCEPT !.k = 0] ELSE W(i)
    BY <1>1, TextWords DEF W
<1>3. \A i \in 1 .. c : /\ t[i].op = W(i).op /\ t[i].label = W(i).label
                        /\ W(i).op # "ldr" => t[i] = W(i)
    BY <1>2 DEF Words
<1> HIDE DEF t
<1>4. ASSUME NEW i \in 1 .. c, W(i).op = "ldr"
      PROVE  /\ i + W(i).k \in 1 .. c
             /\ \A j \in 1 .. c : Text!IsDataOf(t, i, j) <=> j = i + W(i).k
    <2> DEFINE l == W(i).label
               d == i + W(i).k
    <2>1. l \in Labels
        BY <1>4 DEF BInv, LoadsNameLabels, W
    <2>2. Reaches(i)
        BY DEF BInv, AllReach
    <2>3. is_bound(l)
        <3>1. CASE instructions[l].count > 0
            BY <2>1, <3>1 DEF IsComplete
        <3>2. CASE ~(instructions[l].count > 0)
            <4>1. instructions[l].count \in Nat
                BY <2>1 DEF BInv, Types, ArrayOK
            <4>2. Objects(instructions[l]) = {}
                BY <3>2, <4>1 DEF Objects
            <4> QED BY <1>4, <2>2, <4>2 DEF Reaches, W
        <3> QED BY <3>1, <3>2
    <2>4. d \in 1 .. c - 1 /\ W(d) = Data(l)[1]
        BY <1>4, <2>2, <2>3 DEF Reaches, W
    <2>5. d \in 1 .. c
        BY <1>2, <2>4
    <2>6. W(d).op = "data" /\ W(d).label = l /\ W(d).k = 1
        BY <2>4 DEF Data, Word
    <2>7. Text!IsDataOf(t, i, d)
        BY <1>3, <2>5, <2>6 DEF Text!IsDataOf
    <2>8. ASSUME NEW j \in 1 .. c, Text!IsDataOf(t, i, j)
          PROVE  j = d
        <3>1. W(j).op = "data" /\ W(j).label = l
            BY <1>3, <2>8 DEF Text!IsDataOf
        <3>2. W(j).k = 1
            BY <1>3, <2>8, <3>1 DEF Text!IsDataOf
        <3> HIDE DEF d
        <3> QED BY <2>5, <2>6, <3>1, <3>2 DEF TInv, DataOnce, FirstData
    <2> HIDE DEF d
    <2>9. \A j \in 1 .. c : Text!IsDataOf(t, i, j) <=> j = d
        BY <2>7, <2>8
    <2> QED BY <2>5, <2>9 DEF d
<1>5. Text!HasData(t)
    BY <1>2, <1>3, <1>4 DEF Text!HasData
<1>6. ASSUME NEW i \in 1 .. c
      PROVE  Text!Linked(t)[i] = W(i)
    <2>1. Text!Linked(t)[i] = IF t[i].op = "ldr"
                              THEN [t[i] EXCEPT !.k = (CHOOSE j \in DOMAIN t : Text!IsDataOf(t, i, j)) - i]
                              ELSE t[i]
        BY <1>2 DEF Text!Linked
    <2>2. CASE W(i).op = "ldr"
        <3> DEFINE d == i + W(i).k
        <3>1. d \in DOMAIN t /\ \A j \in DOMAIN t : Text!IsDataOf(t, i, j) <=> j = d
            BY <1>2, <1>4, <2>2
        <3> HIDE DEF d
        <3>2. (CHOOSE j \in DOMAIN t : Text!IsDataOf(t, i, j)) = d
            BY <3>1
        <3>3. W(i) \in Words /\ W(i).k \in Int /\ t[i] = [W(i) EXCEPT !.k = 0]
            BY <1>2, <2>2 DEF Words
        <3>4. d - i = W(i).k
            BY <1>2, <3>3 DEF d
        <3>5. [t[i] EXCEPT !.k = W(i).k] = W(i)
            BY <3>3 DEF Words
        <3> QED BY <1>3, <2>1, <2>2, <3>2, <3>4, <3>5
    <2>3. CASE W(i).op # "ldr"
        BY <1>3, <2>1, <2>3
    <2> QED BY <2>2, <2>3
<1>7. /\ DOMAIN Content(buffer) = 1 .. c /\ Content(buffer) \in Seq(Words)
      /\ \A i \in 1 .. c : Content(buffer)[i] = W(i)
    BY <1>1, ContentOK DEF W
<1>8. Text!Linked(t) = [i \in 1 .. c |-> Text!Linked(t)[i]]
    BY <1>2 DEF Text!Linked
<1>9. Content(buffer) = [i \in 1 .. c |-> Content(buffer)[i]]
    BY <1>7
<1>10. Text!Linked(t) = Content(buffer)
    BY <1>6, <1>7, <1>8, <1>9
<1> QED BY <1>5, <1>10 DEF t

---------------------------------------------------------------------------
(* Theorem                                                                 *)

LEMMA TextInit == BuilderInit => Text!Init
<1> SUFFICES ASSUME BuilderInit PROVE Text!Init
    OBVIOUS
<1>1. TextOf(buffer) = <<>>
    BY EmptyText DEF BuilderInit
<1>2. DOMAIN built = {} /\ [n \in DOMAIN built |-> Image(built[n])] = <<>>
    BY DEF BuilderInit
<1> QED BY <1>1, <1>2 DEF BuilderInit, Text!Init, TextOf

LEMMA TextStep ==
    IInv /\ BInv /\ TInv /\ SInv /\ [BuilderNext]_bvars => [Text!Next]_(Text!vars)
<1> SUFFICES ASSUME IInv, BInv, TInv, SInv, [BuilderNext]_bvars
             PROVE  [Text!Next]_(Text!vars)
    OBVIOUS
<1>1. CASE starved'
    BY <1>1 DEF Text!Next
<1> SUFFICES ASSUME ~starved' PROVE [Text!Next]_(Text!vars)
    BY <1>1
<1>2. ~starved /\ UNCHANGED starved
    <2>1. BInv'
        BY BuilderNextInv
    <2>2. starved \in BOOLEAN /\ starved' \in BOOLEAN
        BY <2>1 DEF BInv, Types
    <2>3. starved => starved'
        BY DEF BuilderNext, bvars, TurboAssembler, Emit, Overrun, RelocBind, LdrLinked, LdrDropped,
               PseudoBind, AppendRelocLabelEntry, EntryDropped, FinalizeInArena, FinalizeFromAddress,
               FinishCopy, OtherChunk, Destroyed
    <2> QED BY <2>2, <2>3
<1>3. UNCHANGED <<memory, built>> => Store' = Store
    BY DEF Store, Image
<1>4. ASSUME Len(TextOf(buffer')) > Len(TextOf(buffer)),
             SubSeq(TextOf(buffer'), 1, Len(TextOf(buffer))) = TextOf(buffer),
             UNCHANGED <<memory, built>>
      PROVE  Text!Next
    <2>1. Text!Write
        BY <1>3, <1>4 DEF Text!Write, TextOf, Store
    <2> QED BY <1>2, <2>1 DEF Text!Next
<1>5. CASE UNCHANGED <<buffer, memory, built>>
    BY <1>2, <1>3, <1>5 DEF Text!vars, Store
<1>6. CASE Emit
    <2> DEFINE w == Word("inst", "none", 0)
    <2>1. w \in Words /\ buffer' = Emitted(buffer, <<w>>) /\ UNCHANGED <<memory, built>>
        BY <1>6 DEF Emit, Inst, Word, Words, KeptElsewhere
    <2> HIDE DEF w
    <2> QED BY <1>4, <2>1, AddedWordText
<1>7. ASSUME NEW l \in Labels, LdrLinked(l)
      PROVE  Text!Next
    <2> DEFINE w == Word("ldr", l, 0)
    <2>1. w \in Words /\ buffer' = Emitted(buffer, <<w>>) /\ UNCHANGED <<memory, built>>
        BY <1>7 DEF LdrLinked, Word, Words, KeptElsewhere
    <2> HIDE DEF w
    <2> QED BY <1>4, <2>1, AddedWordText
<1>8. ASSUME NEW l \in Labels, PseudoBind(l)
      PROVE  Text!Next
    BY <1>4, <1>8, BindText DEF PseudoBind, KeptElsewhere
<1>9. CASE RelocBind
    <2> DEFINE l == data_labels.array[binding + 1]
    <2>1. BindAndEmit(l) /\ UNCHANGED <<memory, built>> /\ binding < data_labels.count
        BY <1>9 DEF RelocBind, KeptElsewhere
    <2>2. binding + 1 \in 1 .. data_labels.count /\ ArrayOK(data_labels, Labels)
        BY <2>1 DEF BInv, Types, ArrayOK
    <2>3. l \in Labels
        BY <2>2 DEF ArrayOK
    <2> HIDE DEF l
    <2> QED BY <1>4, <2>1, <2>3, BindText
<1>10. CASE Finishes
    <2>1. IsComplete /\ Destroyed
        BY <1>10 DEF Finishes, FinalizeInArena, FinalizeFromAddress, FinishCopy
    <2>2. Text!HasData(TextOf(buffer)) /\ Text!Linked(TextOf(buffer)) = Content(buffer)
        BY <1>2, <2>1, CompleteIsLinked
    <2>3. Store' = Append(Store, Content(buffer))
        BY <1>10, FinishesStore
    <2>4. TextOf(buffer') = <<>>
        BY <2>1, EmptyText DEF Destroyed
    <2>5. Text!Finish
        BY <2>2, <2>3, <2>4 DEF Text!Finish, TextOf, Store
    <2> QED BY <1>2, <2>5 DEF Text!Next
<1>11. CASE FinalizeInArena /\ ~Finishes
    <2>1. UNCHANGED <<memory, built>> /\ Destroyed
        BY <1>11 DEF FinalizeInArena, Finishes
    <2>2. TextOf(buffer') = <<>>
        BY <2>1, EmptyText DEF Destroyed
    <2>3. Text!GiveUp
        BY <1>3, <2>1, <2>2 DEF Text!GiveUp, TextOf, Store
    <2> QED BY <1>2, <2>3 DEF Text!Next
<1>12. ASSUME NEW l \in Labels PROVE ~LdrDropped(l) /\ ~EntryDropped(l) /\ ~Overrun
    BY DEF LdrDropped, EntryDropped, Overrun
<1>13. ASSUME NEW l \in Labels, AppendRelocLabelEntry(l) PROVE UNCHANGED <<buffer, memory, built>>
    BY <1>13 DEF AppendRelocLabelEntry, KeptElsewhere
<1>14. ASSUME NEW address \in Sites \cup {"NULL"}, TurboAssembler(address)
       PROVE  UNCHANGED <<buffer, memory, built>>
    BY <1>14 DEF TurboAssembler, KeptElsewhere
<1>15. OtherChunk \/ Overrun \/ UNCHANGED bvars => UNCHANGED <<buffer, memory, built>>
    BY DEF OtherChunk, Overrun, bvars, asm, KeptElsewhere
<1> QED BY <1>5, <1>6, <1>7, <1>8, <1>9, <1>10, <1>11, <1>12, <1>13, <1>14, <1>15
    DEF BuilderNext, Finishes

\* Buffers that grow, lists of loads, labels, RelocBind, chunks and patches
\* together do what AssemblyText says, for every size of each of them: the code
\* at the end of FinalizeFromTurboAssembler is the text the client asked for
\* with every load linked, and no later call writes over it.  Of a behaviour in
\* which malloc fails nothing is said.
THEOREM BuilderStoresTheText == BuilderSpec => StoresTheText
<1>1. BInv /\ TInv /\ [BuilderNext]_bvars => TInv'
    BY NextTInv
<1> QED BY <1>1, BuilderInitInv, BuilderNextInv, InitSInv, NextSInv, TextInit, TextStep, PTL
    DEF BuilderSpec, StoresTheText, Text!Spec
=============================================================================
