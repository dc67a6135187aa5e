----------------------- MODULE NearMemoryArenaProofs -----------------------
(***************************************************************************)
(* Proofs about NearMemoryArena: pages and chunks are well formed, and the *)
(* branch at the position reaches every chunk, for every address space,    *)
(* page size, range and layout of the process.                             *)
(***************************************************************************)
EXTENDS NearMemoryArena, SequenceTheorems, WellFoundedInduction, TLAPS

Pages == {f * PageSize : f \in Frames}

\* The request under way.
Request == [pc : {"none", "list", "zeros", "first", "last", "left", "right"},
            position : Nat, size : Nat, permission : Permissions \cup {"rx"},
            assumePageAddr : Nat, region : Nat]

RequestOK ==
    /\ request \in Request
    /\ request.pc # "none" =>
        /\ request.position \in Positions /\ request.size \in Sizes
        /\ request.permission \in Permissions
    /\ request.pc \in SearchSteps => request.assumePageAddr \in Pages
    /\ request.pc \in {"left", "right"} => request.region \in Frames

PageChunk == [address : Pages, cursor : Nat, permission : Permissions]
Chunk == [address : Nat, size : Sizes, position : Positions, page : Nat]

IInv ==
    /\ memory = [f \in Frames |-> memory[f]]
    /\ \A f \in Frames : memory[f].page \in 0 .. Len(page_chunks)
    /\ page_chunks \in Seq(PageChunk)
    /\ \A i \in DOMAIN page_chunks :
        page_chunks[i].cursor - page_chunks[i].address \in 0 .. PageSize - 1
    /\ chunks \in Seq(Chunk) /\ Len(chunks) <= MaxChunks
    /\ request.pc # "none" => Len(chunks) < MaxChunks
    /\ RequestOK
    /\ request.pc \in SearchSteps => GetProcessMemoryLayout # {}
    /\ ChunksInRange

---------------------------------------------------------------------------
(* Arithmetic                                                              *)

LEMMA Quotient ==
    ASSUME NEW n \in Nat \ {0}, NEW p \in Int
    PROVE  (p % n) \in 0 .. n - 1 /\ (p \div n) \in Int /\ p = (p \div n) * n + (p % n)
OBVIOUS

LEMMA Remainder ==
    ASSUME NEW n \in Nat \ {0}, NEW p \in 0 .. n - 1
    PROVE  p % n = p /\ (p - n) % n = p /\ (p + n) % n = p
OBVIOUS

LEMMA Smaller ==
    ASSUME NEW n \in Nat \ {0}, NEW a \in Int, NEW b \in Int, a < b
    PROVE  a * n + n <= b * n /\ a * n \in Int /\ b * n \in Int
OBVIOUS

LEMMA SpaceNat ==
    /\ Space \in Nat \ {0} /\ PageSize \in Nat \ {0} /\ PageSize <= Space
    /\ \A f \in Frames : f * PageSize \in 0 .. Space - PageSize
<1>1. PageSize \in Nat \ {0} /\ NumPages \in Nat \ {0}
    BY NearAssumption
<1>2. Space \in Nat \ {0} /\ PageSize <= Space
    BY <1>1, Smaller DEF Space
<1>3. ASSUME NEW f \in Frames PROVE f * PageSize \in 0 .. Space - PageSize
    <2>1. f \in Nat /\ f < NumPages
        BY <1>1 DEF Frames
    <2>2. f * PageSize \in Nat
        BY <1>1, <2>1
    <2> QED BY <1>1, <1>2, <2>1, <2>2, Smaller DEF Space
<1> QED BY <1>1, <1>2, <1>3

LEMMA PagesNat == Pages \subseteq Nat /\ \A a \in Pages : a \in 0 .. Space - PageSize
BY SpaceNat DEF Pages

\* ALIGN rounds down to a page.
LEMMA Aligned ==
    ASSUME NEW p \in 0 .. Space - 1
    PROVE  \E f \in Frames : ALIGN(p) = f * PageSize /\ ALIGN(p) <= p /\ p < ALIGN(p) + PageSize
<1> DEFINE q == p \div PageSize
<1>1. PageSize \in Nat \ {0} /\ NumPages \in Nat \ {0} /\ Space \in Nat
    BY NearAssumption, SpaceNat
<1>2. q \in Int /\ (p % PageSize) \in 0 .. PageSize - 1 /\ p = q * PageSize + (p % PageSize)
    BY <1>1, Quotient
<1>3. ALIGN(p) = q * PageSize /\ q * PageSize \in Int
    BY <1>1, <1>2 DEF ALIGN
<1>4. q >= 0
    <2>1. SUFFICES ASSUME q < 0 PROVE FALSE
        BY <1>2
    <2>2. q * PageSize + PageSize <= 0 * PageSize
        BY <1>1, <1>2, <2>1, Smaller
    <2> QED BY <1>1, <1>2, <1>3, <2>2
<1>5. q < NumPages
    <2>1. SUFFICES ASSUME NumPages <= q PROVE FALSE
        BY <1>1, <1>2
    <2>2. NumPages * PageSize <= q * PageSize
        BY <1>1, <1>2, <2>1
    <2> QED BY <1>1, <1>2, <1>3, <2>2 DEF Space
<1>6. q \in Frames
    BY <1>1, <1>2, <1>4, <1>5 DEF Frames
<1> QED BY <1>1, <1>2, <1>3, <1>6

LEMMA NextPage ==
    ASSUME NEW p \in 0 .. Space - 1
    PROVE  next_page(p) \in Pages /\ (next_page(p) > p \/ p >= Space - PageSize)
<1>1. PICK f \in Frames : /\ ALIGN(p) = f * PageSize /\ ALIGN(p) <= p
                          /\ p < ALIGN(p) + PageSize
    BY Aligned
<1>2. /\ Space \in Nat \ {0} /\ PageSize \in Nat \ {0} /\ PageSize <= Space /\ NumPages \in Nat \ {0}
      /\ f \in Nat /\ f < NumPages /\ ALIGN(p) \in 0 .. Space - PageSize
    BY <1>1, SpaceNat, NearAssumption DEF Frames
<1>3. ALIGN(p) \in Pages
    BY <1>1 DEF Pages
<1>4. CASE f + 1 < NumPages
    <2>1. f + 1 \in Frames /\ (f + 1) * PageSize = ALIGN(p) + PageSize
        BY <1>1, <1>2, <1>4 DEF Frames
    <2>2. ALIGN(p) + PageSize \in 0 .. Space - 1
        BY <1>2, <2>1, SpaceNat
    <2>3. next_page(p) = ALIGN(p) + PageSize
        BY <1>2, <2>2, Remainder, SMTT(30) DEF next_page
    <2> QED BY <1>1, <1>2, <2>1, <2>3 DEF Pages
<1>5. CASE f + 1 = NumPages
    <2>1. ALIGN(p) + PageSize = Space
        BY <1>1, <1>2, <1>5 DEF Space
    <2>2. (ALIGN(p) + PageSize) % Space = 0
        BY <1>2, <2>1
    <2>3. next_page(p) = ALIGN(p)
        BY <1>2, <2>2 DEF next_page
    <2> QED BY <1>1, <1>2, <1>3, <2>1, <2>3
<1> QED BY <1>2, <1>4, <1>5

LEMMA NextPageAtEnd == next_page(Space) = Space
<1>1. Space \in Nat \ {0} /\ PageSize \in Nat \ {0} /\ NumPages \in Nat
    BY SpaceNat, NearAssumption
<1>2. Space % PageSize = 0
    <2>1. (NumPages * PageSize) % PageSize = 0
        BY <1>1
    <2> QED BY <2>1 DEF Space
<1>3. ALIGN(Space) = Space
    BY <1>1, <1>2 DEF ALIGN
<1>4. ((Space + PageSize) % Space) \in 0 .. Space - 1
    BY <1>1, Quotient
<1> QED BY <1>1, <1>3, <1>4 DEF next_page

LEMMA PrevPage ==
    ASSUME NEW p \in 0 .. Space - 1
    PROVE  prev_page(p) \in 0 .. p
<1>1. PICK f \in Frames : ALIGN(p) = f * PageSize /\ ALIGN(p) <= p
    BY Aligned
<1>2. /\ Space \in Nat \ {0} /\ PageSize \in Nat \ {0} /\ PageSize <= Space
      /\ ALIGN(p) \in 0 .. Space - PageSize
    BY <1>1, SpaceNat
<1>3. ALIGN(p) - PageSize \in Int
    BY <1>2
<1>4. ((ALIGN(p) - PageSize) % Space) \in 0 .. Space - 1
    BY <1>2, <1>3, Quotient
<1> QED BY <1>1, <1>2, <1>4 DEF prev_page

\* The lowest page is near enough.
LEMMA MinPage ==
    ASSUME NEW p \in 0 .. Space - 1
    PROVE  min_page_addr(p) \in Pages /\ (alloc_range < Space => min_page_addr(p) > p - alloc_range)
<1>1. /\ Space \in Nat \ {0} /\ PageSize \in Nat \ {0} /\ PageSize <= Space
      /\ alloc_range \in Nat /\ alloc_range >= 2 * PageSize
    BY SpaceNat, NearAssumption
<1>2. ((p - alloc_range) % Space) \in 0 .. Space - 1
    BY <1>1, Quotient
<1>3. addr_sub(p, alloc_range) \in 0 .. Space - 1
    BY <1>1, <1>2 DEF addr_sub
<1>4. min_page_addr(p) \in Pages
    BY <1>3, NextPage DEF min_page_addr
<1>5. min_page_addr(p) \in Nat
    BY <1>4, SpaceNat DEF Pages
<1>6. ASSUME alloc_range < Space PROVE min_page_addr(p) > p - alloc_range
    <2>1. CASE p < alloc_range
        BY <1>1, <1>5, <2>1
    <2>2. CASE alloc_range <= p
        <3>1. addr_sub(p, alloc_range) = p - alloc_range
            BY <1>1, <2>2, Remainder DEF addr_sub
        <3>2. ~(p - alloc_range >= Space - PageSize)
            BY <1>1, <2>2
        <3> QED BY <1>1, <1>3, <3>1, <3>2, NextPage DEF min_page_addr
    <2> QED BY <1>1, <2>1, <2>2
<1> QED BY <1>4, <1>6

\* The highest page is near enough.
LEMMA MaxPage ==
    ASSUME NEW p \in 0 .. Space - 1, alloc_range < Space
    PROVE  max_page_addr(p) \in Nat /\ max_page_addr(p) <= p + alloc_range
<1>1. /\ Space \in Nat \ {0} /\ PageSize \in Nat \ {0}
      /\ alloc_range \in Nat /\ alloc_range >= 2 * PageSize
    BY SpaceNat, NearAssumption
<1>2. addr_add(p, alloc_range) \in 0 .. Space - 1 /\ addr_add(p, alloc_range) <= p + alloc_range
    <2>1. CASE p + alloc_range < Space
        BY <1>1, <2>1, Remainder DEF addr_add
    <2>2. CASE p + alloc_range >= Space
        <3>1. (p + alloc_range - Space) \in 0 .. Space - 1
            BY <1>1, <2>2
        <3>2. (p + alloc_range) % Space = p + alloc_range - Space
            <4> DEFINE s == p + alloc_range - Space
            <4>1. (s + Space) % Space = s
                BY <1>1, <3>1, Remainder
            <4> QED BY <1>1, <4>1
        <3> QED BY <1>1, <2>2, <3>1, <3>2 DEF addr_add
    <2> QED BY <1>1, <2>1, <2>2
<1> QED BY <1>1, <1>2, PrevPage DEF max_page_addr

---------------------------------------------------------------------------
(* Regions                                                                 *)

LEMMA LeastNat ==
    ASSUME NEW T \in SUBSET Nat, T # {}
    PROVE  \E n \in T : \A m \in T : n <= m
<1>1. IsWellFoundedOn(OpToRel(<, Nat), Nat)
    BY NatLessThanWellFounded
<1>2. PICK x \in T : \A y \in T : ~(<<y, x>> \in OpToRel(<, Nat))
    BY <1>1, WFMin
<1>3. \A y \in T : ~(y < x)
    BY <1>2 DEF OpToRel
<1> QED BY <1>3

LEMMA MinOf ==
    ASSUME NEW T \in SUBSET Frames, T # {}
    PROVE  Min(T) \in T
<1>1. T \subseteq Nat
    BY NearAssumption DEF Frames
<1>2. \E n \in T : \A m \in T : n <= m
    BY <1>1, LeastNat
<1> QED BY <1>2 DEF Min

LEMMA MaxOf ==
    ASSUME NEW T \in SUBSET Frames, T # {}
    PROVE  Max(T) \in T
<1> DEFINE S == {NumPages - n : n \in T}
<1>1. NumPages \in Nat /\ \A n \in T : n \in Nat /\ n < NumPages
    BY NearAssumption DEF Frames
<1>2. S \in SUBSET Nat /\ S # {}
    BY <1>1
<1>3. PICK s \in S : \A m \in S : s <= m
    BY <1>2, LeastNat
<1>4. PICK n \in T : s = NumPages - n
    BY <1>3
<1>5. \A m \in T : n >= m
    <2> SUFFICES ASSUME NEW m \in T PROVE n >= m
        OBVIOUS
    <2>1. s <= NumPages - m
        BY <1>3
    <2> QED BY <1>1, <1>4, <2>1
<1> QED BY <1>5 DEF Max

\* Every region ends.
LEMMA RegionEnds ==
    ASSUME NEW f \in Frames
    PROVE  LastOf(f) \in f .. NumPages - 1
<1> DEFINE T == {g \in f .. NumPages - 1 : g = NumPages - 1 \/ ~Same(f, g + 1)}
<1>1. f \in Nat /\ NumPages \in Nat \ {0} /\ f <= NumPages - 1
    BY NearAssumption DEF Frames
<1>2. T \in SUBSET Nat /\ NumPages - 1 \in T
    BY <1>1
<1>3. PICK g \in T : \A h \in T : g <= h
    BY <1>2, LeastNat
<1>4. \A h \in f .. g : Same(f, h)
    <2> SUFFICES ASSUME NEW h \in f .. g PROVE Same(f, h)
        OBVIOUS
    <2>1. CASE h = f
        BY <2>1 DEF Same
    <2>2. CASE h # f
        <3>1. h - 1 \in f .. NumPages - 1 /\ h - 1 # NumPages - 1 /\ ~(g <= h - 1) /\ h - 1 + 1 = h
            BY <1>1, <1>3, <2>2
        <3> QED BY <1>3, <3>1
    <2> QED BY <2>1, <2>2
<1> QED BY <1>3, <1>4 DEF LastOf

LEMMA RegionEnd ==
    ASSUME NEW f \in Frames
    PROVE  /\ region_start(f) \in 0 .. Space - PageSize
           /\ region_start(f) + PageSize <= region_end(f)
           /\ region_end(f) \in Nat /\ region_end(f) <= Space
<1>1. f \in Nat /\ NumPages \in Nat \ {0} /\ PageSize \in Nat \ {0}
    BY NearAssumption DEF Frames
<1>2. LastOf(f) \in f .. NumPages - 1
    BY RegionEnds
<1>3. LastOf(f) \in Frames /\ LastOf(f) + 1 \in 1 .. NumPages
    BY <1>1, <1>2 DEF Frames
<1>4. region_end(f) = LastOf(f) * PageSize + PageSize
    <2>1. \A l \in Int : (l + 1) * PageSize = l * PageSize + PageSize
        BY <1>1
    <2> QED BY <1>1, <1>2, <2>1 DEF region_end
<1>5. LastOf(f) * PageSize \in 0 .. Space - PageSize /\ f * PageSize \in 0 .. Space - PageSize
    BY <1>3, SpaceNat
<1>6. f * PageSize <= LastOf(f) * PageSize
    <2>1. CASE f = LastOf(f)
        BY <1>5, <2>1
    <2>2. CASE f < LastOf(f)
        BY <1>1, <1>2, <1>5, <2>2, Smaller
    <2> QED BY <1>1, <1>2, <2>1, <2>2
<1> QED BY <1>1, <1>3, <1>4, <1>5, <1>6, SpaceNat DEF region_start, region_end

\* The layout's page that is tried is a page of the address space.
LEMMA TriedPage ==
    ASSUME IInv
    PROVE  Tried \subseteq Pages
<1> DEFINE min == min_page_addr(request.position)
           f == request.region
           prev == next_page(region_end(Max(Before(f))))
<1>1. /\ PageSize \in Nat \ {0} /\ Space \in Nat \ {0} /\ NumPages \in Nat \ {0}
      /\ \A a \in Pages : a \in 0 .. Space - PageSize
    BY SpaceNat, NearAssumption DEF Pages
<1>2. request.pc \in SearchSteps => /\ request.position \in 0 .. Space - 1
                                    /\ request.assumePageAddr \in Pages /\ min \in Pages
    BY MinPage, NearAssumption DEF IInv, RequestOK, SearchSteps
<1>3. ASSUME request.pc = "left", region_start(f) > prev, Before(f) # {}
      PROVE  addr_max(min, prev) \in Pages
    <2>1. f \in Frames /\ Before(f) \subseteq Frames
        BY <1>3 DEF IInv, RequestOK, Before, GetProcessMemoryLayout
    <2>2. Max(Before(f)) \in Frames
        BY <2>1, <1>3, MaxOf
    <2>3. region_end(Max(Before(f))) \in 0 .. Space
        BY <1>1, <2>2, RegionEnd
    <2>4. prev \in Pages
        <3>1. CASE region_end(Max(Before(f))) = Space
            BY <1>1, <1>3, <2>1, <3>1, NextPageAtEnd, RegionEnd
        <3>2. CASE region_end(Max(Before(f))) # Space
            BY <1>1, <2>3, <3>2, NextPage
        <3> QED BY <3>1, <3>2
    <2> QED BY <1>2, <1>3, <2>4 DEF addr_max, SearchSteps
<1>4. ASSUME request.pc = "right", After(f) # {}, region_end(f) < region_start(Min(After(f)))
      PROVE  next_page(region_end(f)) \in Pages
    <2>1. f \in Frames /\ After(f) \subseteq Frames
        BY <1>4 DEF IInv, RequestOK, After, GetProcessMemoryLayout
    <2>2. Min(After(f)) \in Frames
        BY <2>1, <1>4, MinOf
    <2>3. region_end(f) \in 0 .. Space - 1
        BY <1>1, <1>4, <2>1, <2>2, RegionEnd
    <2> QED BY <2>3, NextPage
<1> HIDE DEF min, f, prev
<1> QED BY <1>2, <1>3, <1>4 DEF Tried, SearchSteps, min, f, prev

---------------------------------------------------------------------------
(* The invariant                                                           *)

LEMMA InitIInv == Init => IInv
<1> SUFFICES ASSUME Init PROVE IInv
    OBVIOUS
<1>1. PICK layout \in Layouts :
        memory = [f \in Frames |->
            IF \E r \in layout : f \in r.first .. r.last
            THEN LET r == CHOOSE r \in layout : f \in r.first .. r.last
                 IN  [name |-> r.name, exec |-> r.exec, page |-> 0]
            ELSE Unmapped]
    BY DEF Init
<1>2. memory = [f \in Frames |-> memory[f]] /\ \A f \in Frames : memory[f].page = 0
    BY <1>1 DEF Unmapped
<1>3. page_chunks = <<>> /\ chunks = <<>> /\ request.pc = "none"
    BY DEF Init, NoRequest
<1> QED BY <1>2, <1>3, NearAssumption DEF IInv, RequestOK, ChunksInRange, SearchSteps, Init, NoRequest, Request

\* The step after one of the search.
LEMMA OnwardsOK ==
    ASSUME IInv, request.pc \in SearchSteps, NEW a \in Pages,
           request' \in {Onwards, [Onwards EXCEPT !.assumePageAddr = a]}
    PROVE  RequestOK' /\ request'.pc # "none"
<1>1. /\ request \in Request /\ request.position \in Positions /\ request.size \in Sizes
      /\ request.permission \in Permissions /\ request.assumePageAddr \in Pages
      /\ request.pc \in {"left", "right"} => request.region \in Frames
    BY DEF IInv, RequestOK, SearchSteps
<1>2. Pages \subseteq Nat /\ Frames \subseteq Nat
    BY SpaceNat, NearAssumption DEF Pages, Frames
<1>3. Min(GetProcessMemoryLayout) \in Frames
    BY MinOf DEF IInv, GetProcessMemoryLayout
<1>4. After(request.region) # {} => Min(After(request.region)) \in Frames
    <2>1. After(request.region) \subseteq Frames
        BY DEF After, GetProcessMemoryLayout
    <2> QED BY <2>1, MinOf
<1>5. /\ Onwards \in Request /\ Onwards.pc \in {"last", "left", "right", "zeros"}
      /\ Onwards.position = request.position /\ Onwards.size = request.size
      /\ Onwards.permission = request.permission
      /\ Onwards.assumePageAddr = request.assumePageAddr
      /\ Onwards.pc \in {"left", "right"} => Onwards.region \in Frames
    <2>1. CASE request.pc = "first"
        BY <1>1, <1>2, <2>1 DEF Onwards, Request
    <2>2. CASE request.pc = "last"
        BY <1>1, <1>2, <1>3, <2>2 DEF Onwards, Request
    <2>3. CASE request.pc = "left"
        BY <1>1, <1>2, <2>3 DEF Onwards, Request
    <2>4. CASE request.pc = "right"
        BY <1>1, <1>2, <1>4, <2>4 DEF Onwards, Request
    <2> QED BY <2>1, <2>2, <2>3, <2>4 DEF SearchSteps
<1> QED BY <1>1, <1>2, <1>5 DEF RequestOK, SearchSteps, Request

\* Calls that change the request only.
LEMMA SameArena ==
    ASSUME IInv, UNCHANGED <<memory, page_chunks, chunks>>, RequestOK',
           request'.pc # "none" => Len(chunks) < MaxChunks,
           request'.pc \in SearchSteps => GetProcessMemoryLayout # {}
    PROVE  IInv'
<1>1. GetProcessMemoryLayout' = GetProcessMemoryLayout
    BY DEF GetProcessMemoryLayout, Same
<1> QED BY <1>1 DEF IInv, ChunksInRange

\* A chunk within the range is handed out.
LEMMA OneMoreChunk ==
    ASSUME IInv, request.pc # "none", request' = NoRequest, NEW c \in Chunk,
           Reaches(c.position, c.address),
           chunks' = Append(chunks, c)
    PROVE  /\ chunks' \in Seq(Chunk) /\ Len(chunks') <= MaxChunks
           /\ RequestOK' /\ request'.pc = "none"
           /\ ChunksInRange'
<1>1. chunks \in Seq(Chunk) /\ Len(chunks) < MaxChunks /\ MaxChunks \in Nat
    BY NearAssumption DEF IInv
<1>2. chunks' \in Seq(Chunk) /\ Len(chunks') = Len(chunks) + 1
    BY <1>1
<1>3. \A k \in DOMAIN chunks' : chunks'[k] = c \/ (k \in DOMAIN chunks /\ chunks'[k] = chunks[k])
    BY <1>1
<1>4. ChunksInRange'
    BY <1>3 DEF IInv, ChunksInRange, Reaches
<1>5. RequestOK' /\ request'.pc = "none"
    BY DEF RequestOK, NoRequest, Request, SearchSteps
<1> QED BY <1>1, <1>2, <1>4, <1>5

LEMMA BeginStep ==
    ASSUME IInv, NEW p \in Positions, NEW s \in Sizes, NEW m \in Permissions, Begin(p, s, m)
    PROVE  IInv'
<1>1. RequestOK' /\ request'.pc = "list"
    <2>1. Positions \subseteq Nat /\ Sizes \subseteq Nat
        BY NearAssumption, SpaceNat
    <2> QED BY <2>1 DEF Begin, NoRequest, RequestOK, Request, SearchSteps
<1> QED BY <1>1, SameArena DEF Begin, SearchSteps

\* An address within the range without wrapping around.
LEMMA Within ==
    ASSUME NEW a \in 0 .. Space - 1, NEW q \in 0 .. Space - 1, a > q - alloc_range, a < q + alloc_range
    PROVE  Reaches(q, a)
<1>1. Space \in Nat \ {0} /\ alloc_range \in Nat
    BY SpaceNat, NearAssumption
<1>2. a - q \in -alloc_range .. alloc_range - 1 /\ (q + (a - q)) % Space = a
    BY <1>1, Remainder
<1> QED BY <1>2 DEF Reaches

\* What is near by the distance the arena works out is within the branch's
\* reach, from either side.
LEMMA NearReaches ==
    ASSUME NEW a \in 0 .. Space - 1, NEW q \in 0 .. Space - 1, Distance(a, q) < alloc_range
    PROVE  Reaches(q, a)
<1> DEFINE d == (a - q) % Space
<1>1. Space \in Nat \ {0} /\ alloc_range \in Nat
    BY SpaceNat, NearAssumption
<1>2. d \in 0 .. Space - 1 /\ (a >= q => d = a - q) /\ (a < q => d = a - q + Space)
    <2>1. CASE a >= q
        <3> DEFINE e == a - q
        <3>1. e \in 0 .. Space - 1
            BY <1>1, <2>1
        <3>2. e % Space = e
            BY <1>1, <3>1, Remainder
        <3> QED BY <2>1, <3>1, <3>2
    <2>2. CASE a < q
        <3> DEFINE e == a - q + Space
        <3>1. e \in 0 .. Space - 1 /\ e - Space = a - q
            BY <1>1, <2>2
        <3>2. (e - Space) % Space = e
            BY <1>1, <3>1, Remainder
        <3> QED BY <2>2, <3>1, <3>2
    <2> QED BY <2>1, <2>2
<1>3. Distance(a, q) = IF 2 * d < Space THEN d ELSE Space - d
    BY DEF Distance
<1> HIDE DEF d
<1>4. \E offset \in {d, d - Space} : offset \in -alloc_range .. alloc_range - 1
    BY <1>1, <1>2, <1>3
<1>5. q + d \in {a, a + Space} /\ q + (d - Space) \in {a - Space, a}
    BY <1>1, <1>2
<1>6. (q + d) % Space = a /\ (q + (d - Space)) % Space = a
    <2>1. a % Space = a /\ (a + Space) % Space = a /\ (a - Space) % Space = a
        BY <1>1, Remainder
    <2> QED BY <1>5, <2>1
<1> QED BY <1>4, <1>6 DEF Reaches

LEMMA TakeFromPageStep ==
    ASSUME IInv, TakeFromPage
    PROVE  IInv'
<1>1. PICK i \in DOMAIN page_chunks :
        /\ Fits(i)
        /\ chunks' = Append(chunks, [address |-> page_chunks[i].cursor, size |-> request.size,
                                     position |-> request.position, page |-> i])
        /\ page_chunks' = [page_chunks EXCEPT ![i].cursor = @ + request.size]
    BY DEF TakeFromPage
<1>2. /\ request.pc = "list" /\ request' = NoRequest /\ UNCHANGED memory
      /\ request.position \in Positions /\ request.size \in Sizes
    BY DEF TakeFromPage, IInv, RequestOK
<1>3. /\ page_chunks \in Seq(PageChunk) /\ page_chunks[i] \in PageChunk /\ i \in Nat
      /\ PageSize \in Nat /\ request.size \in Nat /\ page_chunks[i].address \in Nat
      /\ page_chunks[i].cursor \in Nat
    <2>1. page_chunks \in Seq(PageChunk) /\ page_chunks[i] \in PageChunk /\ i \in Nat
        BY DEF IInv
    <2>2. page_chunks[i].address \in Pages /\ page_chunks[i].cursor \in Nat
        BY <2>1 DEF PageChunk
    <2>3. PageSize \in Nat /\ Sizes \subseteq Nat
        BY NearAssumption
    <2> QED BY <1>2, <2>1, <2>2, <2>3, PagesNat
<1> DEFINE c == [address |-> page_chunks[i].cursor, size |-> request.size,
                 position |-> request.position, page |-> i]
<1>4. c \in Chunk /\ Reaches(c.position, c.address)
    <2>1. page_chunks[i].cursor \in 0 .. Space - 1
        <3>1. page_chunks[i].address \in 0 .. Space - PageSize
            BY <1>3, PagesNat DEF PageChunk
        <3>2. page_chunks[i].cursor - page_chunks[i].address \in 0 .. PageSize - 1
            BY DEF IInv
        <3> QED BY <1>3, <3>1, <3>2, SpaceNat
    <2>2. request.position \in 0 .. Space - 1
        BY <1>2, NearAssumption
    <2>3. Distance(page_chunks[i].cursor, request.position) < alloc_range
        BY <1>1 DEF Fits
    <2> QED BY <1>2, <1>3, <2>1, <2>2, <2>3, NearReaches DEF Chunk
<1>5. /\ chunks' \in Seq(Chunk) /\ Len(chunks') <= MaxChunks
      /\ RequestOK' /\ request'.pc = "none" /\ ChunksInRange'
    BY <1>1, <1>2, <1>4, OneMoreChunk
<1>6. /\ page_chunks' \in Seq(PageChunk) /\ Len(page_chunks') = Len(page_chunks)
      /\ DOMAIN page_chunks' = DOMAIN page_chunks
      /\ \A j \in DOMAIN page_chunks : j # i => page_chunks'[j] = page_chunks[j]
      /\ page_chunks'[i] = [page_chunks[i] EXCEPT !.cursor = @ + request.size]
    <2>1. [page_chunks[i] EXCEPT !.cursor = @ + request.size] \in PageChunk
        BY <1>3, SMTT(30) DEF PageChunk
    <2> QED BY <1>1, <1>3, <2>1
<1>7. \A j \in DOMAIN page_chunks' : page_chunks'[j].cursor - page_chunks'[j].address \in 0 .. PageSize - 1
    <2>1. page_chunks'[i].cursor = page_chunks[i].cursor + request.size
          /\ page_chunks'[i].address = page_chunks[i].address
        BY <1>3, <1>6 DEF PageChunk
    <2>2. page_chunks[i].cursor + request.size < page_chunks[i].address + PageSize
          /\ page_chunks[i].cursor - page_chunks[i].address \in 0 .. PageSize - 1
        BY <1>1 DEF Fits, IInv
    <2>3. page_chunks'[i].cursor - page_chunks'[i].address \in 0 .. PageSize - 1
        BY <1>3, <2>1, <2>2, SMTT(30)
    <2> QED BY <1>6, <2>3 DEF IInv
<1> QED BY <1>2, <1>5, <1>6, <1>7 DEF IInv, SearchSteps

LEMMA SearchStep ==
    ASSUME IInv, SearchNearBlankPage
    PROVE  IInv'
<1>1. /\ request \in Request /\ request.position \in Positions /\ request.size \in Sizes
      /\ request.permission \in Permissions /\ request.pc = "list"
    BY DEF SearchNearBlankPage, IInv, RequestOK
<1>2. min_page_addr(request.position) \in Pages /\ Pages \subseteq Nat
    BY <1>1, MinPage, NearAssumption, PagesNat
<1>3. RequestOK' /\ request'.pc = "first"
    BY <1>1, <1>2 DEF SearchNearBlankPage, RequestOK, Request, SearchSteps
<1> QED BY <1>1, <1>3, SameArena DEF SearchNearBlankPage, IInv

LEMMA PushPageStep ==
    ASSUME IInv, PushPage
    PROVE  IInv'
<1>1. PICK a \in Tried :
        /\ memory' = [memory EXCEPT ![a \div PageSize] =
                [name |-> "near", exec |-> request.permission = "rx",
                 page |-> Len(page_chunks) + 1]]
        /\ page_chunks' = Append(page_chunks, [address |-> a, cursor |-> a,
                                               permission |-> request.permission])
    BY DEF PushPage
<1>2. request.pc \in SearchSteps
    BY <1>1 DEF Tried, SearchSteps
<1>3. a \in Pages /\ a \in Nat /\ PageSize \in Nat \ {0}
    BY <1>1, TriedPage, SpaceNat DEF Pages
<1>4. page_chunks \in Seq(PageChunk) /\ request \in Request /\ request.permission \in Permissions
    BY <1>2 DEF IInv, RequestOK, SearchSteps
<1> DEFINE pg == [address |-> a, cursor |-> a, permission |-> request.permission]
<1>5. pg \in PageChunk
    BY <1>3, <1>4 DEF PageChunk
<1> HIDE DEF pg
<1>6. /\ page_chunks' \in Seq(PageChunk) /\ Len(page_chunks') = Len(page_chunks) + 1
      /\ \A j \in DOMAIN page_chunks' :
            page_chunks'[j] = pg \/ (j \in DOMAIN page_chunks /\ page_chunks'[j] = page_chunks[j])
    BY <1>1, <1>4, <1>5 DEF pg
<1>7. \A j \in DOMAIN page_chunks' : page_chunks'[j].cursor - page_chunks'[j].address \in 0 .. PageSize - 1
    <2>1. pg.cursor - pg.address = 0
        BY <1>3 DEF pg
    <2> QED BY <1>3, <1>6, <2>1 DEF IInv
<1>8. /\ (memory = [f \in Frames |-> memory[f]])'
      /\ \A f \in Frames : memory'[f].page \in 0 .. Len(page_chunks')
    <2>1. Len(page_chunks) \in Nat
        BY <1>4
    <2>2. /\ memory = [f \in Frames |-> memory[f]]
          /\ \A f \in Frames : memory[f].page \in 0 .. Len(page_chunks)
        BY DEF IInv
    <2> DEFINE new == [name |-> "near", exec |-> request.permission = "rx",
                       page |-> Len(page_chunks) + 1]
    <2>3. new.page = Len(page_chunks) + 1
        OBVIOUS
    <2> HIDE DEF new
    <2>4. memory' = [memory EXCEPT ![a \div PageSize] = new]
        BY <1>1 DEF new
    <2>5. /\ memory' = [f \in Frames |-> memory'[f]]
          /\ \A f \in Frames : memory'[f] = new \/ memory'[f] = memory[f]
        BY <2>2, <2>4
    <2> QED BY <1>6, <2>1, <2>2, <2>3, <2>5
<1>9. RequestOK' /\ request'.pc = "list"
    BY <1>2 DEF PushPage, IInv, RequestOK, Request, SearchSteps
<1>10. UNCHANGED chunks /\ request.pc # "none"
    BY <1>2 DEF PushPage, SearchSteps
<1> QED BY <1>6, <1>7, <1>8, <1>9, <1>10 DEF IInv, ChunksInRange, SearchSteps

LEMMA FailsStep ==
    ASSUME IInv, AllocateFails \/ SearchGoesOn
    PROVE  IInv'
<1>1. request.pc \in SearchSteps /\ UNCHANGED <<memory, page_chunks, chunks>>
    BY DEF AllocateFails, SearchGoesOn, Tried, SearchSteps
<1>2. \E a \in Pages : request' \in {Onwards, [Onwards EXCEPT !.assumePageAddr = a]}
    <2>1. request.assumePageAddr \in Pages
        BY <1>1 DEF IInv, RequestOK
    <2> QED BY <2>1, TriedPage DEF AllocateFails, SearchGoesOn
<1>3. RequestOK' /\ request'.pc # "none"
    BY <1>1, <1>2, OnwardsOK
<1> QED BY <1>1, <1>3, SameArena DEF IInv, SearchSteps

\* A run of zeros is within the range.
LEMMA NoBlankPageStep ==
    ASSUME IInv, NoBlankPage
    PROVE  IInv'
<1>1. /\ request.pc = "zeros" /\ request' = NoRequest /\ UNCHANGED <<memory, page_chunks>>
      /\ request.position \in Positions /\ request.size \in Sizes
    BY DEF NoBlankPage, IInv, RequestOK
<1>2. CASE UNCHANGED chunks
    <2>1. RequestOK' /\ request'.pc = "none"
        BY <1>1 DEF RequestOK, NoRequest, Request, SearchSteps
    <2> QED BY <1>1, <1>2, <2>1, SameArena DEF SearchSteps
<1>3. CASE \E f \in GetProcessMemoryLayout :
                /\ region_end(f) <= max_page_addr(request.position)
                /\ region_start(f) >= min_page_addr(request.position)
                /\ \E address \in region_start(f) + 1 .. region_end(f) - request.size :
                    chunks' = Append(chunks, [address |-> address, size |-> request.size,
                                              position |-> request.position, page |-> 0])
    <2> DEFINE p == request.position
    <2>1. PICK f \in Frames :
                /\ region_end(f) <= max_page_addr(p)
                /\ region_start(f) >= min_page_addr(p)
                /\ \E address \in region_start(f) + 1 .. region_end(f) - request.size :
                    chunks' = Append(chunks, [address |-> address, size |-> request.size,
                                              position |-> p, page |-> 0])
        BY <1>3 DEF GetProcessMemoryLayout
    <2>2. PICK a \in region_start(f) + 1 .. region_end(f) - request.size :
            chunks' = Append(chunks, [address |-> a, size |-> request.size,
                                      position |-> p, page |-> 0])
        BY <2>1
    <2>3. /\ Space \in Nat /\ PageSize \in Nat /\ p \in 0 .. Space - 1 /\ request.size \in 1 .. PageSize - 1
          /\ alloc_range \in Nat /\ region_start(f) \in Nat /\ region_end(f) \in Nat
          /\ region_end(f) <= Space /\ a \in Nat /\ a < region_end(f) /\ a > region_start(f)
        <3>1. region_start(f) \in 0 .. Space - PageSize /\ region_end(f) <= Space
              /\ region_end(f) \in Nat
            BY RegionEnd, SpaceNat
        <3>2. /\ Space \in Nat /\ PageSize \in Nat /\ p \in 0 .. Space - 1 /\ alloc_range \in Nat
              /\ request.size \in 1 .. PageSize - 1
            BY <1>1, NearAssumption, SpaceNat
        <3>3. a \in Nat /\ a < region_end(f) /\ a > region_start(f)
            BY <3>1, <3>2
        <3> QED BY <3>1, <3>2, <3>3
    <2>4. Reaches(p, a)
        <3>1. CASE alloc_range >= Space
            BY <2>3, <3>1, Within
        <3>2. CASE alloc_range < Space
            <4>1. min_page_addr(p) \in Nat /\ min_page_addr(p) > p - alloc_range
                BY <2>3, <3>2, MinPage, SpaceNat DEF Pages
            <4>2. max_page_addr(p) \in Nat /\ max_page_addr(p) <= p + alloc_range
                BY <2>3, <3>2, MaxPage
            <4>3. /\ region_end(f) <= max_page_addr(p)
                  /\ region_start(f) >= min_page_addr(p)
                BY <2>1
            <4>4. /\ a \in 0 .. Space - 1 /\ p \in 0 .. Space - 1
                  /\ a > p - alloc_range /\ a < p + alloc_range
                BY <2>3, <4>1, <4>2, <4>3
            <4> QED BY <4>4, Within
        <3> QED BY <2>3, <3>1, <3>2
    <2> DEFINE c == [address |-> a, size |-> request.size, position |-> p, page |-> 0]
    <2>5. c \in Chunk /\ Reaches(c.position, c.address)
        BY <1>1, <2>3, <2>4 DEF Chunk
    <2>6. /\ chunks' \in Seq(Chunk) /\ Len(chunks') <= MaxChunks
          /\ RequestOK' /\ request'.pc = "none" /\ ChunksInRange'
        BY <1>1, <2>2, <2>5, OneMoreChunk
    <2> QED BY <1>1, <2>6 DEF IInv, SearchSteps
<1> QED BY <1>2, <1>3 DEF NoBlankPage

LEMMA NextIInv == IInv /\ [Next]_vars => IInv'
<1> SUFFICES ASSUME IInv, [Next]_vars PROVE IInv'
    OBVIOUS
<1>1. CASE \E p \in Positions, s \in Sizes, m \in Permissions : Begin(p, s, m)
    BY <1>1, BeginStep
<1>2. CASE TakeFromPage
    BY <1>2, TakeFromPageStep
<1>3. CASE SearchNearBlankPage
    BY <1>3, SearchStep
<1>4. CASE PushPage
    BY <1>4, PushPageStep
<1>5. CASE AllocateFails \/ SearchGoesOn
    BY <1>5, FailsStep
<1>6. CASE NoBlankPage
    BY <1>6, NoBlankPageStep
<1>7. CASE UNCHANGED vars
    BY <1>7, SameArena DEF vars, IInv, RequestOK
<1> QED BY <1>1, <1>2, <1>3, <1>4, <1>5, <1>6, <1>7 DEF Next, AllocateChunk

LEMMA Inductive == Spec => []IInv
BY InitIInv, NextIInv, PTL DEF Spec

\* Pages are aligned pages of the address space and their cursors stay in
\* them, for every layout of the process and however often mmap fails: the
\* addresses search_near_blank_page works out with wrapping arithmetic are
\* never outside the address space.
THEOREM NearTypeCorrect == Spec => []TypeOK
<1>1. IInv => TypeOK
    <2> SUFFICES ASSUME IInv PROVE TypeOK
        OBVIOUS
    <2>1. \A i \in DOMAIN page_chunks : page_chunks[i] \in PageChunk
        BY DEF IInv
    <2>2. Len(chunks) \in 0 .. MaxChunks
        BY NearAssumption DEF IInv
    <2> QED BY <2>1, <2>2 DEF IInv, TypeOK, RequestOK, Request, SearchSteps, PageChunk, Pages
<1> QED BY <1>1, Inductive, PTL

\* The branch at the position reaches the chunk AllocateChunk returns, from a
\* page of the list, also one at the other end of the address space, which the
\* arena takes because its distance wraps around, and from a run of zeros, for
\* every page size, range and address space.
THEOREM NearChunksInRange == Spec => []ChunksInRange
<1>1. IInv => ChunksInRange
    BY DEF IInv
<1> QED BY <1>1, Inductive, PTL
=============================================================================
