-------------------------- MODULE NearMemoryArena --------------------------
(***************************************************************************)
(* NearMemoryArena: code memory within the range of a branch.  Chunks are  *)
(* cut from pages on a list; when no page has room a blank page is looked  *)
(* for in the layout of the process, mapped and put on the list; when that *)
(* fails too, a run of zero bytes inside a mapped region is taken.         *)
(*                                                                         *)
(* Addresses are words 0 .. Space - 1 and wrap around at Space.  Near      *)
(* allocations run one at a time.                                          *)
(***************************************************************************)
EXTENDS Integers, Sequences, FiniteSetsExt

CONSTANTS
    PageSize,    \* words per page
    NumPages,    \* pages of the address space
    Layouts,     \* what may be mapped at first: sets of [first, last, name, exec]
    Positions,   \* the addresses memory is needed near to
    alloc_range,       \* ARM64_B_XXX_RANGE
    Sizes,       \* the sizes asked for
    Permissions, \* "rx", "rw"
    MaxChunks,   \* bound on the number of allocations
    Failures     \* "mmap": OSMemory::Allocate may fail

Space == NumPages * PageSize
Frames == 0 .. NumPages - 1

ASSUME NearAssumption ==
    /\ PageSize \in Nat \ {0} /\ NumPages \in Nat \ {0}
    /\ Positions \subseteq 0 .. Space - 1
    /\ Sizes \subseteq 1 .. PageSize - 1
    /\ alloc_range \in Nat /\ alloc_range >= 2 * PageSize
    /\ MaxChunks \in Nat

VARIABLES
    memory,       \* what each page of the address space is mapped to
    page_chunks,  \* the list of pages
    chunks,       \* the chunks handed out, oldest first
    request       \* the call of AllocateChunk under way

vars == <<memory, page_chunks, chunks, request>>

Unmapped == [name |-> "free", exec |-> FALSE, page |-> 0]
NoRequest == [pc |-> "none", position |-> 0, size |-> 0, permission |-> "rx",
              assumePageAddr |-> 0, region |-> 0]

Init ==
    /\ \E layout \in Layouts :
        memory = [f \in Frames |->
            IF \E r \in layout : f \in r.first .. r.last
            THEN LET r == CHOOSE r \in layout : f \in r.first .. r.last
                 IN  [name |-> r.name, exec |-> r.exec, page |-> 0]
            ELSE Unmapped]
    /\ page_chunks = <<>>
    /\ chunks = <<>>
    /\ request = NoRequest

---------------------------------------------------------------------------
(* Addresses                                                               *)

addr_sub(p, q) == LET d == (p - q) % Space IN IF p > d THEN d ELSE 0
addr_add(p, q) == LET s == (p + q) % Space IN IF p < s THEN s ELSE Space - 1
addr_max(p, q) == IF p > q THEN p ELSE q

ALIGN(p) == p - (p % PageSize)

prev_page(p) ==
    LET ret == (ALIGN(p) - PageSize) % Space
    IN  IF ret <= ALIGN(p) THEN ret ELSE ALIGN(p)

next_page(p) ==
    LET ret == (ALIGN(p) + PageSize) % Space
    IN  IF ret >= ALIGN(p) THEN ret ELSE ALIGN(p)

min_page_addr(position) == next_page(addr_sub(position, alloc_range))
max_page_addr(position) == prev_page(addr_add(position, alloc_range))

\* llabs of the difference as a signed number: the shorter way around.
Distance(p, q) == LET d == (p - q) % Space IN IF 2 * d < Space THEN d ELSE Space - d

---------------------------------------------------------------------------
(* The layout of the process                                               *)

\* Neighbouring pages of one mapping; the arena's own pages are anonymous
\* mappings and become one region when their permissions are the same.
Same(f, g) == memory[f].name = memory[g].name /\ memory[f].exec = memory[g].exec

LastOf(f) == CHOOSE g \in f .. NumPages - 1 :
                /\ \A h \in f .. g : Same(f, h)
                /\ g = NumPages - 1 \/ ~Same(f, g + 1)

\* GetProcessMemoryLayout: the regions, each by the frame it begins at; they
\* are taken in the order of their addresses.
GetProcessMemoryLayout ==
    {f \in Frames : memory[f] # Unmapped /\ (f = 0 \/ ~Same(f - 1, f))}

region_start(f) == f * PageSize
region_end(f) == (LastOf(f) + 1) * PageSize
Before(f) == {g \in GetProcessMemoryLayout : g < f}
After(f) == {g \in GetProcessMemoryLayout : g > f}

---------------------------------------------------------------------------
(* search_near_blank_page                                                  *)

\* The steps of the search: the first region, the last region, and in the
\* loop the left and the right of each region.
SearchSteps == {"first", "last", "left", "right"}

\* The address that is passed to OSMemory::Allocate in this step, if any.
Tried ==
    LET min == min_page_addr(request.position)
        max == max_page_addr(request.position)
        f == request.region
        Inside == region_end(f) < max /\ region_start(f) >= min
        prev_region_end == next_page(region_end(Max(Before(f))))
    IN  CASE /\ request.pc = "first"
             /\ min < region_start(Min(GetProcessMemoryLayout)) -> {request.assumePageAddr}
          [] /\ request.pc = "last"
             /\ max < region_end(Max(GetProcessMemoryLayout)) -> {request.assumePageAddr}
          [] /\ request.pc = "left" /\ Inside
             /\ Before(f) # {} /\ request.assumePageAddr = min
             /\ region_start(f) > prev_region_end -> {addr_max(min, prev_region_end)}
          [] /\ request.pc = "right" /\ Inside
             /\ After(f) # {}
             /\ region_end(f) < region_start(Min(After(f))) -> {next_page(region_end(f))}
          [] OTHER -> {}

\* The step after it; behind the last region there is no blank page.
Onwards ==
    CASE request.pc = "first" -> [request EXCEPT !.pc = "last"]
      [] request.pc = "last" ->
            [request EXCEPT !.pc = "left", !.region = Min(GetProcessMemoryLayout)]
      [] request.pc = "left" -> [request EXCEPT !.pc = "right"]
      [] request.pc = "right" ->
            IF After(request.region) = {} THEN [request EXCEPT !.pc = "zeros"]
            ELSE [request EXCEPT !.pc = "left", !.region = Min(After(request.region))]

---------------------------------------------------------------------------
(* AllocateChunk                                                           *)

Begin(position, size, permission) ==
    /\ request.pc = "none"
    /\ Len(chunks) < MaxChunks
    /\ request' = [NoRequest EXCEPT !.pc = "list", !.position = position, !.size = size,
                                    !.permission = permission]
    /\ UNCHANGED <<memory, page_chunks, chunks>>

\* Mutant: the room left in the page is not looked at.
FitsFull(i) ==
    /\ i \in DOMAIN page_chunks
    /\ page_chunks[i].permission = request.permission
    /\ Distance(page_chunks[i].cursor, request.position) < alloc_range

\* Mutant: the distance of the page is not looked at.
FitsAnywhere(i) ==
    /\ i \in DOMAIN page_chunks
    /\ page_chunks[i].permission = request.permission
    /\ page_chunks[i].cursor + request.size < page_chunks[i].address + PageSize

\* Page i of the list is near enough and has room.
Fits(i) ==
    /\ i \in DOMAIN page_chunks
    /\ page_chunks[i].permission = request.permission
    /\ Distance(page_chunks[i].cursor, request.position) < alloc_range
    /\ page_chunks[i].cursor + request.size < page_chunks[i].address + PageSize

\* The first such page gives the chunk.
TakeFromPage ==
    /\ request.pc = "list"
    /\ \E i \in DOMAIN page_chunks :
        /\ Fits(i)
        /\ \A j \in 1 .. i - 1 : ~Fits(j)
        /\ chunks' = Append(chunks, [address |-> page_chunks[i].cursor, size |-> request.size,
                                     position |-> request.position, page |-> i])
        /\ page_chunks' = [page_chunks EXCEPT ![i].cursor = @ + request.size]
    /\ request' = NoRequest
    /\ UNCHANGED memory

\* No page fits: a blank page is looked for, if the layout is not empty
\* (assert).
SearchNearBlankPage ==
    /\ request.pc = "list"
    /\ ~\E i \in DOMAIN page_chunks : Fits(i)
    /\ GetProcessMemoryLayout # {}
    /\ request' = [request EXCEPT !.pc = "first",
                                  !.assumePageAddr = min_page_addr(request.position)]
    /\ UNCHANGED <<memory, page_chunks, chunks>>

\* Mutant: the page is mapped and not pushed.
ForgetsPush ==
    /\ \E address \in Tried :
        memory' = [memory EXCEPT ![address \div PageSize] =
            [name |-> "near", exec |-> request.permission = "rx", page |-> 0]]
    /\ request' = [request EXCEPT !.pc = "list"]
    /\ UNCHANGED <<page_chunks, chunks>>

\* A page is mapped with MAP_FIXED, replacing what is there, and pushed; then
\* the list is searched once more.
PushPage ==
    /\ \E address \in Tried :
        /\ memory' = [memory EXCEPT ![address \div PageSize] =
                [name |-> "near", exec |-> request.permission = "rx",
                 page |-> Len(page_chunks) + 1]]
        /\ page_chunks' = Append(page_chunks, [address |-> address, cursor |-> address,
                                               permission |-> request.permission])
    /\ request' = [request EXCEPT !.pc = "list"]
    /\ UNCHANGED chunks

\* OSMemory::Allocate fails: the search goes on.
AllocateFails ==
    /\ \E address \in Tried : request' = [Onwards EXCEPT !.assumePageAddr = address]
    /\ "mmap" \in Failures
    /\ UNCHANGED <<memory, page_chunks, chunks>>

\* Nothing is blank here.
SearchGoesOn ==
    /\ request.pc \in SearchSteps
    /\ Tried = {}
    /\ request' = Onwards
    /\ UNCHANGED <<memory, page_chunks, chunks>>

\* No blank page: data memory is not to be had, code memory is taken from a
\* run of zeros in an executable region within the range (what is zero is
\* not modelled), if there is one.
NoBlankPage ==
    /\ request.pc = "zeros"
    /\ \/ UNCHANGED chunks
       \/ /\ request.permission = "rx"
          /\ \E f \in GetProcessMemoryLayout :
                /\ memory[f].exec
                /\ region_end(f) <= max_page_addr(request.position)
                /\ region_start(f) >= min_page_addr(request.position)
                /\ \E address \in region_start(f) + 1 .. region_end(f) - request.size :
                    chunks' = Append(chunks, [address |-> address, size |-> request.size,
                                              position |-> request.position, page |-> 0])
    /\ request' = NoRequest
    /\ UNCHANGED <<memory, page_chunks>>

AllocateChunk ==
    \/ TakeFromPage \/ SearchNearBlankPage
    \/ PushPage \/ AllocateFails \/ SearchGoesOn \/ NoBlankPage

Next ==
    \/ \E p \in Positions, s \in Sizes, m \in Permissions : Begin(p, s, m)
    \/ AllocateChunk

Spec == Init /\ [][Next]_vars /\ WF_vars(AllocateChunk)

---------------------------------------------------------------------------
(* Properties                                                              *)

\* What the variables range over; a cursor never leaves its page.
TypeOK ==
    /\ \A f \in Frames : memory[f].page \in 0 .. Len(page_chunks)
    /\ \A i \in DOMAIN page_chunks :
        /\ page_chunks[i].address \in {f * PageSize : f \in Frames}
        /\ page_chunks[i].cursor - page_chunks[i].address \in 0 .. PageSize - 1
        /\ page_chunks[i].permission \in Permissions
    /\ Len(chunks) \in 0 .. MaxChunks
    /\ request.pc \in {"none", "list", "zeros"} \cup SearchSteps

\* A branch adds a signed offset of its range to the program counter, which
\* wraps around.
Reaches(from, to) == \E offset \in -alloc_range .. alloc_range - 1 : (from + offset) % Space = to

\* The branch at the position reaches every chunk allocated for it: from pages
\* mapped for other positions, at the other end of the address space too, and
\* from runs of zeros.
ChunksInRange == \A k \in DOMAIN chunks : Reaches(chunks[k].position, chunks[k].address)

\* A page that has been pushed is found when the list is searched once more:
\* AllocateChunk returns (under weak fairness of its thread) and does not map
\* page after page.
AllocationReturns == request.pc # "none" ~> request.pc = "none"

\* A page found by search_near_blank_page was blank: nothing that was mapped,
\* and no page of the arena itself, is replaced.
OnlyBlankPages ==
    [][\A f \in Frames : memory[f] # Unmapped => memory'[f] = memory[f]]_vars
===========================================================================
