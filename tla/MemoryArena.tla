---------------------------- MODULE MemoryArena ----------------------------
(***************************************************************************)
(* MemoryArena: the memory of relocated code, closure trampolines and      *)
(* bridges.  Chunks are cut one after the other from pages of the right    *)
(* permission; nothing is ever given back.  An address is a frame of       *)
(* the address space together with an offset in it.                        *)
(***************************************************************************)
EXTENDS Integers, Sequences

CONSTANTS
    PageSize,
    Frames,     \* the pages mmap may return
    Sizes,      \* the sizes asked for, the extra word of the builder included
    MaxChunks   \* bound on the number of chunks

ASSUME ArenaAssumption ==
    /\ PageSize \in Nat \ {0}
    /\ Sizes \subseteq 1 .. PageSize
    /\ MaxChunks \in Nat

VARIABLES
    page_chunks,  \* the list of pages: frame, permission, cursor
    chunks,       \* the chunks handed out: page, offset, length, permission
    failed        \* AllocateChunk has returned NULL

vars == <<page_chunks, chunks, failed>>

Init ==
    /\ page_chunks = <<>>
    /\ chunks = <<>>
    /\ failed = FALSE

\* Mutant: the size of the chunk is left out of the comparison.
HasAnyRoom(i, alloc_size, permission) ==
    /\ page_chunks[i].permission = permission
    /\ page_chunks[i].cursor < PageSize

\* Page i has the permission and room for the chunk: a chunk that would fill
\* the page to its end does not fit.
HasRoom(i, alloc_size, permission) ==
    /\ page_chunks[i].permission = permission
    /\ page_chunks[i].cursor + alloc_size < PageSize

\* The first page with room.
FirstWithRoom(i, alloc_size, permission) ==
    /\ i \in DOMAIN page_chunks
    /\ HasRoom(i, alloc_size, permission)
    /\ \A j \in 1 .. i - 1 : ~HasRoom(j, alloc_size, permission)

Chunk(i, offset, length, permission) ==
    [page |-> i, offset |-> offset, length |-> length, permission |-> permission]

TakeFromPage(alloc_size, permission) ==
    \E i \in DOMAIN page_chunks :
        /\ FirstWithRoom(i, alloc_size, permission)
        /\ chunks' = Append(chunks, Chunk(i, page_chunks[i].cursor, alloc_size, permission))
        /\ page_chunks' = [page_chunks EXCEPT ![i].cursor = @ + alloc_size]
        /\ UNCHANGED failed

\* Mutant: the cursor of a new page is left at its start.
TakeFromNewPageAgain(alloc_size, permission) ==
    /\ ~\E i \in DOMAIN page_chunks : HasRoom(i, alloc_size, permission)
    /\ \E f \in Frames :
        /\ \A i \in DOMAIN page_chunks : page_chunks[i].frame # f
        /\ page_chunks' = Append(page_chunks, [frame |-> f, permission |-> permission, cursor |-> 0])
    /\ chunks' = Append(chunks, Chunk(Len(page_chunks) + 1, 0, alloc_size, permission))
    /\ UNCHANGED failed

\* OSMemory::Allocate(NULL, ...) returns a frame that is not in use.  The new
\* page is not compared with the size.
TakeFromNewPage(alloc_size, permission) ==
    /\ ~\E i \in DOMAIN page_chunks : HasRoom(i, alloc_size, permission)
    /\ \E f \in Frames :
        /\ \A i \in DOMAIN page_chunks : page_chunks[i].frame # f
        /\ page_chunks' = Append(page_chunks, [frame |-> f, permission |-> permission,
                                               cursor |-> alloc_size])
    /\ chunks' = Append(chunks, Chunk(Len(page_chunks) + 1, 0, alloc_size, permission))
    /\ UNCHANGED failed

\* The allocation of the page fails.
ReturnNull(alloc_size, permission) ==
    /\ ~\E i \in DOMAIN page_chunks : HasRoom(i, alloc_size, permission)
    /\ failed' = TRUE
    /\ UNCHANGED <<page_chunks, chunks>>

AllocateChunk(alloc_size, permission) ==
    /\ Len(chunks) < MaxChunks
    /\ \/ TakeFromPage(alloc_size, permission)
       \/ TakeFromNewPage(alloc_size, permission)
       \/ ReturnNull(alloc_size, permission)

AllocateCodeChunk(alloc_size) == AllocateChunk(alloc_size, "rx")
AllocateDataChunk(alloc_size) == AllocateChunk(alloc_size, "rw")

Next == \E s \in Sizes : AllocateCodeChunk(s) \/ AllocateDataChunk(s)

Spec == Init /\ [][Next]_vars

---------------------------------------------------------------------------
(* Properties                                                              *)

\* What the variables range over.
TypeOK ==
    /\ page_chunks \in Seq([frame : Frames, permission : {"rx", "rw"}, cursor : 0 .. PageSize])
    /\ chunks \in Seq([page : 1 .. Len(page_chunks), offset : 0 .. PageSize,
                       length : 1 .. PageSize, permission : {"rx", "rw"}])
    /\ failed \in BOOLEAN

Frame(c) == page_chunks[c.page].frame

\* A chunk belongs to the one it was handed to, for ever: no two chunks share
\* a word, whatever sizes and permissions are asked for.
ChunksDisjoint ==
    \A k, l \in DOMAIN chunks :
        k # l => \/ Frame(chunks[k]) # Frame(chunks[l])
                 \/ chunks[k].offset + chunks[k].length <= chunks[l].offset
                 \/ chunks[l].offset + chunks[l].length <= chunks[k].offset

\* A chunk lies in one page of its own permission.  CodePatch, which writes the
\* code, makes only the page of the first word writable.
ChunksInOnePage ==
    \A k \in DOMAIN chunks :
        /\ chunks[k].offset + chunks[k].length <= PageSize
        /\ page_chunks[chunks[k].page].permission = chunks[k].permission
===========================================================================
