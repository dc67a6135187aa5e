------------------------ MODULE MCNearMemoryArena ------------------------
EXTENDS NearMemoryArena

Region(first, last, name, exec) == [first |-> first, last |-> last, name |-> name, exec |-> exec]

\* Libraries at every place, with gaps of every length, and a stack that is
\* the last region or not.
Libraries ==
    {{Region(f, f + 1, "lib", TRUE)} \cup more :
        f \in 1 .. 5, more \in {{}, {Region(0, 0, "low", FALSE)}, {Region(9, 9, "stack", FALSE)},
                               {Region(8, 8, "heap", FALSE), Region(9, 9, "stack", FALSE)}}}

\* A library with another one at the far end of the range, and a stack.
Crowded == {{Region(1, 2, "other", TRUE), Region(5, 6, "lib", TRUE),
             Region(9, 9, "stack", FALSE)}}

\* One free page between two libraries.
Gaps == {{Region(0, 1, "low", FALSE), Region(2, 3, "lib", TRUE), Region(5, 6, "other", TRUE)}}
==========================================================================
