---------------------------- MODULE AssemblyText ----------------------------
(***************************************************************************)
(* What the assembler and the code builder promise together: the words a   *)
(* client asks for are kept in order, and when it is done they are stored  *)
(* with every literal load reaching the data of its label, in memory that  *)
(* nobody writes again.  No buffer, no growth, no lists, no addresses.     *)
(***************************************************************************)
EXTENDS Integers, Sequences

VARIABLES
    text,    \* the words asked for so far; a load names its label
    store,   \* the finished pieces of code, in order
    broken   \* an allocation has failed: nothing is promised any more

vars == <<text, store, broken>>

Init ==
    /\ text = <<>>
    /\ store = <<>>
    /\ broken = FALSE

\* Word j is the first word of the data of the label that load i names.
IsDataOf(t, i, j) == t[j].op = "data" /\ t[j].label = t[i].label /\ t[j].k = 1

\* Every load finds the data of its label in the text.
HasData(t) ==
    \A i \in DOMAIN t : t[i].op = "ldr" => \E j \in DOMAIN t : IsDataOf(t, i, j)

\* The code with the distance to its data, in words, put into every load.
Linked(t) ==
    [i \in DOMAIN t |->
        IF t[i].op = "ldr"
        THEN [t[i] EXCEPT !.k = (CHOOSE j \in DOMAIN t : IsDataOf(t, i, j)) - i]
        ELSE t[i]]

\* Words are added at the end, those that are there stay.
Write ==
    /\ Len(text') > Len(text)
    /\ SubSeq(text', 1, Len(text)) = text
    /\ UNCHANGED store

\* The code is stored behind what is stored already.
Finish ==
    /\ HasData(text)
    /\ store' = Append(store, Linked(text))
    /\ text' = <<>>

\* No memory for the code: it is given up.
GiveUp ==
    /\ text' = <<>>
    /\ UNCHANGED store

Next == broken' \/ (~broken /\ UNCHANGED broken /\ (Write \/ Finish \/ GiveUp))

Spec == Init /\ [][Next]_vars
=============================================================================
