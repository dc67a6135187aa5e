----------------------------- MODULE MCLuaHook -----------------------------
EXTENDS LuaHook

CONSTANTS t1, t2, a, b, c

Plain(f) == [base |-> f, slash |-> FALSE]
Slashed(f) == [base |-> f, slash |-> TRUE]

\* a has a modified file, b has an empty one, c is not dumped.
MCNames == {Plain(a), Plain(b), Plain(c)}
MCMods == [f \in {a, b, c} |->
    CASE f = a -> "text" [] f = b -> "empty" [] f = c -> "none"]

\* The first script is loaded under two names.
TwoSpellings == MCNames \cup {Slashed(a)}

\* One script only.
OneName == {Plain(a)}
NoMod == [f \in {a} |-> "none"]

\* Both are the same script.
MCLength(n) == 1
===========================================================================
