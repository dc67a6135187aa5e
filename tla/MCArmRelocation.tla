-------------------------- MODULE MCArmRelocation --------------------------
(* Functions for ArmRelocation.                                            *)
EXTENDS ArmRelocation, TLC

Insn(op, size, off, rt, state) ==
    [op |-> op, size |-> size, off |-> off, rt |-> rt, thumb |-> state]
T1(op, off) == Insn(op, 2, off, "r", TRUE)
T2(op, off) == Insn(op, 4, off, "r", TRUE)
A(op, off, rt) == Insn(op, 4, off, rt, FALSE)

Thumbs == {T1("plain1", 0), T1("hireg", 0), T1("ldr1", 12), T1("b1", 20), T1("bcond1", 30),
           T2("plain2", 0), T2("bw", -40), T2("bl", 16), T2("blx", -40), T2("ldr2", -40)}
Arms == {A("plainA", 0, "r"), A("ldrA", 16, "r"), A("ldrA", -40, "r"), A("ldrA", 0, "pc"),
         A("adrA", 8, "r"), A("adrA", -40, "r")}

\* All functions that cover the bytes from address a to b.
Covers(a, b, insns) ==
    LET from[c \in a .. b + 2] ==
            IF c >= b THEN {<<>>}
            ELSE UNION {{(c :> i) @@ rest : rest \in from[c + i.size]} : i \in insns}
    IN  from[a]

\* The ones that do not end a function, for functions that start between two
\* words.
Straight == {i \in Thumbs : i.op \notin {"b1", "bw", "plain2"}}

MCImages == Covers(100, 108, Thumbs) \cup Covers(102, 112, Straight) \cup Covers(100, 108, Arms)
=============================================================================
