-------------------------- MODULE MCTerminalSession --------------------------
EXTENDS TerminalSession, TLC
CONSTANTS c1, c2, c3, h1, u1, u2
MCUserOf == [a \in Actors |-> IF a = c3 THEN u2 ELSE u1]
MCSymmetry == Permutations(Sessions)
=============================================================================
