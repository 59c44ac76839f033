------------------------------ MODULE MCLoops ------------------------------
\* Small instances of LoopCommands: two loops, two keys, and lists of
\* references of which one names a message twice.
EXTENDS LoopCommands, TLC

CONSTANTS e1

MCEvidenceLists == {<<>>, <<e1>>, <<e1, e1>>}

\* A bound on the transitions of both loops together.  TLC also takes every
\* step from a state at the bound, and checks what it leads to.
CONSTANT MaxTransitions
FewTransitions ==
    \A l, m \in Loops : l # m => Len(log[l]) + Len(log[m]) <= MaxTransitions

Symmetric == Permutations(Loops) \cup Permutations(Keys)
=============================================================================
