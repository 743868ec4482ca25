---------------------------- MODULE MCFat ----------------------------
\* Fat for TLC: no task differs from another, nor a name from another.
EXTENDS Fat, TLC

Alike == {p @@ q : p \in Permutations(Tasks), q \in Permutations(Names)}
======================================================================
