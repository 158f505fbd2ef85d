------------------------------- MODULE MCList -------------------------------
\* List with three objects, which may be added repeatedly: a list of three
\* nodes is the shortest with a middle.  It starts with no reserved node, with
\* one or with two, and grows by two.  Objects are interchangeable and no
\* liveness is checked.
EXTENDS List, TLC

ObjectSymmetry == Permutations(Object)
=============================================================================
