------------------------------ MODULE ListSpec ------------------------------
(***************************************************************************)
(* What list.h promises, without nodes or reserved memory: a sequence of   *)
(* objects that grows at its end, loses the first occurrence of an object, *)
(* and is searched and visited from its beginning.                         *)
(***************************************************************************)
EXTENDS Sequences, SequencesExt, FiniteSetsExt, Naturals

CONSTANTS Object, NULL

VARIABLES
  list,      \* the objects, in the order in which they were added
  answer     \* what the last call gave its caller

spec == <<list, answer>>

\* add and remove give their caller nothing.
Nothing == [found |-> NULL]

Init == list = << >> /\ answer = Nothing

Add(o) == list' = Append(list, o) /\ answer' = Nothing

Withdraw(o) ==
  /\ \E i \in DOMAIN list : list[i] = o
  /\ list' = RemoveFirst(list, o)
  /\ answer' = Nothing

\* The first object the compare block accepts.
Find(accepted) ==
  /\ LET hits == {i \in DOMAIN list : list[i] \in accepted}
     IN answer' = [found |-> IF hits = {} THEN NULL ELSE list[Min(hits)]]
  /\ UNCHANGED list

\* The iterate block sees every object once, in order.
Iterate == answer' = [visited |-> list] /\ UNCHANGED list

IsEmpty == answer' = [empty |-> list = << >>] /\ UNCHANGED list

Next ==
  \/ \E o \in Object : Add(o) \/ Withdraw(o)
  \/ \E accepted \in SUBSET Object : Find(accepted)
  \/ Iterate \/ IsEmpty

Spec == Init /\ [][Next]_spec
=============================================================================
