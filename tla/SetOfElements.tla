--------------------------- MODULE SetOfElements ---------------------------
(***************************************************************************)
(* What EnumerableSet promises: a set, and operations that tell whether    *)
(* they changed it.                                                        *)
(***************************************************************************)
CONSTANT Element

VARIABLES elements, answer

Init == elements = {} /\ answer = <<>>

Insert(x) ==
  /\ answer' = <<"add", x, x \notin elements>>
  /\ elements' = elements \cup {x}

Delete(x) ==
  /\ answer' = <<"remove", x, x \in elements>>
  /\ elements' = elements \ {x}

Next == \E x \in Element : Insert(x) \/ Delete(x)

Spec == Init /\ [][Next]_<<elements, answer>>
=============================================================================
