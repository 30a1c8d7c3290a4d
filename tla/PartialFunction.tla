-------------------------- MODULE PartialFunction --------------------------
(***************************************************************************)
(* What EnumerableMap promises: a function on the keys that are present.   *)
(***************************************************************************)
CONSTANTS Key, Value

VARIABLES entries, answer

Without(k) == [j \in DOMAIN entries \ {k} |-> entries[j]]

Init == entries = [k \in {} |-> k] /\ answer = <<>>

Put(k, v) ==
  /\ answer' = <<"set", k, v, k \notin DOMAIN entries>>
  /\ entries' = [j \in DOMAIN entries \cup {k} |-> IF j = k THEN v ELSE entries[j]]

Drop(k) ==
  /\ answer' = <<"remove", k, k \in DOMAIN entries>>
  /\ entries' = Without(k)

Next == \E k \in Key : Drop(k) \/ \E v \in Value : Put(k, v)

Spec == Init /\ [][Next]_<<entries, answer>>
=============================================================================
