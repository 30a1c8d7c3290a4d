--------------------------- MODULE MigrationDesk ---------------------------
(***************************************************************************)
(* What the Migrator promises those who fund it: CASH leaves its reserve   *)
(* only against listed tokens, at terms that are set once and hold for     *)
(* good.  Nothing here is pending, nested or called back.                  *)
(***************************************************************************)
EXTENDS Integers

CONSTANT Tokens

VARIABLES
  reserve,  \* the CASH it can pay
  terms,    \* terms[t]: ratio CASH for every unit of t; ratio 0: not listed
  takings   \* takings[t]: the tokens t it has taken

desk == <<reserve, terms, takings>>

Init ==
  /\ reserve = 0
  /\ terms = [t \in Tokens |-> [ratio |-> 0, unit |-> 1]]
  /\ takings = [t \in Tokens |-> 0]

List(t) ==
  /\ terms[t].ratio = 0
  /\ terms'[t].ratio > 0
  /\ \A other \in Tokens \ {t} : terms'[other] = terms[other]
  /\ UNCHANGED <<reserve, takings>>

\* Neither side is short-changed by a base unit of what it receives.
Migrate(t) ==
  LET taken == takings'[t] - takings[t]
      paid  == reserve - reserve'
  IN  /\ terms[t].ratio > 0
      /\ taken >= 0 /\ paid >= 0
      /\ paid * terms[t].unit < (taken + 1) * terms[t].ratio
      /\ taken * terms[t].ratio < (paid + 1) * terms[t].unit
      /\ \A other \in Tokens \ {t} : takings'[other] = takings[other]
      /\ UNCHANGED terms

\* Somebody sends CASH, or inflation accrues.
Fund ==
  /\ reserve' > reserve
  /\ UNCHANGED <<terms, takings>>

Next == Fund \/ \E t \in Tokens : List(t) \/ Migrate(t)

Spec == Init /\ [][Next]_desk
=============================================================================
