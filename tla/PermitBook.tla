----------------------------- MODULE PermitBook -----------------------------
(***************************************************************************)
(* What a signed permit promises its owner, without hashes, recovery or a  *)
(* replay check: signatures are vouchers, numbered by their owner.  A      *)
(* voucher that is redeemed is gone, and its rivals of the same number     *)
(* with it.                                                                *)
(***************************************************************************)
EXTENDS Integers

CONSTANTS
  Accounts, ZeroAddress,
  Direct  \* the amounts owners approve, or add to an approval, themselves

VARIABLES
  open,      \* the vouchers that may still be redeemed, some day
  next,      \* the number each owner's next redeemed voucher has
  time,
  allowance  \* allowance[o][s]: what s may spend for o

book == <<open, next, time, allowance>>

Init ==
  /\ open = {}
  /\ next = [a \in Accounts |-> 0]
  /\ time = 0
  /\ allowance = [a \in Accounts |-> [b \in Accounts |-> 0]]

Issue ==
  /\ \E voucher \in open' : open' = open \cup {voucher}
  /\ UNCHANGED <<next, time, allowance>>

Redeem(voucher) ==
  /\ voucher.nonce = next[voucher.owner]
  /\ voucher.spender # ZeroAddress
  /\ time <= voucher.deadline
  /\ open' = {v \in open : v.owner = voucher.owner => v.nonce > voucher.nonce}
  /\ next' = [next EXCEPT ![voucher.owner] = voucher.nonce + 1]
  /\ allowance' = [allowance EXCEPT ![voucher.owner][voucher.spender] = voucher.value]
  /\ UNCHANGED time

\* Approving or spending on the chain, at most one allowance at a time.
Use(owner, spender) ==
  /\ \A o, s \in Accounts :
        <<o, s>> # <<owner, spender>> => allowance'[o][s] = allowance[o][s]
  /\ \/ allowance'[owner][spender] <= allowance[owner][spender]
     \/ allowance'[owner][spender] \in Direct
     \/ allowance'[owner][spender] - allowance[owner][spender] \in Direct
  /\ UNCHANGED <<open, next, time>>

Pass == time' > time /\ UNCHANGED <<open, next, allowance>>

Next ==
  \/ Issue
  \/ \E voucher \in open : Redeem(voucher)
  \/ \E o, s \in Accounts : Use(o, s)
  \/ Pass

Spec == Init /\ [][Next]_book
=============================================================================
