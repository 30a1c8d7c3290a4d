---------------------------- MODULE CashPermit ----------------------------
(***************************************************************************)
(* CyberCash with the permit function it inherits from ERC20Permit: an     *)
(* owner signs an approval off the chain and anybody submits it.  A        *)
(* signature is out of the owner's hands: it may be submitted late, twice, *)
(* after others, or never, and racing the owner's own transactions.        *)
(*                                                                         *)
(* Signatures are perfect: recover returns owner for a message exactly if  *)
(* the owner has signed that message.                                      *)
(***************************************************************************)
EXTENDS CyberCash

CONSTANTS
  Signers,       \* the accounts that sign permits
  SignedValues,  \* the allowances they sign for
  MaxNonce,      \* bound: the largest nonce signed for
  MaxSigned      \* bound: how many messages are signed

ASSUME PermitAssumption ==
  /\ Signers \subseteq Accounts
  /\ SignedValues \subseteq Uint
  /\ MaxNonce \in Nat
  /\ MaxSigned \in Nat

VARIABLES
  nonces,  \* nonces[a]: the number the next permit of account a must carry
  signed   \* the messages signed so far

permitVars == <<cash, now, nonces, signed>>

Message ==
  [ owner : Accounts, spender : Addresses, value : Uint,
    nonce : 0 .. MaxNonce, deadline : 0 .. MaxTime ]

PermitTypeOK ==
  /\ TypeOK
  /\ nonces \in [Accounts -> 0 .. MaxNonce + 1]
  /\ signed \subseteq Message

PermitInit ==
  /\ Init
  /\ nonces = [a \in Accounts |-> 0]
  /\ signed = {}

\* An owner signs for any nonce, ahead of time too, and may sign rivals for
\* one nonce.
Sign(message) ==
  /\ Cardinality(signed) < MaxSigned
  /\ signed' = signed \cup {message}
  /\ UNCHANGED <<cash, now, nonces>>

\* MUTANT: the nonce is read but not incremented.
readNonce(owner) == nonces

useNonce(owner) == [nonces EXCEPT ![owner] = @ + 1]

recovers(owner, spender, value, deadline) ==
  [owner |-> owner, spender |-> spender, value |-> value,
   nonce |-> nonces[owner], deadline |-> deadline] \in signed

permit(owner, spender, value, deadline) ==
  /\ now <= deadline
  /\ recovers(owner, spender, value, deadline)
  /\ spender # ZeroAddress
  /\ nonces' = useNonce(owner)
  /\ cash' = Approve(cash, owner, spender, value)
  /\ UNCHANGED <<now, signed>>

PermitNext ==
  \/ \E o \in Signers, s \in Spenders, v \in SignedValues,
        n \in 0 .. MaxNonce, d \in 0 .. MaxTime :
       Sign([owner |-> o, spender |-> s, value |-> v, nonce |-> n, deadline |-> d])
  \/ \E o \in Accounts, s \in Spenders, v \in SignedValues, d \in 0 .. MaxTime :
       permit(o, s, v, d)
  \/ Next /\ UNCHANGED <<nonces, signed>>

PermitSpec == PermitInit /\ [][PermitNext]_permitVars
-----------------------------------------------------------------------------
(* Properties. *)

\* The signatures of an owner are a book of vouchers: each is redeemed at most
\* once and in the order of their numbers, and redeeming one voids its rivals.
\* Apart from that only an owner's own approval raises an allowance.
Book == INSTANCE PermitBook WITH
  Direct <- Approvals,
  open <- {m \in signed : m.nonce >= nonces[m.owner]},
  next <- nonces,
  time <- now,
  allowance <- cash.allowances

ImplementsBook == Book!Spec
=============================================================================
