------------------------------- MODULE ERC20 -------------------------------
(***************************************************************************)
(* The internal functions of OpenZeppelin's ERC20 base contract, written   *)
(* as operators on contract storage.  A storage t is a record that has at  *)
(* least the fields                                                        *)
(*    balances     the mapping _balances,                                  *)
(*    totalSupply  the counter _totalSupply,                               *)
(*    allowances   the mapping _allowances, owner first.                   *)
(* Each function that can revert is a pair: CanF states the conditions its *)
(* require statements and checked arithmetic impose, F is the storage it   *)
(* leaves behind.  A transaction whose CanF fails is rolled back by the    *)
(* EVM, so it is no step at all.                                           *)
(***************************************************************************)
EXTENDS Integers

CONSTANTS
  Accounts,     \* every non-zero address that takes part
  ZeroAddress,  \* address(0)
  MaxUint       \* type(uint256).max

Addresses == Accounts \cup {ZeroAddress}

Uint == 0 .. MaxUint

\* The value an unchecked block stores: arithmetic modulo 2^256.
Unchecked(x) == x % (MaxUint + 1)
-----------------------------------------------------------------------------
CanMint(t, account, amount) ==
  /\ account # ZeroAddress
  /\ t.totalSupply + amount \in Uint

Mint(t, account, amount) ==
  [t EXCEPT !.totalSupply = @ + amount,
            !.balances[account] = Unchecked(@ + amount)]

CanBurn(t, account, amount) ==
  /\ account # ZeroAddress
  /\ t.balances[account] >= amount

Burn(t, account, amount) ==
  [t EXCEPT !.balances[account] = @ - amount,
            !.totalSupply = Unchecked(@ - amount)]

\* MUTANT: _transfer without its balance check.
CanOverdraw(t, from, to, amount) ==
  /\ from # ZeroAddress
  /\ to # ZeroAddress

CanMove(t, from, to, amount) ==
  /\ from # ZeroAddress
  /\ to # ZeroAddress
  /\ t.balances[from] >= amount

\* MUTANT: the receiver's balance is read before the sender is debited.
MoveFromCache(t, from, to, amount) ==
  LET debited == [t EXCEPT !.balances[from] = @ - amount]
  IN  [debited EXCEPT !.balances[to] = Unchecked(t.balances[to] + amount)]

\* _transfer debits the sender first and credits the receiver's balance as it
\* is after that: a transfer to oneself changes nothing.
Move(t, from, to, amount) ==
  LET debited == [t EXCEPT !.balances[from] = @ - amount]
  IN  [debited EXCEPT !.balances[to] = Unchecked(@ + amount)]
-----------------------------------------------------------------------------
Approve(t, owner, spender, amount) ==
  [t EXCEPT !.allowances[owner][spender] = amount]

CanSpendAllowance(t, owner, spender, amount) ==
  t.allowances[owner][spender] >= amount

\* An allowance of type(uint256).max is infinite and is never reduced.
SpendAllowance(t, owner, spender, amount) ==
  IF t.allowances[owner][spender] = MaxUint
  THEN t
  ELSE Approve(t, owner, spender, t.allowances[owner][spender] - amount)
=============================================================================
