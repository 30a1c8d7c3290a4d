------------------------- MODULE CashPermit_proofs -------------------------
(***************************************************************************)
(* CyberCash with permits, for any signers, any messages and any number of *)
(* them: the token's invariant survives permits, an allowance still bounds *)
(* the loss, and signatures are vouchers that are redeemed at most once.   *)
(***************************************************************************)
EXTENDS CashPermit, CyberCashLedger_proofs

\* permit is an approval of an account in the owner's name.
LEMMA PermitApproves ==
  ASSUME IInv, NEW o \in Accounts, NEW p \in Spenders, NEW v \in SignedValues,
         NEW d, permit(o, p, v, d)
  PROVE  /\ p \in Accounts /\ v \in Uint
         /\ cash' = Approve(cash, o, p, v)
         /\ IInv'
         /\ cash'.totalBurned = cash.totalBurned
         /\ \A a \in Accounts : balanceOf(cash', a) = balanceOf(cash, a)
         /\ \A a, b \in Accounts :
              cash'.allowances[a][b] = IF a = o /\ b = p THEN v ELSE cash.allowances[a][b]
<1>1. /\ p \in Accounts /\ v \in Uint
      /\ cash' = Approve(cash, o, p, v) /\ now' = now
  BY AddressAssumption, PermitAssumption DEF permit, Addresses
<1>2. /\ Good(cash) /\ cash \in Storage /\ now \in 0 .. MaxTime /\ cash.lastMintTime <= now
  BY DEF IInv, Good
<1>3. Good(cash') /\ cash'.lastMintTime = cash.lastMintTime
  BY <1>1, <1>2, ApproveGood DEF Approve, Storage
<1>4. IInv'
  BY <1>1, <1>2, <1>3 DEF IInv
<1> QED BY <1>1, <1>2, <1>4, ApproveInvisible

\* The token's inductive invariant does not mind permits.
LEMMA PermitNextInvariant ==
  ASSUME IInv, [PermitNext]_permitVars
  PROVE  IInv'
<1>1. ASSUME NEW o \in Accounts, NEW p \in Spenders, NEW v \in SignedValues,
             NEW d \in 0 .. MaxTime, permit(o, p, v, d)
      PROVE  IInv'
  BY <1>1, PermitApproves
<1>2. CASE [Next]_vars
  BY <1>2, NextInvariant
<1>3. ASSUME NEW m, Sign(m) PROVE [Next]_vars
  BY <1>3 DEF Sign, vars
<1> QED BY <1>1, <1>2, <1>3 DEF PermitNext, permitVars, vars

\* Signing and permits leave what the token's invariant speaks of alone.
LEMMA PermitInvariance == PermitSpec => []IInv
<1>1. PermitInit => IInv
  BY InitInvariant DEF PermitInit
<1> QED BY <1>1, PermitNextInvariant, PTL DEF PermitSpec

\* Every variable, the nonces and the signed messages too, keeps its type: no
\* nonce moves past the last one signed for.
THEOREM PermitTypeCorrect == PermitSpec => []PermitTypeOK
<1> DEFINE Signatures == /\ nonces \in [Accounts -> 0 .. MaxNonce + 1]
                         /\ signed \subseteq Message
<1>1. PermitInit => Signatures
  BY PermitAssumption DEF PermitInit
<1>2. ASSUME Signatures, [PermitNext]_permitVars PROVE Signatures'
  <2>1. ASSUME NEW o \in Signers, NEW p \in Spenders, NEW v \in SignedValues,
               NEW n \in 0 .. MaxNonce, NEW d \in 0 .. MaxTime,
               Sign([owner |-> o, spender |-> p, value |-> v, nonce |-> n, deadline |-> d])
        PROVE  Signatures'
    <3>1. [owner |-> o, spender |-> p, value |-> v, nonce |-> n, deadline |-> d] \in Message
      BY AddressAssumption, PermitAssumption DEF Message
    <3> QED BY <1>2, <2>1, <3>1 DEF Sign
  <2>2. ASSUME NEW o \in Accounts, NEW p \in Spenders, NEW v \in SignedValues,
               NEW d \in 0 .. MaxTime, permit(o, p, v, d)
        PROVE  Signatures'
    <3>1. nonces[o] \in 0 .. MaxNonce
      BY <1>2, <2>2 DEF permit, recovers, Message
    <3>2. nonces[o] + 1 \in 0 .. MaxNonce + 1
      BY <3>1, PermitAssumption
    <3> QED BY <1>2, <2>2, <3>2 DEF permit, useNonce
  <2>3. CASE UNCHANGED <<nonces, signed>>
    BY <1>2, <2>3
  <2> QED BY <1>2, <2>1, <2>2, <2>3 DEF PermitNext, permitVars
<1>3. IInv => TypeOK
  BY DEF IInv, Good, TypeOK
<1>4. IInv /\ Signatures => PermitTypeOK
  BY <1>3 DEF PermitTypeOK
<1> HIDE DEF Signatures
<1>5. PermitSpec => []Signatures
  BY <1>1, <1>2, PTL DEF PermitSpec
<1> QED BY <1>4, <1>5, PermitInvariance, PTL

\* With permits too, using an allowance costs the owner no more than the
\* allowance that is used: a permit replaces one and moves no token.
THEOREM PermittedAllowanceIsTheLimit == PermitSpec => AllowanceBoundsLoss
<1>1. ASSUME IInv, IInv', [PermitNext]_permitVars PROVE [AllowanceStep]_vars
  <2>1. ASSUME NEW o \in Accounts, NEW p \in Spenders, NEW v \in SignedValues,
               NEW d \in 0 .. MaxTime, permit(o, p, v, d)
        PROVE  AllowanceStep
    BY <1>1, <2>1, PermitApproves, InvisibleStep
  <2>2. CASE [Next]_vars
    BY <1>1, <2>2, NextBounds
  <2>3. ASSUME NEW m, Sign(m) PROVE UNCHANGED vars
    BY <2>3 DEF Sign, vars
  <2> QED BY <1>1, <2>1, <2>2, <2>3 DEF PermitNext, permitVars, vars
<1> QED BY <1>1, PermitInvariance, PTL
        DEF PermitSpec, AllowanceBoundsLoss, AllowanceStep
-----------------------------------------------------------------------------
(* What permits leave as it was. *)

\* All the token promises of a state it promises with permits too: supply,
\* scores and rewards add up, and no balance is locked.
THEOREM PermitsKeepGuarantees == PermitSpec => []Guarantees
<1>1. IInv => Guarantees
  BY InvariantGuarantees
<1> QED BY <1>1, PermitInvariance, PTL

\* A step with permits is one of the token, signs a message, or changes an
\* allowance and nothing that the other promises speak of.
LEMMA PermitStepKinds ==
  ASSUME IInv, IInv', [PermitNext]_permitVars
  PROVE  \/ [Next]_vars
         \/ /\ PoolStep /\ AllowanceStep /\ now' = now
            /\ UNCHANGED Ledger!ledger
<1>0. Good(cash) /\ now \in 0 .. MaxTime /\ cash.lastMintTime <= now /\ cash \in Storage
  BY DEF IInv, Good
<1>1. ASSUME NEW o \in Accounts, NEW p \in Spenders, NEW v \in SignedValues,
             NEW d \in 0 .. MaxTime, permit(o, p, v, d)
      PROVE  /\ PoolStep /\ AllowanceStep /\ now' = now
             /\ UNCHANGED Ledger!ledger
  <2>1. /\ p \in Accounts /\ cash' = Approve(cash, o, p, v) /\ now' = now
        /\ PoolStep /\ AllowanceStep
    BY <1>1, PermitApproves, InvisibleStep DEF permit
  <2>2. /\ \A a \in Accounts : balanceOf(cash', a) = balanceOf(cash, a)
        /\ totalSupply(cash') = totalSupply(cash)
        /\ cash'.burnScore = cash.burnScore
        /\ cash'.liquidityPool = cash.liquidityPool
        /\ cash'.exemptedAddresses = cash.exemptedAddresses
    BY <1>0, <2>1, ApproveInvisible
  <2> QED BY <2>1, <2>2, StutterImplements
<1>2. ASSUME NEW m, Sign(m) PROVE [Next]_vars
  BY <1>2 DEF Sign, vars
<1> QED BY <1>1, <1>2 DEF PermitNext, permitVars, vars

\* A permit burns nothing and takes no time, so the pool keeps its buffer and
\* each second's inflation is still shared by burn score.
THEOREM PermitsKeepPoolAndShares == PermitSpec => PoolReserveKept /\ ProportionalShare
<1>1. ASSUME IInv, IInv', [PermitNext]_permitVars PROVE [PoolStep]_vars /\ [ShareStep]_vars
  <2>1. CASE [Next]_vars
    BY <1>1, <2>1, NextBounds, NextShares
  <2>2. CASE PoolStep /\ now' = now
    <3>1. ~ (now' > now)
      BY <1>1, <2>2, ParameterAssumption DEF IInv
    <3> QED BY <2>2, <3>1 DEF ShareStep
  <2> QED BY <1>1, <2>1, <2>2, PermitStepKinds
<1> QED BY <1>1, PermitInvariance, PTL
        DEF PermitSpec, PoolReserveKept, PoolStep, ProportionalShare, ShareStep

\* To those who watch balances a token with permits is the same ledger: a
\* permit shows in no balance, no score and not in the supply.
THEOREM PermitsKeepLedger == PermitSpec => ImplementsLedger
<1>1. ASSUME IInv, IInv', SupplyCoversBalances', [PermitNext]_permitVars
      PROVE  [Ledger!Next]_(Ledger!ledger)
  <2>1. CASE [Next]_vars
    BY <1>1, <2>1, StepImplements
  <2> QED BY <1>1, <2>1, PermitStepKinds
<1>2. Guarantees => SupplyCoversBalances
  BY DEF Guarantees
<1>3. PermitInit => Ledger!Init
  BY InitImplements DEF PermitInit
<1> QED BY <1>1, <1>2, <1>3, PermitInvariance, PermitsKeepGuarantees, PTL
        DEF PermitSpec, ImplementsLedger, Ledger!Spec
-----------------------------------------------------------------------------
(* The refinement. *)

\* Deployment: no voucher is out.
LEMMA PermitInitImplements == PermitInit => Book!Init
<1> SUFFICES ASSUME PermitInit PROVE Book!Init
  OBVIOUS
<1>1. /\ signed = {} /\ nonces = [a \in Accounts |-> 0] /\ now = 0
      /\ cash.allowances = [a \in Accounts |-> [b \in Accounts |-> 0]]
  BY DEF PermitInit, Init
<1> QED BY <1>1 DEF Book!Init

\* Signing issues a voucher, or one whose number has passed: that is no step.
LEMMA SignImplements ==
  ASSUME NEW m, Sign(m)
  PROVE  Book!Issue \/ UNCHANGED Book!book
<1> DEFINE open == {v \in signed : v.nonce >= nonces[v.owner]}
<1>1. /\ signed' = signed \cup {m} /\ cash' = cash /\ now' = now /\ nonces' = nonces
  BY DEF Sign
<1>2. CASE m.nonce >= nonces[m.owner]
  <2>1. open' = open \cup {m}
    BY <1>1, <1>2
  <2>2. m \in open'
    BY <2>1
  <2> QED BY <1>1, <2>1, <2>2 DEF Book!Issue
<1>3. CASE ~ (m.nonce >= nonces[m.owner])
  <2>1. open' = open
    BY <1>1, <1>3
  <2> QED BY <1>1, <2>1 DEF Book!book
<1> QED BY <1>2, <1>3

\* A permit redeems the owner's next voucher and voids its rivals.
LEMMA PermitImplements ==
  ASSUME IInv, nonces \in [Accounts -> Nat], signed \subseteq Message,
         NEW o \in Accounts, NEW p \in Spenders, NEW v \in SignedValues,
         NEW d \in 0 .. MaxTime, permit(o, p, v, d)
  PROVE  Book!Next
<1> DEFINE open == {m \in signed : m.nonce >= nonces[m.owner]}
           voucher == [owner |-> o, spender |-> p, value |-> v,
                       nonce |-> nonces[o], deadline |-> d]
<1>1. /\ now <= d /\ voucher \in signed /\ p # ZeroAddress
      /\ nonces' = [nonces EXCEPT ![o] = nonces[o] + 1]
      /\ now' = now /\ signed' = signed
  BY DEF permit, recovers, useNonce
<1>2. PICK r \in open : r = voucher
  BY <1>1
<1>3. open' = {m \in open : m.owner = r.owner => m.nonce > r.nonce}
  <2>1. ASSUME NEW m \in signed
        PROVE  m.nonce >= nonces'[m.owner]
                 <=> /\ m.nonce >= nonces[m.owner]
                     /\ m.owner = o => m.nonce > nonces[o]
    <3>1. m.owner \in Accounts /\ m.nonce \in Int
      BY PermitAssumption DEF Message
    <3>2. CASE m.owner = o
      BY <1>1, <3>1, <3>2
    <3>3. CASE m.owner # o
      BY <1>1, <3>1, <3>3
    <3> QED BY <3>2, <3>3
  <2> QED BY <1>1, <1>2, <2>1
<1>4. cash'.allowances = [cash.allowances EXCEPT ![o][p] = v]
  BY DEF permit, Approve, IInv, Good, Storage
<1>5. Book!Redeem(r)
  BY <1>1, <1>2, <1>3, <1>4 DEF Book!Redeem
<1> QED BY <1>2, <1>5 DEF Book!Next

\* A step of one allowance, up by at most what is approved, is a use of it.
LEMMA UseImplements ==
  ASSUME NEW o \in Accounts, NEW p \in Accounts,
         \A a, b \in Accounts :
           <<a, b>> # <<o, p>> => cash'.allowances[a][b] = cash.allowances[a][b],
         \/ cash'.allowances[o][p] <= cash.allowances[o][p]
         \/ cash'.allowances[o][p] \in Approvals
         \/ cash'.allowances[o][p] - cash.allowances[o][p] \in Approvals,
         UNCHANGED <<now, nonces, signed>>
  PROVE  Book!Next
<1>1. Book!Use(o, p)
  BY DEF Book!Use
<1> QED BY <1>1 DEF Book!Next

\* Every transaction of the token uses one allowance, or none.
LEMMA TokenImplements ==
  ASSUME IInv, Next, UNCHANGED <<nonces, signed>>
  PROVE  Book!Next \/ UNCHANGED Book!book
<1>0. Good(cash) /\ now \in 0 .. MaxTime /\ cash.lastMintTime <= now /\ cash \in Storage
  BY DEF IInv, Good
<1>1. ASSUME now' = now, cash'.allowances = cash.allowances
      PROVE  UNCHANGED Book!book
  BY <1>1 DEF Book!book
<1>2. ASSUME NEW c \in Accounts, NEW l \in Pools, NEW m \in Migrators, initialize(c, l, m)
      PROVE  UNCHANGED Book!book
  BY <1>0, <1>1, <1>2 DEF initialize, Storage
<1>3. ASSUME NEW f \in Accounts, NEW t \in Addresses, NEW x \in Amounts, transfer(f, t, x)
      PROVE  UNCHANGED Book!book
  <2>1. x \in Uint /\ CanSend(cash, f, t, x) /\ cash' = Send(cash, f, t, x) /\ now' = now
    BY <1>3, ParameterAssumption DEF transfer
  <2>2. cash'.allowances = cash.allowances
    BY <1>0, <2>1, SendBounds
  <2> QED BY <1>1, <2>1, <2>2
<1>4. ASSUME NEW c \in Accounts, NEW f \in Accounts, NEW t \in Addresses, NEW x \in Amounts,
             transferFrom(c, f, t, x)
      PROVE  Book!Next
  <2> DEFINE s == SpendAllowance(cash, f, c, x)
  <2>1. /\ x \in Uint /\ CanSpendAllowance(cash, f, c, x)
        /\ CanSend(s, f, t, x) /\ cash' = Send(s, f, t, x) /\ now' = now
    BY <1>4, ParameterAssumption DEF transferFrom
  <2>2. /\ Good(s) /\ s.lastMintTime <= now
        /\ \A v, w \in Accounts :
             /\ cash.allowances[v][w] - s.allowances[v][w] \in {0, x}
             /\ <<v, w>> # <<f, c>> => s.allowances[v][w] = cash.allowances[v][w]
    BY <1>0, <2>1, SpentGood
  <2> HIDE DEF s
  <2>3. cash'.allowances = s.allowances
    BY <1>0, <2>1, <2>2, SendBounds
  <2>4. cash'.allowances[f][c] <= cash.allowances[f][c]
    <3>1. /\ cash.allowances[f][c] \in Int /\ s.allowances[f][c] \in Int /\ x \in Nat
      BY <1>0, <2>1, <2>2 DEF Good, Storage, Uint
    <3> QED BY <2>2, <2>3, <3>1
  <2> QED BY <2>1, <2>2, <2>3, <2>4, UseImplements
<1>5. ASSUME NEW f \in Accounts, NEW t \in Addresses, NEW x \in Amounts,
             transferBurnScore(f, t, x)
      PROVE  UNCHANGED Book!book
  BY <1>1, <1>5, MoveScoreInvisible DEF transferBurnScore
<1>6. ASSUME NEW o \in Accounts, NEW p \in Spenders, NEW x \in Approvals,
             \/ approve(o, p, x)
             \/ increaseAllowance(o, p, x)
             \/ decreaseAllowance(o, p, x)
      PROVE  Book!Next
  <2>1. p \in Accounts /\ now' = now /\ x \in Nat /\ cash.allowances[o][p] \in Int
    BY <1>0, <1>6, AddressAssumption, ParameterAssumption
       DEF approve, increaseAllowance, decreaseAllowance, Addresses, Storage, Uint
  <2>2. PICK y : /\ cash' = Approve(cash, o, p, y)
                 /\ y \in {x, cash.allowances[o][p] + x, cash.allowances[o][p] - x}
    BY <1>6 DEF approve, increaseAllowance, decreaseAllowance
  <2>3. \A a, b \in Accounts :
          cash'.allowances[a][b] = IF a = o /\ b = p THEN y ELSE cash.allowances[a][b]
    BY <1>0, <2>1, <2>2, ApproveInvisible
  <2>4. \/ y <= cash.allowances[o][p]
        \/ y \in Approvals
        \/ y - cash.allowances[o][p] \in Approvals
    <3>1. CASE y = x
      BY <3>1
    <3>2. CASE y = cash.allowances[o][p] + x
      <4>1. y - cash.allowances[o][p] = x
        BY <2>1, <3>2
      <4> QED BY <4>1
    <3>3. CASE y = cash.allowances[o][p] - x
      BY <2>1, <3>3
    <3> QED BY <2>2, <3>1, <3>2, <3>3
  <2> QED BY <2>1, <2>3, <2>4, UseImplements
<1>7. ASSUME Tick PROVE Book!Next
  <2>1. now' > now /\ cash' = cash
    <3>1. now \in Int /\ now' \in (now + 1) .. MaxTime /\ cash' = cash
      BY <1>0, <1>7, ParameterAssumption DEF Tick
    <3> QED BY <3>1, ParameterAssumption
  <2>2. Book!Pass
    BY <2>1 DEF Book!Pass
  <2> QED BY <2>2 DEF Book!Next
<1> QED BY <1>2, <1>3, <1>4, <1>5, <1>6, <1>7 DEF Next

\* Every signature is redeemed at most once, in the order of its number, before
\* its deadline, and voids its rivals, however late and by whomever it is sent;
\* nothing else but the owner's own approvals raises an allowance.
THEOREM BookIsImplemented == PermitSpec => ImplementsBook
<1>1. ASSUME IInv, PermitTypeOK, [PermitNext]_permitVars
      PROVE  [Book!Next]_(Book!book)
  <2>1. nonces \in [Accounts -> Nat] /\ signed \subseteq Message
    BY <1>1, PermitAssumption DEF PermitTypeOK
  <2>2. ASSUME NEW m, Sign(m) PROVE [Book!Next]_(Book!book)
    BY <2>2, SignImplements DEF Book!Next
  <2>3. ASSUME NEW o \in Accounts, NEW p \in Spenders, NEW v \in SignedValues,
               NEW d \in 0 .. MaxTime, permit(o, p, v, d)
        PROVE  Book!Next
    BY <1>1, <2>1, <2>3, PermitImplements
  <2>4. CASE Next /\ UNCHANGED <<nonces, signed>>
    BY <1>1, <2>4, TokenImplements
  <2>5. CASE UNCHANGED permitVars
    BY <2>5 DEF permitVars, Book!book
  <2> QED BY <1>1, <2>2, <2>3, <2>4, <2>5 DEF PermitNext
<1> QED BY <1>1, PermitInitImplements, PermitInvariance, PermitTypeCorrect, PTL
        DEF PermitSpec, ImplementsBook, Book!Spec
-----------------------------------------------------------------------------
(* Replays. *)

\* A permit of o that uses the nonce n, whatever it approves and for whom.
Redeems(o, n) ==
  /\ nonces[o] = n
  /\ \E p \in Spenders, v \in SignedValues, d \in 0 .. MaxTime : permit(o, p, v, d)

\* For every owner and every nonce: a permit uses the nonce up, and from then
\* on no permit uses it, neither the same signature again nor a rival of it,
\* whatever happens in between and however much later.
THEOREM PermitsAreNotReplayed ==
  ASSUME NEW o \in Accounts, NEW n \in Nat
  PROVE  PermitSpec =>
           /\ [][Redeems(o, n) => (nonces[o] > n)']_permitVars
           /\ [](nonces[o] > n => [][~ Redeems(o, n)]_permitVars)
<1> DEFINE Spent == nonces[o] > n
<1>1. ASSUME PermitTypeOK, [PermitNext]_permitVars, Spent PROVE Spent'
  <2>1. nonces \in [Accounts -> Int]
    BY <1>1, PermitAssumption DEF PermitTypeOK
  <2>2. ASSUME NEW a \in Accounts, NEW p \in Spenders, NEW v \in SignedValues,
               NEW d \in 0 .. MaxTime, permit(a, p, v, d)
        PROVE  Spent'
    <3>1. nonces' = [nonces EXCEPT ![a] = nonces[a] + 1]
      BY <2>2 DEF permit, useNonce
    <3>2. nonces'[o] = nonces[o] \/ nonces'[o] = nonces[o] + 1
      BY <2>1, <3>1
    <3>3. nonces[o] \in Int
      BY <2>1
    <3> QED BY <1>1, <3>2, <3>3
  <2>3. ASSUME NEW m, Sign(m) PROVE Spent'
    BY <1>1, <2>3 DEF Sign
  <2>4. CASE UNCHANGED nonces
    BY <1>1, <2>4
  <2> QED BY <1>1, <2>2, <2>3, <2>4 DEF PermitNext, permitVars
<1>2. ASSUME PermitTypeOK, Redeems(o, n) PROVE Spent'
  <2>1. nonces \in [Accounts -> Int] /\ nonces[o] = n
    BY <1>2, PermitAssumption DEF PermitTypeOK, Redeems
  <2>2. nonces' = [nonces EXCEPT ![o] = nonces[o] + 1]
    BY <1>2 DEF Redeems, permit, useNonce
  <2> QED BY <2>1, <2>2
<1>3. Spent => ~ Redeems(o, n)
  BY DEF Redeems
<1> HIDE DEF Spent
<1>4. PermitSpec => /\ [][Redeems(o, n) => Spent']_permitVars
                    /\ [](Spent => [][~ Redeems(o, n)]_permitVars)
  BY <1>1, <1>2, <1>3, PermitTypeCorrect, PTL DEF PermitSpec
<1> QED BY <1>4 DEF Spent
=============================================================================
