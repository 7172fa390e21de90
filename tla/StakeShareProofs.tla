-------------------------- MODULE StakeShareProofs --------------------------
(***************************************************************************)
(* Shares, their number and their price, for every set of users, finite or *)
(* not, and every width and argument.                                      *)
(*                                                                         *)
(* The recorded positions add up to the supply.  Shares are counted as the *)
(* elements of a set, one for each, so that a step that changes one        *)
(* position adds or removes one block of them.                             *)
(*                                                                         *)
(* The juniors' claim is covered by the pool value, a loss falls on them   *)
(* first, a recovery goes to the shares that bore the loss, and nothing    *)
(* but a flush makes a share worth less, fees that wait in the vault       *)
(* counted or not.  A step is a fee accrual followed by a change of the    *)
(* books (BooksKept), so each argument is made once for the accrual and    *)
(* once for each change.                                                   *)
(***************************************************************************)
EXTENDS StakeProofs, FiniteSetTheorems

(* n shares of one holder, the first of them numbered a.                   *)
Block(u, a, n) == {u} \X (a .. a + n - 1)

(* There are n of them.                                                    *)
LEMMA BlockSize ==
    ASSUME NEW u, NEW a \in Nat, NEW n \in Nat
    PROVE  IsFiniteSet(Block(u, a, n)) /\ Cardinality(Block(u, a, n)) = n
<1> DEFINE numbers == a .. a + n - 1
<1>1. IsFiniteSet(numbers) /\ Cardinality(numbers) = n
  <2>1. /\ IsFiniteSet(numbers)
        /\ Cardinality(numbers) = IF a > a + n - 1 THEN 0 ELSE a + n - 1 - a + 1
    BY FS_Interval
  <2> QED  BY <2>1
<1>2. IsFiniteSet({u}) /\ Cardinality({u}) = 1
  BY FS_Singleton
<1> HIDE DEF numbers
<1>3. /\ IsFiniteSet({u} \X numbers)
      /\ Cardinality({u} \X numbers) = Cardinality({u}) * Cardinality(numbers)
  BY <1>1, <1>2, FS_Product
<1>4. Block(u, a, n) = {u} \X numbers
  BY DEF Block, numbers
<1> QED  BY <1>1, <1>2, <1>3, <1>4

(* What it is to be one of them.                                           *)
LEMMA BlockMember ==
    ASSUME NEW u, NEW a \in Nat, NEW n \in Nat, NEW s
    PROVE  s \in Block(u, a, n) <=>
              s = <<s[1], s[2]>> /\ s[1] = u /\ s[2] \in Nat /\ a <= s[2] /\ s[2] < a + n
BY DEF Block

(* What it is to be a share of a holding f.                                *)
LEMMA ShareMember ==
    ASSUME NEW f, NEW s
    PROVE  s \in SharesOf(f) <=>
              s = <<s[1], s[2]>> /\ s[1] \in Users /\ s[2] \in U64 /\ s[2] < f[s[1]]
BY DEF SharesOf

(* Raising one holder's amount by n adds n shares.                         *)
LEMMA SharesRaised ==
    ASSUME NEW f \in [Users -> U64], NEW g \in [Users -> U64], NEW u \in Users, NEW n \in Nat,
           g[u] = f[u] + n, \A v \in Users \ {u} : g[v] = f[v]
    PROVE  /\ IsFiniteSet(SharesOf(g)) => IsFiniteSet(SharesOf(f))
           /\ IsFiniteSet(SharesOf(f)) =>
                 /\ IsFiniteSet(SharesOf(g))
                 /\ Cardinality(SharesOf(g)) = Cardinality(SharesOf(f)) + n
<1> DEFINE block == Block(u, f[u], n)
<1>1. f[u] \in Nat /\ f[u] + n \in 0 .. U64_MAX /\ U64_MAX \in Nat
  BY U64Assumption DEF U64
<1>2. IsFiniteSet(block) /\ Cardinality(block) = n
  BY <1>1, BlockSize
<1>3. SharesOf(g) = SharesOf(f) \cup block
  <2>1. ASSUME NEW s \in SharesOf(g) PROVE s \in SharesOf(f) \cup block
    BY <1>1, ShareMember, BlockMember DEF U64
  <2>2. ASSUME NEW s \in SharesOf(f) PROVE s \in SharesOf(g)
    BY <1>1, ShareMember, BlockMember DEF U64
  <2>3. ASSUME NEW s \in block PROVE s \in SharesOf(g)
    BY <1>1, ShareMember, BlockMember DEF U64
  <2> QED  BY <2>1, <2>2, <2>3
<1>4. SharesOf(f) \cap block = {}
  BY <1>1, ShareMember, BlockMember DEF U64
<1> HIDE DEF block
<1>5. ASSUME IsFiniteSet(SharesOf(f))
      PROVE  /\ IsFiniteSet(SharesOf(g))
             /\ Cardinality(SharesOf(g)) = Cardinality(SharesOf(f)) + n
  <2>1. /\ IsFiniteSet(SharesOf(g))
        /\ Cardinality(SharesOf(g)) =
              Cardinality(SharesOf(f)) + Cardinality(block) - Cardinality({})
    BY <1>2, <1>3, <1>4, <1>5, FS_Union
  <2>2. Cardinality(SharesOf(f)) \in Nat /\ Cardinality({}) = 0
    BY <1>5, FS_CardinalityType, FS_EmptySet
  <2> QED  BY <1>2, <2>1, <2>2
<1>6. ASSUME IsFiniteSet(SharesOf(g)) PROVE IsFiniteSet(SharesOf(f))
  BY <1>3, <1>6, FS_Subset
<1> QED  BY <1>5, <1>6

----------------------------------------------------------------------------
(* The share ledger.                                                       *)

(* LpLedger with what it rests on: a ledger holds finitely many shares, an *)
(* empty pool has no tokens out, an unused record holds nothing, and there *)
(* are juniors only where there are tranches.                              *)
RecordsTied ==
    \A u \in Users :
        /\ ~deposits[u].is_initialized => ~deposits[u].junior /\ deposits[u].lp_amount = 0
        /\ deposits[u].junior => deposits[u].lp_amount > 0 /\ pool.tranche_enabled

PositionsCounted ==
    /\ IsFiniteSet(SharesOf(lp_position))
    /\ pool.total_lp_supply = Cardinality(SharesOf(lp_position))

JuniorsCounted ==
    /\ IsFiniteSet(SharesOf(junior_position))
    /\ pool.junior_total_lp = Cardinality(SharesOf(junior_position))

TokensCounted ==
    /\ IsFiniteSet(SharesOf(lp_tokens))
    /\ pool.total_lp_supply > 0 =>
          pool.total_lp_supply = Cardinality(SharesOf(lp_tokens)) + MINIMUM_LIQUIDITY
    /\ pool.total_lp_supply = 0 => Cardinality(SharesOf(lp_tokens)) = 0

ShareInv ==
    /\ RecordsTied
    /\ PositionsCounted
    /\ JuniorsCounted
    /\ TokensCounted

(* The positions are amounts.                                              *)
PositionsTyped ==
    /\ lp_position \in [Users -> U64]
    /\ junior_position \in [Users -> U64]
    /\ lp_tokens \in [Users -> U64]
    /\ pool.total_lp_supply \in Nat
    /\ pool.junior_total_lp \in Nat

(* The three holdings that LpLedger counts are amounts of u64.             *)
LEMMA PositionTypes == LedgerInv => PositionsTyped
<1> SUFFICES ASSUME LedgerInv PROVE PositionsTyped
  OBVIOUS
<1>1. \A u \in Users : deposits[u].lp_amount \in U64
  BY DEF LedgerInv, TypeOK, DepositRecord
<1>2. 0 \in U64
  BY U64Assumption DEF U64
<1>3. pool \in Pool /\ lp_tokens \in [Users -> U64]
  BY DEF LedgerInv, TypeOK
<1> QED  BY <1>1, <1>2, <1>3 DEF PositionsTyped, lp_position, junior_position, Pool, U64

(* The same in the next state.                                             *)
LEMMA PositionTypesNext == LedgerInv' => PositionsTyped'
BY PositionTypes, PTL

(* A deposit.                                                              *)
LEMMA ShareMint ==
    ASSUME LedgerInv, LedgerInv', ShareInv,
           NEW u \in Users, NEW amount, NEW lp \in U64 \ {0}, NEW before, NEW after,
           NEW junior \in BOOLEAN,
           BookDeposit(u, amount, lp, before, after, junior),
           before.total_lp_supply = pool.total_lp_supply,
           pool'.total_lp_supply = pool.total_lp_supply + lp,
           pool'.junior_total_lp = pool.junior_total_lp + (IF junior THEN lp ELSE 0),
           pool'.tranche_enabled = pool.tranche_enabled,
           junior => pool.tranche_enabled /\ (deposits[u].is_initialized => deposits[u].junior),
           ~junior => ~deposits[u].junior
    PROVE  ShareInv'
<1> DEFINE minted == apply_minimum_liquidity_lock(pool.total_lp_supply, lp)
           record == [is_initialized |-> TRUE, junior |-> junior, last_deposit_slot |-> slot,
                      lp_amount |-> deposits[u].lp_amount + lp]
<1>1. /\ minted > 0
      /\ lp_tokens' = [lp_tokens EXCEPT ![u] = @ + minted]
      /\ deposits' = [deposits EXCEPT ![u] = record]
  BY DEF BookDeposit, apply_minimum_liquidity_lock
<1>2. /\ lp_position \in [Users -> U64] /\ lp_position' \in [Users -> U64]
      /\ junior_position \in [Users -> U64] /\ junior_position' \in [Users -> U64]
      /\ lp_tokens \in [Users -> U64] /\ lp_tokens' \in [Users -> U64]
      /\ pool.total_lp_supply \in Nat /\ pool.junior_total_lp \in Nat
  BY PositionTypes, PositionTypesNext DEF PositionsTyped
<1>3. deposits \in [Users -> DepositRecord] /\ lp \in Nat \ {0} /\ MINIMUM_LIQUIDITY \in Nat
  BY ProgramAssumption DEF LedgerInv, TypeOK, U64
<1>4. /\ \A v \in Users \ {u} : deposits'[v] = deposits[v]
      /\ deposits'[u].is_initialized
      /\ deposits'[u].junior = junior
      /\ deposits'[u].lp_amount = deposits[u].lp_amount + lp
  BY <1>1, <1>3
<1>5. deposits[u].lp_amount \in Nat
  BY <1>3 DEF DepositRecord, U64
<1> HIDE DEF minted, record
<1>6. RecordsTied'
  BY <1>3, <1>4, <1>5 DEF RecordsTied, ShareInv
<1>7. PositionsCounted'
  <2>1. lp_position'[u] = lp_position[u] + lp /\ \A v \in Users \ {u} : lp_position'[v] = lp_position[v]
    BY <1>4 DEF lp_position
  <2>2. /\ IsFiniteSet(SharesOf(lp_position'))
        /\ Cardinality(SharesOf(lp_position')) = Cardinality(SharesOf(lp_position)) + lp
    BY <1>2, <1>3, <2>1, SharesRaised DEF ShareInv, PositionsCounted
  <2> QED  BY <2>2 DEF ShareInv, PositionsCounted
<1>8. JuniorsCounted'
  <2> DEFINE n == IF junior THEN lp ELSE 0
  <2>1. n \in Nat
    BY <1>3
  <2>2. junior_position'[u] = junior_position[u] + n
    BY <1>3, <1>4, <1>5 DEF junior_position, ShareInv, RecordsTied
  <2>3. \A v \in Users \ {u} : junior_position'[v] = junior_position[v]
    BY <1>4 DEF junior_position
  <2>4. pool'.junior_total_lp = pool.junior_total_lp + n
    OBVIOUS
  <2> HIDE DEF n
  <2>5. /\ IsFiniteSet(SharesOf(junior_position'))
        /\ Cardinality(SharesOf(junior_position')) = Cardinality(SharesOf(junior_position)) + n
    BY <1>2, <2>1, <2>2, <2>3, SharesRaised DEF ShareInv, JuniorsCounted
  <2> QED  BY <2>4, <2>5 DEF ShareInv, JuniorsCounted
<1>9. TokensCounted'
  <2>1. minted \in Nat /\ minted = IF pool.total_lp_supply = 0 THEN lp - MINIMUM_LIQUIDITY ELSE lp
    BY <1>1, <1>3 DEF minted, apply_minimum_liquidity_lock
  <2>2. lp_tokens'[u] = lp_tokens[u] + minted /\ \A v \in Users \ {u} : lp_tokens'[v] = lp_tokens[v]
    BY <1>1, <1>2
  <2>3. /\ IsFiniteSet(SharesOf(lp_tokens'))
        /\ Cardinality(SharesOf(lp_tokens')) = Cardinality(SharesOf(lp_tokens)) + minted
    BY <1>2, <2>1, <2>2, SharesRaised DEF ShareInv, TokensCounted
  <2>4. /\ pool.total_lp_supply > 0 =>
              pool.total_lp_supply = Cardinality(SharesOf(lp_tokens)) + MINIMUM_LIQUIDITY
        /\ pool.total_lp_supply = 0 => Cardinality(SharesOf(lp_tokens)) = 0
        /\ Cardinality(SharesOf(lp_tokens)) \in Nat
    BY FS_CardinalityType DEF ShareInv, TokensCounted
  <2>5. /\ pool'.total_lp_supply > 0
        /\ pool'.total_lp_supply = Cardinality(SharesOf(lp_tokens')) + MINIMUM_LIQUIDITY
    BY <1>2, <1>3, <2>1, <2>3, <2>4
  <2> QED  BY <1>2, <1>3, <2>3, <2>5 DEF TokensCounted
<1> QED  BY <1>6, <1>7, <1>8, <1>9 DEF ShareInv

(* What a redemption burns.                                                *)
LEMMA RedeemShares ==
    ASSUME NEW p \in Pool, NEW junior, NEW lp \in Nat, NEW payout
    PROVE  LET q == Redeemed(p, junior, lp, payout)
           IN  /\ q.total_lp_supply = p.total_lp_supply - lp
               /\ q.junior_total_lp =
                     p.junior_total_lp - (IF p.tranche_enabled /\ junior THEN lp ELSE 0)
               /\ q.tranche_enabled = p.tranche_enabled
<1> DEFINE q == Redeemed(p, junior, lp, payout)
           paid == [p EXCEPT !.total_withdrawn = @ + payout, !.total_lp_supply = @ - lp]
<1>1. q = IF p.tranche_enabled /\ junior THEN RedeemJunior(paid, lp, payout) ELSE paid
  BY DEF Redeemed
<1>2. p.junior_total_lp \in Int
  BY DEF Pool, U64
<1> HIDE DEF q
<1> QED  BY <1>1, <1>2 DEF RedeemJunior, Pool, q

(* A withdrawal.                                                           *)
LEMMA ShareBurn ==
    ASSUME LedgerInv, LedgerInv', ShareInv, NEW u \in Users, NEW lp \in Nat, Withdraw(u, lp)
    PROVE  ShareInv'
<1> DEFINE priced == pre_accrue_fee_modes(pool, vault)
           junior == deposits[u].junior
           payout == Redemption(priced, junior, lp)
           n == IF junior THEN lp ELSE 0
<1>1. /\ AccrueOk(pool, vault)
      /\ lp > 0 /\ lp <= deposits[u].lp_amount /\ lp <= lp_tokens[u]
      /\ BooksKept(Redeemed(priced, junior, lp, payout), pool')
      /\ lp_tokens' = [lp_tokens EXCEPT ![u] = @ - lp]
      /\ deposits' = [deposits EXCEPT ![u] = RecordAfterBurn(@, lp)]
  BY WithdrawBooks
<1>2. /\ priced \in Pool
      /\ priced.total_lp_supply = pool.total_lp_supply
      /\ priced.junior_total_lp = pool.junior_total_lp
      /\ priced.tranche_enabled = pool.tranche_enabled
  BY <1>1, PricedBooks
<1>3. /\ lp_position \in [Users -> U64] /\ lp_position' \in [Users -> U64]
      /\ junior_position \in [Users -> U64] /\ junior_position' \in [Users -> U64]
      /\ lp_tokens \in [Users -> U64] /\ lp_tokens' \in [Users -> U64]
      /\ pool.total_lp_supply \in Nat /\ pool.junior_total_lp \in Nat
      /\ pool'.total_lp_supply \in Nat /\ pool'.junior_total_lp \in Nat
  BY PositionTypes, PositionTypesNext DEF PositionsTyped
<1>4. deposits \in [Users -> DepositRecord] /\ MINIMUM_LIQUIDITY \in Nat
  BY ProgramAssumption DEF LedgerInv, TypeOK
<1>5. deposits[u].lp_amount \in Nat /\ deposits[u] \in DepositRecord
  BY <1>4 DEF DepositRecord, U64
<1> HIDE DEF priced, payout
<1>6. /\ pool'.total_lp_supply = pool.total_lp_supply - lp
      /\ pool'.junior_total_lp = pool.junior_total_lp - n
      /\ pool'.tranche_enabled = pool.tranche_enabled
  <2>1. junior => pool.tranche_enabled
    BY DEF ShareInv, RecordsTied
  <2> QED  BY <1>1, <1>2, <2>1, RedeemShares DEF BooksKept
<1>7. /\ \A v \in Users \ {u} : deposits'[v] = deposits[v]
      /\ deposits'[u] = RecordAfterBurn(deposits[u], lp)
  BY <1>1, <1>4
<1>8. /\ deposits'[u].lp_amount = deposits[u].lp_amount - lp
      /\ \/ deposits[u].lp_amount = lp
            /\ ~deposits'[u].is_initialized /\ ~deposits'[u].junior
         \/ deposits[u].lp_amount > lp
            /\ deposits'[u].is_initialized = deposits[u].is_initialized
            /\ deposits'[u].junior = deposits[u].junior
  <2>1. CASE deposits[u].lp_amount = lp
    BY <1>5, <1>7, <2>1 DEF RecordAfterBurn, DepositRecord
  <2>2. CASE deposits[u].lp_amount # lp
    <3>1. deposits'[u] = [deposits[u] EXCEPT !.lp_amount = deposits[u].lp_amount - lp]
      BY <1>7, <2>2 DEF RecordAfterBurn
    <3>2. deposits[u].lp_amount > lp
      BY <1>1, <1>5, <2>2
    <3> QED  BY <1>5, <3>1, <3>2 DEF DepositRecord
  <2> QED  BY <2>1, <2>2
<1>9. RecordsTied'
  <2>1. deposits[u].is_initialized
    BY <1>1, <1>5 DEF ShareInv, RecordsTied
  <2>2. lp \in Nat /\ (deposits[u].lp_amount > lp => deposits'[u].lp_amount > 0)
        /\ (deposits[u].lp_amount = lp => deposits'[u].lp_amount = 0)
    BY <1>5, <1>8
  <2>3. /\ ~deposits'[u].is_initialized => ~deposits'[u].junior /\ deposits'[u].lp_amount = 0
        /\ deposits'[u].junior => deposits[u].junior /\ deposits'[u].lp_amount > 0
    BY <1>8, <2>1, <2>2
  <2> QED  BY <1>6, <1>7, <2>3 DEF RecordsTied, ShareInv
<1>10. PositionsCounted'
  <2>1. /\ lp_position[u] = lp_position'[u] + lp
        /\ \A v \in Users \ {u} : lp_position[v] = lp_position'[v]
    BY <1>5, <1>7, <1>8 DEF lp_position
  <2>2. /\ IsFiniteSet(SharesOf(lp_position'))
        /\ Cardinality(SharesOf(lp_position)) = Cardinality(SharesOf(lp_position')) + lp
    BY <1>3, <2>1, SharesRaised DEF ShareInv, PositionsCounted
  <2>3. Cardinality(SharesOf(lp_position')) \in Nat
    BY <2>2, FS_CardinalityType
  <2> QED  BY <1>6, <2>2, <2>3 DEF ShareInv, PositionsCounted
<1>11. JuniorsCounted'
  <2>1. n \in Nat
    OBVIOUS
  <2>2. junior_position[u] = junior_position'[u] + n
    BY <1>5, <1>7, <1>8 DEF junior_position
  <2>3. \A v \in Users \ {u} : junior_position[v] = junior_position'[v]
    BY <1>7 DEF junior_position
  <2> HIDE DEF n
  <2>4. /\ IsFiniteSet(SharesOf(junior_position'))
        /\ Cardinality(SharesOf(junior_position)) = Cardinality(SharesOf(junior_position')) + n
    BY <1>3, <2>1, <2>2, <2>3, SharesRaised DEF ShareInv, JuniorsCounted
  <2>5. Cardinality(SharesOf(junior_position')) \in Nat
    BY <2>4, FS_CardinalityType
  <2> QED  BY <1>6, <2>1, <2>4, <2>5 DEF ShareInv, JuniorsCounted
<1>12. TokensCounted'
  <2>1. /\ lp_tokens[u] = lp_tokens'[u] + lp
        /\ \A v \in Users \ {u} : lp_tokens[v] = lp_tokens'[v]
    BY <1>1, <1>3 DEF U64
  <2>2. /\ IsFiniteSet(SharesOf(lp_tokens'))
        /\ Cardinality(SharesOf(lp_tokens)) = Cardinality(SharesOf(lp_tokens')) + lp
    BY <1>3, <2>1, SharesRaised DEF ShareInv, TokensCounted
  <2>3. Cardinality(SharesOf(lp_tokens')) \in Nat
    BY <2>2, FS_CardinalityType
  <2>4. pool.total_lp_supply = Cardinality(SharesOf(lp_tokens)) + MINIMUM_LIQUIDITY
    BY <1>1, <1>3, <1>6 DEF ShareInv, TokensCounted
  <2>5. pool'.total_lp_supply = Cardinality(SharesOf(lp_tokens')) + MINIMUM_LIQUIDITY
    BY <1>4, <1>6, <2>2, <2>3, <2>4
  <2>6. pool'.total_lp_supply = 0 => Cardinality(SharesOf(lp_tokens')) = 0
    BY <1>4, <2>3, <2>5
  <2> QED  BY <2>2, <2>5, <2>6 DEF TokensCounted
<1> QED  BY <1>9, <1>10, <1>11, <1>12 DEF ShareInv

(* LP tokens changing hands.                                               *)
LEMMA ShareTransfer ==
    ASSUME LedgerInv, LedgerInv', ShareInv, NEW u \in Users, NEW v \in Users, NEW n \in Nat,
           TransferLp(u, v, n)
    PROVE  ShareInv'
<1>1. /\ u # v /\ n <= lp_tokens[u]
      /\ lp_tokens' = [lp_tokens EXCEPT ![u] = @ - n, ![v] = @ + n]
      /\ pool' = pool /\ deposits' = deposits
  BY DEF TransferLp
<1>2. lp_tokens \in [Users -> U64] /\ lp_tokens' \in [Users -> U64]
  BY PositionTypes, PositionTypesNext DEF PositionsTyped
<1>3. PICK less \in [Users -> U64] : less = [lp_tokens EXCEPT ![u] = @ - n]
  <2>1. lp_tokens[u] - n \in U64
    BY <1>1, <1>2, U64Assumption DEF U64
  <2> QED  BY <1>2, <2>1
<1>4. lp_tokens[u] = less[u] + n /\ \A w \in Users \ {u} : lp_tokens[w] = less[w]
  BY <1>1, <1>2, <1>3 DEF U64
<1>5. lp_tokens'[v] = less[v] + n /\ \A w \in Users \ {v} : lp_tokens'[w] = less[w]
  BY <1>1, <1>2, <1>3 DEF U64
<1>6. /\ IsFiniteSet(SharesOf(less))
      /\ Cardinality(SharesOf(lp_tokens)) = Cardinality(SharesOf(less)) + n
  BY <1>2, <1>4, SharesRaised DEF ShareInv, TokensCounted
<1>7. /\ IsFiniteSet(SharesOf(lp_tokens'))
      /\ Cardinality(SharesOf(lp_tokens')) = Cardinality(SharesOf(less)) + n
  BY <1>2, <1>5, <1>6, SharesRaised
<1>8. TokensCounted'
  BY <1>1, <1>6, <1>7 DEF ShareInv, TokensCounted
<1>9. lp_position' = lp_position /\ junior_position' = junior_position
  BY <1>1 DEF lp_position, junior_position
<1> QED  BY <1>1, <1>8, <1>9 DEF ShareInv, RecordsTied, PositionsCounted, JuniorsCounted

(* A step that moves no share.                                             *)
LEMMA ShareFrame ==
    ASSUME ShareInv, deposits' = deposits, lp_tokens' = lp_tokens,
           pool'.total_lp_supply = pool.total_lp_supply,
           pool'.junior_total_lp = pool.junior_total_lp,
           pool.tranche_enabled => pool'.tranche_enabled
    PROVE  ShareInv'
<1>1. lp_position' = lp_position /\ junior_position' = junior_position
  BY DEF lp_position, junior_position
<1>2. RecordsTied'
  BY DEF ShareInv, RecordsTied
<1> QED  BY <1>1, <1>2 DEF ShareInv, PositionsCounted, JuniorsCounted, TokensCounted

(* The fresh pool has no shares.                                           *)
LEMMA ShareInit == Init => ShareInv
<1> SUFFICES ASSUME Init PROVE ShareInv
  OBVIOUS
<1>1. /\ pool.total_lp_supply = 0 /\ pool.junior_total_lp = 0
      /\ deposits = [u \in Users |-> NoDeposit]
      /\ lp_tokens = [u \in Users |-> 0]
  BY DEF Init, FreshPool
<1>2. \A f : (\A u \in Users : f[u] = 0) => SharesOf(f) = {}
  BY U64Assumption DEF SharesOf, U64
<1>3. SharesOf(lp_position) = {} /\ SharesOf(junior_position) = {} /\ SharesOf(lp_tokens) = {}
  <2>1. \A u \in Users : lp_position[u] = 0 /\ junior_position[u] = 0 /\ lp_tokens[u] = 0
    BY <1>1 DEF lp_position, junior_position, NoDeposit
  <2> QED  BY <1>2, <2>1
<1>4. IsFiniteSet({}) /\ Cardinality({}) = 0
  BY FS_EmptySet
<1>5. RecordsTied
  BY <1>1 DEF RecordsTied, NoDeposit
<1> QED  BY <1>1, <1>3, <1>4, <1>5
            DEF ShareInv, PositionsCounted, JuniorsCounted, TokensCounted

(* Every step keeps the count.                                             *)
LEMMA ShareNext == LedgerInv /\ LedgerInv' /\ ShareInv /\ [Next]_vars => ShareInv'
<1> SUFFICES ASSUME LedgerInv, LedgerInv', ShareInv, [Next]_vars PROVE ShareInv'
  OBVIOUS
<1>1. CASE UNCHANGED vars
  <2>1. deposits' = deposits /\ lp_tokens' = lp_tokens /\ pool' = pool
    BY <1>1 DEF vars
  <2> QED  BY <2>1, ShareFrame
<1>2. ASSUME BooksKept(pool, pool'), deposits' = deposits, lp_tokens' = lp_tokens
      PROVE  ShareInv'
  BY <1>2, ShareFrame DEF BooksKept
<1>3. pool \in Pool /\ 0 \in Nat
  BY DEF LedgerInv, TypeOK
<1>4. ASSUME NEW u \in Users, NEW a \in Nat, Deposit(u, a) PROVE ShareInv'
  <2> DEFINE priced == pre_accrue_fee_modes(pool, vault)
             lp == SeniorShares(priced, a)
             after == [priced EXCEPT !.total_deposited = @ + a, !.total_lp_supply = @ + lp]
  <2>1. /\ AccrueOk(pool, vault) /\ ~deposits[u].junior /\ lp \in U64 \ {0}
        /\ after \in Pool /\ BooksKept(after, pool')
        /\ BookDeposit(u, a, lp, priced, after, FALSE)
    BY <1>4, DepositBooks
  <2>2. /\ priced \in Pool
        /\ priced.total_lp_supply = pool.total_lp_supply
        /\ priced.junior_total_lp = pool.junior_total_lp
        /\ priced.tranche_enabled = pool.tranche_enabled
    BY <2>1, PricedBooks
  <2> HIDE DEF priced, lp
  <2>3. /\ after.total_lp_supply = pool.total_lp_supply + lp
        /\ after.junior_total_lp = pool.junior_total_lp
        /\ after.tranche_enabled = pool.tranche_enabled
    BY <2>2 DEF Pool
  <2> HIDE DEF after
  <2>4. /\ pool'.total_lp_supply = pool.total_lp_supply + lp
        /\ pool'.junior_total_lp = pool.junior_total_lp + 0
        /\ pool'.tranche_enabled = pool.tranche_enabled
    BY <1>3, <2>1, <2>3 DEF BooksKept, Pool, U64
  <2> QED  BY <2>1, <2>2, <2>4, ShareMint
<1>5. ASSUME NEW u \in Users, NEW a \in Nat, DepositJunior(u, a) PROVE ShareInv'
  <2> DEFINE priced == pre_accrue_fee_modes(pool, vault)
             lp == JuniorShares(priced, a)
             after == [priced EXCEPT !.total_deposited = @ + a, !.total_lp_supply = @ + lp,
                                     !.junior_total_lp = @ + lp, !.junior_balance = @ + a]
  <2>1. /\ AccrueOk(pool, vault) /\ pool.tranche_enabled /\ lp \in U64 \ {0}
        /\ deposits[u].is_initialized => deposits[u].junior
        /\ after \in Pool /\ BooksKept(after, pool')
        /\ BookDeposit(u, a, lp, priced, after, TRUE)
    BY <1>5, DepositJuniorBooks
  <2>2. /\ priced \in Pool
        /\ priced.total_lp_supply = pool.total_lp_supply
        /\ priced.junior_total_lp = pool.junior_total_lp
        /\ priced.tranche_enabled = pool.tranche_enabled
    BY <2>1, PricedBooks
  <2> HIDE DEF priced, lp
  <2>3. /\ after.total_lp_supply = pool.total_lp_supply + lp
        /\ after.junior_total_lp = pool.junior_total_lp + lp
        /\ after.tranche_enabled = pool.tranche_enabled
    BY <2>2 DEF Pool
  <2> HIDE DEF after
  <2>4. /\ pool'.total_lp_supply = pool.total_lp_supply + lp
        /\ pool'.junior_total_lp = pool.junior_total_lp + lp
        /\ pool'.tranche_enabled = pool.tranche_enabled
    BY <2>1, <2>3 DEF BooksKept
  <2> QED  BY <2>1, <2>2, <2>4, ShareMint
<1>6. ASSUME NEW u \in Users, NEW l \in Nat, Withdraw(u, l) PROVE ShareInv'
  BY <1>6, ShareBurn
<1>7. ASSUME AccrueFees PROVE ShareInv'
  <2>1. /\ AccrueOk(pool, vault) /\ pool' = pre_accrue_fee_modes(pool, vault)
        /\ deposits' = deposits /\ lp_tokens' = lp_tokens
    BY <1>7 DEF AccrueFees, pre_accrue_fee_modes
  <2> QED  BY <2>1, PricedBooks, ShareFrame
<1>8. ASSUME NEW a \in Nat,
             \/ FlushToInsurance(a) \/ ReturnInsurance(a)
             \/ RecoverFlushedInsurance(a) \/ AdminSetTrancheConfig(a)
      PROVE  ShareInv'
  <2>1. deposits' = deposits /\ lp_tokens' = lp_tokens
    BY <1>8, InsuranceBooks
  <2>2. /\ pool'.total_lp_supply = pool.total_lp_supply
        /\ pool'.junior_total_lp = pool.junior_total_lp
        /\ pool.tranche_enabled => pool'.tranche_enabled
    BY <1>3, <1>8, InsuranceBooks DEF BooksKept, Pool
  <2> QED  BY <2>1, <2>2, ShareFrame
<1>9. ASSUME NEW u \in Users, NEW v \in Users, NEW n \in Nat, TransferLp(u, v, n)
      PROVE  ShareInv'
  BY <1>9, ShareTransfer
<1>10. ASSUME Clerical PROVE ShareInv'
  BY <1>2, <1>10, ClericalBooks
<1> QED  BY <1>1, <1>4, <1>5, <1>6, <1>7, <1>8, <1>9, <1>10, StepKinds

(* ShareInv is an invariant of the program.                                *)
THEOREM ShareInvariance == Spec => []ShareInv
BY LedgerInvariance, ShareInit, ShareNext, PTL DEF Spec

(* The supplies are the sums of the positions, and all but the genesis     *)
(* lock can be burnt, for every set of users and every way tokens move.    *)
THEOREM LedgerCounts == Spec => []LpLedger
<1>1. ShareInv => LpLedger
  BY DEF ShareInv, LpLedger, RecordsTied, PositionsCounted, JuniorsCounted, TokensCounted
<1> QED  BY <1>1, ShareInvariance, PTL

----------------------------------------------------------------------------
(* The tranches.                                                           *)

(* A position is part of its tranche's supply.                             *)
LEMMA PositionBound ==
    ASSUME LedgerInv, ShareInv, NEW u \in Users
    PROVE  /\ pool.junior_total_lp <= pool.total_lp_supply
           /\ senior_total_lp(pool) = pool.total_lp_supply - pool.junior_total_lp
           /\ deposits[u].junior => deposits[u].lp_amount <= pool.junior_total_lp
           /\ ~deposits[u].junior => deposits[u].lp_amount <= senior_total_lp(pool)
<1> DEFINE all == SharesOf(lp_position)
           juniors == SharesOf(junior_position)
           own == Block(u, 0, deposits[u].lp_amount)
<1>1. /\ IsFiniteSet(all) /\ Cardinality(all) = pool.total_lp_supply
      /\ IsFiniteSet(juniors) /\ Cardinality(juniors) = pool.junior_total_lp
  BY DEF ShareInv, PositionsCounted, JuniorsCounted
<1>2. /\ pool.total_lp_supply \in Nat /\ pool.junior_total_lp \in Nat
      /\ deposits[u].lp_amount \in Nat /\ deposits[u].lp_amount <= U64_MAX
      /\ deposits[u].junior \in BOOLEAN
      /\ \A v \in Users : deposits[v].lp_amount \in Nat
  BY PositionTypes DEF PositionsTyped, LedgerInv, TypeOK, DepositRecord, U64
<1>3. IsFiniteSet(own) /\ Cardinality(own) = deposits[u].lp_amount
  BY <1>2, BlockSize
<1>4. \A s : s \in own => /\ s = <<s[1], s[2]>> /\ s[1] = u /\ s[2] \in U64
                          /\ s[2] < deposits[u].lp_amount
  BY <1>2, U64Assumption, BlockMember DEF U64
<1>5. \A s : s \in all <=> /\ s = <<s[1], s[2]>> /\ s[1] \in Users /\ s[2] \in U64
                           /\ s[2] < deposits[s[1]].lp_amount
  BY ShareMember DEF lp_position
<1>6. \A s : s \in juniors <=>
          /\ s = <<s[1], s[2]>> /\ s[1] \in Users /\ s[2] \in U64
          /\ deposits[s[1]].junior /\ s[2] < deposits[s[1]].lp_amount
  <2>1. \A s : s[1] \in Users /\ s[2] \in U64 =>
           (s[2] < junior_position[s[1]] <=>
               deposits[s[1]].junior /\ s[2] < deposits[s[1]].lp_amount)
    BY DEF junior_position, U64
  <2> QED  BY <2>1, ShareMember
<1> HIDE DEF all, juniors, own
<1>7. juniors \subseteq all
  BY <1>5, <1>6
<1>8. Cardinality(juniors) <= Cardinality(all)
  BY <1>1, <1>7, FS_Subset
<1>9. senior_total_lp(pool) = pool.total_lp_supply - pool.junior_total_lp
  BY <1>1, <1>2, <1>8 DEF senior_total_lp, SatSub
<1>10. ASSUME deposits[u].junior PROVE deposits[u].lp_amount <= pool.junior_total_lp
  <2>1. own \subseteq juniors
    BY <1>4, <1>6, <1>10
  <2> QED  BY <1>1, <1>3, <2>1, FS_Subset
<1>11. ASSUME ~deposits[u].junior PROVE deposits[u].lp_amount <= senior_total_lp(pool)
  <2>1. own \cup juniors \subseteq all /\ own \cap juniors = {}
    BY <1>4, <1>5, <1>6, <1>7, <1>11
  <2>2. /\ IsFiniteSet(own \cup juniors)
        /\ Cardinality(own \cup juniors) =
              Cardinality(own) + Cardinality(juniors) - Cardinality({})
    BY <1>1, <1>3, <2>1, FS_Union
  <2>3. Cardinality(own \cup juniors) <= Cardinality(all)
    BY <1>1, <2>1, FS_Subset
  <2>4. Cardinality({}) = 0
    BY FS_EmptySet
  <2> QED  BY <1>1, <1>2, <1>3, <1>9, <2>2, <2>3, <2>4
<1> QED  BY <1>1, <1>8, <1>9, <1>10, <1>11

(* A redemption is within the balance of its tranche.                      *)
LEMMA PayoutBound ==
    ASSUME LedgerInv, ShareInv, NEW u \in Users, NEW lp \in Nat, Withdraw(u, lp)
    PROVE  LET priced == pre_accrue_fee_modes(pool, vault)
               junior == deposits[u].junior
               payout == Redemption(priced, junior, lp)
               supply == IF junior THEN priced.junior_total_lp ELSE senior_total_lp(priced)
               value == IF junior THEN effective_junior_balance(priced) ELSE SeniorValue(priced)
           IN  /\ priced \in Pool /\ payout \in Nat
               /\ supply \in U64 /\ value \in U64 /\ lp <= supply
               /\ junior => priced.tranche_enabled
               /\ payout <= value
               /\ (value - payout + VIRTUAL_ASSETS) * (supply + VIRTUAL_SHARES)
                     >= (value + VIRTUAL_ASSETS) * (supply - lp + VIRTUAL_SHARES)
<1> DEFINE priced == pre_accrue_fee_modes(pool, vault)
           junior == deposits[u].junior
           payout == Redemption(priced, junior, lp)
           supply == IF junior THEN priced.junior_total_lp ELSE senior_total_lp(priced)
           value == IF junior THEN effective_junior_balance(priced) ELSE SeniorValue(priced)
<1>1. AccrueOk(pool, vault) /\ payout \in U64 /\ lp <= deposits[u].lp_amount
  BY WithdrawBooks
<1>2. /\ priced \in Pool /\ total_pool_value(priced) \in U64
      /\ priced.total_lp_supply = pool.total_lp_supply
      /\ priced.junior_total_lp = pool.junior_total_lp
      /\ priced.tranche_enabled = pool.tranche_enabled
  BY <1>1, PricedBooks
<1>3. junior \in BOOLEAN /\ deposits[u].lp_amount \in Nat
  BY DEF LedgerInv, TypeOK, DepositRecord, U64
<1>4. junior => pool.tranche_enabled
  BY DEF ShareInv, RecordsTied
<1> HIDE DEF priced
<1>5. senior_total_lp(priced) = senior_total_lp(pool)
  BY <1>2 DEF senior_total_lp
<1>6. supply \in U64 /\ lp <= supply
  <2>1. supply \in U64
    BY <1>2, TrancheTypes DEF Pool
  <2>2. deposits[u].lp_amount <= supply
    BY <1>2, <1>3, <1>5, PositionBound
  <2> HIDE DEF supply
  <2> QED  BY <1>1, <1>3, <2>1, <2>2 DEF U64
<1>7. value \in U64 /\ payout = calc_collateral_for_withdraw(supply, value, lp)
  <2>1. CASE junior
    BY <1>2, <1>4, <2>1, TrancheTypes DEF Redemption
  <2>2. CASE ~junior /\ priced.tranche_enabled
    BY <1>1, <1>2, <2>2, TrancheTypes, U64Assumption DEF Redemption, SeniorValue, None, U64
  <2>3. CASE ~junior /\ ~priced.tranche_enabled
    <3>1. senior_total_lp(priced) = priced.total_lp_supply
      <4>1. \A v \in Users : ~deposits[v].junior
        BY <1>2, <2>3 DEF ShareInv, RecordsTied
      <4>2. \A v \in Users : junior_position[v] = 0
        BY <4>1 DEF junior_position
      <4>3. SharesOf(junior_position) = {}
        BY <4>2, U64Assumption DEF SharesOf, U64
      <4>4. pool.junior_total_lp = 0
        BY <4>3, FS_EmptySet DEF ShareInv, JuniorsCounted
      <4> QED  BY <1>2, <4>4 DEF senior_total_lp, SatSub, Pool, U64
    <3> QED  BY <1>2, <2>3, <3>1 DEF Redemption, SeniorValue
  <2> QED  BY <1>3, <2>1, <2>2, <2>3
<1>8. payout \in Nat
  BY <1>1 DEF U64
<1> HIDE DEF payout, supply, value
<1>9. /\ payout <= value
      /\ (value - payout + VIRTUAL_ASSETS) * (supply + VIRTUAL_SHARES)
            >= (value + VIRTUAL_ASSETS) * (supply - lp + VIRTUAL_SHARES)
  BY <1>6, <1>7, <1>8, WithdrawPrice
<1> QED  BY <1>2, <1>4, <1>6, <1>7, <1>8, <1>9 DEF priced, junior, payout, supply, value

(* What keeps the tranches covered, of one pool: without tranches nothing  *)
(* is the juniors', and while one path settles the losses the juniors'     *)
(* balance before the loss is within the pool value before the loss.       *)
TranchesTied(p) ==
    /\ ~p.tranche_enabled => p.junior_balance = 0
    /\ OneReturnPath(p) =>
          /\ p.total_returned <= p.total_flushed
          /\ p.junior_balance <= signed_value(p) + net_loss(p)

(* TranchesTied reads nothing but the books.                               *)
LEMMA TiedBooks ==
    ASSUME NEW p, NEW q, BooksKept(p, q), TranchesTied(p)
    PROVE  TranchesTied(q)
<1>1. /\ signed_value(q) = signed_value(p) /\ net_loss(q) = net_loss(p)
      /\ admin_returned(q) = admin_returned(p)
  BY BooksPrice
<1> QED  BY <1>1 DEF TranchesTied, OneReturnPath, BooksKept

(* Then the seniors' balance is defined.                                   *)
LEMMA TiedSenior ==
    ASSUME NEW p \in Pool, TranchesTied(p), OneReturnPath(p), total_pool_value(p) # None
    PROVE  /\ senior_balance(p) = signed_value(p) - effective_junior_balance(p)
           /\ senior_balance(p) \in Nat
           /\ SeniorValue(p) = senior_balance(p)
           /\ net_loss(p) = p.total_flushed - p.total_returned
<1>1. /\ total_pool_value(p) = signed_value(p) /\ signed_value(p) \in Nat
      /\ p.junior_balance \in Nat /\ p.total_flushed \in Nat /\ p.total_returned \in Nat
  BY PoolValue DEF Pool, U64
<1>2. /\ effective_junior_balance(p) = SatSub(p.junior_balance, net_loss(p))
      /\ net_loss(p) \in Nat
  BY JuniorNetOfLoss
<1>3. effective_junior_balance(p) \in Nat /\ effective_junior_balance(p) <= signed_value(p)
  BY <1>1, <1>2 DEF TranchesTied, SatSub
<1>4. senior_balance(p) = signed_value(p) - effective_junior_balance(p)
  BY <1>1, <1>3 DEF senior_balance
<1>5. ~p.tranche_enabled => effective_junior_balance(p) = 0
  BY <1>1, <1>2 DEF TranchesTied, SatSub
<1> QED  BY <1>1, <1>3, <1>4, <1>5 DEF SeniorValue, net_loss, SatSub, TranchesTied

(* Accruing fees.                                                          *)
LEMMA TiedAccrued ==
    ASSUME NEW p \in Pool, NEW balance \in U64, AccrueOk(p, balance), TranchesTied(p)
    PROVE  TranchesTied(Accrued(p, balance))
<1>1. PICK fee, junior_fee \in Nat :
         /\ junior_fee <= fee
         /\ ~p.tranche_enabled => junior_fee = 0
         /\ BooksKept([p EXCEPT !.total_fees_earned = @ + fee,
                                !.junior_balance = @ + junior_fee], Accrued(p, balance))
  BY AccrueBooks
<1> DEFINE q == [p EXCEPT !.total_fees_earned = @ + fee, !.junior_balance = @ + junior_fee]
<1>2. /\ signed_value(q) = signed_value(p) + fee /\ net_loss(q) = net_loss(p)
      /\ admin_returned(q) = admin_returned(p)
      /\ q.total_recovered_from_wrapper = p.total_recovered_from_wrapper
      /\ q.total_returned = p.total_returned /\ q.total_flushed = p.total_flushed
      /\ q.junior_balance = p.junior_balance + junior_fee
      /\ q.tranche_enabled = p.tranche_enabled
  BY DEF signed_value, net_loss, admin_returned, Pool, U64
<1>3. /\ p.junior_balance \in Nat /\ signed_value(p) \in Int /\ net_loss(p) \in Nat
  BY PoolValue, JuniorNetOfLoss DEF Pool, U64
<1> HIDE DEF q
<1>4. TranchesTied(q)
  BY <1>1, <1>2, <1>3 DEF TranchesTied, OneReturnPath
<1> QED  BY <1>1, <1>4, TiedBooks DEF q

(* Deposits.                                                               *)
LEMMA TiedDeposit ==
    ASSUME LedgerInv, LedgerInv', TranchesTied(pool), NEW u \in Users, NEW amount \in Nat,
           Deposit(u, amount) \/ DepositJunior(u, amount)
    PROVE  TranchesTied(pool')
<1> DEFINE priced == pre_accrue_fee_modes(pool, vault)
<1>1. AccrueOk(pool, vault)
  BY DEF Deposit, DepositJunior, DepositOpen
<1>2. pool \in Pool /\ vault \in U64
  BY DEF LedgerInv, TypeOK
<1>3. priced \in Pool /\ priced.tranche_enabled = pool.tranche_enabled /\ TranchesTied(priced)
  BY <1>1, <1>2, PricedBooks, TiedAccrued DEF pre_accrue_fee_modes
<1>4. CASE Deposit(u, amount)
  <2> DEFINE lp == SeniorShares(priced, amount)
             after == [priced EXCEPT !.total_deposited = @ + amount, !.total_lp_supply = @ + lp]
  <2>1. BooksKept(after, pool')
    BY <1>4, DepositBooks
  <2> HIDE DEF priced, lp
  <2>2. /\ signed_value(after) = signed_value(priced) + amount
        /\ net_loss(after) = net_loss(priced)
        /\ admin_returned(after) = admin_returned(priced)
        /\ after.total_recovered_from_wrapper = priced.total_recovered_from_wrapper
        /\ after.total_returned = priced.total_returned
        /\ after.total_flushed = priced.total_flushed
        /\ after.junior_balance = priced.junior_balance
        /\ after.tranche_enabled = priced.tranche_enabled
    BY <1>3 DEF signed_value, net_loss, admin_returned, Pool, U64
  <2>3. priced.junior_balance \in Nat /\ signed_value(priced) \in Int /\ net_loss(priced) \in Nat
    BY <1>3, PoolValue, JuniorNetOfLoss DEF Pool, U64
  <2> HIDE DEF after
  <2>4. TranchesTied(after)
    BY <1>3, <2>2, <2>3 DEF TranchesTied, OneReturnPath
  <2> QED  BY <2>1, <2>4, TiedBooks
<1>5. CASE DepositJunior(u, amount)
  <2> DEFINE lp == JuniorShares(priced, amount)
             after == [priced EXCEPT !.total_deposited = @ + amount, !.total_lp_supply = @ + lp,
                                     !.junior_total_lp = @ + lp, !.junior_balance = @ + amount]
  <2>1. BooksKept(after, pool') /\ pool.tranche_enabled
    BY <1>5, DepositJuniorBooks
  <2> HIDE DEF priced, lp
  <2>2. /\ signed_value(after) = signed_value(priced) + amount
        /\ net_loss(after) = net_loss(priced)
        /\ admin_returned(after) = admin_returned(priced)
        /\ after.total_recovered_from_wrapper = priced.total_recovered_from_wrapper
        /\ after.total_returned = priced.total_returned
        /\ after.total_flushed = priced.total_flushed
        /\ after.junior_balance = priced.junior_balance + amount
        /\ after.tranche_enabled = priced.tranche_enabled
    BY <1>3 DEF signed_value, net_loss, admin_returned, Pool, U64
  <2>3. priced.junior_balance \in Nat /\ signed_value(priced) \in Int /\ net_loss(priced) \in Nat
    BY <1>3, PoolValue, JuniorNetOfLoss DEF Pool, U64
  <2> HIDE DEF after
  <2>4. TranchesTied(after)
    BY <1>3, <2>1, <2>2, <2>3 DEF TranchesTied, OneReturnPath
  <2> QED  BY <2>1, <2>4, TiedBooks
<1> QED  BY <1>4, <1>5

(* What a redemption does to the tranche it leaves: a partial junior exit  *)
(* takes its payout from the juniors, the last one also writes off their   *)
(* part of the loss.                                                       *)
LEMMA RedeemTranche ==
    ASSUME NEW p \in Pool, NEW junior, NEW lp \in Nat, NEW payout \in Nat,
           p.total_withdrawn + payout \in U64, p.total_lp_supply - lp \in U64,
           NEW q, q = Redeemed(p, junior, lp, payout)
    PROVE  \E written_off \in Nat :
           /\ written_off <= net_loss(p)
           /\ signed_value(q) = signed_value(p) - payout
           /\ q.total_flushed = p.total_flushed
           /\ q.total_recovered_from_wrapper = p.total_recovered_from_wrapper
           /\ q.total_returned = p.total_returned + written_off
           /\ q.realized_junior_loss = p.realized_junior_loss + written_off
           /\ q.tranche_enabled = p.tranche_enabled
           /\ \/ /\ ~(p.tranche_enabled /\ junior)
                 /\ written_off = 0
                 /\ q.junior_balance = p.junior_balance
                 /\ q.junior_total_lp = p.junior_total_lp
              \/ /\ p.tranche_enabled /\ junior
                 /\ written_off = 0
                 /\ q.junior_balance = p.junior_balance - payout
                 /\ q.junior_total_lp = p.junior_total_lp - lp
              \/ /\ p.tranche_enabled /\ junior
                 /\ q.junior_balance = 0
                 /\ q.junior_total_lp = 0
<1> DEFINE paid == [p EXCEPT !.total_withdrawn = @ + payout, !.total_lp_supply = @ - lp]
           forfeited == Forfeited(paid)
<1>1. q = IF p.tranche_enabled /\ junior THEN RedeemJunior(paid, lp, payout) ELSE paid
  BY DEF Redeemed
<1>2. paid \in Pool
  BY DEF Pool
<1>3. /\ signed_value(paid) = signed_value(p) - payout
      /\ net_loss(paid) = net_loss(p)
      /\ paid.total_flushed = p.total_flushed
      /\ paid.total_recovered_from_wrapper = p.total_recovered_from_wrapper
      /\ paid.total_returned = p.total_returned
      /\ paid.realized_junior_loss = p.realized_junior_loss
      /\ paid.tranche_enabled = p.tranche_enabled
      /\ paid.junior_balance = p.junior_balance
      /\ paid.junior_total_lp = p.junior_total_lp
  BY DEF signed_value, net_loss, Pool, U64
<1>4. forfeited \in Nat /\ forfeited <= net_loss(p) /\ net_loss(p) \in Nat
  BY <1>2, <1>3, ForfeitBound, JuniorNetOfLoss DEF U64
<1>5. /\ p.total_returned \in Nat /\ p.realized_junior_loss \in Nat
      /\ signed_value(p) \in Int
  BY PoolValue DEF Pool, U64
<1> HIDE DEF paid, forfeited
<1>6. CASE ~(p.tranche_enabled /\ junior)
  <2>1. q = paid
    BY <1>1, <1>6
  <2> WITNESS 0 \in Nat
  <2> QED  BY <1>3, <1>4, <1>5, <1>6, <2>1
<1>7. CASE p.tranche_enabled /\ junior /\ paid.junior_total_lp # lp
  <2>1. q = [paid EXCEPT !.junior_total_lp = @ - lp, !.junior_balance = @ - payout]
    BY <1>1, <1>7 DEF RedeemJunior
  <2>2. /\ signed_value(q) = signed_value(paid)
        /\ q.total_flushed = paid.total_flushed
        /\ q.total_recovered_from_wrapper = paid.total_recovered_from_wrapper
        /\ q.total_returned = paid.total_returned
        /\ q.realized_junior_loss = paid.realized_junior_loss
        /\ q.tranche_enabled = paid.tranche_enabled
        /\ q.junior_balance = paid.junior_balance - payout
        /\ q.junior_total_lp = paid.junior_total_lp - lp
    BY <1>2, <2>1 DEF signed_value, Pool
  <2>3. /\ 0 <= net_loss(p)
        /\ q.total_returned = p.total_returned + 0
        /\ q.realized_junior_loss = p.realized_junior_loss + 0
    BY <1>3, <1>4, <1>5, <2>2
  <2> WITNESS 0 \in Nat
  <2> QED  BY <1>3, <1>7, <2>2, <2>3, Zenon
<1>8. CASE p.tranche_enabled /\ junior /\ paid.junior_total_lp = lp
  <2>1. q = [paid EXCEPT !.junior_total_lp = 0, !.junior_balance = 0,
                         !.total_returned = @ + forfeited,
                         !.realized_junior_loss = @ + forfeited]
    BY <1>1, <1>8 DEF RedeemJunior, forfeited
  <2>2. /\ signed_value(q) = signed_value(paid)
        /\ q.total_flushed = paid.total_flushed
        /\ q.total_recovered_from_wrapper = paid.total_recovered_from_wrapper
        /\ q.total_returned = paid.total_returned + forfeited
        /\ q.realized_junior_loss = paid.realized_junior_loss + forfeited
        /\ q.tranche_enabled = paid.tranche_enabled
        /\ q.junior_balance = 0
        /\ q.junior_total_lp = 0
    BY <1>2, <1>4, <2>1 DEF signed_value, Pool, U64
  <2> forfeited \in Nat
    BY <1>4
  <2> WITNESS forfeited \in Nat
  <2> QED  BY <1>3, <1>4, <1>5, <1>8, <2>2
<1> QED  BY <1>6, <1>7, <1>8

(* Withdrawals: a senior is never paid out of the juniors' balance.        *)
LEMMA TiedWithdraw ==
    ASSUME LedgerInv, LedgerInv', ShareInv, TranchesTied(pool), NEW u \in Users, NEW lp \in Nat,
           Withdraw(u, lp)
    PROVE  TranchesTied(pool')
<1> DEFINE priced == pre_accrue_fee_modes(pool, vault)
           junior == deposits[u].junior
           payout == Redemption(priced, junior, lp)
           after == Redeemed(priced, junior, lp, payout)
           value == IF junior THEN effective_junior_balance(priced) ELSE SeniorValue(priced)
<1>1. AccrueOk(pool, vault) /\ BooksKept(after, pool')
  BY WithdrawBooks
<1>2. pool \in Pool /\ vault \in U64 /\ junior \in BOOLEAN
  BY DEF LedgerInv, TypeOK, DepositRecord
<1>3. priced \in Pool /\ TranchesTied(priced) /\ total_pool_value(priced) # None
  BY <1>1, <1>2, PricedBooks, TiedAccrued, U64Assumption DEF pre_accrue_fee_modes, U64, None
<1>4. payout \in Nat /\ payout <= value /\ (junior => priced.tranche_enabled)
  BY PayoutBound
<1>5. pool' \in Pool /\ signed_value(pool') \in Nat
  BY ValueNext
<1> HIDE DEF priced, payout
<1>6. after.total_withdrawn = priced.total_withdrawn + payout
      /\ after.total_lp_supply = priced.total_lp_supply - lp
  BY <1>3 DEF Redeemed, RedeemJunior, Pool
<1>7. priced.total_withdrawn + payout \in U64 /\ priced.total_lp_supply - lp \in U64
  <2>1. pool'.total_withdrawn \in U64 /\ pool'.total_lp_supply \in U64
    BY <1>5 DEF Pool
  <2> HIDE DEF after
  <2> QED  BY <1>1, <1>6, <2>1 DEF BooksKept
<1>8. signed_value(after) \in Nat
  <2> HIDE DEF after
  <2> QED  BY <1>1, <1>5, BooksPrice
<1>9. PICK written_off \in Nat :
         /\ written_off <= net_loss(priced)
         /\ signed_value(after) = signed_value(priced) - payout
         /\ after.total_flushed = priced.total_flushed
         /\ after.total_recovered_from_wrapper = priced.total_recovered_from_wrapper
         /\ after.total_returned = priced.total_returned + written_off
         /\ after.realized_junior_loss = priced.realized_junior_loss + written_off
         /\ after.tranche_enabled = priced.tranche_enabled
         /\ \/ /\ ~(priced.tranche_enabled /\ junior)
               /\ written_off = 0
               /\ after.junior_balance = priced.junior_balance
               /\ after.junior_total_lp = priced.junior_total_lp
            \/ /\ priced.tranche_enabled /\ junior
               /\ written_off = 0
               /\ after.junior_balance = priced.junior_balance - payout
               /\ after.junior_total_lp = priced.junior_total_lp - lp
            \/ /\ priced.tranche_enabled /\ junior
               /\ after.junior_balance = 0
               /\ after.junior_total_lp = 0
  BY <1>3, <1>4, <1>7, RedeemTranche
<1>10. /\ priced.total_returned \in Nat /\ priced.total_flushed \in Nat
       /\ priced.realized_junior_loss \in Nat /\ priced.junior_balance \in Nat
       /\ priced.total_recovered_from_wrapper \in Nat
       /\ signed_value(priced) \in Int /\ net_loss(priced) \in Nat
       /\ net_loss(priced) = SatSub(priced.total_flushed, priced.total_returned)
       /\ net_loss(after) = SatSub(after.total_flushed, after.total_returned)
       /\ effective_junior_balance(priced) = SatSub(priced.junior_balance, net_loss(priced))
  BY <1>3, PoolValue, JuniorNetOfLoss DEF Pool, U64, net_loss
<1> HIDE DEF after
<1>11. admin_returned(after) = admin_returned(priced)
  BY <1>9, <1>10 DEF admin_returned
<1>12. ~after.tranche_enabled => after.junior_balance = 0
  BY <1>3, <1>9 DEF TranchesTied
<1>13. ASSUME OneReturnPath(after)
       PROVE  /\ after.total_returned <= after.total_flushed
              /\ after.junior_balance <= signed_value(after) + net_loss(after)
  <2>1. OneReturnPath(priced)
    BY <1>9, <1>11, <1>13 DEF OneReturnPath
  <2>2. /\ priced.total_returned <= priced.total_flushed
        /\ priced.junior_balance <= signed_value(priced) + net_loss(priced)
    BY <1>3, <2>1 DEF TranchesTied
  <2>3. net_loss(priced) = priced.total_flushed - priced.total_returned
    BY <1>10, <2>2 DEF SatSub
  <2>4. after.total_returned <= after.total_flushed
    BY <1>9, <1>10, <2>3
  <2>5. net_loss(after) = net_loss(priced) - written_off
    BY <1>9, <1>10, <2>3, <2>4 DEF SatSub
  <2>6. ~junior => payout <= signed_value(priced) - SatSub(priced.junior_balance, net_loss(priced))
    <3>1. SeniorValue(priced) = signed_value(priced) - effective_junior_balance(priced)
      BY <1>3, <2>1, TiedSenior
    <3> QED  BY <1>4, <1>10, <3>1
  <2>7. after.junior_balance <= signed_value(after) + net_loss(after)
    <3>1. CASE junior
      BY <1>4, <1>8, <1>9, <1>10, <2>2, <2>5, <3>1
    <3>2. CASE ~junior
      BY <1>4, <1>8, <1>9, <1>10, <2>2, <2>5, <2>6, <3>2 DEF SatSub
    <3> QED  BY <1>2, <3>1, <3>2
  <2> QED  BY <2>4, <2>7
<1>14. TranchesTied(after)
  BY <1>12, <1>13 DEF TranchesTied
<1> QED  BY <1>1, <1>14, TiedBooks

(* The insurance handlers move value between the vault and the loss.       *)
LEMMA TiedInsurance ==
    ASSUME LedgerInv, LedgerInv', TranchesTied(pool), NEW a \in Nat,
           \/ FlushToInsurance(a) \/ ReturnInsurance(a)
           \/ RecoverFlushedInsurance(a) \/ AdminSetTrancheConfig(a)
    PROVE  TranchesTied(pool')
<1>1. pool \in Pool /\ signed_value(pool) \in Nat /\ admin_returned(pool) \in Nat
  <2>1. pool \in Pool /\ total_pool_value(pool) # None /\ admin_returned(pool) >= 0
    BY DEF LedgerInv, TypeOK, VaultSolvent, RecoveryBounded
  <2>2. admin_returned(pool) \in Int
    BY <2>1 DEF admin_returned, Pool, U64
  <2> QED  BY <2>1, <2>2, PoolValue DEF U64
<1>2. /\ pool.total_flushed \in Nat /\ pool.total_returned \in Nat
      /\ pool.junior_balance \in Nat /\ pool.total_recovered_from_wrapper \in Nat
      /\ pool.realized_junior_loss \in Nat
      /\ net_loss(pool) = SatSub(pool.total_flushed, pool.total_returned)
  BY <1>1 DEF Pool, U64, net_loss
<1>3. /\ ~pool.tranche_enabled => pool.junior_balance = 0
      /\ OneReturnPath(pool) => /\ pool.total_returned <= pool.total_flushed
                                /\ pool.junior_balance <= signed_value(pool) + net_loss(pool)
  BY DEF TranchesTied
<1>4. CASE FlushToInsurance(a)
  <2> DEFINE after == [pool EXCEPT !.total_flushed = @ + a]
  <2>1. BooksKept(after, pool')
    BY <1>4, InsuranceBooks
  <2>2. /\ after.total_flushed = pool.total_flushed + a
        /\ after.total_returned = pool.total_returned
        /\ after.junior_balance = pool.junior_balance
        /\ after.tranche_enabled = pool.tranche_enabled
        /\ after.total_recovered_from_wrapper = pool.total_recovered_from_wrapper
        /\ admin_returned(after) = admin_returned(pool)
        /\ signed_value(after) = signed_value(pool) - a
        /\ net_loss(after) = SatSub(after.total_flushed, after.total_returned)
    BY <1>1 DEF signed_value, net_loss, admin_returned, Pool, U64
  <2> HIDE DEF after
  <2>3. OneReturnPath(after) = OneReturnPath(pool)
    BY <2>2 DEF OneReturnPath
  <2>4. TranchesTied(after)
    BY <1>1, <1>2, <1>3, <2>2, <2>3 DEF TranchesTied, SatSub
  <2> QED  BY <2>1, <2>4, TiedBooks
<1>5. CASE ReturnInsurance(a)
  <2> DEFINE after == [pool EXCEPT !.total_returned = @ + a]
  <2>1. BooksKept(after, pool') /\ a > 0 /\ a <= net_loss(pool)
    BY <1>5, InsuranceBooks DEF ReturnInsurance
  <2>2. /\ after.total_flushed = pool.total_flushed
        /\ after.total_returned = pool.total_returned + a
        /\ after.junior_balance = pool.junior_balance
        /\ after.tranche_enabled = pool.tranche_enabled
        /\ after.total_recovered_from_wrapper = pool.total_recovered_from_wrapper
        /\ admin_returned(after) = admin_returned(pool) + a
        /\ signed_value(after) = signed_value(pool) + a
        /\ net_loss(after) = SatSub(after.total_flushed, after.total_returned)
    BY <1>1 DEF signed_value, net_loss, admin_returned, Pool, U64
  <2> HIDE DEF after
  <2>3. OneReturnPath(after) => OneReturnPath(pool)
    BY <1>1, <2>1, <2>2 DEF OneReturnPath
  <2>4. TranchesTied(after)
    BY <1>1, <1>2, <1>3, <2>1, <2>2, <2>3 DEF TranchesTied, SatSub
  <2> QED  BY <2>1, <2>4, TiedBooks
<1>6. CASE RecoverFlushedInsurance(a)
  <2> DEFINE after == [pool EXCEPT !.total_returned = @ + a,
                                   !.total_recovered_from_wrapper = @ + a]
  <2>1. BooksKept(after, pool') /\ a > 0
    BY <1>6, InsuranceBooks DEF RecoverFlushedInsurance, RecoveryOpen
  <2>2. /\ after.total_flushed = pool.total_flushed
        /\ after.total_returned = pool.total_returned + a
        /\ after.junior_balance = pool.junior_balance
        /\ after.tranche_enabled = pool.tranche_enabled
        /\ after.total_recovered_from_wrapper = pool.total_recovered_from_wrapper + a
        /\ after.realized_junior_loss = pool.realized_junior_loss
        /\ admin_returned(after) = admin_returned(pool)
        /\ admin_returned(after) = after.total_returned - after.total_recovered_from_wrapper
                                                        - after.realized_junior_loss
        /\ signed_value(after) = signed_value(pool) + a
        /\ net_loss(after) = SatSub(after.total_flushed, after.total_returned)
    BY <1>1 DEF signed_value, net_loss, admin_returned, Pool, U64
  <2> HIDE DEF after
  <2>3. after.total_recovered_from_wrapper + after.realized_junior_loss <= after.total_flushed
    BY <2>1 DEF BooksKept, LedgerInv, RecoveryBounded
  <2>4. OneReturnPath(after) => OneReturnPath(pool) /\ after.total_returned <= after.total_flushed
    BY <1>1, <1>2, <2>1, <2>2, <2>3 DEF OneReturnPath
  <2>5. TranchesTied(after)
    BY <1>1, <1>2, <1>3, <2>1, <2>2, <2>4 DEF TranchesTied, SatSub
  <2> QED  BY <2>1, <2>5, TiedBooks
<1>7. CASE AdminSetTrancheConfig(a)
  <2> DEFINE after == [pool EXCEPT !.tranche_enabled = TRUE]
  <2>1. BooksKept(after, pool')
    BY <1>7, InsuranceBooks
  <2>2. /\ after.total_flushed = pool.total_flushed
        /\ after.total_returned = pool.total_returned
        /\ after.junior_balance = pool.junior_balance
        /\ after.tranche_enabled
        /\ after.total_recovered_from_wrapper = pool.total_recovered_from_wrapper
        /\ admin_returned(after) = admin_returned(pool)
        /\ signed_value(after) = signed_value(pool)
        /\ net_loss(after) = net_loss(pool)
    BY <1>1 DEF signed_value, net_loss, admin_returned, Pool, U64
  <2> HIDE DEF after
  <2>3. TranchesTied(after)
    BY <1>3, <2>2 DEF TranchesTied, OneReturnPath
  <2> QED  BY <2>1, <2>3, TiedBooks
<1> QED  BY <1>4, <1>5, <1>6, <1>7

(* A fresh pool has no juniors and no loss.                                *)
LEMMA TiedInit == Init => TranchesTied(pool)
<1> SUFFICES ASSUME Init PROVE TranchesTied(pool)
  OBVIOUS
<1>1. /\ pool.junior_balance = 0 /\ pool.total_returned = 0 /\ pool.total_flushed = 0
      /\ signed_value(pool) = 0 /\ net_loss(pool) = 0
  BY DEF Init, FreshPool, signed_value, net_loss, SatSub
<1> QED  BY <1>1 DEF TranchesTied

(* Every step keeps the tranches tied to the pool value.                   *)
LEMMA TiedNext ==
    LedgerInv /\ LedgerInv' /\ ShareInv /\ TranchesTied(pool) /\ [Next]_vars
        => TranchesTied(pool')
<1> SUFFICES ASSUME LedgerInv, LedgerInv', ShareInv, TranchesTied(pool), [Next]_vars
             PROVE  TranchesTied(pool')
  OBVIOUS
<1>1. CASE \E u \in Users, a \in Nat : Deposit(u, a) \/ DepositJunior(u, a)
  BY <1>1, TiedDeposit
<1>2. CASE \E u \in Users, l \in Nat : Withdraw(u, l)
  BY <1>2, TiedWithdraw
<1>3. CASE AccrueFees
  <2>1. pool' = Accrued(pool, vault) /\ AccrueOk(pool, vault) /\ pool \in Pool /\ vault \in U64
    BY <1>3 DEF AccrueFees, LedgerInv, TypeOK
  <2> QED  BY <2>1, TiedAccrued
<1>4. CASE \E a \in Nat : \/ FlushToInsurance(a) \/ ReturnInsurance(a)
                          \/ RecoverFlushedInsurance(a) \/ AdminSetTrancheConfig(a)
  BY <1>4, TiedInsurance
<1>5. CASE \E u, v \in Users, n \in Nat : TransferLp(u, v, n)
  BY <1>5 DEF TransferLp
<1>6. CASE Clerical
  BY <1>6, ClericalBooks, TiedBooks
<1>7. CASE UNCHANGED vars
  BY <1>7 DEF vars
<1> QED  BY <1>1, <1>2, <1>3, <1>4, <1>5, <1>6, <1>7, StepKinds

(* The juniors' balance never exceeds the pool value plus the outstanding  *)
(* loss, and is empty until there are tranches.                            *)
THEOREM TiedInvariance == Spec => []TranchesTied(pool)
<1>1. Init => TranchesTied(pool)
  BY TiedInit
<1>2. LedgerInv /\ LedgerInv' /\ ShareInv /\ TranchesTied(pool) /\ [Next]_vars
         => TranchesTied(pool)'
  BY TiedNext
<1> QED  BY <1>1, <1>2, LedgerInvariance, ShareInvariance, PTL DEF Spec

(* The juniors are covered: as long as one path settles the losses, no     *)
(* more is returned than was flushed and the seniors' balance is defined.  *)
THEOREM JuniorsCovered == Spec => []TranchesCovered
<1>1. LedgerInv /\ TranchesTied(pool) => TranchesCovered
  <2> SUFFICES ASSUME LedgerInv, TranchesTied(pool), OneReturnPath(pool)
               PROVE  pool.total_returned <= pool.total_flushed /\ senior_balance(pool) # None
    BY DEF TranchesCovered
  <2>1. pool \in Pool /\ total_pool_value(pool) # None
    BY DEF LedgerInv, TypeOK, VaultSolvent
  <2>2. senior_balance(pool) \in Nat
    BY <2>1, TiedSenior
  <2> QED  BY <2>2 DEF TranchesTied, None
<1> QED  BY <1>1, LedgerInvariance, TiedInvariance, PTL

(* M-3: once exited juniors have forfeited a loss, the part they forfeited *)
(* is outstanding for good and the junior gate stays shut, as long as one  *)
(* path settles the losses.                                                *)
THEOREM ForfeitHolds == Spec => []ForfeitShutsJuniors
<1>1. LedgerInv /\ TranchesTied(pool) => ForfeitShutsJuniors
  <2> SUFFICES ASSUME LedgerInv, TranchesTied(pool), OneReturnPath(pool),
                      pool.realized_junior_loss > 0
               PROVE  physical_net_loss(pool) # 0
    BY DEF ForfeitShutsJuniors, JuniorGateOpen
  <2>1. /\ pool.total_flushed \in Nat /\ pool.total_returned \in Nat
        /\ pool.total_recovered_from_wrapper \in Nat /\ pool.realized_junior_loss \in Nat
    BY DEF LedgerInv, TypeOK, Pool, U64
  <2>2. pool.total_returned >= pool.realized_junior_loss
    BY <2>1 DEF LedgerInv, RecoveryBounded, admin_returned
  <2>3. pool.total_returned <= pool.total_flushed
    BY DEF TranchesTied
  <2> QED  BY <2>1, <2>2, <2>3 DEF physical_net_loss, SatSub
<1> QED  BY <1>1, LedgerInvariance, TiedInvariance, PTL

----------------------------------------------------------------------------
(* Losses and deposits.                                                    *)

(* What a step moves: shares only by deposits and withdrawals, deposits    *)
(* only by deposits, the flushed total only by a flush.                    *)
LEMMA StepMoves ==
    ASSUME LedgerInv, [Next]_vars
    PROVE  /\ \/ \E u \in Users, a \in Nat : Deposit(u, a)
              \/ \E u \in Users, a \in Nat : DepositJunior(u, a)
              \/ pool'.total_deposited = pool.total_deposited
           /\ \/ \E u \in Users, a \in Nat : Deposit(u, a)
              \/ \E u \in Users, a \in Nat : DepositJunior(u, a)
              \/ \E u \in Users, l \in Nat : Withdraw(u, l)
              \/ /\ pool'.total_lp_supply = pool.total_lp_supply
                 /\ pool'.junior_total_lp = pool.junior_total_lp
           /\ \/ \E a \in Nat : FlushToInsurance(a)
              \/ pool'.total_flushed = pool.total_flushed
<1>1. CASE \E u \in Users, a \in Nat : Deposit(u, a)
  BY <1>1, DepositStep DEF InsuranceKept
<1>2. CASE \E u \in Users, a \in Nat : DepositJunior(u, a)
  BY <1>2, DepositJuniorStep DEF InsuranceKept
<1>3. CASE \E u \in Users, l \in Nat : Withdraw(u, l)
  <2>1. PICK u \in Users, l \in Nat : Withdraw(u, l)
    BY <1>3
  <2>2. pool'.total_flushed = pool.total_flushed
    BY <2>1, WithdrawStep DEF InsuranceSettled
  <2> DEFINE priced == pre_accrue_fee_modes(pool, vault)
             payout == Redemption(priced, deposits[u].junior, l)
             after == Redeemed(priced, deposits[u].junior, l, payout)
  <2>3. AccrueOk(pool, vault) /\ BooksKept(after, pool')
    BY <2>1, WithdrawBooks
  <2>4. priced \in Pool /\ priced.total_deposited = pool.total_deposited
    <3>1. priced \in Pool
      BY <2>3, PricedBooks
    <3>2. pool \in Pool
      BY DEF LedgerInv, TypeOK
    <3> QED  BY <3>1, <3>2 DEF pre_accrue_fee_modes, Accrued, Pool
  <2> HIDE DEF priced, payout
  <2>5. after.total_deposited = priced.total_deposited
    BY <2>4 DEF Redeemed, RedeemJunior, Pool
  <2> QED  BY <1>3, <2>2, <2>3, <2>4, <2>5 DEF BooksKept
<1>4. CASE AccrueFees
  BY <1>4 DEF AccrueFees, Accrued, LedgerInv, TypeOK, Pool
<1>5. CASE \E a \in Nat : \/ FlushToInsurance(a) \/ ReturnInsurance(a)
                          \/ RecoverFlushedInsurance(a) \/ AdminSetTrancheConfig(a)
  <2>1. pool \in Pool
    BY DEF LedgerInv, TypeOK
  <2> QED  BY <1>5, <2>1, ZenonT(40) DEF FlushToInsurance, ReturnInsurance, RecoverFlushedInsurance, Recovered,
              AdminSetTrancheConfig, Pool
<1>6. CASE \E u, v \in Users, n \in Nat : TransferLp(u, v, n)
  BY <1>6 DEF TransferLp
<1>7. CASE Clerical
  BY <1>7, ClericalBooks DEF BooksKept
<1>8. CASE UNCHANGED vars
  BY <1>8 DEF vars
<1> QED  BY <1>1, <1>2, <1>3, <1>4, <1>5, <1>6, <1>7, <1>8, StepKinds

(* A flush costs the seniors what is left of it after the juniors.         *)
LEMMA FlushSplitsLoss ==
    LedgerInv /\ LedgerInv' /\ TranchesTied(pool) /\ TranchesTied(pool)' /\ [Next]_vars
        => FirstLossStep
<1> SUFFICES ASSUME LedgerInv, LedgerInv', TranchesTied(pool), TranchesTied(pool'), [Next]_vars,
                    pool'.total_flushed > pool.total_flushed, OneReturnPath(pool)
             PROVE  senior_balance(pool') = senior_balance(pool)
                       - SatSub(pool'.total_flushed - pool.total_flushed,
                                effective_junior_balance(pool))
  BY DEF FirstLossStep
<1>1. pool \in Pool /\ total_pool_value(pool) # None
  BY DEF LedgerInv, TypeOK, VaultSolvent
<1>2. pool' \in Pool /\ total_pool_value(pool') # None
  BY ValueNext
<1>3. /\ pool.total_flushed \in Nat /\ pool.total_returned \in Nat /\ pool.junior_balance \in Nat
      /\ signed_value(pool) \in Nat
  BY <1>1, PoolValue DEF Pool, U64
<1>4. PICK a \in Nat : FlushToInsurance(a)
  BY <1>3, StepMoves
<1> DEFINE after == [pool EXCEPT !.total_flushed = @ + a]
<1>5. BooksKept(after, pool')
  BY <1>4, InsuranceBooks
<1>6. /\ after.total_flushed = pool.total_flushed + a
      /\ after.total_returned = pool.total_returned
      /\ after.junior_balance = pool.junior_balance
      /\ after.total_recovered_from_wrapper = pool.total_recovered_from_wrapper
      /\ admin_returned(after) = admin_returned(pool)
      /\ signed_value(after) = signed_value(pool) - a
  BY <1>1 DEF signed_value, admin_returned, Pool, U64
<1> HIDE DEF after
<1>7. /\ pool'.total_flushed = pool.total_flushed + a
      /\ pool'.total_returned = pool.total_returned
      /\ pool'.junior_balance = pool.junior_balance
      /\ signed_value(pool') = signed_value(pool) - a
      /\ OneReturnPath(pool')
  BY <1>5, <1>6, BooksPrice DEF BooksKept, OneReturnPath
<1>8. /\ senior_balance(pool) = signed_value(pool) - SatSub(pool.junior_balance, net_loss(pool))
      /\ effective_junior_balance(pool) = SatSub(pool.junior_balance, net_loss(pool))
      /\ net_loss(pool) = pool.total_flushed - pool.total_returned
      /\ net_loss(pool) \in Nat
  BY <1>1, TiedSenior, JuniorNetOfLoss
<1>9. /\ senior_balance(pool') = signed_value(pool') - SatSub(pool'.junior_balance, net_loss(pool'))
      /\ net_loss(pool') = pool'.total_flushed - pool'.total_returned
  <2>1. /\ senior_balance(pool') = signed_value(pool') - effective_junior_balance(pool')
        /\ net_loss(pool') = pool'.total_flushed - pool'.total_returned
    BY <1>2, <1>7, TiedSenior
  <2>2. effective_junior_balance(pool') = SatSub(pool'.junior_balance, net_loss(pool'))
    BY <1>2, JuniorNetOfLoss
  <2> QED  BY <2>1, <2>2
<1> QED  BY <1>3, <1>7, <1>8, <1>9 DEF SatSub

(* First loss: the seniors pay for a flush only what the juniors' balance  *)
(* does not cover.                                                         *)
THEOREM FirstLossHolds == Spec => JuniorsLoseFirst
BY LedgerInvariance, TiedInvariance, FlushSplitsLoss, PTL DEF Spec, JuniorsLoseFirst

(* Paying the loss back leaves the juniors their whole balance, and adds   *)
(* the loss to the pool value.                                             *)
LEMMA RepaidBooks ==
    ASSUME NEW p \in Pool
    PROVE  /\ Repaid(p) \in Pool
           /\ effective_junior_balance(Repaid(p)) = p.junior_balance
           /\ signed_value(Repaid(p)) = signed_value(p) + net_loss(p)
<1>1. /\ p.total_flushed \in U64 /\ p.total_returned \in U64 /\ p.junior_balance \in U64
      /\ net_loss(p) = SatSub(p.total_flushed, p.total_returned)
  BY DEF Pool, net_loss
<1>2. p.total_returned + net_loss(p) \in U64
  BY <1>1, U64Assumption DEF SatSub, U64
<1>3. Repaid(p) \in Pool
  BY <1>2 DEF Repaid, Pool
<1>4. /\ Repaid(p).total_returned = p.total_returned + net_loss(p)
      /\ Repaid(p).total_flushed = p.total_flushed
      /\ Repaid(p).junior_balance = p.junior_balance
  BY DEF Repaid, Pool
<1>5. signed_value(Repaid(p)) = signed_value(p) + net_loss(p)
  BY <1>1 DEF Repaid, signed_value, Pool, U64, SatSub
<1>6. net_loss(Repaid(p)) = 0
  BY <1>1, <1>4 DEF net_loss, SatSub, U64
<1>7. effective_junior_balance(Repaid(p)) = SatSub(p.junior_balance, 0)
  BY <1>3, <1>4, <1>6, JuniorNetOfLoss
<1> QED  BY <1>1, <1>3, <1>5, <1>7 DEF SatSub, U64

(* Nobody who enters is paid by a later repayment.                         *)
LEMMA EntryPriced ==
    LedgerInv /\ LedgerInv' /\ [Next]_vars => EntryStep
<1> SUFFICES ASSUME LedgerInv, LedgerInv', [Next]_vars,
                    pool'.total_deposited > pool.total_deposited, pool.tranche_enabled,
                    total_pool_value(Repaid(pool')) # None
             PROVE  IF pool'.junior_total_lp = pool.junior_total_lp
                    THEN senior_balance(Repaid(pool')) = senior_balance(pool')
                    ELSE effective_junior_balance(Repaid(pool')) = effective_junior_balance(pool')
  BY DEF EntryStep
<1> DEFINE priced == pre_accrue_fee_modes(pool, vault)
<1>1. pool' \in Pool /\ signed_value(pool') \in Nat /\ total_pool_value(pool') = signed_value(pool')
  BY ValueNext, PoolValue
<1>2. /\ pool'.junior_balance \in Nat
      /\ net_loss(pool') \in Nat
      /\ effective_junior_balance(pool') = SatSub(pool'.junior_balance, net_loss(pool'))
  BY <1>1, JuniorNetOfLoss DEF Pool, U64
<1>3. /\ effective_junior_balance(Repaid(pool')) = pool'.junior_balance
      /\ total_pool_value(Repaid(pool')) = signed_value(pool') + net_loss(pool')
  BY <1>1, RepaidBooks, PoolValue
<1>4. pool.total_deposited \in Nat /\ pool.junior_total_lp \in Nat
  BY DEF LedgerInv, TypeOK, Pool, U64
<1>5. CASE \E u \in Users, a \in Nat : Deposit(u, a)
  <2>1. PICK u \in Users, a \in Nat : Deposit(u, a)
    BY <1>5
  <2> DEFINE lp == SeniorShares(priced, a)
             after == [priced EXCEPT !.total_deposited = @ + a, !.total_lp_supply = @ + lp]
  <2>2. AccrueOk(pool, vault) /\ SeniorGateOpen(priced) /\ BooksKept(after, pool')
    BY <2>1, DepositBooks
  <2>3. /\ priced \in Pool /\ priced.tranche_enabled = pool.tranche_enabled
        /\ priced.junior_total_lp = pool.junior_total_lp
    BY <2>2, PricedBooks
  <2> HIDE DEF priced, lp
  <2>4. /\ net_loss(after) = net_loss(priced) /\ after.junior_balance = priced.junior_balance
        /\ after.junior_total_lp = priced.junior_total_lp
    BY <2>3 DEF net_loss, Pool
  <2>5. net_loss(priced) <= priced.junior_balance
    BY <2>2, <2>3 DEF SeniorGateOpen
  <2> HIDE DEF after
  <2>6. net_loss(pool') <= pool'.junior_balance /\ pool'.junior_total_lp = pool.junior_total_lp
    BY <2>2, <2>3, <2>4, <2>5, BooksPrice DEF BooksKept
  <2>7. effective_junior_balance(pool') = pool'.junior_balance - net_loss(pool')
    BY <1>2, <2>6 DEF SatSub
  <2>8. senior_balance(Repaid(pool')) = senior_balance(pool')
    BY <1>1, <1>2, <1>3, <2>6, <2>7 DEF senior_balance, None
  <2> QED  BY <2>6, <2>8
<1>6. CASE \E u \in Users, a \in Nat : DepositJunior(u, a)
  <2>1. PICK u \in Users, a \in Nat : DepositJunior(u, a)
    BY <1>6
  <2> DEFINE lp == JuniorShares(priced, a)
             after == [priced EXCEPT !.total_deposited = @ + a, !.total_lp_supply = @ + lp,
                                     !.junior_total_lp = @ + lp, !.junior_balance = @ + a]
  <2>2. /\ AccrueOk(pool, vault) /\ JuniorGateOpen(priced) /\ BooksKept(after, pool')
        /\ lp \in U64 \ {0}
    BY <2>1, DepositJuniorBooks
  <2>3. /\ priced \in Pool /\ priced.junior_total_lp = pool.junior_total_lp
        /\ InsuranceKept(pool, priced)
    BY <2>2, PricedBooks, PricedPool DEF LedgerInv
  <2> HIDE DEF priced, lp
  <2>4. /\ net_loss(after) = net_loss(priced)
        /\ after.junior_total_lp = priced.junior_total_lp + lp
    BY <2>3 DEF net_loss, Pool
  <2> HIDE DEF after
  <2>5. priced.total_returned >= priced.realized_junior_loss
    <3>1. /\ pool.total_returned \in Nat /\ pool.realized_junior_loss \in Nat
          /\ pool.total_recovered_from_wrapper \in Nat
          /\ pool.total_returned - pool.total_recovered_from_wrapper
                - pool.realized_junior_loss >= 0
      BY DEF LedgerInv, TypeOK, Pool, U64, RecoveryBounded, admin_returned
    <3> QED  BY <2>3, <3>1 DEF InsuranceKept
  <2>6. net_loss(priced) = 0
    <3>1. /\ priced.total_flushed \in Nat /\ priced.total_returned \in Nat
          /\ priced.realized_junior_loss \in Nat
      BY <2>3 DEF Pool, U64
    <3> QED  BY <2>2, <2>5, <3>1 DEF JuniorGateOpen, physical_net_loss, net_loss, SatSub
  <2>7. net_loss(pool') = 0 /\ pool'.junior_total_lp # pool.junior_total_lp
    BY <1>4, <2>2, <2>3, <2>4, <2>6, BooksPrice DEF BooksKept, U64
  <2> QED  BY <1>2, <1>3, <2>7 DEF SatSub
<1>7. CASE pool'.total_deposited = pool.total_deposited
  BY <1>4, <1>7
<1> QED  BY <1>5, <1>6, <1>7, StepMoves

(* Recovery belongs to the shares that bore the loss.                      *)
THEOREM EntryHolds == Spec => RecoveryNotSniped
BY LedgerInvariance, EntryPriced, PTL DEF Spec, RecoveryNotSniped

----------------------------------------------------------------------------
(* The price of a share.                                                   *)

(* No share of p is worth less in q.                                       *)
SharesKeepValue(p, q) ==
    /\ PriceKept(SeniorValue(p), senior_total_lp(p), SeniorValue(q), senior_total_lp(q))
    /\ PriceKept(effective_junior_balance(p), p.junior_total_lp,
                 effective_junior_balance(q), q.junior_total_lp)

(* Multiplying by a number keeps an order.                                 *)
LEMMA TimesMonotone ==
    ASSUME NEW a \in Int, NEW b \in Int, NEW c \in Nat, a <= b
    PROVE  a * c <= b * c
<1>1. (b - a) * c >= 0
  OBVIOUS
<1>2. (b - a) * c = b * c - a * c
  OBVIOUS
<1> QED  BY <1>1, <1>2

(* More value for the same shares.                                         *)
LEMMA PriceUp ==
    ASSUME NEW value \in Int, NEW value_after \in Int, NEW supply \in Nat, value <= value_after
    PROVE  PriceKept(value, supply, value_after, supply)
<1>1. (value + VIRTUAL_ASSETS) * (supply + VIRTUAL_SHARES)
          <= (value_after + VIRTUAL_ASSETS) * (supply + VIRTUAL_SHARES)
  BY TimesMonotone DEF VIRTUAL_ASSETS, VIRTUAL_SHARES
<1>2. /\ (value + VIRTUAL_ASSETS) * (supply + VIRTUAL_SHARES) \in Int
      /\ (value_after + VIRTUAL_ASSETS) * (supply + VIRTUAL_SHARES) \in Int
  BY DEF VIRTUAL_ASSETS, VIRTUAL_SHARES
<1> QED  BY <1>1, <1>2 DEF PriceKept

(* A price kept from a higher value is kept from a lower one.              *)
LEMMA PriceChain ==
    ASSUME NEW value \in Int, NEW value_between \in Int, NEW value_after \in Int,
           NEW supply \in Nat, NEW supply_after \in Nat, value <= value_between,
           PriceKept(value_between, supply, value_after, supply_after)
    PROVE  PriceKept(value, supply, value_after, supply_after)
<1>1. (value + VIRTUAL_ASSETS) * (supply_after + VIRTUAL_SHARES)
          <= (value_between + VIRTUAL_ASSETS) * (supply_after + VIRTUAL_SHARES)
  BY TimesMonotone DEF VIRTUAL_ASSETS, VIRTUAL_SHARES
<1>2. /\ (value + VIRTUAL_ASSETS) * (supply_after + VIRTUAL_SHARES) \in Int
      /\ (value_between + VIRTUAL_ASSETS) * (supply_after + VIRTUAL_SHARES) \in Int
      /\ (value_after + VIRTUAL_ASSETS) * (supply + VIRTUAL_SHARES) \in Int
  BY DEF VIRTUAL_ASSETS, VIRTUAL_SHARES
<1> QED  BY <1>1, <1>2 DEF PriceKept

(* The types of what prices are made of.                                   *)
LEMMA PriceTypes ==
    ASSUME NEW p \in Pool
    PROVE  /\ SeniorValue(p) \in Int /\ effective_junior_balance(p) \in Nat
           /\ senior_total_lp(p) \in Nat /\ p.junior_total_lp \in Nat
<1>1. /\ senior_balance(p) \in U64 \cup {None} /\ total_pool_value(p) \in U64 \cup {None}
      /\ effective_junior_balance(p) \in U64 /\ senior_total_lp(p) \in U64
      /\ p.junior_total_lp \in U64
  BY PoolValue, TrancheTypes DEF Pool
<1> QED  BY <1>1 DEF SeniorValue, U64, None

(* Prices only depend on the books.                                        *)
LEMMA PriceBooks ==
    ASSUME NEW p, NEW q, NEW r, SharesKeepValue(p, q), BooksKept(q, r)
    PROVE  SharesKeepValue(p, r)
BY BooksPrice DEF SharesKeepValue, BooksKept

(* There are no junior shares before there are tranches, and never more    *)
(* than shares.                                                            *)
LEMMA JuniorShareBound ==
    ASSUME LedgerInv, ShareInv
    PROVE  /\ ~pool.tranche_enabled => pool.junior_total_lp = 0
           /\ pool.junior_total_lp <= pool.total_lp_supply
<1>1. ASSUME ~pool.tranche_enabled PROVE pool.junior_total_lp = 0
  <2>1. \A v \in Users : ~deposits[v].junior
    BY <1>1 DEF ShareInv, RecordsTied
  <2>2. \A v \in Users : junior_position[v] = 0
    BY <2>1 DEF junior_position
  <2>3. SharesOf(junior_position) = {}
    BY <2>2, U64Assumption DEF SharesOf, U64
  <2> QED  BY <2>3, FS_EmptySet DEF ShareInv, JuniorsCounted
<1>2. SharesOf(junior_position) \subseteq SharesOf(lp_position)
  <2>1. \A v \in Users : deposits[v].lp_amount \in Nat
    BY DEF LedgerInv, TypeOK, DepositRecord, U64
  <2>2. \A s : s[1] \in Users /\ s[2] \in U64 /\ s[2] < junior_position[s[1]]
                 => s[2] < lp_position[s[1]]
    BY <2>1 DEF junior_position, lp_position, U64
  <2> QED  BY <2>2, ShareMember
<1>3. Cardinality(SharesOf(junior_position)) <= Cardinality(SharesOf(lp_position))
  BY <1>2, FS_Subset DEF ShareInv, PositionsCounted
<1> QED  BY <1>1, <1>3 DEF ShareInv, PositionsCounted, JuniorsCounted

(* A senior deposit.                                                       *)
LEMMA DepositKeepsPrice ==
    ASSUME LedgerInv, LedgerInv', ShareInv, NEW u \in Users, NEW amount \in Nat,
           Deposit(u, amount)
    PROVE  SharesKeepValue(pre_accrue_fee_modes(pool, vault), pool')
<1> DEFINE priced == pre_accrue_fee_modes(pool, vault)
           lp == SeniorShares(priced, amount)
           after == [priced EXCEPT !.total_deposited = @ + amount, !.total_lp_supply = @ + lp]
<1>1. AccrueOk(pool, vault) /\ lp \in U64 \ {0} /\ BooksKept(after, pool') /\ after \in Pool
  BY DepositBooks
<1>2. /\ priced \in Pool /\ total_pool_value(priced) \in U64
      /\ priced.total_lp_supply = pool.total_lp_supply
      /\ priced.junior_total_lp = pool.junior_total_lp
      /\ priced.tranche_enabled = pool.tranche_enabled
  BY <1>1, PricedBooks
<1>3. total_pool_value(after) # None
  <2>1. total_pool_value(pool') # None
    BY ValueNext
  <2> HIDE DEF after
  <2> QED  BY <1>1, <2>1, BooksPrice
<1>4. lp = IF ~priced.tranche_enabled
           THEN calc_lp_for_deposit(priced.total_lp_supply, total_pool_value(priced), amount)
           ELSE IF senior_balance(priced) = None THEN None
           ELSE calc_lp_for_deposit(senior_total_lp(priced), senior_balance(priced), amount)
  BY DEF SeniorShares
<1> HIDE DEF priced, lp
<1>5. /\ signed_value(after) = signed_value(priced) + amount
      /\ net_loss(after) = net_loss(priced)
      /\ after.junior_balance = priced.junior_balance
      /\ after.junior_total_lp = priced.junior_total_lp
      /\ after.total_lp_supply = priced.total_lp_supply + lp
      /\ after.tranche_enabled = priced.tranche_enabled
  BY <1>2 DEF signed_value, net_loss, Pool, U64
<1> HIDE DEF after
<1>6. effective_junior_balance(after) = effective_junior_balance(priced)
  BY <1>1, <1>2, <1>5, JuniorNetOfLoss
<1>7. total_pool_value(after) = total_pool_value(priced) + amount
  BY <1>1, <1>2, <1>3, <1>5, PoolValue, U64Assumption DEF U64, None
<1>8. /\ priced.total_lp_supply \in Nat /\ priced.junior_total_lp \in Nat
      /\ priced.junior_total_lp <= priced.total_lp_supply
      /\ ~priced.tranche_enabled => priced.junior_total_lp = 0
      /\ lp \in Nat
  BY <1>1, <1>2, JuniorShareBound DEF Pool, U64
<1>9. /\ senior_total_lp(after) = senior_total_lp(priced) + lp
      /\ ~priced.tranche_enabled => senior_total_lp(priced) = priced.total_lp_supply
  BY <1>5, <1>8 DEF senior_total_lp, SatSub
<1>10. PriceKept(effective_junior_balance(priced), priced.junior_total_lp,
                 effective_junior_balance(after), after.junior_total_lp)
  BY <1>2, <1>5, <1>6, PriceTypes, PriceUp
<1>11. PriceKept(SeniorValue(priced), senior_total_lp(priced),
                 SeniorValue(after), senior_total_lp(after))
  <2> DEFINE value == SeniorValue(priced)
             supply == senior_total_lp(priced)
  <2>1. supply \in U64 /\ effective_junior_balance(priced) \in U64
    BY <1>2, TrancheTypes
  <2>2. /\ value \in U64 /\ SeniorValue(after) = value + amount
        /\ calc_lp_for_deposit(supply, value, amount) = lp
    <3>1. CASE ~priced.tranche_enabled
      BY <1>2, <1>4, <1>5, <1>7, <1>9, <3>1 DEF SeniorValue
    <3>2. CASE priced.tranche_enabled
      <4>1. senior_balance(priced) # None
        BY <1>4, <1>8, <3>2 DEF None
      <4>2. senior_balance(priced) = total_pool_value(priced) - effective_junior_balance(priced)
            /\ total_pool_value(priced) >= effective_junior_balance(priced)
        BY <1>2, <2>1, <4>1 DEF senior_balance, U64
      <4>3. senior_balance(after) = senior_balance(priced) + amount
        BY <1>2, <1>3, <1>6, <1>7, <2>1, <4>2 DEF senior_balance, U64
      <4>4. senior_balance(priced) \in U64
        BY <1>2, <4>1, TrancheTypes
      <4> QED  BY <1>4, <1>5, <3>2, <4>1, <4>3, <4>4 DEF SeniorValue
    <3> QED  BY <3>1, <3>2
  <2> HIDE DEF value, supply
  <2>3. supply > 0 => (value + amount + VIRTUAL_ASSETS) * (supply + VIRTUAL_SHARES)
                         >= (value + VIRTUAL_ASSETS) * (supply + lp + VIRTUAL_SHARES)
    BY <1>8, <2>1, <2>2, DepositPrice
  <2> QED  BY <1>9, <2>2, <2>3 DEF PriceKept, value, supply
<1>12. SharesKeepValue(priced, after)
  BY <1>10, <1>11 DEF SharesKeepValue
<1> QED  BY <1>1, <1>12, PriceBooks DEF priced

(* A junior deposit.                                                       *)
LEMMA JuniorDepositKeepsPrice ==
    ASSUME LedgerInv, LedgerInv', ShareInv, NEW u \in Users, NEW amount \in Nat,
           DepositJunior(u, amount)
    PROVE  SharesKeepValue(pre_accrue_fee_modes(pool, vault), pool')
<1> DEFINE priced == pre_accrue_fee_modes(pool, vault)
           lp == JuniorShares(priced, amount)
           after == [priced EXCEPT !.total_deposited = @ + amount, !.total_lp_supply = @ + lp,
                                   !.junior_total_lp = @ + lp, !.junior_balance = @ + amount]
<1>1. /\ AccrueOk(pool, vault) /\ lp \in U64 \ {0} /\ BooksKept(after, pool') /\ after \in Pool
      /\ JuniorGateOpen(priced) /\ pool.tranche_enabled
  BY DepositJuniorBooks
<1>2. /\ priced \in Pool /\ total_pool_value(priced) \in U64
      /\ priced.total_lp_supply = pool.total_lp_supply
      /\ priced.junior_total_lp = pool.junior_total_lp
      /\ priced.tranche_enabled
  BY <1>1, PricedBooks
<1>3. total_pool_value(after) # None /\ InsuranceKept(pool, priced)
  <2>1. total_pool_value(pool') # None
    BY ValueNext
  <2>2. InsuranceKept(pool, priced)
    BY <1>1, PricedPool DEF LedgerInv
  <2> HIDE DEF after, priced
  <2> QED  BY <1>1, <2>1, <2>2, BooksPrice
<1>4. lp = calc_lp_for_deposit(priced.junior_total_lp, effective_junior_balance(priced), amount)
  BY DEF JuniorShares
<1> HIDE DEF priced, lp
<1>5. /\ signed_value(after) = signed_value(priced) + amount
      /\ net_loss(after) = net_loss(priced)
      /\ after.junior_balance = priced.junior_balance + amount
      /\ after.junior_total_lp = priced.junior_total_lp + lp
      /\ after.total_lp_supply = priced.total_lp_supply + lp
      /\ after.tranche_enabled
  BY <1>2 DEF signed_value, net_loss, Pool, U64
<1> HIDE DEF after
<1>6. net_loss(priced) = 0
  <2>1. /\ priced.total_flushed \in Nat /\ priced.total_returned \in Nat
        /\ priced.realized_junior_loss \in Nat /\ priced.total_recovered_from_wrapper \in Nat
        /\ priced.total_returned - priced.total_recovered_from_wrapper
              - priced.realized_junior_loss >= 0
    BY <1>2, <1>3 DEF Pool, U64, InsuranceKept, LedgerInv, RecoveryBounded, admin_returned
  <2> QED  BY <1>1, <2>1 DEF JuniorGateOpen, physical_net_loss, net_loss, SatSub
<1>7. /\ effective_junior_balance(priced) = priced.junior_balance
      /\ effective_junior_balance(after) = priced.junior_balance + amount
      /\ priced.junior_balance \in Nat
  BY <1>1, <1>2, <1>5, <1>6, JuniorNetOfLoss DEF SatSub, Pool, U64
<1>8. /\ total_pool_value(after) = total_pool_value(priced) + amount
      /\ total_pool_value(priced) \in Nat /\ lp \in Nat
  BY <1>1, <1>2, <1>3, <1>5, PoolValue, U64Assumption DEF U64, None
<1>9. /\ priced.total_lp_supply \in Nat /\ priced.junior_total_lp \in Nat
      /\ priced.junior_total_lp <= priced.total_lp_supply
  BY <1>1, <1>2, JuniorShareBound DEF Pool, U64
<1>10. senior_total_lp(after) = senior_total_lp(priced)
  BY <1>5, <1>8, <1>9 DEF senior_total_lp, SatSub
<1>11. SeniorValue(after) = SeniorValue(priced)
  BY <1>2, <1>5, <1>7, <1>8 DEF SeniorValue, senior_balance, None
<1>12. PriceKept(SeniorValue(priced), senior_total_lp(priced),
                 SeniorValue(after), senior_total_lp(after))
  BY <1>2, <1>10, <1>11, PriceTypes, PriceUp
<1>13. PriceKept(effective_junior_balance(priced), priced.junior_total_lp,
                 effective_junior_balance(after), after.junior_total_lp)
  <2> DEFINE value == effective_junior_balance(priced)
             supply == priced.junior_total_lp
  <2>1. supply \in U64 /\ value \in U64
    BY <1>2, TrancheTypes DEF Pool
  <2>2. effective_junior_balance(after) = value + amount /\ after.junior_total_lp = supply + lp
        /\ lp = calc_lp_for_deposit(supply, value, amount)
    BY <1>4, <1>5, <1>7
  <2> HIDE DEF value, supply
  <2>3. supply > 0 => (value + amount + VIRTUAL_ASSETS) * (supply + VIRTUAL_SHARES)
                         >= (value + VIRTUAL_ASSETS) * (supply + lp + VIRTUAL_SHARES)
    BY <1>8, <2>1, <2>2, DepositPrice
  <2> QED  BY <2>2, <2>3 DEF PriceKept, value, supply
<1>14. SharesKeepValue(priced, after)
  BY <1>12, <1>13 DEF SharesKeepValue
<1> QED  BY <1>1, <1>14, PriceBooks DEF priced

(* A withdrawal, the last junior's included; it settles no loss by either  *)
(* of the two return paths.                                                *)
LEMMA WithdrawKeepsPrice ==
    ASSUME LedgerInv, LedgerInv', ShareInv, NEW u \in Users, NEW lp \in Nat, Withdraw(u, lp)
    PROVE  /\ SharesKeepValue(pre_accrue_fee_modes(pool, vault), pool')
           /\ admin_returned(pool') = admin_returned(pool)
           /\ pool'.total_recovered_from_wrapper = pool.total_recovered_from_wrapper
<1> DEFINE priced == pre_accrue_fee_modes(pool, vault)
           junior == deposits[u].junior
           payout == Redemption(priced, junior, lp)
           after == Redeemed(priced, junior, lp, payout)
           supply == IF junior THEN priced.junior_total_lp ELSE senior_total_lp(priced)
           value == IF junior THEN effective_junior_balance(priced) ELSE SeniorValue(priced)
<1>1. AccrueOk(pool, vault) /\ BooksKept(after, pool')
  BY WithdrawBooks
<1>2. /\ priced \in Pool /\ total_pool_value(priced) \in U64
      /\ priced.total_lp_supply = pool.total_lp_supply
      /\ priced.junior_total_lp = pool.junior_total_lp
      /\ priced.tranche_enabled = pool.tranche_enabled
      /\ InsuranceKept(pool, priced)
  BY <1>1, PricedBooks, PricedPool DEF LedgerInv
<1>3. /\ payout \in Nat /\ payout <= value /\ (junior => priced.tranche_enabled)
      /\ value \in U64 /\ supply \in U64 /\ lp <= supply
      /\ (value - payout + VIRTUAL_ASSETS) * (supply + VIRTUAL_SHARES)
            >= (value + VIRTUAL_ASSETS) * (supply - lp + VIRTUAL_SHARES)
  BY PayoutBound
<1>4. pool' \in Pool /\ total_pool_value(pool') # None /\ signed_value(pool') \in Nat
  BY ValueNext
<1>5. junior \in BOOLEAN
  BY DEF LedgerInv, TypeOK, DepositRecord
<1> HIDE DEF priced, payout
<1>6. after.total_withdrawn = priced.total_withdrawn + payout
      /\ after.total_lp_supply = priced.total_lp_supply - lp
      /\ after.junior_total_lp =
            priced.junior_total_lp - (IF priced.tranche_enabled /\ junior THEN lp ELSE 0)
  <2>1. after.total_withdrawn = priced.total_withdrawn + payout
    BY <1>2 DEF Redeemed, RedeemJunior, Pool
  <2>2. /\ after.total_lp_supply = priced.total_lp_supply - lp
        /\ after.junior_total_lp =
              priced.junior_total_lp - (IF priced.tranche_enabled /\ junior THEN lp ELSE 0)
    <3> HIDE DEF junior
    <3>1. priced \in Pool
      BY <1>2
    <3> QED  BY <3>1, RedeemShares
  <2> QED  BY <2>1, <2>2
<1>7. priced.total_withdrawn + payout \in U64 /\ priced.total_lp_supply - lp \in U64
  <2>1. pool'.total_withdrawn \in U64 /\ pool'.total_lp_supply \in U64
    BY <1>4 DEF Pool
  <2> HIDE DEF after
  <2> QED  BY <1>1, <1>6, <2>1 DEF BooksKept
<1>8. PICK written_off \in Nat :
         /\ written_off <= net_loss(priced)
         /\ signed_value(after) = signed_value(priced) - payout
         /\ after.total_flushed = priced.total_flushed
         /\ after.total_recovered_from_wrapper = priced.total_recovered_from_wrapper
         /\ after.total_returned = priced.total_returned + written_off
         /\ after.realized_junior_loss = priced.realized_junior_loss + written_off
         /\ after.tranche_enabled = priced.tranche_enabled
         /\ \/ /\ ~(priced.tranche_enabled /\ junior)
               /\ written_off = 0
               /\ after.junior_balance = priced.junior_balance
               /\ after.junior_total_lp = priced.junior_total_lp
            \/ /\ priced.tranche_enabled /\ junior
               /\ written_off = 0
               /\ after.junior_balance = priced.junior_balance - payout
               /\ after.junior_total_lp = priced.junior_total_lp - lp
            \/ /\ priced.tranche_enabled /\ junior
               /\ after.junior_balance = 0
               /\ after.junior_total_lp = 0
  BY <1>2, <1>3, <1>7, RedeemTranche
<1> HIDE DEF after
<1>9. /\ admin_returned(pool') = admin_returned(pool)
      /\ pool'.total_recovered_from_wrapper = pool.total_recovered_from_wrapper
  <2>1. /\ priced.total_returned \in Nat /\ priced.realized_junior_loss \in Nat
        /\ priced.total_recovered_from_wrapper \in Nat
    BY <1>2 DEF Pool, U64
  <2>2. admin_returned(after) = admin_returned(priced)
    BY <1>8, <2>1 DEF admin_returned
  <2>3. admin_returned(priced) = admin_returned(pool)
    BY <1>2 DEF InsuranceKept, admin_returned
  <2> QED  BY <1>1, <1>2, <1>8, <2>2, <2>3, BooksPrice DEF BooksKept, InsuranceKept
<1>10. /\ total_pool_value(pool') = total_pool_value(priced) - payout
       /\ total_pool_value(pool') # None
       /\ total_pool_value(priced) \in Nat
  <2>1. signed_value(pool') = signed_value(priced) - payout
    BY <1>1, <1>8, BooksPrice
  <2> QED  BY <1>2, <1>4, <2>1, PoolValue, U64Assumption DEF U64, None
<1>11. /\ effective_junior_balance(priced) = SatSub(priced.junior_balance, net_loss(priced))
       /\ effective_junior_balance(pool') = SatSub(pool'.junior_balance, net_loss(pool'))
       /\ net_loss(pool') \in Nat /\ net_loss(priced) \in Nat
       /\ priced.junior_balance \in Nat /\ pool'.junior_balance \in Nat
  BY <1>2, <1>4, JuniorNetOfLoss DEF Pool, U64
<1>12. written_off = 0 => net_loss(pool') = net_loss(priced)
  <2>1. priced.total_returned \in Nat
    BY <1>2 DEF Pool, U64
  <2> QED  BY <1>1, <1>8, <2>1 DEF BooksKept, net_loss
<1>13. /\ priced.total_lp_supply \in Nat /\ priced.junior_total_lp \in Nat
       /\ priced.junior_total_lp <= priced.total_lp_supply
       /\ pool'.total_lp_supply = priced.total_lp_supply - lp
       /\ pool'.tranche_enabled = priced.tranche_enabled
       /\ pool'.junior_total_lp =
             priced.junior_total_lp - (IF junior THEN lp ELSE 0)
       /\ pool'.junior_balance = after.junior_balance
       /\ pool'.junior_total_lp = after.junior_total_lp
  BY <1>1, <1>2, <1>3, <1>6, <1>8, JuniorShareBound DEF BooksKept, Pool, U64
<1>14. CASE ~junior
  <2>1. /\ effective_junior_balance(pool') = effective_junior_balance(priced)
        /\ pool'.junior_total_lp = priced.junior_total_lp
    BY <1>8, <1>11, <1>12, <1>13, <1>14
  <2>2. PriceKept(effective_junior_balance(priced), priced.junior_total_lp,
                  effective_junior_balance(pool'), pool'.junior_total_lp)
    BY <1>2, <2>1, PriceTypes, PriceUp
  <2>3. SeniorValue(pool') = SeniorValue(priced) - payout
    <3>1. CASE ~priced.tranche_enabled
      BY <1>10, <1>13, <3>1 DEF SeniorValue
    <3>2. CASE priced.tranche_enabled
      <4>1. senior_balance(priced) \in Nat /\ payout <= senior_balance(priced)
        BY <1>3, <1>14, <3>2 DEF SeniorValue, U64
      <4>2. senior_balance(priced) = total_pool_value(priced) - effective_junior_balance(priced)
        BY <4>1 DEF senior_balance, None
      <4>3. effective_junior_balance(priced) \in Nat
        BY <1>2, PriceTypes
      <4>4. senior_balance(pool') = senior_balance(priced) - payout
        BY <1>3, <1>10, <2>1, <4>1, <4>2, <4>3 DEF senior_balance
      <4> QED  BY <1>13, <3>2, <4>4 DEF SeniorValue
    <3> QED  BY <3>1, <3>2
  <2>4. senior_total_lp(pool') = senior_total_lp(priced) - lp
    BY <1>3, <1>13, <1>14 DEF senior_total_lp, SatSub
  <2>5. PriceKept(SeniorValue(priced), senior_total_lp(priced),
                  SeniorValue(pool'), senior_total_lp(pool'))
    BY <1>3, <1>14, <2>3, <2>4 DEF PriceKept
  <2> QED  BY <1>9, <2>2, <2>5 DEF SharesKeepValue, priced
<1>15. CASE junior
  <2>1. senior_total_lp(pool') = senior_total_lp(priced)
    BY <1>3, <1>13, <1>15 DEF senior_total_lp, SatSub
  <2>2. CASE pool'.junior_total_lp = 0
    <3>1. SeniorValue(priced) <= SeniorValue(pool')
      <4>1. payout <= effective_junior_balance(priced) /\ effective_junior_balance(priced) \in Nat
        BY <1>2, <1>3, <1>15, PriceTypes
      <4>2. effective_junior_balance(pool') <= effective_junior_balance(priced) - payout
        BY <1>3, <1>8, <1>11, <1>12, <1>13, <1>15, <4>1 DEF SatSub
      <4>3. effective_junior_balance(pool') \in Nat
        BY <1>4, PriceTypes
      <4>4. senior_balance(priced) <= senior_balance(pool')
        BY <1>3, <1>10, <4>1, <4>2, <4>3 DEF senior_balance, None
      <4> QED  BY <1>3, <1>13, <1>15, <4>4 DEF SeniorValue
    <3>2. PriceKept(SeniorValue(priced), senior_total_lp(priced),
                    SeniorValue(pool'), senior_total_lp(pool'))
      BY <1>2, <1>4, <2>1, <3>1, PriceTypes, PriceUp
    <3>3. PriceKept(effective_junior_balance(priced), priced.junior_total_lp,
                    effective_junior_balance(pool'), pool'.junior_total_lp)
      BY <2>2 DEF PriceKept
    <3> QED  BY <1>9, <3>2, <3>3 DEF SharesKeepValue, priced
  <2>3. CASE pool'.junior_total_lp # 0
    <3>1. effective_junior_balance(pool') = effective_junior_balance(priced) - payout
      <4>1. payout <= effective_junior_balance(priced)
        BY <1>3, <1>15
      <4> QED  BY <1>3, <1>8, <1>11, <1>12, <1>13, <1>15, <2>3, <4>1 DEF SatSub
    <3>2. SeniorValue(pool') = SeniorValue(priced)
      <4>1. effective_junior_balance(priced) \in Nat
        BY <1>2, PriceTypes
      <4>2. senior_balance(pool') = senior_balance(priced)
        BY <1>3, <1>10, <3>1, <4>1 DEF senior_balance, None
      <4> QED  BY <1>3, <1>13, <1>15, <4>2 DEF SeniorValue
    <3>3. PriceKept(SeniorValue(priced), senior_total_lp(priced),
                    SeniorValue(pool'), senior_total_lp(pool'))
      BY <1>2, <2>1, <3>2, PriceTypes, PriceUp
    <3>4. PriceKept(effective_junior_balance(priced), priced.junior_total_lp,
                    effective_junior_balance(pool'), pool'.junior_total_lp)
      BY <1>3, <1>13, <1>15, <3>1 DEF PriceKept
    <3> QED  BY <1>9, <3>3, <3>4 DEF SharesKeepValue, priced
  <2> QED  BY <2>2, <2>3
<1> QED  BY <1>5, <1>14, <1>15

(* What a deposit or a withdrawal leaves is settled: no fee waits.         *)
LEMMA NothingPending ==
    ASSUME LedgerInv, LedgerInv', pool.total_lp_supply > 0,
           \/ \E u \in Users, a \in Nat : Deposit(u, a) \/ DepositJunior(u, a)
           \/ \E u \in Users, l \in Nat : Withdraw(u, l)
    PROVE  Accrued(pool', vault') = pool'
<1>1. signed_value(pool') = vault'
  <2>1. CASE \E u \in Users, l \in Nat : Withdraw(u, l)
    BY <2>1, WithdrawStep
  <2>2. CASE \E u \in Users, a \in Nat : Deposit(u, a) \/ DepositJunior(u, a)
    <3>1. PICK u \in Users, a \in Nat : Deposit(u, a) \/ DepositJunior(u, a)
      BY <2>2
    <3>2. vault' = vault + a /\ AccrueOk(pool, vault)
      BY <3>1 DEF Deposit, DepositJunior, BookDeposit, DepositOpen
    <3>3. signed_value(pool') = signed_value(pre_accrue_fee_modes(pool, vault)) + a
      BY <3>1, DepositStep, DepositJuniorStep
    <3>4. signed_value(pre_accrue_fee_modes(pool, vault)) = vault
      BY <3>2, PricedPool DEF LedgerInv
    <3> QED  BY <3>2, <3>3, <3>4
  <2> QED  BY <2>1, <2>2
<1>2. pool' \in Pool /\ total_pool_value(pool') = signed_value(pool') /\ vault' \in Nat
  BY ValueNext, PoolValue DEF LedgerInv, TypeOK, U64
<1>3. ~HasSurplus(pool', vault')
  BY <1>1, <1>2 DEF HasSurplus
<1> QED  BY <1>3 DEF Accrued

(* Whoever mints or burns pays for, or is paid, the fees that wait.        *)
LEMMA FeesNotCaptured ==
    LedgerInv /\ LedgerInv' /\ ShareInv /\ [Next]_vars => CaptureStep
<1> SUFFICES ASSUME LedgerInv, LedgerInv', ShareInv, [Next]_vars,
                    pool'.total_lp_supply # pool.total_lp_supply
             PROVE  /\ PriceKept(SeniorValue(Accrued(pool, vault)), senior_total_lp(pool),
                                 SeniorValue(Accrued(pool', vault')), senior_total_lp(pool'))
                    /\ PriceKept(effective_junior_balance(Accrued(pool, vault)),
                                 pool.junior_total_lp,
                                 effective_junior_balance(Accrued(pool', vault')),
                                 pool'.junior_total_lp)
  BY DEF CaptureStep
<1> DEFINE priced == pre_accrue_fee_modes(pool, vault)
<1>1. \/ \E u \in Users, a \in Nat : Deposit(u, a) \/ DepositJunior(u, a)
      \/ \E u \in Users, l \in Nat : Withdraw(u, l)
  BY StepMoves
<1>2. SharesKeepValue(priced, pool')
  BY <1>1, DepositKeepsPrice, JuniorDepositKeepsPrice, WithdrawKeepsPrice
<1>3. AccrueOk(pool, vault)
  BY <1>1 DEF Deposit, DepositJunior, DepositOpen, Withdraw, WithdrawOpen
<1>4. /\ priced.junior_total_lp = pool.junior_total_lp
      /\ senior_total_lp(priced) = senior_total_lp(pool)
  BY <1>3, PricedBooks DEF senior_total_lp
<1>5. /\ pool.total_lp_supply \in Nat /\ pool.junior_total_lp \in Nat
      /\ pool.junior_total_lp <= pool.total_lp_supply
  BY JuniorShareBound DEF LedgerInv, TypeOK, Pool, U64
<1>6. CASE pool.total_lp_supply > 0
  <2>1. Accrued(pool', vault') = pool'
    BY <1>1, <1>6, NothingPending
  <2> QED  BY <1>2, <1>4, <2>1 DEF SharesKeepValue, pre_accrue_fee_modes
<1>7. CASE pool.total_lp_supply = 0
  <2>1. pool.junior_total_lp = 0 /\ senior_total_lp(pool) = 0
    BY <1>5, <1>7 DEF senior_total_lp, SatSub
  <2> QED  BY <2>1 DEF PriceKept
<1> QED  BY <1>5, <1>6, <1>7

(* Counted with the fees waiting in the vault, no share loses value to a   *)
(* deposit or a withdrawal.                                                *)
THEOREM CaptureHolds == Spec => NoFeeCapture
BY LedgerInvariance, ShareInvariance, FeesNotCaptured, PTL DEF Spec, NoFeeCapture

(* A pool that has used both return paths never looks as if it had not.    *)
LEMMA PathsOnlyUsed ==
    ASSUME LedgerInv, LedgerInv', ShareInv, [Next]_vars, OneReturnPath(pool')
    PROVE  OneReturnPath(pool)
<1>1. /\ pool \in Pool /\ admin_returned(pool) \in Nat
      /\ pool.total_recovered_from_wrapper \in Nat
  <2>1. pool \in Pool /\ admin_returned(pool) >= 0
    BY DEF LedgerInv, TypeOK, RecoveryBounded
  <2> QED  BY <2>1 DEF admin_returned, Pool, U64
<1>2. CASE \E u \in Users, a \in Nat : Deposit(u, a) \/ DepositJunior(u, a)
  <2>1. InsuranceKept(pool, pool')
    BY <1>2, DepositStep, DepositJuniorStep
  <2> QED  BY <2>1 DEF InsuranceKept, OneReturnPath, admin_returned
<1>3. CASE \E u \in Users, l \in Nat : Withdraw(u, l)
  BY <1>3, WithdrawKeepsPrice DEF OneReturnPath
<1>4. CASE AccrueFees
  <2>1. pool' = Accrued(pool, vault)
    BY <1>4 DEF AccrueFees
  <2> QED  BY <1>1, <2>1 DEF Accrued, OneReturnPath, admin_returned, Pool
<1>5. CASE \E a \in Nat : FlushToInsurance(a) \/ AdminSetTrancheConfig(a)
  BY <1>1, <1>5, ZenonT(40) DEF FlushToInsurance, AdminSetTrancheConfig, OneReturnPath, admin_returned, Pool
<1>6. CASE \E a \in Nat : ReturnInsurance(a)
  <2>1. PICK a \in Nat : ReturnInsurance(a)
    BY <1>6
  <2>2. /\ a > 0 /\ admin_returned(pool') = admin_returned(pool) + a
        /\ pool'.total_recovered_from_wrapper = pool.total_recovered_from_wrapper
    BY <1>1, <2>1 DEF ReturnInsurance, admin_returned, Pool, U64
  <2> QED  BY <1>1, <2>2 DEF OneReturnPath
<1>7. CASE \E a \in Nat : RecoverFlushedInsurance(a)
  <2>1. PICK a \in Nat : RecoverFlushedInsurance(a)
    BY <1>7
  <2>2. /\ a > 0 /\ admin_returned(pool') = admin_returned(pool)
        /\ pool'.total_recovered_from_wrapper = pool.total_recovered_from_wrapper + a
    BY <1>1, <2>1 DEF RecoverFlushedInsurance, RecoveryOpen, Recovered, admin_returned, Pool, U64
  <2> QED  BY <1>1, <2>2 DEF OneReturnPath
<1>8. CASE \E u, v \in Users, n \in Nat : TransferLp(u, v, n)
  BY <1>8 DEF TransferLp
<1>9. CASE Clerical
  BY <1>9, ClericalBooks, BooksPrice DEF BooksKept, OneReturnPath
<1>10. CASE UNCHANGED vars
  BY <1>10 DEF vars
<1> QED  BY <1>2, <1>3, <1>4, <1>5, <1>6, <1>7, <1>8, <1>9, <1>10, StepKinds

(* Value added to a pool whose books are tied goes to the shares: each     *)
(* tranche is worth what it was, or more, when the value grows by at least *)
(* what the loss and the juniors' own growth account for.                  *)
LEMMA ValueAdded ==
    ASSUME NEW p \in Pool, NEW q \in Pool,
           TranchesTied(p), OneReturnPath(p), total_pool_value(p) # None,
           TranchesTied(q), OneReturnPath(q), total_pool_value(q) # None,
           NEW gain \in Nat, NEW repaid \in Nat, NEW own \in Nat,
           signed_value(q) = signed_value(p) + gain,
           net_loss(p) = net_loss(q) + repaid,
           q.junior_balance = p.junior_balance + own,
           own + repaid <= gain,
           q.total_lp_supply = p.total_lp_supply, q.junior_total_lp = p.junior_total_lp
    PROVE  /\ SeniorValue(p) <= SeniorValue(q)
           /\ effective_junior_balance(p) <= effective_junior_balance(q)
           /\ SharesKeepValue(p, q)
<1>1. /\ SeniorValue(p) = signed_value(p) - SatSub(p.junior_balance, net_loss(p))
      /\ SeniorValue(q) = signed_value(q) - SatSub(q.junior_balance, net_loss(q))
      /\ effective_junior_balance(p) = SatSub(p.junior_balance, net_loss(p))
      /\ effective_junior_balance(q) = SatSub(q.junior_balance, net_loss(q))
      /\ net_loss(q) \in Nat
  BY TiedSenior, JuniorNetOfLoss
<1>2. p.junior_balance \in Nat /\ signed_value(p) \in Int
  BY PoolValue DEF Pool, U64
<1>3. /\ SeniorValue(p) <= SeniorValue(q)
      /\ effective_junior_balance(p) <= effective_junior_balance(q)
  BY <1>1, <1>2 DEF SatSub
<1>4. senior_total_lp(q) = senior_total_lp(p)
  BY DEF senior_total_lp
<1>5. SharesKeepValue(p, q)
  BY <1>3, <1>4, PriceTypes, PriceUp DEF SharesKeepValue
<1> QED  BY <1>3, <1>5

(* Accruing fees takes value out of no share.                              *)
LEMMA AccrualKeepsPrice ==
    ASSUME LedgerInv, TranchesTied(pool), OneReturnPath(pool), AccrueOk(pool, vault)
    PROVE  LET priced == Accrued(pool, vault)
           IN  /\ SeniorValue(pool) <= SeniorValue(priced)
               /\ effective_junior_balance(pool) <= effective_junior_balance(priced)
               /\ SharesKeepValue(pool, priced)
<1> DEFINE priced == Accrued(pool, vault)
<1>1. pool \in Pool /\ vault \in U64 /\ total_pool_value(pool) # None
  BY DEF LedgerInv, TypeOK, VaultSolvent
<1>2. priced \in Pool /\ total_pool_value(priced) # None /\ TranchesTied(priced)
  BY <1>1, PricedBooks, TiedAccrued, U64Assumption DEF pre_accrue_fee_modes, U64, None
<1>3. PICK fee, junior_fee \in Nat :
         /\ junior_fee <= fee
         /\ ~pool.tranche_enabled => junior_fee = 0
         /\ BooksKept([pool EXCEPT !.total_fees_earned = @ + fee,
                                   !.junior_balance = @ + junior_fee], priced)
  BY <1>1, AccrueBooks
<1> DEFINE q == [pool EXCEPT !.total_fees_earned = @ + fee, !.junior_balance = @ + junior_fee]
<1>4. /\ signed_value(q) = signed_value(pool) + fee /\ net_loss(q) = net_loss(pool)
      /\ admin_returned(q) = admin_returned(pool)
      /\ q.total_recovered_from_wrapper = pool.total_recovered_from_wrapper
      /\ q.junior_balance = pool.junior_balance + junior_fee
      /\ q.total_lp_supply = pool.total_lp_supply
      /\ q.junior_total_lp = pool.junior_total_lp
  BY <1>1 DEF signed_value, net_loss, admin_returned, Pool, U64
<1>5. BooksKept(q, priced)
  BY <1>3
<1> HIDE DEF q, priced
<1>6. /\ signed_value(priced) = signed_value(pool) + fee /\ net_loss(priced) = net_loss(pool)
      /\ OneReturnPath(priced)
      /\ priced.junior_balance = pool.junior_balance + junior_fee
      /\ priced.total_lp_supply = pool.total_lp_supply
      /\ priced.junior_total_lp = pool.junior_total_lp
  BY <1>4, <1>5, BooksPrice DEF BooksKept, OneReturnPath
<1>7. net_loss(pool) = net_loss(priced) + 0 /\ junior_fee + 0 <= fee
  BY <1>1, <1>3, <1>6, JuniorNetOfLoss
<1> QED  BY <1>1, <1>2, <1>6, <1>7, ValueAdded DEF priced

(* Putting insurance back, by either path, takes value out of no share.    *)
LEMMA InsuranceKeepsPrice ==
    ASSUME LedgerInv, LedgerInv', TranchesTied(pool), TranchesTied(pool'),
           OneReturnPath(pool), OneReturnPath(pool'), NEW a \in Nat,
           ReturnInsurance(a) \/ RecoverFlushedInsurance(a) \/ AdminSetTrancheConfig(a)
    PROVE  SharesKeepValue(pool, pool')
<1>1. pool \in Pool /\ total_pool_value(pool) # None
  BY DEF LedgerInv, TypeOK, VaultSolvent
<1>2. pool' \in Pool /\ total_pool_value(pool') # None
  BY ValueNext
<1>3. /\ net_loss(pool) = pool.total_flushed - pool.total_returned
      /\ net_loss(pool') = pool'.total_flushed - pool'.total_returned
      /\ pool.total_flushed \in Nat /\ pool.total_returned \in Nat
      /\ pool.junior_balance \in Nat
  BY <1>1, <1>2, TiedSenior DEF Pool, U64
<1>4. /\ pool'.total_lp_supply = pool.total_lp_supply
      /\ pool'.junior_total_lp = pool.junior_total_lp
      /\ pool'.junior_balance = pool.junior_balance
      /\ pool'.total_flushed = pool.total_flushed
  BY <1>1, ZenonT(40) DEF ReturnInsurance, RecoverFlushedInsurance, Recovered, AdminSetTrancheConfig, Pool
<1>5. CASE ReturnInsurance(a) \/ RecoverFlushedInsurance(a)
  <2>1. /\ pool'.total_returned = pool.total_returned + a
        /\ signed_value(pool') = signed_value(pool) + a
    <3>1. CASE ReturnInsurance(a)
      BY <1>1, <3>1 DEF ReturnInsurance, signed_value, Pool, U64
    <3>2. CASE RecoverFlushedInsurance(a)
      BY <1>1, <3>2 DEF RecoverFlushedInsurance, Recovered, signed_value, Pool, U64
    <3> QED  BY <1>5, <3>1, <3>2
  <2>2. /\ net_loss(pool) = net_loss(pool') + a /\ 0 + a <= a
        /\ pool'.junior_balance = pool.junior_balance + 0
    BY <1>3, <1>4, <2>1
  <2> QED  BY <1>1, <1>2, <1>4, <2>1, <2>2, ValueAdded
<1>6. CASE AdminSetTrancheConfig(a)
  <2>1. /\ pool'.total_returned = pool.total_returned
        /\ signed_value(pool') = signed_value(pool)
    BY <1>1, <1>6 DEF AdminSetTrancheConfig, signed_value, Pool
  <2>2. /\ net_loss(pool) = net_loss(pool') + 0 /\ 0 + 0 <= 0
        /\ pool'.junior_balance = pool.junior_balance + 0
        /\ signed_value(pool') = signed_value(pool) + 0
    BY <1>1, <1>3, <1>4, <2>1, PoolValue
  <2> QED  BY <1>1, <1>2, <1>4, <2>2, ValueAdded
<1> QED  BY <1>5, <1>6

(* A step that is not a flush takes value out of no share.                 *)
LEMMA PriceNext ==
    /\ LedgerInv /\ LedgerInv' /\ ShareInv
    /\ TranchesTied(pool) /\ TranchesTied(pool)' /\ [Next]_vars
    => PriceStep
<1> SUFFICES ASSUME LedgerInv, LedgerInv', ShareInv, TranchesTied(pool), TranchesTied(pool'),
                    [Next]_vars, pool'.total_flushed = pool.total_flushed, OneReturnPath(pool')
             PROVE  SharesKeepValue(pool, pool')
  BY DEF PriceStep, SharesKeepValue
<1>1. OneReturnPath(pool)
  BY PathsOnlyUsed
<1>2. pool \in Pool /\ pool' \in Pool
  BY ValueNext DEF LedgerInv, TypeOK
<1>3. SharesKeepValue(pool, pool)
  BY <1>2, PriceTypes, PriceUp DEF SharesKeepValue
<1>4. CASE \/ \E u \in Users, a \in Nat : Deposit(u, a) \/ DepositJunior(u, a)
           \/ \E u \in Users, l \in Nat : Withdraw(u, l)
  <2> DEFINE priced == Accrued(pool, vault)
  <2>1. AccrueOk(pool, vault)
    BY <1>4 DEF Deposit, DepositJunior, DepositOpen, Withdraw, WithdrawOpen
  <2>2. SharesKeepValue(priced, pool')
    BY <1>4, DepositKeepsPrice, JuniorDepositKeepsPrice, WithdrawKeepsPrice
       DEF pre_accrue_fee_modes
  <2>3. /\ SeniorValue(pool) <= SeniorValue(priced)
        /\ effective_junior_balance(pool) <= effective_junior_balance(priced)
    BY <1>1, <2>1, AccrualKeepsPrice
  <2>4. /\ priced \in Pool /\ priced.junior_total_lp = pool.junior_total_lp
        /\ senior_total_lp(priced) = senior_total_lp(pool)
    BY <2>1, PricedBooks DEF senior_total_lp, pre_accrue_fee_modes
  <2> HIDE DEF priced
  <2>5. /\ SeniorValue(pool) \in Int /\ SeniorValue(priced) \in Int /\ SeniorValue(pool') \in Int
        /\ effective_junior_balance(pool) \in Int /\ effective_junior_balance(priced) \in Int
        /\ effective_junior_balance(pool') \in Int
        /\ senior_total_lp(pool) \in Nat /\ senior_total_lp(pool') \in Nat
        /\ pool.junior_total_lp \in Nat /\ pool'.junior_total_lp \in Nat
    BY <1>2, <2>4, PriceTypes
  <2>6. PriceKept(SeniorValue(pool), senior_total_lp(pool),
                  SeniorValue(pool'), senior_total_lp(pool'))
    BY <2>2, <2>3, <2>4, <2>5, PriceChain DEF SharesKeepValue
  <2>7. PriceKept(effective_junior_balance(pool), pool.junior_total_lp,
                  effective_junior_balance(pool'), pool'.junior_total_lp)
    BY <2>2, <2>3, <2>4, <2>5, PriceChain DEF SharesKeepValue
  <2> QED  BY <2>6, <2>7 DEF SharesKeepValue
<1>5. CASE AccrueFees
  <2>1. AccrueOk(pool, vault) /\ pool' = Accrued(pool, vault)
    BY <1>5 DEF AccrueFees
  <2> QED  BY <1>1, <2>1, AccrualKeepsPrice
<1>6. CASE \E a \in Nat : \/ ReturnInsurance(a) \/ RecoverFlushedInsurance(a)
                          \/ AdminSetTrancheConfig(a)
  BY <1>1, <1>6, InsuranceKeepsPrice
<1>7. CASE \E a \in Nat : FlushToInsurance(a)
  <2>1. PICK a \in Nat : FlushToInsurance(a)
    BY <1>7
  <2>2. a > 0 /\ pool'.total_flushed = pool.total_flushed + a /\ pool.total_flushed \in Nat
    BY <1>2, <2>1 DEF FlushToInsurance, Pool, U64
  <2> QED  BY <2>2
<1>8. CASE Clerical
  BY <1>3, <1>8, ClericalBooks, PriceBooks
<1>9. CASE (\E u, v \in Users, n \in Nat : TransferLp(u, v, n)) \/ UNCHANGED vars
  <2>1. pool' = pool
    BY <1>9 DEF TransferLp, vars
  <2> QED  BY <1>3, <2>1
<1> QED  BY <1>4, <1>5, <1>6, <1>7, <1>8, <1>9, StepKinds

(* Only a flush lowers what a share redeems for.                           *)
THEOREM PriceHolds == Spec => SharePriceNeverFalls
BY LedgerInvariance, ShareInvariance, TiedInvariance, PriceNext, PTL DEF Spec, SharePriceNeverFalls
=============================================================================
