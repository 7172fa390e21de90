---------------------------- MODULE StakeAccounts ----------------------------
(***************************************************************************)
(* How the program's accounts come to exist.  Their addresses are derived  *)
(* from public seeds, so anybody can know an address before the account is *)
(* there, send lamports to it, and pass any account where a handler        *)
(* expects another.                                                        *)
(*                                                                         *)
(* An account is its lamports, owner, length and, where the program wrote  *)
(* it, its discriminator, version, flag and admin.  A handler is the part  *)
(* of it that creates and validates accounts: what it then does with them  *)
(* is StakeProgram's.  Legacy pools are accounts an earlier build of the   *)
(* program left, shorter and of another version.  The payer of a creation  *)
(* has the lamports for it.                                                *)
(***************************************************************************)
EXTENDS Integers

CONSTANTS
    Markets,           \* wrapper markets (slabs)
    Users,             \* wallets
    MinimumBalance,    \* Rent: lamports an account of each size must hold
    MAX_LAMPORTS       \* bound: lamports anyone sends to an address

STAKE_POOL_SIZE == 408
STAKE_DEPOSIT_SIZE == 152
CURRENT_VERSION == 4

ASSUME AccountsAssumption ==
    /\ MinimumBalance \in [{STAKE_POOL_SIZE, STAKE_DEPOSIT_SIZE} -> Nat \ {0}]
    /\ MAX_LAMPORTS \in Nat

VARIABLES
    accounts,     \* the accounts at the program's addresses
    marketauth    \* who administers each market at the wrapper

avars == <<accounts, marketauth>>

----------------------------------------------------------------------------
(* Addresses and accounts.                                                 *)

derive_pool_pda(m) == <<"stake_pool", m>>

derive_deposit_pda(a, u) == <<"stake_deposit", a, u>>

PoolAddresses == {derive_pool_pda(m) : m \in Markets}

\* A derived address is off the curve: no wallet has its key.
ASSUME OffCurve == Users \cap PoolAddresses = {}

RecordAddresses == {derive_deposit_pda(a, u) : a \in PoolAddresses, u \in Users}

\* Somebody may pass a record as a pool, so records of records have addresses.
Addresses ==
    PoolAddresses \cup RecordAddresses
        \cup {derive_deposit_pda(a, u) : a \in RecordAddresses, u \in Users}

NoOne == <<"nobody">>

Empty == [lamports |-> 0, owner |-> "System", len |-> 0, is_initialized |-> FALSE,
          discriminator |-> "none", version |-> 0, admin |-> NoOne]

\* A pool of version 3, which was 392 bytes long.
Legacy(admin) ==
    [lamports |-> MinimumBalance[STAKE_POOL_SIZE], owner |-> "Stake", len |-> 392,
     is_initialized |-> TRUE, discriminator |-> "pool", version |-> 3, admin |-> admin]

Failed == [Empty EXCEPT !.owner = "Failed"]

Init ==
    \E legacy \in [Markets -> {Empty} \cup {Legacy(u) : u \in Users}] :
        /\ accounts = [a \in Addresses |->
                          IF a \in PoolAddresses
                          THEN legacy[CHOOSE m \in Markets : a = derive_pool_pda(m)]
                          ELSE Empty]
        /\ marketauth \in [Markets -> Users \cup PoolAddresses]
        /\ \A m \in Markets :
              marketauth[m] \notin Users => legacy[m] # Empty /\ marketauth[m] = derive_pool_pda(m)

----------------------------------------------------------------------------
(* The System program, external: what it does to one account, or Failed.   *)

Create(acct, lamports, space) ==
    IF acct.lamports # 0 \/ acct.len # 0 \/ acct.owner # "System"
    THEN Failed
    ELSE [Empty EXCEPT !.lamports = lamports, !.len = space, !.owner = "Stake"]

Transfer(acct, lamports) == [acct EXCEPT !.lamports = @ + lamports]

Allocate(acct, space) ==
    IF acct.len # 0 \/ acct.owner # "System" THEN Failed ELSE [acct EXCEPT !.len = space]

Assign(acct) ==
    IF acct.owner # "System" THEN Failed ELSE [acct EXCEPT !.owner = "Stake"]

\* Mutant (#163): a bare create_account.
create_pda(acct, space) == Create(acct, MinimumBalance[space], space)

create_or_adopt_pda(acct, space) ==
    LET need == MinimumBalance[space]
        have == acct.lamports
        funded == IF have < need THEN Transfer(acct, need - have) ELSE acct
    IN  IF have = 0 THEN Create(acct, need, space) ELSE Assign(Allocate(funded, space))

----------------------------------------------------------------------------
(* Handlers.                                                               *)

\* Mutant: the wrapper is not asked whether the signer is its marketauth.
handoff_unchecked(m, signer) == marketauth' = marketauth

\* The wrapper's UpdateAuthority (tag 32): the signer is the current
\* marketauth, the pool PDA the next.
cpi_update_authority(m, signer) ==
    /\ marketauth[m] = signer
    /\ marketauth' = [marketauth EXCEPT ![m] = derive_pool_pda(m)]

\* What InitPool asks of the account passed for the pool, before it calls
\* the wrapper.
PoolCreatable(m, a) ==
    /\ a = derive_pool_pda(m)
    /\ accounts[a].len = 0
    /\ create_or_adopt_pda(accounts[a], STAKE_POOL_SIZE) # Failed

\* InitPool and InitTradingPool, with account a passed for the pool.
InitPool(signer, m, a) ==
    /\ PoolCreatable(m, a)
    /\ cpi_update_authority(m, signer)
    /\ accounts' = [accounts EXCEPT ![a] =
                      [create_or_adopt_pda(accounts[a], STAKE_POOL_SIZE) EXCEPT
                          !.is_initialized = TRUE, !.discriminator = "pool",
                          !.version = CURRENT_VERSION, !.admin = signer]]

\* Left by an earlier build.
IsLegacy(acct) == acct.discriminator = "pool" /\ acct.version # CURRENT_VERSION

\* Mutant: any initialized account of the program is taken for a pool.
OwnedAndInitialized(acct) == acct.owner = "Stake" /\ acct.is_initialized

\* What every handler asks of the account passed as the pool.
ValidPool(acct) ==
    /\ acct.len # 0
    /\ acct.owner = "Stake"
    /\ acct.len >= STAKE_POOL_SIZE
    /\ acct.is_initialized
    /\ acct.discriminator = "pool"
    /\ acct.version = CURRENT_VERSION

\* The record a deposit writes: the one there, or a new one.
DepositRecord(r) ==
    IF accounts[r].len = 0
    THEN create_or_adopt_pda(accounts[r], STAKE_DEPOSIT_SIZE)
    ELSE accounts[r]

\* What Deposit and DepositJunior ask of pool a and record r.
RecordUsable(u, a, r) ==
    /\ ValidPool(accounts[a])
    /\ r = derive_deposit_pda(a, u)
    /\ accounts[r].len # 0 => accounts[r].owner = "Stake"
    /\ DepositRecord(r) # Failed
    /\ DepositRecord(r).len >= STAKE_DEPOSIT_SIZE
    /\ DepositRecord(r).is_initialized => DepositRecord(r).discriminator = "deposit"

\* Deposit and DepositJunior.
OpenRecord(u, a, r) ==
    /\ RecordUsable(u, a, r)
    /\ accounts' = [accounts EXCEPT ![r] =
                      [DepositRecord(r) EXCEPT !.is_initialized = TRUE, !.discriminator = "deposit"]]
    /\ UNCHANGED marketauth

\* Withdraw of a whole position: the record is marked unused and stays.
CloseRecord(u, a, r) ==
    /\ ValidPool(accounts[a])
    /\ r = derive_deposit_pda(a, u)
    /\ accounts[r].owner = "Stake"
    /\ accounts[r].len >= STAKE_DEPOSIT_SIZE
    /\ accounts[r].is_initialized
    /\ accounts[r].discriminator = "deposit"
    /\ accounts' = [accounts EXCEPT ![r].is_initialized = FALSE]
    /\ UNCHANGED marketauth

----------------------------------------------------------------------------
(* The environment.                                                        *)

\* External: anybody sends a lamport to any address.
Prefund(a) ==
    /\ accounts[a].lamports < MAX_LAMPORTS
    /\ accounts' = [accounts EXCEPT ![a] = Transfer(@, 1)]
    /\ UNCHANGED marketauth

\* External: a wallet hands the market to another before it is staked.
HandMarket(m, u, v) ==
    /\ marketauth[m] = u
    /\ marketauth' = [marketauth EXCEPT ![m] = v]
    /\ UNCHANGED accounts

Next ==
    \/ \E u \in Users, m \in Markets, a \in Addresses : InitPool(u, m, a)
    \/ \E u \in Users, a \in PoolAddresses \cup RecordAddresses, r \in Addresses : OpenRecord(u, a, r)
    \/ \E u \in Users, a \in PoolAddresses \cup RecordAddresses, r \in Addresses : CloseRecord(u, a, r)
    \/ \E a \in Addresses : Prefund(a)
    \/ \E m \in Markets, u, v \in Users : HandMarket(m, u, v)

Spec == Init /\ [][Next]_avars

----------------------------------------------------------------------------
(* What the accounts promise.                                              *)

(* #163: whatever has been sent to an address that is still to be used,    *)
(* the accounts pass every check on the way to a pool for whoever          *)
(* administers an unstaked market (the wrapper asks who signs), and on the *)
(* way to a record, a first time or again, for every user of a pool:       *)
(* deterministic addresses cannot be squatted.  Only a pool of an earlier  *)
(* version is in its own way.                                              *)
CreationOpen ==
    /\ \A m \in Markets :
          marketauth[m] \in Users /\ ~IsLegacy(accounts[derive_pool_pda(m)])
          => PoolCreatable(m, derive_pool_pda(m))
    /\ \A a \in PoolAddresses, u \in Users :
          ValidPool(accounts[a]) => RecordUsable(u, a, derive_deposit_pda(a, u))

(* No half-made or mistaken account is ever the program's: what it owns is *)
(* rent-exempt, has the length and the discriminator of what belongs at    *)
(* its address, and records hang off current pools only, never off another *)
(* record nor off a pool of an earlier version, whatever callers pass.     *)
AccountsSound ==
    \A a \in Addresses :
        accounts[a].owner = "Stake" =>
            \/ a \in PoolAddresses /\ IsLegacy(accounts[a])
            \/ /\ a \in PoolAddresses
               /\ ValidPool(accounts[a])
               /\ accounts[a].lamports >= MinimumBalance[STAKE_POOL_SIZE]
            \/ /\ a \in RecordAddresses
               /\ ValidPool(accounts[a[2]])
               /\ accounts[a].len = STAKE_DEPOSIT_SIZE
               /\ accounts[a].discriminator = "deposit"
               /\ accounts[a].lamports >= MinimumBalance[STAKE_DEPOSIT_SIZE]

(* cpi.rs, cpi_update_authority: a pool exists exactly for the markets     *)
(* whose authority has been handed to it, so nobody opens a pool over a    *)
(* market they do not administer, and nobody administers a staked market   *)
(* but through its pool.  (Markets with a legacy pool are as it left them.)*)
PoolHoldsMarket ==
    \A m \in Markets :
        ~IsLegacy(accounts[derive_pool_pda(m)]) =>
            (ValidPool(accounts[derive_pool_pda(m)]) <=> marketauth[m] = derive_pool_pda(m))
=============================================================================
