------------------------- MODULE StakeAccountsProofs -------------------------
(***************************************************************************)
(* What the program's accounts promise, for every set of markets, wallets  *)
(* and rent: no half-made or mistaken account is ever the program's, a     *)
(* pool exists exactly for the markets handed to it, and creation stays    *)
(* open to whoever may create.                                             *)
(***************************************************************************)
EXTENDS StakeAccounts, TLAPS

Account == [lamports : Nat, owner : {"System", "Stake"}, len : Nat, is_initialized : BOOLEAN,
            discriminator : {"none", "pool", "deposit"}, version : Nat,
            admin : Users \cup {NoOne}]

(* Nothing is written at an address the program does not own, and what it  *)
(* owns has a length.                                                      *)
Untouched(acct) ==
    /\ acct.owner = "System" =>
          acct.len = 0 /\ ~acct.is_initialized /\ acct.discriminator = "none" /\ acct.version = 0
    /\ acct.owner = "Stake" => acct.len # 0

(* The inductive invariant: AccountsSound says what the program owns, and  *)
(* this also what it does not own yet, which create_or_adopt_pda meets.    *)
AccountsInv ==
    /\ accounts \in [Addresses -> Account]
    /\ marketauth \in [Markets -> Users \cup PoolAddresses]
    /\ \A a \in Addresses : Untouched(accounts[a])
    /\ AccountsSound
    /\ PoolHoldsMarket

----------------------------------------------------------------------------
(* Addresses.                                                              *)

(* Addresses of different seeds differ.                                    *)
LEMMA SeedsDiffer ==
    /\ \A m \in Markets : derive_pool_pda(m) \in PoolAddresses
    /\ \A m, n \in Markets : derive_pool_pda(m) = derive_pool_pda(n) => m = n
    /\ \A a \in PoolAddresses, u \in Users : derive_deposit_pda(a, u) \in RecordAddresses
    /\ \A a \in PoolAddresses : a \notin RecordAddresses
    /\ \A a \in RecordAddresses : a[2] \in PoolAddresses
    /\ \A a, u : derive_deposit_pda(a, u)[2] = a
    /\ PoolAddresses \subseteq Addresses /\ RecordAddresses \subseteq Addresses
<1>1. \A a \in PoolAddresses : a[1] = "stake_pool"
  BY DEF PoolAddresses, derive_pool_pda
<1>2. \A a \in RecordAddresses : a[1] = "stake_deposit" /\ a[2] \in PoolAddresses
  BY DEF RecordAddresses, derive_deposit_pda
<1>3. \A m, n \in Markets : derive_pool_pda(m) = derive_pool_pda(n) => m = n
  BY DEF derive_pool_pda
<1>4. \A a, u : derive_deposit_pda(a, u)[2] = a
  BY DEF derive_deposit_pda
<1>5. \A a \in PoolAddresses, u \in Users : derive_deposit_pda(a, u) \in RecordAddresses
  BY DEF RecordAddresses
<1> QED  BY <1>1, <1>2, <1>3, <1>4, <1>5 DEF PoolAddresses, Addresses

(* An account passed for the pool and accepted is a pool: a record is told *)
(* apart by its discriminator, an unused address by its owner.             *)
LEMMA PassedPool ==
    ASSUME AccountsInv, NEW a \in PoolAddresses \cup RecordAddresses, ValidPool(accounts[a])
    PROVE  a \in PoolAddresses
<1>1. a \in Addresses /\ accounts[a].owner = "Stake" /\ accounts[a].discriminator = "pool"
  BY SeedsDiffer DEF ValidPool
<1>2. a \in PoolAddresses \/ accounts[a].discriminator = "deposit"
  BY <1>1 DEF AccountsInv, AccountsSound
<1> QED  BY <1>1, <1>2

(* The System program makes an unused address, pre-funded or not, a blank  *)
(* rent-exempt account of the program's.                                   *)
LEMMA Adopted ==
    ASSUME NEW acct \in Account, acct.len = 0, Untouched(acct),
           NEW space \in {STAKE_POOL_SIZE, STAKE_DEPOSIT_SIZE},
           NEW created, created = create_or_adopt_pda(acct, space)
    PROVE  /\ created \in Account
           /\ created.owner = "Stake"
           /\ created.len = space
           /\ created.lamports >= MinimumBalance[space]
           /\ created.discriminator = "none" /\ created.version = 0
           /\ ~created.is_initialized
<1> DEFINE need == MinimumBalance[space]
           have == acct.lamports
<1>1. need \in Nat \ {0} /\ have \in Nat /\ space \in Nat
  BY AccountsAssumption DEF Account, STAKE_POOL_SIZE, STAKE_DEPOSIT_SIZE
<1>2. acct.owner = "System"
  BY DEF Untouched, Account
<1>3. /\ ~acct.is_initialized /\ acct.discriminator = "none" /\ acct.version = 0
  BY <1>2 DEF Untouched
<1>4. CASE have = 0
  <2>1. created = [Empty EXCEPT !.lamports = need, !.len = space, !.owner = "Stake"]
    BY <1>2, <1>4 DEF create_or_adopt_pda, Create
  <2>2. created = [lamports |-> need, owner |-> "Stake", len |-> space,
                   is_initialized |-> FALSE, discriminator |-> "none", version |-> 0,
                   admin |-> NoOne]
    BY <2>1 DEF Empty
  <2>3. need >= need
    BY <1>1
  <2> HIDE DEF need
  <2> QED  BY <1>1, <2>2, <2>3 DEF Account, need
<1>5. CASE have # 0
  <2> DEFINE funded == IF have < need THEN Transfer(acct, need - have) ELSE acct
  <2>1. created = Assign(Allocate(funded, space))
    BY <1>5 DEF create_or_adopt_pda
  <2>2. /\ funded \in Account /\ funded.owner = "System" /\ funded.len = 0
        /\ funded.lamports >= need
        /\ ~funded.is_initialized /\ funded.discriminator = "none" /\ funded.version = 0
    BY <1>1, <1>2, <1>3 DEF Transfer, Account
  <2> HIDE DEF funded, need
  <2>3. Allocate(funded, space) = [funded EXCEPT !.len = space]
    BY <2>2 DEF Allocate
  <2>4. created = [[funded EXCEPT !.len = space] EXCEPT !.owner = "Stake"]
    BY <2>1, <2>2, <2>3 DEF Assign, Account
  <2> QED  BY <1>1, <2>2, <2>4 DEF Account, need
<1> QED  BY <1>4, <1>5

----------------------------------------------------------------------------
(* Steps.                                                                  *)

(* The program starts with legacy pools and untouched addresses.           *)
LEMMA AccountsInit == Init => AccountsInv
<1> SUFFICES ASSUME Init PROVE AccountsInv
  OBVIOUS
<1>1. PICK legacy \in [Markets -> {Empty} \cup {Legacy(u) : u \in Users}] :
         /\ accounts = [a \in Addresses |->
                           IF a \in PoolAddresses
                           THEN legacy[CHOOSE m \in Markets : a = derive_pool_pda(m)]
                           ELSE Empty]
         /\ marketauth \in [Markets -> Users \cup PoolAddresses]
         /\ \A m \in Markets :
               marketauth[m] \notin Users => legacy[m] # Empty /\ marketauth[m] = derive_pool_pda(m)
  BY DEF Init
<1>2. \A m \in Markets : accounts[derive_pool_pda(m)] = legacy[m]
  <2> TAKE m \in Markets
  <2>1. (CHOOSE n \in Markets : derive_pool_pda(m) = derive_pool_pda(n)) = m
    BY SeedsDiffer
  <2> QED  BY <1>1, <2>1, SeedsDiffer
<1>3. \A a \in Addresses : accounts[a] = Empty \/ a \in PoolAddresses
  BY <1>1
<1>4. \A a \in PoolAddresses : \E m \in Markets : a = derive_pool_pda(m)
  BY DEF PoolAddresses
<1>5. Empty \in Account /\ Untouched(Empty) /\ Empty.owner = "System" /\ ~ValidPool(Empty)
  BY DEF Empty, Account, Untouched, ValidPool
<1>6. \A u \in Users : /\ Legacy(u) \in Account /\ Untouched(Legacy(u)) /\ IsLegacy(Legacy(u))
  BY AccountsAssumption DEF Legacy, Account, Untouched, IsLegacy, CURRENT_VERSION, STAKE_POOL_SIZE
<1>7. \A a \in Addresses : accounts[a] = Empty
                           \/ (a \in PoolAddresses /\ \E u \in Users : accounts[a] = Legacy(u))
  <2>1. \A m \in Markets : legacy[m] = Empty \/ \E u \in Users : legacy[m] = Legacy(u)
    OBVIOUS
  <2> QED  BY <1>2, <1>3, <1>4, <2>1
<1>8. accounts \in [Addresses -> Account]
  <2> DEFINE start(a) == IF a \in PoolAddresses
                         THEN legacy[CHOOSE m \in Markets : a = derive_pool_pda(m)]
                         ELSE Empty
  <2>1. accounts = [a \in Addresses |-> start(a)]
    BY <1>1
  <2> HIDE DEF start
  <2>2. \A a \in Addresses : accounts[a] \in Account
    BY <1>5, <1>6, <1>7
  <2> QED  BY <2>1, <2>2
<1>9. AccountsSound
  BY <1>5, <1>6, <1>7 DEF AccountsSound
<1>10. PoolHoldsMarket
  <2> SUFFICES ASSUME NEW m \in Markets, ~IsLegacy(accounts[derive_pool_pda(m)])
               PROVE  ~ValidPool(accounts[derive_pool_pda(m)]) /\ marketauth[m] # derive_pool_pda(m)
    BY DEF PoolHoldsMarket
  <2>1. legacy[m] = Empty
    <3>1. legacy[m] = Empty \/ \E u \in Users : legacy[m] = Legacy(u)
      OBVIOUS
    <3> QED  BY <1>2, <1>6, <3>1
  <2>2. marketauth[m] \in Users
    BY <1>1, <2>1
  <2> QED  BY <1>2, <1>5, <2>1, <2>2, SeedsDiffer, OffCurve
<1>11. \A a \in Addresses : Untouched(accounts[a])
  BY <1>5, <1>6, <1>7
<1> QED  BY <1>1, <1>8, <1>9, <1>10, <1>11 DEF AccountsInv

(* Writing an account at one address leaves the others alone.              *)
LEMMA OneWritten ==
    ASSUME AccountsInv, NEW r \in Addresses, NEW acct,
           accounts' = [accounts EXCEPT ![r] = acct]
    PROVE  accounts'[r] = acct /\ \A b \in Addresses : b # r => accounts'[b] = accounts[b]
BY DEF AccountsInv

(* Writing an account keeps the invariant if what is written is in order   *)
(* and a pool there stays valid, or stays whatever old version it was.     *)
LEMMA WrittenInOrder ==
    ASSUME AccountsInv, NEW r \in Addresses, NEW acct \in Account,
           accounts' = [accounts EXCEPT ![r] = acct],
           Untouched(acct),
           ValidPool(accounts[r]) => ValidPool(acct),
           acct.owner = "Stake" =>
               \/ r \in PoolAddresses /\ IsLegacy(acct)
               \/ /\ r \in PoolAddresses /\ ValidPool(acct)
                  /\ acct.lamports >= MinimumBalance[STAKE_POOL_SIZE]
               \/ /\ r \in RecordAddresses /\ ValidPool(accounts[r[2]])
                  /\ acct.len = STAKE_DEPOSIT_SIZE /\ acct.discriminator = "deposit"
                  /\ acct.lamports >= MinimumBalance[STAKE_DEPOSIT_SIZE]
    PROVE  /\ accounts' \in [Addresses -> Account]
           /\ \A a \in Addresses : Untouched(accounts'[a])
           /\ AccountsSound'
<1>1. accounts'[r] = acct /\ \A b \in Addresses : b # r => accounts'[b] = accounts[b]
  BY OneWritten
<1>2. accounts' \in [Addresses -> Account] /\ \A a \in Addresses : Untouched(accounts'[a])
  BY <1>1 DEF AccountsInv
<1>3. \A a \in Addresses : ValidPool(accounts[a]) => ValidPool(accounts'[a])
  BY <1>1
<1>4. \A a \in RecordAddresses : a[2] \in Addresses
  BY SeedsDiffer
<1>5. ASSUME NEW a \in Addresses, accounts'[a].owner = "Stake"
      PROVE  \/ a \in PoolAddresses /\ IsLegacy(accounts'[a])
             \/ /\ a \in PoolAddresses
                /\ ValidPool(accounts'[a])
                /\ accounts'[a].lamports >= MinimumBalance[STAKE_POOL_SIZE]
             \/ /\ a \in RecordAddresses
                /\ ValidPool(accounts'[a[2]])
                /\ accounts'[a].len = STAKE_DEPOSIT_SIZE
                /\ accounts'[a].discriminator = "deposit"
                /\ accounts'[a].lamports >= MinimumBalance[STAKE_DEPOSIT_SIZE]
  <2>1. CASE a = r
    BY <1>1, <1>3, <1>4, <1>5, <2>1
  <2>2. CASE a # r
    <3>1. accounts'[a] = accounts[a]
      BY <1>1, <2>2
    <3>2. \/ a \in PoolAddresses /\ IsLegacy(accounts[a])
          \/ /\ a \in PoolAddresses
             /\ ValidPool(accounts[a])
             /\ accounts[a].lamports >= MinimumBalance[STAKE_POOL_SIZE]
          \/ /\ a \in RecordAddresses
             /\ ValidPool(accounts[a[2]])
             /\ accounts[a].len = STAKE_DEPOSIT_SIZE
             /\ accounts[a].discriminator = "deposit"
             /\ accounts[a].lamports >= MinimumBalance[STAKE_DEPOSIT_SIZE]
      BY <1>5, <3>1 DEF AccountsInv, AccountsSound
    <3> QED  BY <1>3, <1>4, <3>1, <3>2
  <2> QED  BY <2>1, <2>2
<1>6. AccountsSound'
  BY <1>5 DEF AccountsSound
<1> QED  BY <1>2, <1>6

(* A pool is created with its market handed over in the same call.         *)
LEMMA InitPoolStep ==
    ASSUME AccountsInv, NEW signer \in Users, NEW m \in Markets, NEW a \in Addresses,
           InitPool(signer, m, a)
    PROVE  AccountsInv'
<1> DEFINE created == create_or_adopt_pda(accounts[a], STAKE_POOL_SIZE)
           acct == [created EXCEPT !.is_initialized = TRUE, !.discriminator = "pool",
                                   !.version = CURRENT_VERSION, !.admin = signer]
<1>1. /\ a = derive_pool_pda(m)
      /\ accounts[a].len = 0
      /\ marketauth' = [marketauth EXCEPT ![m] = derive_pool_pda(m)]
      /\ accounts' = [accounts EXCEPT ![a] = acct]
  BY DEF InitPool, PoolCreatable, cpi_update_authority
<1>2. accounts[a] \in Account /\ Untouched(accounts[a])
  BY DEF AccountsInv
<1>3. /\ created \in Account /\ created.owner = "Stake" /\ created.len = STAKE_POOL_SIZE
      /\ created.lamports >= MinimumBalance[STAKE_POOL_SIZE]
  BY <1>1, <1>2, Adopted
<1> HIDE DEF created
<1>4. /\ acct \in Account /\ acct.owner = "Stake" /\ acct.len = STAKE_POOL_SIZE
      /\ acct.lamports >= MinimumBalance[STAKE_POOL_SIZE]
      /\ acct.is_initialized /\ acct.discriminator = "pool" /\ acct.version = CURRENT_VERSION
  BY <1>3 DEF Account, CURRENT_VERSION
<1> HIDE DEF acct
<1>5. ValidPool(acct) /\ Untouched(acct)
  BY <1>4 DEF ValidPool, Untouched, STAKE_POOL_SIZE
<1>6. a \in PoolAddresses
  BY <1>1, SeedsDiffer
<1>7. /\ accounts' \in [Addresses -> Account]
      /\ \A b \in Addresses : Untouched(accounts'[b])
      /\ AccountsSound'
  BY <1>1, <1>4, <1>5, <1>6, WrittenInOrder
<1>8. marketauth' \in [Markets -> Users \cup PoolAddresses]
  BY <1>1, <1>6 DEF AccountsInv
<1>9. PoolHoldsMarket'
  <2> SUFFICES ASSUME NEW n \in Markets, ~IsLegacy(accounts'[derive_pool_pda(n)])
               PROVE  ValidPool(accounts'[derive_pool_pda(n)])
                         <=> marketauth'[n] = derive_pool_pda(n)
    BY DEF PoolHoldsMarket
  <2>1. accounts'[a] = acct /\ \A b \in Addresses : b # a => accounts'[b] = accounts[b]
    BY <1>1, OneWritten
  <2>2. marketauth'[m] = derive_pool_pda(m) /\ \A k \in Markets : k # m => marketauth'[k] = marketauth[k]
    BY <1>1 DEF AccountsInv
  <2>3. CASE n = m
    BY <1>1, <1>5, <2>1, <2>2, <2>3
  <2>4. CASE n # m
    <3>1. derive_pool_pda(n) # a /\ derive_pool_pda(n) \in Addresses
      BY <1>1, <2>4, SeedsDiffer
    <3> QED  BY <2>1, <2>2, <2>4, <3>1 DEF AccountsInv, PoolHoldsMarket
  <2> QED  BY <2>3, <2>4
<1> QED  BY <1>7, <1>8, <1>9 DEF AccountsInv

(* Writing a record leaves every pool and every market alone.              *)
LEMMA RecordWritten ==
    ASSUME AccountsInv, NEW r \in RecordAddresses, NEW acct,
           accounts' = [accounts EXCEPT ![r] = acct], marketauth' = marketauth
    PROVE  PoolHoldsMarket'
<1>1. \A m \in Markets : accounts'[derive_pool_pda(m)] = accounts[derive_pool_pda(m)]
  BY OneWritten, SeedsDiffer
<1> QED  BY <1>1 DEF AccountsInv, PoolHoldsMarket

(* What a record of a pool is before a handler touches it.                 *)
LEMMA RecordAt ==
    ASSUME AccountsInv, NEW u \in Users, NEW a \in PoolAddresses \cup RecordAddresses,
           ValidPool(accounts[a]), NEW r, r = derive_deposit_pda(a, u)
    PROVE  /\ a \in PoolAddresses /\ r \in RecordAddresses /\ r \in Addresses /\ r[2] = a
           /\ accounts[r] \in Account /\ Untouched(accounts[r])
           /\ ~ValidPool(accounts[r])
           /\ accounts[r].owner = "Stake" =>
                 /\ accounts[r].len = STAKE_DEPOSIT_SIZE
                 /\ accounts[r].discriminator = "deposit"
                 /\ accounts[r].lamports >= MinimumBalance[STAKE_DEPOSIT_SIZE]
<1>1. a \in PoolAddresses
  BY PassedPool
<1>2. r \in RecordAddresses /\ r \in Addresses /\ r[2] = a /\ r \notin PoolAddresses
  BY <1>1, SeedsDiffer
<1>3. accounts[r] \in Account /\ Untouched(accounts[r])
  BY <1>2 DEF AccountsInv
<1>4. accounts[r].owner = "Stake" =>
         /\ accounts[r].len = STAKE_DEPOSIT_SIZE
         /\ accounts[r].discriminator = "deposit"
         /\ accounts[r].lamports >= MinimumBalance[STAKE_DEPOSIT_SIZE]
  BY <1>2 DEF AccountsInv, AccountsSound
<1>5. ~ValidPool(accounts[r])
  BY <1>4 DEF ValidPool
<1> QED  BY <1>1, <1>2, <1>3, <1>4, <1>5

(* A deposit creates or reuses the record of its own pool.                 *)
LEMMA OpenRecordStep ==
    ASSUME AccountsInv, NEW u \in Users, NEW a \in PoolAddresses \cup RecordAddresses,
           NEW r \in Addresses, OpenRecord(u, a, r)
    PROVE  AccountsInv'
<1> DEFINE created == DepositRecord(r)
           acct == [created EXCEPT !.is_initialized = TRUE, !.discriminator = "deposit"]
<1>1. /\ ValidPool(accounts[a])
      /\ r = derive_deposit_pda(a, u)
      /\ accounts[r].len # 0 => accounts[r].owner = "Stake"
      /\ accounts' = [accounts EXCEPT ![r] = acct]
      /\ marketauth' = marketauth
  BY DEF OpenRecord, RecordUsable
<1>2. /\ r \in RecordAddresses /\ r[2] = a
      /\ accounts[r] \in Account /\ Untouched(accounts[r])
      /\ ~ValidPool(accounts[r])
      /\ accounts[r].owner = "Stake" =>
            /\ accounts[r].len = STAKE_DEPOSIT_SIZE
            /\ accounts[r].lamports >= MinimumBalance[STAKE_DEPOSIT_SIZE]
  BY <1>1, RecordAt
<1>3. /\ created \in Account /\ created.owner = "Stake" /\ created.len = STAKE_DEPOSIT_SIZE
      /\ created.lamports >= MinimumBalance[STAKE_DEPOSIT_SIZE]
  <2>1. CASE accounts[r].len = 0
    BY <1>2, <2>1, Adopted DEF DepositRecord
  <2>2. CASE accounts[r].len # 0
    BY <1>1, <1>2, <2>2 DEF DepositRecord
  <2> QED  BY <2>1, <2>2
<1> HIDE DEF created
<1>4. /\ acct \in Account /\ acct.owner = "Stake" /\ acct.len = STAKE_DEPOSIT_SIZE
      /\ acct.lamports >= MinimumBalance[STAKE_DEPOSIT_SIZE]
      /\ acct.discriminator = "deposit"
  BY <1>3 DEF Account
<1> HIDE DEF acct
<1>5. Untouched(acct)
  BY <1>4 DEF Untouched, STAKE_DEPOSIT_SIZE
<1>6. /\ accounts' \in [Addresses -> Account]
      /\ \A b \in Addresses : Untouched(accounts'[b])
      /\ AccountsSound'
  BY <1>1, <1>2, <1>4, <1>5, WrittenInOrder
<1>7. PoolHoldsMarket'
  BY <1>1, <1>2, RecordWritten
<1> QED  BY <1>1, <1>6, <1>7 DEF AccountsInv

(* A whole withdrawal marks the record unused and leaves it in place.      *)
LEMMA CloseRecordStep ==
    ASSUME AccountsInv, NEW u \in Users, NEW a \in PoolAddresses \cup RecordAddresses,
           NEW r \in Addresses, CloseRecord(u, a, r)
    PROVE  AccountsInv'
<1> DEFINE acct == [accounts[r] EXCEPT !.is_initialized = FALSE]
<1>1. /\ ValidPool(accounts[a])
      /\ r = derive_deposit_pda(a, u)
      /\ accounts[r].owner = "Stake"
      /\ accounts' = [accounts EXCEPT ![r] = acct]
      /\ marketauth' = marketauth
  BY DEF CloseRecord, AccountsInv
<1>2. /\ r \in RecordAddresses /\ r[2] = a
      /\ accounts[r] \in Account
      /\ ~ValidPool(accounts[r])
      /\ accounts[r].len = STAKE_DEPOSIT_SIZE
      /\ accounts[r].discriminator = "deposit"
      /\ accounts[r].lamports >= MinimumBalance[STAKE_DEPOSIT_SIZE]
  BY <1>1, RecordAt
<1>3. /\ acct \in Account /\ acct.owner = "Stake" /\ acct.len = STAKE_DEPOSIT_SIZE
      /\ acct.lamports >= MinimumBalance[STAKE_DEPOSIT_SIZE]
      /\ acct.discriminator = "deposit"
  BY <1>1, <1>2 DEF Account
<1> HIDE DEF acct
<1>4. Untouched(acct)
  BY <1>3 DEF Untouched, STAKE_DEPOSIT_SIZE
<1>5. /\ accounts' \in [Addresses -> Account]
      /\ \A b \in Addresses : Untouched(accounts'[b])
      /\ AccountsSound'
  BY <1>1, <1>2, <1>3, <1>4, WrittenInOrder
<1>6. PoolHoldsMarket'
  BY <1>1, <1>2, RecordWritten
<1> QED  BY <1>1, <1>5, <1>6 DEF AccountsInv

(* Sending lamports changes nothing else.                                  *)
LEMMA PrefundStep ==
    ASSUME AccountsInv, NEW a \in Addresses, Prefund(a)
    PROVE  AccountsInv'
<1> DEFINE acct == [accounts[a] EXCEPT !.lamports = @ + 1]
<1>1. accounts' = [accounts EXCEPT ![a] = acct] /\ marketauth' = marketauth
  BY DEF Prefund, Transfer, AccountsInv
<1>2. accounts[a] \in Account /\ Untouched(accounts[a])
  BY DEF AccountsInv
<1>3. /\ acct \in Account /\ acct.owner = accounts[a].owner /\ acct.len = accounts[a].len
      /\ acct.is_initialized = accounts[a].is_initialized
      /\ acct.discriminator = accounts[a].discriminator
      /\ acct.version = accounts[a].version
      /\ acct.lamports = accounts[a].lamports + 1
      /\ accounts[a].lamports \in Nat
  BY <1>2 DEF Account
<1> HIDE DEF acct
<1>4. /\ Untouched(acct)
      /\ ValidPool(acct) = ValidPool(accounts[a])
      /\ IsLegacy(acct) = IsLegacy(accounts[a])
  BY <1>2, <1>3 DEF Untouched, ValidPool, IsLegacy
<1>5. acct.owner = "Stake" =>
         \/ a \in PoolAddresses /\ IsLegacy(acct)
         \/ /\ a \in PoolAddresses /\ ValidPool(acct)
            /\ acct.lamports >= MinimumBalance[STAKE_POOL_SIZE]
         \/ /\ a \in RecordAddresses /\ ValidPool(accounts[a[2]])
            /\ acct.len = STAKE_DEPOSIT_SIZE /\ acct.discriminator = "deposit"
            /\ acct.lamports >= MinimumBalance[STAKE_DEPOSIT_SIZE]
  <2>1. /\ MinimumBalance[STAKE_POOL_SIZE] \in Nat /\ MinimumBalance[STAKE_DEPOSIT_SIZE] \in Nat
    BY AccountsAssumption
  <2>2. \A n \in Nat : accounts[a].lamports >= n => acct.lamports >= n
    BY <1>3
  <2> QED  BY <1>3, <1>4, <2>1, <2>2 DEF AccountsInv, AccountsSound
<1>6. /\ accounts' \in [Addresses -> Account]
      /\ \A b \in Addresses : Untouched(accounts'[b])
      /\ AccountsSound'
  BY <1>1, <1>3, <1>4, <1>5, WrittenInOrder
<1>7. PoolHoldsMarket'
  <2>1. accounts'[a] = acct /\ \A b \in Addresses : b # a => accounts'[b] = accounts[b]
    BY <1>1, OneWritten
  <2>2. \A b \in Addresses : /\ ValidPool(accounts'[b]) = ValidPool(accounts[b])
                             /\ IsLegacy(accounts'[b]) = IsLegacy(accounts[b])
    BY <1>4, <2>1
  <2>3. \A m \in Markets : derive_pool_pda(m) \in Addresses
    BY SeedsDiffer
  <2> QED  BY <1>1, <2>2, <2>3 DEF AccountsInv, PoolHoldsMarket
<1> QED  BY <1>1, <1>6, <1>7 DEF AccountsInv

(* A market changes hands only while a wallet has it.                      *)
LEMMA HandMarketStep ==
    ASSUME AccountsInv, NEW m \in Markets, NEW u \in Users, NEW v \in Users, HandMarket(m, u, v)
    PROVE  AccountsInv'
<1>1. /\ marketauth[m] = u
      /\ marketauth' = [marketauth EXCEPT ![m] = v]
      /\ accounts' = accounts
  BY DEF HandMarket
<1>2. marketauth' \in [Markets -> Users \cup PoolAddresses]
  BY <1>1 DEF AccountsInv
<1>3. AccountsSound'
  BY <1>1 DEF AccountsInv, AccountsSound
<1>4. PoolHoldsMarket'
  <2>1. u # derive_pool_pda(m) /\ v # derive_pool_pda(m)
    BY SeedsDiffer, OffCurve
  <2>2. marketauth'[m] = v /\ \A k \in Markets : k # m => marketauth'[k] = marketauth[k]
    BY <1>1 DEF AccountsInv
  <2> QED  BY <1>1, <2>1, <2>2 DEF AccountsInv, PoolHoldsMarket
<1> QED  BY <1>1, <1>2, <1>3, <1>4 DEF AccountsInv

(* The invariant of the accounts.                                          *)
THEOREM AccountsInvariance == Spec => []AccountsInv
<1>1. AccountsInv /\ [Next]_avars => AccountsInv'
  <2> SUFFICES ASSUME AccountsInv, [Next]_avars PROVE AccountsInv'
    OBVIOUS
  <2>1. CASE UNCHANGED avars
    BY <2>1 DEF avars, AccountsInv, AccountsSound, PoolHoldsMarket
  <2>2. CASE Next
    BY <2>2, InitPoolStep, OpenRecordStep, CloseRecordStep, PrefundStep, HandMarketStep DEF Next
  <2> QED  BY <2>1, <2>2
<1> QED  BY <1>1, AccountsInit, PTL DEF Spec

(* What the program owns is what belongs at its address.                   *)
THEOREM OwnedAccountsSound == Spec => []AccountsSound
<1>1. AccountsInv => AccountsSound
  BY DEF AccountsInv
<1> QED  BY <1>1, AccountsInvariance, PTL

(* A pool exists exactly for the markets handed to it.                     *)
THEOREM PoolsHoldTheirMarkets == Spec => []PoolHoldsMarket
<1>1. AccountsInv => PoolHoldsMarket
  BY DEF AccountsInv
<1> QED  BY <1>1, AccountsInvariance, PTL

(* An address nobody but senders of lamports has touched can be taken.     *)
LEMMA Takeable ==
    ASSUME AccountsInv, NEW a \in Addresses, accounts[a].len = 0,
           NEW space \in {STAKE_POOL_SIZE, STAKE_DEPOSIT_SIZE}
    PROVE  /\ create_or_adopt_pda(accounts[a], space) # Failed
           /\ create_or_adopt_pda(accounts[a], space).len = space
           /\ ~create_or_adopt_pda(accounts[a], space).is_initialized
<1>1. accounts[a] \in Account /\ Untouched(accounts[a])
  BY DEF AccountsInv
<1> DEFINE created == create_or_adopt_pda(accounts[a], space)
<1>2. created.owner = "Stake" /\ created.len = space /\ ~created.is_initialized
  BY <1>1, Adopted
<1> HIDE DEF created
<1>3. Failed.owner = "Failed"
  BY DEF Failed, Empty
<1> QED  BY <1>2, <1>3 DEF created

(***************************************************************************)
(* Whatever anybody sent to the addresses, InitPool's checks pass for the  *)
(* administrator of an unstaked market, and Deposit's for every user of a  *)
(* pool: create_or_adopt_pda leaves nothing to squat.                      *)
(***************************************************************************)
THEOREM CreationStaysOpen == Spec => []CreationOpen
<1>1. ASSUME AccountsInv PROVE CreationOpen
  <2>1. ASSUME NEW m \in Markets, marketauth[m] \in Users,
               ~IsLegacy(accounts[derive_pool_pda(m)])
        PROVE  PoolCreatable(m, derive_pool_pda(m))
    <3> DEFINE a == derive_pool_pda(m)
    <3>1. a \in PoolAddresses /\ a \in Addresses /\ a \notin RecordAddresses
      BY SeedsDiffer
    <3>2. ~ValidPool(accounts[a])
      <4>1. marketauth[m] # a
        BY <2>1, <3>1, OffCurve
      <4> QED  BY <1>1, <2>1, <4>1 DEF AccountsInv, PoolHoldsMarket
    <3>3. accounts[a].owner # "Stake"
      BY <1>1, <2>1, <3>1, <3>2 DEF AccountsInv, AccountsSound
    <3>4. accounts[a].len = 0
      BY <1>1, <3>1, <3>3 DEF AccountsInv, Untouched, Account
    <3> QED  BY <1>1, <3>1, <3>4, Takeable DEF PoolCreatable
  <2>2. ASSUME NEW a \in PoolAddresses, NEW u \in Users, ValidPool(accounts[a])
        PROVE  RecordUsable(u, a, derive_deposit_pda(a, u))
    <3> DEFINE r == derive_deposit_pda(a, u)
    <3>1. /\ r \in Addresses /\ accounts[r] \in Account /\ Untouched(accounts[r])
          /\ accounts[r].owner = "Stake" =>
                /\ accounts[r].len = STAKE_DEPOSIT_SIZE
                /\ accounts[r].discriminator = "deposit"
      BY <1>1, <2>2, RecordAt
    <3>2. STAKE_DEPOSIT_SIZE >= STAKE_DEPOSIT_SIZE
      BY DEF STAKE_DEPOSIT_SIZE
    <3>3. CASE accounts[r].len = 0
      <4>1. DepositRecord(r) = create_or_adopt_pda(accounts[r], STAKE_DEPOSIT_SIZE)
        BY <3>3 DEF DepositRecord
      <4>2. /\ DepositRecord(r) # Failed /\ DepositRecord(r).len = STAKE_DEPOSIT_SIZE
            /\ ~DepositRecord(r).is_initialized
        BY <1>1, <3>1, <3>3, <4>1, Takeable
      <4> QED  BY <2>2, <3>2, <3>3, <4>2 DEF RecordUsable
    <3>4. CASE accounts[r].len # 0
      <4>1. accounts[r].owner = "Stake"
        BY <3>1, <3>4 DEF Untouched, Account
      <4>2. DepositRecord(r) = accounts[r]
        BY <3>4 DEF DepositRecord
      <4>3. Failed.owner = "Failed"
        BY DEF Failed, Empty
      <4>4. accounts[r] # Failed
        BY <4>1, <4>3
      <4> QED  BY <2>2, <3>1, <3>2, <4>1, <4>2, <4>4 DEF RecordUsable
    <3> QED  BY <3>3, <3>4
  <2> QED  BY <2>1, <2>2 DEF CreationOpen
<1>2. AccountsInv => CreationOpen
  BY <1>1
<1> QED  BY <1>2, AccountsInvariance, PTL
=============================================================================
