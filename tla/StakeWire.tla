------------------------------ MODULE StakeWire ------------------------------
(***************************************************************************)
(* The byte formats of the stake program: the instructions it unpacks      *)
(* (instruction.rs), the calls it builds for the wrapper (cpi.rs) and for  *)
(* the token program (spl_token.rs), and the token accounts it reads.      *)
(*                                                                         *)
(* The widths are the code's; a byte has Radix values.  An instruction is  *)
(* its tag and the sequence of its arguments; a key is its 32 bytes.       *)
(***************************************************************************)
EXTENDS Integers, Sequences

CONSTANTS
    Radix,         \* the values of a byte: 256 in the code
    POOL_PDA,      \* the keys the program puts into its calls
    VAULT_AUTH

ASSUME WireAssumption == Radix \in Nat /\ Radix > 1

None == -1

\* How many values a u16, u32, u64 and u128 have.
U16 == Radix * Radix
U32 == U16 * U16
U64 == U32 * U32
U128 == U64 * U64

\* uN::to_le_bytes, each half of a number in turn, the lower half first.
le_u16(n) == <<n % Radix, (n \div Radix) % Radix>>
le_u32(n) == le_u16(n % U16) \o le_u16(n \div U16)
le_u64(n) == le_u32(n % U32) \o le_u32(n \div U32)
le_u128(n) == le_u64(n % U64) \o le_u64(n \div U64)

\* uN::from_le_bytes(data[from .. from + N / 8]), and the slice of a key.
u16_at(data, from) == data[from + 1] + Radix * data[from + 2]
u32_at(data, from) == u16_at(data, from) + U16 * u16_at(data, from + 2)
u64_at(data, from) == u32_at(data, from) + U32 * u32_at(data, from + 4)
u128_at(data, from) == u64_at(data, from) + U64 * u64_at(data, from + 8)

key_at(data, from) == SubSeq(data, from + 1, from + 32)

\* A bool (0 or 1 here) and an Option<u64>: any byte but 0 is a set flag.
flag_at(data, from) == IF data[from + 1] # 0 THEN 1 ELSE 0

option_at(data, flag, from) == IF data[flag + 1] # 0 THEN u64_at(data, from) ELSE None

----------------------------------------------------------------------------
(* StakeInstruction::unpack, by groups of its arms.                        *)

Err == [ok |-> FALSE]

Ok(tag, args) == [ok |-> TRUE, tag |-> tag, args |-> args]

\* Mutant: the arms ask for enough bytes, not for the exact number.
AtLeast(rest, n) == Len(rest) >= n

\* Every arm refuses a payload of another length.
Exactly(rest, n) == Len(rest) = n

unpack_pool(tag, rest) ==
    CASE tag = 0 /\ Exactly(rest, 16) -> Ok(tag, <<u64_at(rest, 0), u64_at(rest, 8)>>)
      [] tag \in {1, 2, 3, 7} /\ Exactly(rest, 8) -> Ok(tag, <<u64_at(rest, 0)>>)
      [] tag = 4 /\ Exactly(rest, 18) ->
            Ok(tag, <<option_at(rest, 0, 1), option_at(rest, 9, 10)>>)
      [] tag = 5 /\ Exactly(rest, 32) -> Ok(tag, <<key_at(rest, 0)>>)
      [] tag \in {6, 8, 9} /\ Exactly(rest, 0) -> Ok(tag, <<>>)
      [] OTHER -> Err

unpack_insurance(tag, rest) ==
    CASE tag \in {10, 23} /\ Exactly(rest, 8) -> Ok(tag, <<u64_at(rest, 0)>>)
      [] tag \in {19, 20, 21, 22} /\ Exactly(rest, 0) -> Ok(tag, <<>>)
      [] OTHER -> Err

unpack_trading(tag, rest) ==
    CASE tag = 13 /\ Exactly(rest, 16) -> Ok(tag, <<u64_at(rest, 0), u64_at(rest, 8)>>)
      [] tag = 14 /\ Exactly(rest, 3) -> Ok(tag, <<flag_at(rest, 0), u16_at(rest, 1)>>)
      [] tag = 15 /\ Exactly(rest, 2) -> Ok(tag, <<u16_at(rest, 0)>>)
      [] tag = 16 /\ Exactly(rest, 8) -> Ok(tag, <<u64_at(rest, 0)>>)
      [] tag \in {12, 18, 24} /\ Exactly(rest, 0) -> Ok(tag, <<>>)
      [] OTHER -> Err

unpack_policy(tag, rest) ==
    CASE tag \in {25, 27} /\ Exactly(rest, 6) ->
            Ok(tag, <<u16_at(rest, 0), u16_at(rest, 2), u16_at(rest, 4)>>)
      [] tag = 26 /\ Exactly(rest, 16) -> Ok(tag, <<u128_at(rest, 0)>>)
      [] tag = 28 /\ Exactly(rest, 8) -> Ok(tag, <<u64_at(rest, 0)>>)
      [] OTHER -> Err

\* Tags 11, 17 and those from 29 have no arm.
unpack(data) ==
    IF data = <<>> THEN Err
    ELSE LET tag == Head(data)
             rest == Tail(data)
         IN  IF tag \in 0 .. 9 THEN unpack_pool(tag, rest)
             ELSE IF tag \in {10} \cup 19 .. 23 THEN unpack_insurance(tag, rest)
             ELSE IF tag \in 12 .. 18 \cup {24} THEN unpack_trading(tag, rest)
             ELSE unpack_policy(tag, rest)

----------------------------------------------------------------------------
(* The calls the program builds.                                           *)

Call(program, tag, rest) == [program |-> program, data |-> <<tag>> \o rest]

ZERO_KEY == [i \in 1 .. 32 |-> 0]
ASSET_INDEX_ZERO == le_u16(0)

\* amount as u128.
cpi_top_up_insurance(amount) == Call("wrapper", 9, le_u128(amount))

cpi_update_authority(key) == Call("wrapper", 32, key)

\* The bind, the burn and the rotations of an asset's authorities: kind 0 is
\* the asset admin, 1 the insurance authority, 2 the insurance operator.
UpdateAssetAuthority(kind, key) == Call("wrapper", 65, ASSET_INDEX_ZERO \o <<kind>> \o key)

cpi_bind_insurance_authority == UpdateAssetAuthority(1, VAULT_AUTH)
cpi_bind_insurance_operator == UpdateAssetAuthority(2, VAULT_AUTH)
cpi_burn_asset_admin == UpdateAssetAuthority(0, ZERO_KEY)
cpi_rotate_insurance_operator(target) == UpdateAssetAuthority(2, target)
cpi_rotate_insurance_authority(target) == UpdateAssetAuthority(1, target)

cpi_withdraw_insurance_asset(amount) ==
    Call("wrapper", 57, ASSET_INDEX_ZERO \o le_u128(amount))

cpi_resolve_market == Call("wrapper", 19, <<>>)

cpi_update_fee_split(creator, lp, insurance) ==
    Call("wrapper", 86, le_u16(creator) \o le_u16(lp) \o le_u16(insurance))

\* Mutant: the fee is sent as a u64.
maintenance_fee_as_u64(fee) == Call("wrapper", 88, le_u64(fee))

cpi_update_maintenance_fee_per_slot(fee) == Call("wrapper", 88, le_u128(fee))

cpi_update_backing_fee_policy(domain, fee_bps, insurance) ==
    Call("wrapper", 51, le_u16(domain) \o le_u16(fee_bps) \o le_u16(insurance))

cpi_update_trade_fee_policy(fee) == Call("wrapper", 55, le_u64(fee))

\* No freeze authority: the option byte is 0 and nothing follows it.
initialize_mint(decimals, authority) == Call("token", 0, <<decimals>> \o authority \o <<0>>)

\* Its arguments are its accounts.
initialize_account == Call("token", 1, <<>>)

transfer(amount) == Call("token", 3, le_u64(amount))
mint_to(amount) == Call("token", 7, le_u64(amount))
burn(amount) == Call("token", 8, le_u64(amount))

----------------------------------------------------------------------------
(* The accounts it reads.                                                  *)

ACCOUNT_LEN == 165
MINT_LEN == 82

AccountState(b) == CASE b = 0 -> "uninitialized" [] b = 1 -> "initialized" [] OTHER -> "frozen"

\* Mutant: the amount is looked for behind the delegate's option.
account_unpack_shifted(data) ==
    [ok |-> TRUE, amount |-> u64_at(data, 72), state |-> AccountState(data[109])]

account_unpack(data) ==
    IF Len(data) < ACCOUNT_LEN
    THEN Err
    ELSE [ok |-> TRUE, amount |-> u64_at(data, 64), state |-> AccountState(data[109])]

mint_unpack(data) ==
    IF Len(data) < MINT_LEN
    THEN Err
    ELSE [ok |-> TRUE, decimals |-> data[45], is_initialized |-> data[46] # 0]
=============================================================================
