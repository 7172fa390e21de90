------------------------------ MODULE StakeCodec ------------------------------
(***************************************************************************)
(* An instruction from the client that encodes it to the programs that     *)
(* carry out the calls it causes.  Three codecs meet here that no common   *)
(* crate keeps in step: the client's and the program's, the program's and  *)
(* the wrapper's, the program's and the token program's.                   *)
(*                                                                         *)
(* A handler is the part of it that passes arguments on; the amounts it    *)
(* computes (shares, payout) are its quote.  A client of another build may *)
(* send a byte too few or too many.                                        *)
(***************************************************************************)
EXTENDS StakeWire

CONSTANTS
    Keys,        \* keys an instruction or a rotation may carry
    Numbers,     \* bound: the integers sent, by their type
    DECIMALS     \* decimals of the collateral mint

Key == [1 .. 32 -> 0 .. Radix - 1]

ASSUME CodecAssumption ==
    /\ Keys \cup {POOL_PDA, VAULT_AUTH} \subseteq Key
    /\ Numbers["u16"] \subseteq 0 .. U16 - 1
    /\ Numbers["u64"] \subseteq 0 .. U64 - 1
    /\ Numbers["u128"] \subseteq 0 .. U128 - 1
    /\ DECIMALS \in 0 .. Radix - 1

VARIABLES
    sent,       \* what the client asks for
    wire,       \* the bytes it sends
    skewed,     \* whether they are of another build's format
    vault,      \* the vault's token account: amount and state
    result,     \* what unpack made of the bytes
    seen,       \* the vault balance the handler priced with
    calls       \* the calls the handler made

cvars == <<sent, wire, skewed, vault, result, seen, calls>>

NoRequest == [tag |-> None, args |-> <<>>, quote |-> None, target |-> ZERO_KEY]

----------------------------------------------------------------------------
(* The client: the variants of StakeInstruction, argument by argument.     *)

PoolVariants(t) == IF t = 0 THEN <<"u64", "u64">> ELSE <<"u64">>

AuthorityVariants == <<>>

ConfigVariants(t) ==
    CASE t = 4 -> <<"option", "option">>
      [] t = 5 -> <<"key">>
      [] t \in {7, 23} -> <<"u64">>
      [] OTHER -> <<>>

TradingVariants(t) ==
    CASE t = 13 -> <<"u64", "u64">>
      [] t = 14 -> <<"flag", "u16">>
      [] t = 15 -> <<"u16">>
      [] t \in {10, 16} -> <<"u64">>
      [] OTHER -> <<>>

PolicyVariants(t) ==
    CASE t = 26 -> <<"u128">>
      [] t = 28 -> <<"u64">>
      [] OTHER -> <<"u16", "u16", "u16">>

\* Tags 11 and 17 are unused.
Tags == 0 .. 10 \cup 12 .. 16 \cup 18 .. 28

\* The types of the arguments of a variant.
Arguments(t) ==
    CASE t \in 0 .. 3 -> PoolVariants(t)
      [] t \in 4 .. 9 \cup {23} -> ConfigVariants(t)
      [] t \in 19 .. 22 -> AuthorityVariants
      [] t \in 25 .. 28 -> PolicyVariants(t)
      [] OTHER -> TradingVariants(t)

Values(kind) ==
    CASE kind = "key" -> Keys
      [] kind = "flag" -> {0, 1}
      [] kind = "option" -> Numbers["u64"] \cup {None}
      [] OTHER -> Numbers[kind]

\* External: the bytes a client may send for an argument; nothing is said of
\* the bytes of an option that is not set.
Encodings(kind, v) ==
    CASE kind = "key" -> {v}
      [] kind = "flag" -> IF v = 1 THEN {<<b>> : b \in 1 .. Radix - 1} ELSE {<<0>>}
      [] kind = "option" ->
            IF v = None THEN {<<0>> \o le_u64(n) : n \in Numbers["u64"]}
                        ELSE {<<b>> \o le_u64(v) : b \in 1 .. Radix - 1}
      [] kind = "u16" -> {le_u16(v)}
      [] kind = "u64" -> {le_u64(v)}
      [] kind = "u128" -> {le_u128(v)}

\* The tuples that take their i-th element from S[i].
Tuples(S) ==
    {t \in [DOMAIN S -> UNION {S[i] : i \in DOMAIN S}] : \A i \in DOMAIN S : t[i] \in S[i]}

\* No variant has more than three arguments.
Joined(b) ==
    CASE Len(b) = 0 -> <<>>
      [] Len(b) = 1 -> b[1]
      [] Len(b) = 2 -> b[1] \o b[2]
      [] Len(b) = 3 -> b[1] \o b[2] \o b[3]

Init ==
    /\ sent = NoRequest
    /\ wire = <<>>
    /\ skewed = FALSE
    /\ vault \in [amount : Numbers["u64"], state : {1, 2}]
    /\ result = Err
    /\ seen = None
    /\ calls = <<>>

\* What a variant may carry, and the payloads a client may send for it.
ArgumentLists(tag) == Tuples([i \in DOMAIN Arguments(tag) |-> Values(Arguments(tag)[i])])

Payloads(tag, args) ==
    {Joined(b) : b \in Tuples([i \in DOMAIN Arguments(tag) |-> Encodings(Arguments(tag)[i], args[i])])}

\* External: a request is encoded argument by argument.
Send(tag) ==
    /\ sent = NoRequest
    /\ \E args \in ArgumentLists(tag) :
       \E quote \in IF tag \in {1, 2, 16} THEN Numbers["u64"] ELSE {None} :
       \E target \in IF tag \in {20, 22} THEN Keys ELSE {ZERO_KEY} :
       \E payload \in Payloads(tag, args) :
          /\ sent' = [tag |-> tag, args |-> args, quote |-> quote, target |-> target]
          /\ wire' = <<tag>> \o payload
    /\ UNCHANGED <<skewed, vault, result, seen, calls>>

\* External: the client's build has an argument fewer, more, or of another
\* width.
Skew ==
    /\ wire # <<>> /\ ~skewed
    /\ wire' \in {SubSeq(wire, 1, n) : n \in 1 .. Len(wire) - 1} \cup {wire \o <<b>> : b \in {0, 1}}
    /\ skewed' = TRUE
    /\ UNCHANGED <<sent, vault, result, seen, calls>>

----------------------------------------------------------------------------
(* The handlers.                                                           *)

\* External: the accounts as the token program lays them out.
TokenAccount(v) ==
    [i \in 1 .. ACCOUNT_LEN |->
        IF i \in 65 .. 72 THEN le_u64(v.amount)[i - 64]
        ELSE IF i = 109 THEN v.state ELSE 1]

MintAccount == [i \in 1 .. MINT_LEN |-> IF i = 45 THEN DECIMALS ELSE 1]

\* Deposit, DepositJunior, Withdraw and AccrueFees read the vault and refuse
\* one that is not initialized.
Pricing(tag) == tag \in {1, 2, 12, 16}

VaultReady(tag) == Pricing(tag) => account_unpack(TokenAccount(vault)).state = "initialized"

Handler(tag, args, quote, target) ==
    CASE tag \in {0, 13} ->
            <<cpi_update_authority(POOL_PDA),
              initialize_mint(mint_unpack(MintAccount).decimals, VAULT_AUTH),
              initialize_account>>
      [] tag \in {1, 16} -> <<transfer(args[1]), mint_to(quote)>>
      [] tag = 2 -> <<burn(args[1])>> \o IF quote > 0 THEN <<transfer(quote)>> ELSE <<>>
      [] tag = 3 -> <<cpi_top_up_insurance(args[1])>>
      [] tag = 10 -> <<transfer(args[1])>>
      [] tag = 19 -> <<cpi_bind_insurance_authority, cpi_bind_insurance_operator>>
      [] tag = 20 -> <<cpi_rotate_insurance_authority(target)>>
      [] tag = 21 -> <<cpi_burn_asset_admin>>
      [] tag = 22 -> <<cpi_rotate_insurance_operator(target)>>
      [] tag = 23 -> <<cpi_withdraw_insurance_asset(args[1])>>
      [] tag = 24 -> <<cpi_resolve_market>>
      [] tag = 25 -> <<cpi_update_fee_split(args[1], args[2], args[3])>>
      [] tag = 26 -> <<cpi_update_maintenance_fee_per_slot(args[1])>>
      [] tag = 27 -> <<cpi_update_backing_fee_policy(args[1], args[2], args[3])>>
      [] tag = 28 -> <<cpi_update_trade_fee_policy(args[1])>>
      [] OTHER -> <<>>

\* process: unpack, then the handler of the tag.
Process ==
    /\ wire # <<>>
    /\ result' = unpack(wire)
    /\ IF result'.ok /\ VaultReady(result'.tag)
       THEN /\ seen' = IF Pricing(result'.tag)
                       THEN account_unpack(TokenAccount(vault)).amount ELSE None
            /\ calls' = Handler(result'.tag, result'.args, sent.quote, sent.target)
       ELSE seen' = None /\ calls' = <<>>
    /\ wire' = <<>>
    /\ UNCHANGED <<sent, skewed, vault>>

\* The next request.
Acknowledge ==
    /\ sent # NoRequest /\ wire = <<>>
    /\ sent' = NoRequest /\ skewed' = FALSE
    /\ result' = Err /\ seen' = None /\ calls' = <<>>
    /\ UNCHANGED <<wire, vault>>

Next == (\E tag \in Tags : Send(tag)) \/ Skew \/ Process \/ Acknowledge

Spec == Init /\ [][Next]_cvars

----------------------------------------------------------------------------
(* External: what the wrapper and the token program read out of a call.    *)
(* Both refuse bytes they do not consume.                                  *)

WrapperDecoded(tag, rest) ==
    CASE tag = 19 /\ Len(rest) = 0 -> Ok(tag, <<>>)
      [] tag = 32 /\ Len(rest) = 32 -> Ok(tag, <<key_at(rest, 0)>>)
      [] tag = 55 /\ Len(rest) = 8 -> Ok(tag, <<u64_at(rest, 0)>>)
      [] tag = 57 /\ Len(rest) = 18 -> Ok(tag, <<u16_at(rest, 0), u128_at(rest, 2)>>)
      [] tag = 65 /\ Len(rest) = 35 -> Ok(tag, <<u16_at(rest, 0), rest[3], key_at(rest, 3)>>)
      [] tag \in {51, 86} /\ Len(rest) = 6 ->
            Ok(tag, <<u16_at(rest, 0), u16_at(rest, 2), u16_at(rest, 4)>>)
      [] tag \in {9, 88} /\ Len(rest) = 16 -> Ok(tag, <<u128_at(rest, 0)>>)
      [] OTHER -> Err

TokenDecoded(tag, rest) ==
    CASE tag = 0 /\ Len(rest) = 34 -> Ok(tag, <<rest[1], key_at(rest, 1), rest[34]>>)
      [] tag = 1 /\ Len(rest) = 0 -> Ok(tag, <<>>)
      [] tag \in {3, 7, 8} /\ Len(rest) = 8 -> Ok(tag, <<u64_at(rest, 0)>>)
      [] OTHER -> Err

Decoded(call) ==
    IF call.program = "wrapper"
    THEN WrapperDecoded(Head(call.data), Tail(call.data))
    ELSE TokenDecoded(Head(call.data), Tail(call.data))

----------------------------------------------------------------------------
(* Properties.                                                             *)

Processed == sent # NoRequest /\ wire = <<>>

(***************************************************************************)
(* StakeInstruction::unpack gives back the variant and every argument a    *)
(* client encoded, whatever bytes stand behind a flag or an unset option;  *)
(* and no instruction of another build, a field short or a byte long, is   *)
(* taken for a valid one of its tag.                                       *)
(***************************************************************************)
ExactlyWhatWasSent ==
    Processed => result = IF skewed THEN Err ELSE Ok(sent.tag, sent.args)

\* The calls a request stands for, as the programs called read them.
Asked ==
    LET a == sent.args
        tag == sent.tag
        MoveRole(kind, key) == Ok(65, <<0, kind, key>>)
    IN  CASE tag \in {0, 13} -> <<Ok(32, <<POOL_PDA>>), Ok(0, <<DECIMALS, VAULT_AUTH, 0>>), Ok(1, <<>>)>>
          [] tag \in {1, 16} -> <<Ok(3, a), Ok(7, <<sent.quote>>)>>
          [] tag = 2 /\ sent.quote = 0 -> <<Ok(8, a)>>
          [] tag = 2 /\ sent.quote > 0 -> <<Ok(8, a), Ok(3, <<sent.quote>>)>>
          [] tag = 3 -> <<Ok(9, a)>>
          [] tag = 10 -> <<Ok(3, a)>>
          [] tag = 19 -> <<MoveRole(1, VAULT_AUTH), MoveRole(2, VAULT_AUTH)>>
          [] tag = 20 -> <<MoveRole(1, sent.target)>>
          [] tag = 21 -> <<MoveRole(0, ZERO_KEY)>>
          [] tag = 22 -> <<MoveRole(2, sent.target)>>
          [] tag = 23 -> <<Ok(57, <<0>> \o a)>>
          [] tag = 24 -> <<Ok(19, <<>>)>>
          [] tag = 25 -> <<Ok(86, a)>>
          [] tag = 26 -> <<Ok(88, a)>>
          [] tag = 27 -> <<Ok(51, a)>>
          [] tag = 28 -> <<Ok(55, a)>>
          [] OTHER -> <<>>

(***************************************************************************)
(* From the client's argument to the field the called program reads, no    *)
(* amount is cut to another width, no field lands in another's place and   *)
(* no byte is left over: the wrapper and the token program read, in order, *)
(* exactly the calls the request stands for.                               *)
(***************************************************************************)
CallsMeanWhatWasAsked ==
    Processed =>
        [i \in DOMAIN calls |-> Decoded(calls[i])] =
            IF result.ok /\ VaultReady(sent.tag) THEN Asked ELSE <<>>

(***************************************************************************)
(* A handler prices shares with the balance the token program keeps for    *)
(* the vault, read through the program's own parser, and moves nothing     *)
(* when the vault is frozen.                                               *)
(***************************************************************************)
PricedWithVault ==
    Processed /\ ~skewed /\ Pricing(sent.tag) =>
        IF vault.state = 1 THEN seen = vault.amount ELSE seen = None /\ calls = <<>>
=============================================================================
