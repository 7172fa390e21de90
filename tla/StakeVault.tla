----------------------------- MODULE StakeVault -----------------------------
(***************************************************************************)
(* What a pool promises whoever holds its shares, with nothing said of     *)
(* shares, tranches, floors or who may call: an escrow that holds tokens,  *)
(* knows how much of them it has booked as the holders' value, and lends   *)
(* to a market that must have nothing left to give back when it closes.    *)
(***************************************************************************)
EXTENDS Integers

VARIABLES
    held,    \* tokens in the escrow
    booked,  \* the part of them the holders own
    lent,    \* what the market still owes
    closed   \* no more lending, nothing more to come back

vvars == <<held, booked, lent, closed>>

VInit == held = 0 /\ booked = 0 /\ lent = 0 /\ closed = FALSE

\* Any operation may first book the tokens that nobody has claimed yet: all
\* of them or none.
Unclaimed == {0, held - booked}

\* A holder pays in.
PayIn ==
    /\ held' > held
    /\ \E fee \in Unclaimed : booked' = booked + fee + (held' - held)
    /\ UNCHANGED <<lent, closed>>

\* A holder is paid out of what is booked, and may write off a part of what
\* is lent on the way.
PayOut ==
    /\ held' <= held
    /\ \E fee \in Unclaimed :
          /\ held - held' <= booked + fee
          /\ booked' = booked + fee - (held - held')
    /\ 0 <= lent' /\ lent' <= lent
    /\ UNCHANGED closed

Lend ==
    /\ ~closed
    /\ held' < held
    /\ held - held' <= booked
    /\ booked' = booked - (held - held')
    /\ lent' = lent + (held - held')
    /\ UNCHANGED closed

\* Tokens come back: out of the market, or out of somebody's own pocket, in
\* which case the market goes on owing them.
Repay ==
    /\ held' > held
    /\ held' - held <= lent
    /\ booked' = booked + (held' - held)
    /\ lent' \in {lent, lent - (held' - held)}
    /\ UNCHANGED closed

\* Tokens arrive that nobody has claimed.
Receive ==
    /\ held' > held
    /\ UNCHANGED <<booked, lent, closed>>

Close ==
    /\ lent = 0
    /\ closed' = TRUE
    /\ UNCHANGED <<held, booked, lent>>

VNext == PayIn \/ PayOut \/ Lend \/ Repay \/ Receive \/ Close

VSpec == VInit /\ [][VNext]_vvars
=============================================================================
