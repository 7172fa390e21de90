----------------------------- MODULE StakeFields -----------------------------
(***************************************************************************)
(* What the handlers take the StakePool account to be: named fields, of    *)
(* which a setter changes the one it is named for and no other.            *)
(***************************************************************************)
CONSTANTS
    Genesis,    \* what the fields may hold when the account is created
    Contents    \* what the setters may put into a field

VARIABLES
    fields,    \* the content of each field
    last       \* the field set last, and what it was set to

fvars == <<fields, last>>

FInit == fields \in Genesis /\ last = <<>>

Assign(f, v) ==
    /\ last' = <<f, v>>
    /\ fields' = [fields EXCEPT ![f] = v]

FNext == \E f \in DOMAIN fields : \E v \in Contents[f] : Assign(f, v)

FSpec == FInit /\ [][FNext]_fvars
=============================================================================
