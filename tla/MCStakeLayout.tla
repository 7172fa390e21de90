---------------------------- MODULE MCStakeLayout ----------------------------
(* A field of each group is set, among them those packed by hand against a *)
(* neighbour; each takes two contents.                                     *)
EXTENDS StakeLayout

CONSTANT Written    \* bound: the fields this instance sets

Filled(f, b) == [i \in Span(f) |-> b]

MCContents ==
    [f \in Names |->
        IF f \in Written
        THEN {Filled(f, 0), Filled(f, 1)}
        ELSE IF f \in {"cooldown_slots", "deposit_cap"} THEN {Filled(f, 7)} ELSE {}]

MCIdentity ==
    [slab |-> Filled("slab", 10), admin |-> Filled("admin", 11),
     collateral_mint |-> Filled("collateral_mint", 12), lp_mint |-> Filled("lp_mint", 13),
     vault |-> Filled("vault", 14), percolator_program |-> Filled("percolator_program", 15),
     bump |-> Filled("bump", 16), vault_authority_bump |-> Filled("vault_authority_bump", 17)]
=============================================================================
