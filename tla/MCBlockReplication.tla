------------------------- MODULE MCBlockReplication -------------------------
(***************************************************************************)
(* Instances of BlockReplication.                                          *)
(***************************************************************************)
EXTENDS BlockReplication

V2Sizes == {<<1, 4>>, <<2, 1>>}
DirectSizes == {<<2, 4>>}

=============================================================================
