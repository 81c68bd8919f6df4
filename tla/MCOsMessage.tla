------------------------------ MODULE MCOsMessage ------------------------------
(* Two parameters, as in the unit tests, values of no bytes, one and three, *)
(* and a block that has room for a few of them.                            *)
EXTENDS OsMessage_proof

SmallSizes == {0, 1, 3}

=============================================================================
