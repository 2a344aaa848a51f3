--------------------------- MODULE MCFeeAddresses ---------------------------
(* An instance of FeeAddresses for TLC: three keys, of which the second    *)
(* gives up once.                                                          *)
EXTENDS FeeAddresses, TLC

CONSTANTS k1, k2, k3

\* An index of the first key is skipped, and the second has three in a row.
Invalid == {<<k1, 2>>, <<k2, 2>>, <<k2, 3>>, <<k2, 4>>}

RequestSymmetry == Permutations(Requests)
=============================================================================
