-------------------------- MODULE MCBulkRevokeJob --------------------------
(* BulkRevokeJob for TLC: lists with an unknown id, a repeated id and an   *)
(* empty one.                                                              *)
EXTENDS BulkRevokeJob

CONSTANTS a, b, x

OneJobBatches == {<<>>, <<a, b>>, <<a, a>>, <<x, a>>}

============================================================================
