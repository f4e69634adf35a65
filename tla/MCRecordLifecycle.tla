--------------------------- MODULE MCRecordLifecycle ---------------------------
(* Instances of RecordLifecycle for TLC. *)
EXTENDS RecordLifecycle, TLC

CONSTANTS w1, w2

NoneDeferred == {}
OneDeferred  == {2}

Writers    == {"deletion", "redaction", "rescan", "bulk", "retention"}
Locking    == {"bulk", "retention", "verify"}
Tombstones == {"deletion", "redaction"}

Symmetry == Permutations(Workers)
===============================================================================
