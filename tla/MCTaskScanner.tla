--------------------------- MODULE MCTaskScanner ---------------------------
(* A task file of one batch and the lock of another. *)
EXTENDS TaskScanner
CONSTANTS task, lock, b1, b2, early, late
MCPaths == {task, lock}
MCBatches == {b1, b2}
MCBatchOf == [path \in MCPaths |-> IF path = lock THEN b2 ELSE b1]
MCPayloads == {Torn, early, late}
=============================================================================
