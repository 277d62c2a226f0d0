------------------------------ MODULE MCTailer ------------------------------
(* Small instances of Tailer. *)
EXTENDS Tailer
TwoInodes == {1, 2}
Replacements == {"rotate", "truncate", "delete"}
=============================================================================
