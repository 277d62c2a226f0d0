------------------------------ MODULE MCPanes ------------------------------
(* Small instances of Panes: two panes at a time. *)
EXTENDS Panes
=============================================================================
