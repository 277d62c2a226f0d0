------------------------------ MODULE MCProgram ------------------------------
(* A small instance of Program: one pane. *)
EXTENDS Program
=============================================================================
