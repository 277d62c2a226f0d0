------------------------------ MODULE MCScreen ------------------------------
(* Small screens, with tab stops every four columns. *)
EXTENDS Screen
Asked == {1, 4, 5, 7}
Numbers == {0, 1, 2, 9}
=============================================================================
