----------------------------- MODULE MCObserver -----------------------------
(* Small instances of Observer. *)
EXTENDS Observer, TLC
CONSTANTS f1, g1, claude, codex
OneEach == {f1, g1}
OneFile == {f1}
MCProviders == {claude, codex}
OneProvider == {claude}
MCProviderOf == [f \in Files |-> IF f = g1 THEN codex ELSE claude]
MCAdapters == <<claude, codex>>
OneAdapter == <<claude>>
OnlyF1 == {f1}
=============================================================================
