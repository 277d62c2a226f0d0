----------------------------- MODULE MCWatcher -----------------------------
(* Small instances of Watcher. *)
EXTENDS Watcher, TLC
CONSTANTS f1, f2, f3, claude, codex
MCFiles == {f1, f2, f3}
MCProviders == {claude, codex}
MCProviderOf == [f \in Files |-> IF f = f3 THEN codex ELSE claude]
OnlyF1 == {f1}
F1F3 == {f1, f3}
=============================================================================
