----------------------------- MODULE MCSessions -----------------------------
(* A claude session with two processes, a rollout, and a transcript two globs match. *)
EXTENDS Sessions, TLC
CONSTANTS c, x, m, p1, p2
ThreeKinds == <<c, x, m, m>>
MCKindOf == [p \in PathSet |-> CASE p = c -> "claude" [] p = x -> "codex" [] OTHER -> "manifest"]
TwoPids == <<p1, p2>>
Mishaps == {"unlisted", "reused"}
=============================================================================
