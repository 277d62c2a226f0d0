------------------------------- MODULE Bounds -------------------------------
(***************************************************************************)
(* internal/tui/model.go: clamp and max, which keep cursors, selections    *)
(* and scrolls in their ranges.                                            *)
(***************************************************************************)
EXTENDS Integers

AtLeast(least, n) == IF n < least THEN least ELSE n

Clamp(n, low, high) == IF high < low \/ n < low THEN low ELSE IF n > high THEN high ELSE n
=============================================================================
