------------------------------- MODULE Screen -------------------------------
(***************************************************************************)
(* internal/tui/screen.go: the cursor of a pane's screen and the parser of *)
(* escape sequences, fed one character at a time and resized between any   *)
(* two.  What the cells show is left out: the cursor says which cell of    *)
(* rows is written, and rows has s.h rows of s.w cells from resize on.     *)
(*                                                                         *)
(* Characters are taken by what they do, and the numbers of a sequence     *)
(* from a small set when its last character arrives.                       *)
(***************************************************************************)
EXTENDS Integers, Bounds

CONSTANTS
  MinW, MinH,   \* resize's least width and height
  TabWidth,     \* columns between tab stops
  Sizes,        \* widths and heights asked for
  Params        \* numbers in a sequence, 0 for none

ASSUME ScreenAssumption ==
  /\ MinW \in Nat \ {0} /\ MinH \in Nat \ {0} /\ TabWidth \in Nat \ {0}
  /\ Sizes \subseteq Int /\ Params \subseteq Nat

VARIABLES
  w, h,      \* s.w, s.h
  x, y,      \* s.x, s.y
  sx, sy,    \* s.sx, s.sy
  esc,       \* what s.esc and s.inEsc hold: "none", "esc", "csi", "osc", "oscEsc", "set"
  target     \* put: the column a tab is on its way to, or NoTab

vars == <<w, h, x, y, sx, sy, esc, target>>

NoTab == -1

Column(n) == Clamp(n, 0, w - 1)
Row(n) == Clamp(n, 0, h - 1)

ScreenInit ==
  /\ \E cols, rows \in Sizes : w = AtLeast(MinW, cols) /\ h = AtLeast(MinH, rows)
  /\ x = 0 /\ y = 0 /\ sx = 0 /\ sy = 0
  /\ esc = "none" /\ target = NoTab

\* Mutant: the cursor stays where it was.
ResizedOnly(cols, rows) ==
  /\ w' = AtLeast(MinW, cols) /\ h' = AtLeast(MinH, rows)
  /\ UNCHANGED <<x, y>>

Resized(cols, rows) ==
  /\ w' = AtLeast(MinW, cols) /\ h' = AtLeast(MinH, rows)
  /\ x' = Clamp(x, 0, w' - 1) /\ y' = Clamp(y, 0, h' - 1)

Resize ==
  /\ target = NoTab
  /\ \E cols, rows \in Sizes : Resized(cols, rows)
  /\ UNCHANGED <<sx, sy, esc, target>>

-----------------------------------------------------------------------------
\* put, outside a sequence.
Ground == esc = "none" /\ target = NoTab

MoveTo(column, row) == x' = column /\ y' = row

EndsLine == MoveTo(0, IF y + 1 < h THEN y + 1 ELSE h - 1)

\* print: the cell under the cursor is written, the cursor goes on to the edge.
Printed ==
  IF x + 1 >= w THEN MoveTo(w - 1, y) ELSE MoveTo(x + 1, y)

Character ==
  /\ Ground
  /\ \/ Printed
     \/ MoveTo(0, y)                             \* \r
     \/ EndsLine                                 \* \n
     \/ MoveTo(IF x > 0 THEN x - 1 ELSE x, y)    \* \b, DEL
  /\ UNCHANGED <<w, h, sx, sy, esc, target>>

\* Mutant: the stop after the next.
StopAfter(column) == (column \div TabWidth + 1) * TabWidth + 1

NextStop(column) == (column \div TabWidth + 1) * TabWidth

TabBegins ==
  /\ Ground
  /\ target' = NextStop(x)
  /\ UNCHANGED <<w, h, x, y, sx, sy, esc>>

\* One turn of the loop, or its end.
TabPrints ==
  /\ target # NoTab /\ x < target
  /\ Printed
  /\ UNCHANGED <<w, h, sx, sy, esc, target>>

TabEnds ==
  /\ target # NoTab /\ x >= target
  /\ target' = NoTab
  /\ UNCHANGED <<w, h, x, y, sx, sy, esc>>

EscBegins ==
  /\ Ground
  /\ esc' = "esc"
  /\ UNCHANGED <<w, h, x, y, sx, sy, target>>

-----------------------------------------------------------------------------
\* put, inside a sequence: escDone, applyEsc, csi.
Collects(from, to) ==
  /\ esc = from /\ esc' = to
  /\ UNCHANGED <<w, h, x, y, sx, sy, target>>

Collecting ==
  \/ Collects("esc", "csi") \/ Collects("esc", "osc") \/ Collects("esc", "set")
  \/ Collects("csi", "csi")
  \/ Collects("osc", "osc") \/ Collects("osc", "oscEsc") \/ Collects("oscEsc", "osc")
  \/ Collects("oscEsc", "oscEsc")

Save == sx' = x /\ sy' = y /\ UNCHANGED <<x, y>>
Restore == MoveTo(Column(sx), Row(sy)) /\ UNCHANGED <<sx, sy>>
Clear == MoveTo(0, 0) /\ UNCHANGED <<sx, sy>>
Ignore == UNCHANGED <<x, y, sx, sy>>

Or1(n) == IF n = 0 THEN 1 ELSE n

\* H, f
Addressed(n, m) == MoveTo(Column(Or1(m) - 1), Row(Or1(n) - 1))

\* A, B, C, D, G, then H, by the numbers n and m of the sequence.
Moves(n, m) ==
  /\ \/ MoveTo(x, Row(y - Or1(n))) \/ MoveTo(x, Row(y + Or1(n)))
     \/ MoveTo(Column(x + Or1(n)), y) \/ MoveTo(Column(x - Or1(n)), y)
     \/ MoveTo(Column(Or1(n) - 1), y)
     \/ Addressed(n, m)
  /\ UNCHANGED <<sx, sy>>

\* The last character of a sequence.
EscEnds ==
  /\ \/ esc = "esc" /\ (Clear \/ Save \/ Restore \/ Ignore)
     \/ /\ esc = "csi"
        /\ \/ Clear \/ Save \/ Restore \/ Ignore
           \/ \E n, m \in Params : Moves(n, m)
     \/ esc \in {"osc", "oscEsc", "set"} /\ Ignore
  /\ esc' = "none"
  /\ UNCHANGED <<w, h, target>>

Put == Character \/ TabBegins \/ TabPrints \/ TabEnds \/ EscBegins \/ Collecting \/ EscEnds

ScreenNext == Put \/ Resize

ScreenSpec == ScreenInit /\ [][ScreenNext]_vars

\* write goes on with the character it has begun.
FairScreenSpec == ScreenSpec /\ WF_vars(TabPrints \/ TabEnds)

-----------------------------------------------------------------------------
\* Types, and the cursor is on a cell of the screen, whatever sequences arrive and
\* however it is resized between saving the cursor and restoring it: print writes
\* rows[y][x], and K writes from there, without looking.
CursorOK ==
  /\ w \in Nat /\ h \in Nat /\ w >= MinW /\ h >= MinH
  /\ x \in 0 .. w - 1 /\ y \in 0 .. h - 1
  /\ sx \in Nat /\ sy \in Nat
  /\ esc \in {"none", "esc", "csi", "osc", "oscEsc", "set"}
  /\ target \in Nat \cup {NoTab}

\* A tab that is done stands at a multiple of the tab width (that it stands past where it
\* began is not said here).
TabStops == [][target # NoTab /\ target' = NoTab => \E k \in 0 .. x : x = k * TabWidth]_vars

\* README.md:142 counts tabs among the common behaviour of the screen: put returns
\* from a tab, wherever the cursor is.
TabReturns == target # NoTab ~> target = NoTab
=============================================================================
