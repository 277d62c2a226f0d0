------------------------------ MODULE TuiProofs ------------------------------
(***************************************************************************)
(* The two parts of internal/tui that are indices into something that      *)
(* shrinks: the cursor of a screen, and the selections and scrolls of the  *)
(* dashboard.                                                              *)
(*                                                                         *)
(* Screen: CursorOK is inductive: sizes only change together with the      *)
(* cursor, what Save keeps is clamped by Restore to the size the screen    *)
(* has by then, and a tab on its way moves the cursor by Printed alone.    *)
(* TabStops needs OnItsWay besides.                                        *)
(*                                                                         *)
(* Dashboard: what clamp leaves behind is a fixed point of clamp, whatever *)
(* it was given, and nearly every step ends with it (IInv).                *)
(***************************************************************************)
EXTENDS Screen, Dashboard, FiniteSetTheorems, SequenceTheorems, TLAPS


\* Column and Row name a column and a row there is.
LEMMA ClampedOnScreen ==
  ASSUME CursorOK, NEW n \in Int
  PROVE  Column(n) \in 0 .. w - 1 /\ Row(n) \in 0 .. h - 1
<1>1. w \in Nat /\ h \in Nat /\ 1 <= w /\ 1 <= h
  BY ScreenAssumption DEF CursorOK, ScreenAssumption
<1>2. Column(n) \in 0 .. w - 1
  BY <1>1 DEF Column, Clamp
<1>3. Row(n) \in 0 .. h - 1
  BY <1>1 DEF Row, Clamp
<1> QED
  BY <1>2, <1>3

\* resize takes at least the least size asked of it.
LEMMA AtLeastIs ==
  ASSUME NEW least \in Nat, NEW n \in Int
  PROVE  AtLeast(least, n) \in Nat /\ AtLeast(least, n) >= least
BY DEF AtLeast

\* A new screen has the cursor in its corner.
LEMMA InitCursorOK == ScreenInit => CursorOK
<1> SUFFICES ASSUME ScreenInit PROVE CursorOK
  OBVIOUS
<1>1. PICK cols \in Sizes, rows \in Sizes : w = AtLeast(MinW, cols) /\ h = AtLeast(MinH, rows)
  BY DEF ScreenInit
<1>2. MinW \in Nat /\ MinW >= 1 /\ MinH \in Nat /\ MinH >= 1 /\ cols \in Int /\ rows \in Int
  BY ScreenAssumption DEF ScreenAssumption
<1>3. w \in Nat /\ w >= MinW /\ h \in Nat /\ h >= MinH
  BY <1>1, <1>2, AtLeastIs
<1> QED
  BY <1>2, <1>3 DEF ScreenInit, CursorOK

\* What the steps that leave the size alone have to show.
LEMMA CursorMoved ==
  ASSUME CursorOK, UNCHANGED <<w, h>>,
         x' \in 0 .. w - 1, y' \in 0 .. h - 1, sx' \in Nat, sy' \in Nat,
         esc' \in {"none", "esc", "csi", "osc", "oscEsc", "set"}, target' \in Nat \cup {NoTab}
  PROVE  CursorOK'
BY DEF CursorOK

\* print leaves the cursor on the screen.
LEMMA PrintedOnScreen ==
  ASSUME CursorOK, Printed
  PROVE  x' \in 0 .. w - 1 /\ y' \in 0 .. h - 1
BY ScreenAssumption DEF ScreenAssumption, CursorOK, Printed, MoveTo

\* What a sequence does to the cursor keeps it on the screen.
LEMMA MovesOnScreen ==
  ASSUME CursorOK, NEW n \in Params, NEW k \in Params, Moves(n, k)
  PROVE  x' \in 0 .. w - 1 /\ y' \in 0 .. h - 1 /\ sx' \in Nat /\ sy' \in Nat
<1>1. x \in Int /\ y \in Int /\ x \in 0 .. w - 1 /\ y \in 0 .. h - 1 /\ sx \in Nat /\ sy \in Nat
  BY DEF CursorOK
<1>2. Or1(n) \in Int /\ Or1(k) \in Int
  BY ScreenAssumption DEF ScreenAssumption, Or1
<1>3. /\ y - Or1(n) \in Int /\ y + Or1(n) \in Int /\ x + Or1(n) \in Int /\ x - Or1(n) \in Int
      /\ Or1(n) - 1 \in Int /\ Or1(k) - 1 \in Int
  BY <1>1, <1>2
<1> QED
  BY <1>1, <1>3, ClampedOnScreen DEF Moves, Addressed, MoveTo

\* The actions, one by one.
LEMMA NextCursorOK == CursorOK /\ [ScreenNext]_vars => CursorOK'
<1> SUFFICES ASSUME CursorOK, [ScreenNext]_vars PROVE CursorOK'
  OBVIOUS
<1>1. CASE Resize
  <2>1. PICK cols \in Sizes, rows \in Sizes : Resized(cols, rows)
    BY <1>1 DEF Resize
  <2>2. MinW \in Nat /\ MinW >= 1 /\ MinH \in Nat /\ MinH >= 1 /\ cols \in Int /\ rows \in Int
    BY ScreenAssumption DEF ScreenAssumption
  <2>3. w' \in Nat /\ w' >= MinW /\ h' \in Nat /\ h' >= MinH
    BY <2>1, <2>2, AtLeastIs DEF Resized
  <2>4. x' \in 0 .. w' - 1 /\ y' \in 0 .. h' - 1
    <3>1. x \in Int /\ y \in Int
      BY DEF CursorOK
    <3>2. w' \in Nat /\ h' \in Nat /\ 1 <= w' /\ 1 <= h'
      BY <2>2, <2>3
    <3>3. x' \in 0 .. w' - 1
      BY <2>1, <3>1, <3>2 DEF Resized, Clamp
    <3>4. y' \in 0 .. h' - 1
      BY <2>1, <3>1, <3>2 DEF Resized, Clamp
    <3> QED
      BY <3>3, <3>4
  <2> QED
    BY <1>1, <2>3, <2>4 DEF Resize, CursorOK
<1>2. CASE Character
  <2>1. x' \in 0 .. w - 1 /\ y' \in 0 .. h - 1
    <3>1. CASE Printed
      BY <3>1, PrintedOnScreen
    <3>2. CASE ~Printed
      BY <1>2, <3>2, ScreenAssumption DEF ScreenAssumption, Character, CursorOK, EndsLine, MoveTo
    <3> QED
      BY <3>1, <3>2
  <2> QED
    BY <1>2, <2>1, CursorMoved DEF Character, CursorOK
<1>3. CASE TabBegins
  <2>1. NextStop(x) \in Nat
    <3>1. x \in Nat /\ TabWidth \in Nat /\ TabWidth > 0
      BY ScreenAssumption DEF ScreenAssumption, CursorOK
    <3>2. x \div TabWidth \in Nat
      BY <3>1
    <3> QED
      BY <3>1, <3>2 DEF NextStop
  <2> QED
    BY <1>3, <2>1, CursorMoved DEF TabBegins, CursorOK
<1>4. CASE TabPrints
  BY <1>4, PrintedOnScreen, CursorMoved DEF TabPrints, CursorOK
<1>5. CASE TabEnds
  BY <1>5, CursorMoved DEF TabEnds, CursorOK
<1>6. CASE EscBegins
  BY <1>6, CursorMoved DEF EscBegins, CursorOK
<1>7. CASE Collecting
  BY <1>7, CursorMoved DEF Collecting, Collects, CursorOK
<1>8. CASE EscEnds
  <2>1. x' \in 0 .. w - 1 /\ y' \in 0 .. h - 1 /\ sx' \in Nat /\ sy' \in Nat
    <3>1. CASE Clear
      BY <3>1, ScreenAssumption DEF ScreenAssumption, CursorOK, Clear, MoveTo
    <3>2. CASE Save
      BY <3>2 DEF CursorOK, Save
    <3>3. CASE Restore
      <4>1. sx \in Int /\ sy \in Int
        BY DEF CursorOK
      <4> QED
        BY <3>3, <4>1, ClampedOnScreen DEF CursorOK, Restore, MoveTo
    <3>4. CASE Ignore
      BY <3>4 DEF CursorOK, Ignore
    <3>5. CASE \E n, k \in Params : Moves(n, k)
      BY <3>5, MovesOnScreen
    <3> QED
      BY <1>8, <3>1, <3>2, <3>3, <3>4, <3>5 DEF EscEnds
  <2> QED
    BY <1>8, <2>1, CursorMoved DEF EscEnds, CursorOK
<1>9. CASE UNCHANGED vars
  BY <1>9 DEF vars, CursorOK
<1> QED
  BY <1>1, <1>2, <1>3, <1>4, <1>5, <1>6, <1>7, <1>8, <1>9 DEF ScreenNext, Put

\* The cursor is on the screen, whatever is written to it and however it is resized.
THEOREM CursorOnScreen == ScreenSpec => []CursorOK
BY InitCursorOK, NextCursorOK, PTL DEF ScreenSpec

\* The stop is a multiple of TabWidth, and past the column.
LEMMA NextStopIs ==
  ASSUME NEW column \in Nat
  PROVE  /\ NextStop(column) \in Nat /\ column <= NextStop(column)
         /\ \E k \in Nat : k <= NextStop(column) /\ NextStop(column) = k * TabWidth
<1> DEFINE q == column \div TabWidth
<1>1. TabWidth \in Nat /\ TabWidth >= 1
  BY ScreenAssumption DEF ScreenAssumption
<1>2. q \in Nat /\ column < (q + 1) * TabWidth
  BY <1>1
<1>3. q + 1 \in Nat /\ NextStop(column) = (q + 1) * TabWidth
  BY <1>2 DEF NextStop
<1>4. (q + 1) * TabWidth \in Nat /\ q + 1 <= (q + 1) * TabWidth
  BY <1>1, <1>2
<1> QED
  BY <1>2, <1>3, <1>4

\* While a tab is on its way it has not passed its stop.
OnItsWay ==
  target # NoTab => esc = "none" /\ x <= target /\ \E k \in Nat : k <= target /\ target = k * TabWidth

LEMMA NextOnItsWay == CursorOK /\ OnItsWay /\ [ScreenNext]_vars => OnItsWay'
<1> SUFFICES ASSUME CursorOK, OnItsWay, [ScreenNext]_vars PROVE OnItsWay'
  OBVIOUS
<1>1. CASE TabBegins
  <2>1. x \in Nat
    BY DEF CursorOK
  <2> QED
    BY <1>1, <2>1, NextStopIs DEF TabBegins, Ground, OnItsWay
<1>2. CASE TabPrints
  <2>1. target' = target /\ x' <= target
    BY <1>2 DEF TabPrints, Printed, MoveTo, CursorOK
  <2> QED
    BY <1>2, <2>1 DEF TabPrints, OnItsWay
<1>3. CASE Resize \/ Character \/ TabEnds \/ EscBegins \/ Collecting
  BY <1>3 DEF OnItsWay, Resize, Character, Ground, TabEnds, EscBegins, Collecting, Collects
<1>4. CASE EscEnds
  BY <1>4 DEF OnItsWay, EscEnds
<1>5. CASE UNCHANGED vars
  BY <1>5 DEF OnItsWay, vars
<1> QED
  BY <1>1, <1>2, <1>3, <1>4, <1>5 DEF ScreenNext, Put

\* A tab that is done has reached a tab stop: the loop of put ends at its target and
\* nowhere else.
THEOREM TabsEndAtStops == ScreenSpec => TabStops
<1>1. ScreenInit => OnItsWay
  BY DEF ScreenInit, OnItsWay
<1>2. CursorOK /\ OnItsWay /\ [ScreenNext]_vars =>
        [target # NoTab /\ target' = NoTab => \E k \in 0 .. x : x = k * TabWidth]_vars
  <2> SUFFICES ASSUME CursorOK, OnItsWay, ScreenNext, target # NoTab, target' = NoTab
               PROVE  \E k \in 0 .. x : x = k * TabWidth
    BY DEF vars
  <2>1. TabEnds
    BY DEF ScreenNext, Put, Resize, Character, Ground, TabBegins, TabPrints, EscBegins, Collecting,
           Collects, EscEnds
  <2>2. x = target
    BY <2>1 DEF TabEnds, OnItsWay, CursorOK
  <2> QED
    BY <2>2 DEF OnItsWay, CursorOK
<1> QED
  BY InitCursorOK, NextCursorOK, NextOnItsWay, <1>1, <1>2, PTL DEF ScreenSpec, TabStops

-----------------------------------------------------------------------------
\* Dashboard.  A Model, of any selections and scrolls, as Update may leave it before it
\* clamps; the warnings are not scrolled while the shell has their place.
State ==
  [world : Worlds, filter : SUBSET NoFilter, filtering : BOOLEAN, showInactive : BOOLEAN,
   focus : Panels, sel : [Lists -> Int], off : [Lists -> Int], height : Heights,
   compact : BOOLEAN, shell : BOOLEAN]

Clampable(s) == s \in State /\ (s.shell => s.off.health \in Nat)

Visible(s, list) == ~(list = "health" /\ s.shell)

\* What clamp leaves behind: a panel of the layout has the focus, each selection is a row,
\* no list is scrolled further than it is long, and the list in focus shows its selection.
\* Of tied batches b was selected when the task was chosen, and c is one that the scroll fits.
Settled(s, b) == \A list \in Lists : s.sel[list] = InRange(s, list, b)

Scrollable(s, list, c) == 0 .. AtLeast(0, LinesOf(s, list, c) - Viewport(s, list))

InView(s, c) == \A list \in Lists : Visible(s, list) => s.off[list] \in Scrollable(s, list, c)

Clamps(s, b, c) == Clampable(s) /\ s.focus = FocusOf(s) /\ Settled(s, b) /\ InView(s, c)

\* Tasks that took the focus when the shell gave it up are not scrolled yet.
Unsettled(s, list) == list = "tasks" /\ Tied(s)

IInv ==
  /\ \E b, c \in Batches(m) : Clamps(m, b, c)
  /\ handed \in BOOLEAN
  /\ \A list \in Lists, c \in Batches(m) :
       (list = "tasks" /\ handed) \/ Unsettled(m, list) \/ m.off[list] = Scrolled(m, list, c)

-----------------------------------------------------------------------------
\* Sorting keeps the number of rows.
LEMMA SortedLen ==
  ASSUME NEW rows, IsFiniteSet(rows)
  PROVE  /\ Len(Sorted(rows)) = Cardinality(rows) /\ Len(Sorted(rows)) \in Nat
         /\ \E R : Sorted(rows) \in Seq(R)
<1> DEFINE n == Cardinality(rows)
           s == Sorted(rows)
           R == {s[i] : i \in 1 .. n}
<1>1. n \in Nat
  BY FS_CardinalityType
<1>2. s = [i \in 1 .. n |-> s[i]]
  BY DEF Sorted
<1> HIDE DEF n, s
<1>3. s \in [1 .. n -> R]
  BY <1>2
<1> HIDE DEF R
<1>4. s \in Seq(R) /\ Len(s) = n
  BY <1>1, <1>3
<1> QED
  BY <1>1, <1>4 DEF n, s

\* However tied batches are ordered, they are as many.
LEMMA BatchesAre ==
  ASSUME NEW s \in State, NEW b \in Batches(s)
  PROVE  b \in Seq(s.world.batches) /\ \A c \in Batches(s) : Len(c) = Len(b)
<1> DEFINE B == {a \in s.world.batches : Shown(s, a) /\ BatchMatches(s, a)}
           n == Cardinality(B)
<1>1. s.world \in Worlds
  BY DEF State
<1>2. IsFiniteSet(s.world.batches)
  BY <1>1, DashboardAssumption DEF DashboardAssumption
<1>3. n \in Nat
  BY <1>2, FS_Subset, FS_CardinalityType
<1>4. \A c \in Batches(s) : c \in [1 .. n -> B]
  BY DEF Batches, Sortings, SetToSeqs
<1>5. B \subseteq s.world.batches
  OBVIOUS
<1> HIDE DEF B, n
<1>6. \A c \in Batches(s) : c \in Seq(B) /\ Len(c) = n
  BY <1>3, <1>4
<1>7. b \in Seq(s.world.batches)
  BY <1>5, <1>6
<1> QED
  BY <1>6, <1>7

\* Every list has some number of rows.
LEMMA RowsLen ==
  ASSUME NEW s \in State, NEW list \in Lists, NEW b \in Batches(s)
  PROVE  /\ Len(Rows(s, list, b)) \in Nat
         /\ Rows(s, list, b) # << >> => Len(Rows(s, list, b)) > 0
         /\ Rows(s, list, b) = << >> => Len(Rows(s, list, b)) = 0
         /\ list = "runs" => Len(Rows(s, list, b)) = Len(Sessions(s)) + Len(b)
         /\ Len(Sessions(s)) \in Nat
<1>1. s.world \in Worlds
  BY DEF State
<1>2. /\ IsFiniteSet(s.world.sessions) /\ IsFiniteSet(s.world.batches)
      /\ IsFiniteSet(s.world.tasks) /\ IsFiniteSet(s.world.warnings)
  BY <1>1, DashboardAssumption DEF DashboardAssumption
<1>3. \E R : Sessions(s) \in Seq(R)
  <2>1. IsFiniteSet({r \in s.world.sessions : Shown(s, r) /\ r.id \in s.filter})
    BY <1>2, FS_Subset
  <2> QED
    BY <2>1, SortedLen DEF Sessions
<1>4. CASE list = "runs"
  <2>1. PICK R : Sessions(s) \in Seq(R)
    BY <1>3
  <2>2. PICK Q : b \in Seq(Q)
    BY BatchesAre
  <2>3. Sessions(s) \in Seq(R \cup Q) /\ b \in Seq(R \cup Q)
    BY <2>1, <2>2
  <2>4. /\ Sessions(s) \o b \in Seq(R \cup Q)
        /\ Len(Sessions(s) \o b) = Len(Sessions(s)) + Len(b)
    BY <2>3
  <2>5. Rows(s, list, b) = Sessions(s) \o b
    BY <1>4 DEF Rows, RunRows
  <2> QED
    BY <2>1, <2>4, <2>5, EmptySeq
<1>5. CASE list # "runs"
  <2> SUFFICES \E R : Rows(s, list, b) \in Seq(R)
    <3> SUFFICES ASSUME NEW R, Rows(s, list, b) \in Seq(R)
                 PROVE  /\ Len(Rows(s, list, b)) \in Nat
                        /\ Rows(s, list, b) # << >> => Len(Rows(s, list, b)) > 0
                        /\ Rows(s, list, b) = << >> => Len(Rows(s, list, b)) = 0
                        /\ Len(Sessions(s)) \in Nat
      BY <1>5
    <3>1. Len(Sessions(s)) \in Nat
      BY <1>3
    <3> QED
      BY <3>1, EmptySeq
  <2>1. CASE list = "tasks" /\ ~OnBatch(s, b)
    <3>1. Rows(s, list, b) = << >> /\ << >> \in Seq({})
      BY <2>1 DEF Rows, TaskRows
    <3> QED
      BY <3>1
  <2>2. CASE list = "tasks" /\ OnBatch(s, b)
    <3> DEFINE i == SelectedRun(s, b).id
               T == {t \in s.world.tasks : t.batch = i /\ (i \in s.filter \/ t.id \in s.filter)}
    <3>1. IsFiniteSet(T)
      BY <1>2, FS_Subset
    <3>2. Rows(s, list, b) = Sorted(T)
      BY <2>2 DEF Rows, TaskRows
    <3> HIDE DEF T
    <3> QED
      BY <3>1, <3>2, SortedLen
  <2>3. CASE list = "health"
    <3>1. IsFiniteSet({r \in s.world.warnings : r.id \in s.filter})
      BY <1>2, FS_Subset
    <3> QED
      BY <2>3, <3>1, SortedLen DEF Rows, WarningRows
  <2> QED
    BY <1>5, <2>1, <2>2, <2>3 DEF Lists
<1> QED
  BY <1>4, <1>5

\* The rows of a list follow from the snapshot, the filter, the switch for inactive rows
\* and the run selected; from no scroll, no focus and no other selection.
LEMMA SameRuns ==
  ASSUME NEW s, NEW t,
         t.world = s.world, t.filter = s.filter, t.showInactive = s.showInactive
  PROVE  /\ Batches(t) = Batches(s) /\ Sessions(t) = Sessions(s)
         /\ WarningRows(t) = WarningRows(s)
         /\ \A b : RunRows(t, b) = RunRows(s, b)
<1>1. {r \in t.world.sessions : Shown(t, r) /\ r.id \in t.filter}
        = {r \in s.world.sessions : Shown(s, r) /\ r.id \in s.filter}
  BY DEF Shown
<1>2. {b \in t.world.batches : Shown(t, b) /\ BatchMatches(t, b)}
        = {b \in s.world.batches : Shown(s, b) /\ BatchMatches(s, b)}
  BY DEF Shown, BatchMatches
<1>3. {r \in t.world.warnings : r.id \in t.filter} = {r \in s.world.warnings : r.id \in s.filter}
  OBVIOUS
<1> QED
  BY <1>1, <1>2, <1>3 DEF RunRows, Sessions, Batches, WarningRows

LEMMA SameRows ==
  ASSUME NEW s, NEW t, NEW list \in Lists, NEW b,
         t.world = s.world, t.filter = s.filter, t.showInactive = s.showInactive,
         t.sel["runs"] = s.sel["runs"]
  PROVE  /\ Rows(t, list, b) = Rows(s, list, b) /\ LinesOf(t, list, b) = LinesOf(s, list, b)
         /\ SelectedRun(t, b) = SelectedRun(s, b)
<1>1. RunRows(t, b) = RunRows(s, b) /\ WarningRows(t) = WarningRows(s)
  BY SameRuns
<1>2. SelectedRun(t, b) = SelectedRun(s, b)
  BY <1>1 DEF SelectedRun
<1>3. OnBatch(t, b) <=> OnBatch(s, b)
  BY <1>1, <1>2 DEF OnBatch
<1>4. TaskRows(t, b) = TaskRows(s, b)
  <2> DEFINE T(u) == {q \in u.world.tasks : q.batch = SelectedRun(u, b).id
                        /\ (SelectedRun(u, b).id \in u.filter \/ q.id \in u.filter)}
  <2>1. T(t) = T(s)
    BY <1>2
  <2>2. /\ TaskRows(t, b) = IF ~OnBatch(t, b) THEN << >> ELSE Sorted(T(t))
        /\ TaskRows(s, b) = IF ~OnBatch(s, b) THEN << >> ELSE Sorted(T(s))
    BY DEF TaskRows
  <2> HIDE DEF T
  <2> QED
    BY <1>3, <2>1, <2>2
<1>5. Rows(t, list, b) = Rows(s, list, b)
  BY <1>1, <1>4 DEF Rows, Lists
<1> QED
  BY <1>1, <1>2, <1>3, <1>5 DEF LinesOf

\* Nor does a list change with the order of tied batches, but for the tasks of these.
LEMMA OtherRows ==
  ASSUME NEW s \in State, NEW list \in Lists, NEW b \in Batches(s), NEW c \in Batches(s),
         ~Unsettled(s, list)
  PROVE  /\ Len(Rows(s, list, b)) = Len(Rows(s, list, c))
         /\ Rows(s, list, b) = << >> <=> Rows(s, list, c) = << >>
         /\ LinesOf(s, list, b) = LinesOf(s, list, c)
         /\ InRange(s, list, b) = InRange(s, list, c)
         /\ Scrolled(s, list, b) = Scrolled(s, list, c)
<1>1. "runs" \in Lists
  BY DEF Lists
<1>2. /\ Len(RunRows(s, b)) = Len(RunRows(s, c))
      /\ RunRows(s, b) = << >> <=> RunRows(s, c) = << >>
  <2>1. Rows(s, "runs", b) = RunRows(s, b) /\ Rows(s, "runs", c) = RunRows(s, c)
    BY DEF Rows
  <2> QED
    BY <1>1, <2>1, RowsLen, BatchesAre
<1>3. list = "tasks" => SelectedRun(s, b) = SelectedRun(s, c)
  BY DEF Unsettled, Tied
<1>4. list = "tasks" => (OnBatch(s, b) <=> OnBatch(s, c))
  BY <1>2, <1>3 DEF OnBatch
<1>5. list = "tasks" => TaskRows(s, b) = TaskRows(s, c)
  BY <1>3, <1>4 DEF TaskRows
<1>6. /\ Len(Rows(s, list, b)) = Len(Rows(s, list, c))
      /\ Rows(s, list, b) = << >> <=> Rows(s, list, c) = << >>
  BY <1>2, <1>5 DEF Rows, Lists
<1>7. LinesOf(s, list, b) = LinesOf(s, list, c)
  BY <1>2, <1>4, <1>6 DEF LinesOf
<1> QED
  BY <1>6, <1>7 DEF InRange, Scrolled

\* Panels have at least one line.
LEMMA ViewportIs ==
  ASSUME NEW s \in State, NEW panel \in Panels
  PROVE  Viewport(s, panel) \in Nat /\ Viewport(s, panel) >= 1
<1>1. s.height \in Int
  <2>1. s.height \in Heights /\ Heights \subseteq Nat
    BY DashboardAssumption DEF DashboardAssumption, State
  <2>2. s.height \in Nat
    BY <2>1, Zenon
  <2> QED
    BY <2>2
<1>2. PICK b : b = BodyHeight(s)
  OBVIOUS
<1>3. b \in Nat /\ b >= 16
  BY <1>1, <1>2 DEF BodyHeight, AtLeast
<1>4. b \div 5 \in Int /\ b \div 4 \in Int /\ b \div 2 \in Int
  BY <1>3
<1>5. /\ Clamp(b \div 5, 4, 7) \in Int /\ Clamp(b \div 4, 4, 8) \in Int
      /\ Clamp(b \div 2, 8, AtLeast(8, b - 6)) \in Int
  BY <1>3, <1>4 DEF Clamp, AtLeast
<1>6. /\ \A p \in {"runs", "tasks", "details", "right"} : Compact(b)[p] \in Int
      /\ \A p \in {"runs", "tasks", "details", "right"} : Wide(b)[p] \in Int
  BY <1>3, <1>5 DEF Compact, Wide
<1>7. CASE panel \in {"runs", "tasks", "details", Right(s)}
  <2>1. PanelHeight(s, panel) \in Int
    BY <1>2, <1>6, <1>7 DEF PanelHeight, Right
  <2> QED
    BY <1>7, <2>1 DEF Viewport, AtLeast
<1>8. CASE panel \notin {"runs", "tasks", "details", Right(s)}
  BY <1>8 DEF Viewport
<1> QED
  BY <1>7, <1>8

\* A selection in range is a line of its list, which starts with the static one.
LEMMA InRangeIs ==
  ASSUME NEW s \in State, NEW list \in Lists, NEW b \in Batches(s)
  PROVE  /\ InRange(s, list, b) \in 0 .. AtLeast(0, Len(Rows(s, list, b)) - 1)
         /\ InRange(s, list, b) \in Nat
         /\ LinesOf(s, list, b) \in Nat /\ InRange(s, list, b) + Static <= LinesOf(s, list, b) - 1
         /\ s.sel[list] \in 0 .. AtLeast(0, Len(Rows(s, list, b)) - 1) => InRange(s, list, b) = s.sel[list]
<1>1. s.sel[list] \in Int
  BY DEF State
<1>2. PICK n \in Nat : n = Len(Rows(s, list, b)) /\ (Rows(s, list, b) # << >> => n > 0)
                       /\ (Rows(s, list, b) = << >> => n = 0)
  BY RowsLen
<1>3. InRange(s, list, b) = Clamp(s.sel[list], 0, AtLeast(0, n - 1))
  BY <1>2 DEF InRange
<1>4. InRange(s, list, b) \in 0 .. AtLeast(0, n - 1) /\ InRange(s, list, b) \in Nat
  BY <1>1, <1>3 DEF Clamp, AtLeast
<1>5. s.sel[list] \in 0 .. AtLeast(0, n - 1) => InRange(s, list, b) = s.sel[list]
  BY <1>1, <1>3 DEF Clamp, AtLeast
<1>6. LinesOf(s, list, b) \in Nat /\ (n = 0 => LinesOf(s, list, b) >= 2)
      /\ (n > 0 => LinesOf(s, list, b) >= n + 1)
  <2>1. SessionLines \in Nat /\ SessionLines >= 4
    BY DashboardAssumption DEF DashboardAssumption
  <2>2. CASE list = "tasks" /\ ~OnBatch(s, b)
    <3>1. n = 0
      BY <1>2, <2>2 DEF Rows, TaskRows
    <3> QED
      BY <2>1, <2>2, <3>1 DEF LinesOf
  <2>3. CASE ~(list = "tasks" /\ ~OnBatch(s, b)) /\ Rows(s, list, b) # << >>
    <3>1. LinesOf(s, list, b) = 1 + n
      BY <1>2, <2>3 DEF LinesOf, Static
    <3> QED
      BY <1>2, <2>3, <3>1
  <2>4. CASE ~(list = "tasks" /\ ~OnBatch(s, b)) /\ Rows(s, list, b) = << >>
    <3>1. n = 0
      BY <1>2, <2>4
    <3> QED
      BY <2>4, <3>1 DEF LinesOf
  <2> QED
    BY <2>2, <2>3, <2>4
<1>7. InRange(s, list, b) + Static <= LinesOf(s, list, b) - 1
  BY <1>4, <1>6 DEF Static, AtLeast
<1> QED
  BY <1>2, <1>4, <1>5, <1>6, <1>7

\* clampScrolls of one list: the new scroll is in view, of the rows among which the selection
\* was chosen or of those it was scrolled by; where these agree it is where it would go again.
LEMMA ScrolledIs ==
  ASSUME NEW s \in State, NEW list \in Lists, NEW b \in Batches(s), NEW c \in Batches(s),
         Visible(s, list), s.sel[list] = InRange(s, list, b)
  PROVE  /\ Scrolled(s, list, c) \in Scrollable(s, list, b) \cup Scrollable(s, list, c)
         /\ LinesOf(s, list, b) = LinesOf(s, list, c) =>
              \A t \in State :
                /\ t.off[list] = Scrolled(s, list, c) /\ t.sel[list] = s.sel[list]
                /\ t.focus = s.focus /\ t.shell = s.shell
                /\ Viewport(t, list) = Viewport(s, list) /\ LinesOf(t, list, c) = LinesOf(s, list, c)
                => Scrolled(t, list, c) = t.off[list]
<1>1. PICK v \in Nat : v = Viewport(s, list) /\ v >= 1
  BY ViewportIs DEF Lists, Panels
<1>2. PICK kb \in Nat : kb = LinesOf(s, list, b) /\ s.sel[list] \in Nat /\ s.sel[list] + Static <= kb - 1
  BY InRangeIs
<1>3. PICK k \in Nat : k = LinesOf(s, list, c)
  BY InRangeIs
<1>4. PICK a \in Nat : a = AtLeast(0, k - v)
  BY <1>1, <1>3 DEF AtLeast
<1>5. PICK p \in 0 .. a : p = Clamp(s.off[list], 0, a)
  <2>1. s.off[list] \in Int
    BY DEF State
  <2> QED
    BY <1>4, <2>1 DEF Clamp
<1>6. PICK line \in Nat : line = s.sel[list] + Static /\ line <= kb - 1
  BY <1>2 DEF Static
<1>7. Scrolled(s, list, c) = IF s.focus = list THEN EnsureVisible(p, line, v) ELSE p
  BY <1>1, <1>3, <1>4, <1>5, <1>6 DEF Scrolled, Visible
<1>8. PICK ab \in Nat : ab = AtLeast(0, kb - v)
  BY <1>1, <1>2 DEF AtLeast
<1>9. PICK e \in Nat : e = EnsureVisible(p, line, v) /\ (e <= a \/ e <= ab)
  BY <1>1, <1>2, <1>4, <1>5, <1>6, <1>8 DEF EnsureVisible, AtLeast
<1>10. EnsureVisible(e, line, v) = e
  BY <1>1, <1>5, <1>6, <1>9 DEF EnsureVisible
<1>11. \A q \in 0 .. a : Clamp(q, 0, a) = q
  BY <1>4 DEF Clamp
<1>12. Scrolled(s, list, c) \in Scrollable(s, list, b) \cup Scrollable(s, list, c)
  <2>1. Scrollable(s, list, b) = 0 .. ab /\ Scrollable(s, list, c) = 0 .. a
    BY <1>1, <1>2, <1>3, <1>4, <1>8 DEF Scrollable
  <2> QED
    BY <1>7, <1>9, <2>1
<1>13. ASSUME NEW t \in State, t.off[list] = Scrolled(s, list, c), t.sel[list] = s.sel[list],
              t.focus = s.focus, t.shell = s.shell, kb = k,
              Viewport(t, list) = v, LinesOf(t, list, c) = k
       PROVE  Scrolled(t, list, c) = t.off[list]
  <2>1. Scrolled(t, list, c) =
          LET offset == Clamp(t.off[list], 0, AtLeast(0, k - v))
          IN IF t.focus = list THEN EnsureVisible(offset, line, v) ELSE offset
    BY <1>6, <1>13 DEF Scrolled, Visible
  <2>2. ab = a
    BY <1>4, <1>8, <1>13
  <2>3. t.off[list] \in 0 .. a /\ Clamp(t.off[list], 0, AtLeast(0, k - v)) = t.off[list]
    BY <1>4, <1>5, <1>7, <1>9, <1>11, <1>13, <2>2
  <2> QED
    BY <1>7, <1>9, <1>10, <1>13, <2>1, <2>3
<1> QED
  BY <1>1, <1>2, <1>3, <1>12, <1>13

\* clamp: whatever it is given, and in whatever order it is given tied batches, it leaves
\* selections and scrolls in their ranges, and where it would leave them again; it changes
\* nothing else but the focus.
ClampedTo(s, b, c, z) ==
  /\ Batches(z) = Batches(s)
  /\ \E d \in Batches(z) : Clamps(z, b, d)
  /\ \A list \in Lists, d \in Batches(z) :
       Unsettled(z, list) \/ z.off[list] = Scrolled(z, list, d)
  /\ z.world = s.world /\ z.filter = s.filter /\ z.filtering = s.filtering
  /\ z.showInactive = s.showInactive /\ z.shell = s.shell
  /\ z.focus = FocusOf(s) /\ z.height = s.height /\ z.compact = s.compact
  /\ \A list \in Lists :
       /\ z.sel[list] = Clamp(s.sel[list], 0, AtLeast(0, Len(Rows(z, list, b)) - 1))
       /\ z.off[list] = Scrolled([z EXCEPT !.off = s.off], list, c)

LEMMA ClampedSettles ==
  ASSUME NEW s, Clampable(s), NEW b \in Batches(s), NEW c \in Batches(s)
  PROVE  ClampedTo(s, b, c, Clamped(s, b, c))
<1> PICK z : z = Clamped(s, b, c)
  OBVIOUS
<1> SUFFICES ClampedTo(s, b, c, z)
  OBVIOUS
<1>0. s \in State /\ FocusOf(s) \in Panels
  <2>1. s \in State
    BY DEF Clampable
  <2>2. s.focus \in Panels
    BY <2>1 DEF State
  <2> QED
    BY <2>1, <2>2 DEF FocusOf, Right, Panels, Lists
<1>1. PICK f : f = [s EXCEPT !.focus = FocusOf(s)]
  OBVIOUS
<1>2. /\ f \in State /\ f.focus = FocusOf(s) /\ f.sel = s.sel /\ f.off = s.off
      /\ f.world = s.world /\ f.filter = s.filter /\ f.filtering = s.filtering
      /\ f.showInactive = s.showInactive /\ f.shell = s.shell /\ f.height = s.height
      /\ f.compact = s.compact
  BY <1>0, <1>1 DEF State
<1>3. PICK r : r = [f EXCEPT !.sel.runs = InRange(f, "runs", b)]
  OBVIOUS
<1>4. "runs" \in Lists /\ "tasks" \in Lists /\ "health" \in Lists
  BY DEF Lists
<1>4a. Batches(f) = Batches(s)
  BY <1>2, SameRuns
<1>5. InRange(f, "runs", b) \in Int
  BY <1>2, <1>4, <1>4a, InRangeIs
<1>6. /\ r \in State /\ r.focus = f.focus /\ r.off = f.off
      /\ r.world = s.world /\ r.filter = s.filter /\ r.filtering = s.filtering
      /\ r.showInactive = s.showInactive /\ r.shell = s.shell /\ r.height = s.height
      /\ r.compact = s.compact
      /\ r.sel["runs"] = InRange(f, "runs", b)
  BY <1>2, <1>3, <1>4, <1>5 DEF State
<1>6a. Batches(r) = Batches(s)
  BY <1>6, SameRuns
<1>7. PICK k : k = [r EXCEPT !.sel.tasks = InRange(r, "tasks", b),
                             !.sel.health = InRange(r, "health", b)]
  OBVIOUS
<1>8. InRange(r, "tasks", b) \in Int /\ InRange(r, "health", b) \in Int
  BY <1>4, <1>6, <1>6a, InRangeIs
<1>9. /\ k \in State /\ k.focus = f.focus /\ k.off = s.off
      /\ k.world = s.world /\ k.filter = s.filter /\ k.filtering = s.filtering
      /\ k.showInactive = s.showInactive /\ k.shell = s.shell /\ k.height = s.height
      /\ k.compact = s.compact
      /\ k.sel["runs"] = r.sel["runs"]
      /\ k.sel["tasks"] = InRange(r, "tasks", b) /\ k.sel["health"] = InRange(r, "health", b)
  BY <1>2, <1>4, <1>6, <1>7, <1>8 DEF State
<1>9a. Batches(k) = Batches(s)
  BY <1>9, SameRuns
<1>10. z = [k EXCEPT !.off = [list \in Lists |-> Scrolled(k, list, c)]]
  BY <1>1, <1>3, <1>7 DEF Clamped
\* The selections.
<1>12. RunRows(f, b) = RunRows(s, b) /\ RunRows(r, b) = RunRows(s, b) /\ RunRows(k, b) = RunRows(s, b)
  BY <1>2, <1>6, <1>9, SameRuns
<1>13. ASSUME NEW list \in Lists PROVE k.sel[list] = InRange(k, list, b)
  <2>1. CASE list = "runs"
    <3>1. k.sel["runs"] = InRange(f, "runs", b)
      BY <1>6, <1>9
    <3>2. k.sel["runs"] \in 0 .. AtLeast(0, Len(Rows(f, "runs", b)) - 1)
      BY <1>2, <1>4, <1>4a, <3>1, InRangeIs
    <3>3. Rows(k, "runs", b) = Rows(f, "runs", b)
      BY <1>12 DEF Rows
    <3> QED
      BY <1>9, <1>4, <1>9a, <2>1, <3>2, <3>3, InRangeIs
  <2>2. CASE list # "runs"
    <3>1. k.sel[list] = InRange(r, list, b)
      BY <1>9, <2>2 DEF Lists
    <3>2. Rows(k, list, b) = Rows(r, list, b)
      BY <1>6, <1>9, SameRows
    <3>3. k.sel[list] \in 0 .. AtLeast(0, Len(Rows(k, list, b)) - 1)
      BY <1>6, <1>6a, <3>1, <3>2, InRangeIs
    <3> QED
      BY <1>9, <1>9a, <3>3, InRangeIs
  <2> QED
    BY <2>1, <2>2
\* The scrolls.
<1>14. ASSUME NEW list \in Lists
       PROVE  /\ Scrolled(k, list, c) \in Int
              /\ Visible(k, list) =>
                   Scrolled(k, list, c) \in Scrollable(k, list, b) \cup Scrollable(k, list, c)
              /\ ~Visible(k, list) => Scrolled(k, list, c) \in Nat /\ Scrolled(k, list, c) = k.off[list]
  <2>1. CASE Visible(k, list)
    <3>1. Scrolled(k, list, c) \in Scrollable(k, list, b) \cup Scrollable(k, list, c)
      BY <1>9, <1>9a, <1>13, <2>1, ScrolledIs
    <3>2. Scrollable(k, list, b) \subseteq Int /\ Scrollable(k, list, c) \subseteq Int
      BY DEF Scrollable
    <3> QED
      BY <2>1, <3>1, <3>2
  <2>2. CASE ~Visible(k, list)
    <3>1. list = "health" /\ k.shell /\ Scrolled(k, list, c) = k.off.health
      BY <2>2 DEF Visible, Scrolled
    <3>2. k.off.health \in Nat
      BY <1>9, <3>1 DEF Clampable
    <3> QED
      BY <2>2, <3>1, <3>2
  <2> QED
    BY <2>1, <2>2
<1>15. /\ z \in State /\ z.focus = FocusOf(s) /\ z.sel = k.sel
       /\ z.world = s.world /\ z.filter = s.filter /\ z.filtering = s.filtering
       /\ z.showInactive = s.showInactive /\ z.shell = s.shell /\ z.height = s.height
       /\ z.compact = s.compact
       /\ \A list \in Lists : z.off[list] = Scrolled(k, list, c)
  <2>1. [list \in Lists |-> Scrolled(k, list, c)] \in [Lists -> Int]
    BY <1>14
  <2> QED
    BY <1>2, <1>9, <1>10, <2>1 DEF State
<1>15a. Batches(z) = Batches(s)
  BY <1>15, SameRuns
<1>16. ASSUME NEW list \in Lists
       PROVE  /\ Viewport(z, list) = Viewport(k, list) /\ (Visible(z, list) <=> Visible(k, list))
              /\ \A d \in Batches(s) :
                   /\ Rows(z, list, d) = Rows(k, list, d) /\ LinesOf(z, list, d) = LinesOf(k, list, d)
                   /\ SelectedRun(z, d) = SelectedRun(k, d)
                   /\ InRange(z, list, d) = InRange(k, list, d)
                   /\ Scrollable(z, list, d) = Scrollable(k, list, d)
  <2>1. Viewport(z, list) = Viewport(k, list)
    BY <1>9, <1>15 DEF Viewport, PanelHeight, BodyHeight, Right
  <2>2. ASSUME NEW d \in Batches(s)
        PROVE  /\ Rows(z, list, d) = Rows(k, list, d) /\ LinesOf(z, list, d) = LinesOf(k, list, d)
               /\ SelectedRun(z, d) = SelectedRun(k, d)
    BY <1>9, <1>15, SameRows
  <2> QED
    BY <1>9, <1>15, <2>1, <2>2 DEF Visible, InRange, Scrollable
<1>17. Settled(z, b)
  BY <1>13, <1>15, <1>16 DEF Settled
<1>18. z.focus = FocusOf(z)
  BY <1>15 DEF FocusOf, Right
<1>19. z.shell => z.off.health \in Nat
  BY <1>4, <1>9, <1>14, <1>15 DEF Visible
<1>20. ASSUME NEW list \in Lists, ~Unsettled(z, list), NEW d \in Batches(s)
       PROVE  z.off[list] = Scrolled(z, list, d)
  <2>0. LinesOf(z, list, b) = LinesOf(z, list, c) /\ Scrolled(z, list, d) = Scrolled(z, list, c)
    BY <1>15, <1>15a, <1>20, OtherRows
  <2>1. CASE Visible(k, list)
    <3>1. z.sel[list] = k.sel[list] /\ z.focus = k.focus /\ z.shell = k.shell
          /\ z.off[list] = Scrolled(k, list, c)
      BY <1>2, <1>9, <1>15
    <3> QED
      BY <1>9, <1>9a, <1>13, <1>15, <1>16, <2>0, <2>1, <3>1, ScrolledIs
  <2>2. CASE ~Visible(k, list)
    BY <1>15, <1>16, <2>0, <2>2 DEF Visible, Scrolled
  <2> QED
    BY <2>1, <2>2
<1>20a. PICK d \in {b, c} : Visible(k, "tasks") => z.off["tasks"] \in Scrollable(z, "tasks", d)
  BY <1>4, <1>14, <1>15, <1>16
<1>20b. InView(z, d)
  <2> SUFFICES ASSUME NEW list \in Lists, Visible(z, list)
               PROVE  z.off[list] \in Scrollable(z, list, d)
    BY DEF InView
  <2>1. CASE list = "tasks"
    BY <1>16, <1>20a, <2>1
  <2>2. CASE list # "tasks"
    <3>1. LinesOf(z, list, b) = LinesOf(z, list, c)
      BY <1>15, <1>15a, <2>2, OtherRows DEF Unsettled
    <3>2. Scrollable(z, list, b) = Scrollable(z, list, c)
      BY <3>1 DEF Scrollable
    <3> QED
      BY <1>14, <1>15, <1>16, <3>2
  <2> QED
    BY <2>1, <2>2
\* Where they come from.
<1>21. ASSUME NEW list \in Lists
       PROVE  z.sel[list] = Clamp(s.sel[list], 0, AtLeast(0, Len(Rows(z, list, b)) - 1))
  <2>1. CASE list = "runs"
    <3>1. z.sel[list] = InRange(f, "runs", b) /\ f.sel[list] = s.sel[list]
      BY <1>2, <1>6, <1>9, <1>15, <2>1
    <3>2. Rows(z, list, b) = Rows(f, list, b)
      BY <1>12, <1>16, <2>1 DEF Rows
    <3> QED
      BY <2>1, <3>1, <3>2 DEF InRange
  <2>2. CASE list # "runs"
    <3>1. z.sel[list] = InRange(r, list, b) /\ r.sel[list] = s.sel[list]
      BY <1>2, <1>3, <1>9, <1>15, <2>2 DEF Lists, State
    <3>2. Rows(z, list, b) = Rows(r, list, b)
      BY <1>6, <1>9, <1>16, SameRows
    <3> QED
      BY <3>1, <3>2 DEF InRange
  <2> QED
    BY <2>1, <2>2
<1>22. [z EXCEPT !.off = s.off] = k
  BY <1>9, <1>10 DEF State
<1>23. Clampable(z)
  BY <1>15, <1>19 DEF Clampable
<1>24. Clamps(z, b, d)
  BY <1>17, <1>18, <1>23, <1>20b DEF Clamps
<1> QED
  BY <1>10, <1>15, <1>20, <1>21, <1>22, <1>24, <1>15a DEF ClampedTo

-----------------------------------------------------------------------------
\* What Update does before it clamps leaves a Model that clamp can be given.
LEMMA Selected ==
  ASSUME NEW s, Clampable(s), NEW list \in Lists, NEW n \in Int,
         NEW t, t = [s EXCEPT !.sel[list] = n]
  PROVE  Clampable(t)
BY DEF Clampable, State

LEMMA Changed ==
  ASSUME NEW s, Clampable(s)
  PROVE  /\ \A p \in Panels : Clampable([s EXCEPT !.focus = p])
         /\ \A n \in Int : Clampable(SelectRun(s, n))
         /\ \A b \in BOOLEAN : Clampable([s EXCEPT !.filtering = b])
         /\ Clampable(ToggleInactive(s))
         /\ Clampable([s EXCEPT !.shell = TRUE, !.focus = "shell"]) \/ s.off.health \notin Nat
<1>1. s \in State /\ (s.shell => s.off.health \in Nat)
  BY DEF Clampable
<1>2. ASSUME NEW p \in Panels PROVE Clampable([s EXCEPT !.focus = p])
  BY <1>1 DEF Clampable, State
<1>3. ASSUME NEW n \in Int PROVE Clampable(SelectRun(s, n))
  <2>1. PICK r : r = [s EXCEPT !.sel["runs"] = n]
    OBVIOUS
  <2>2. r \in State /\ (r.shell => r.off.health \in Nat)
    BY <2>1, Selected DEF Clampable, Lists
  <2>3. SelectRun(s, n) = [r EXCEPT !.sel["tasks"] = 0]
    BY <1>1, <2>1 DEF SelectRun, State, Lists
  <2> QED
    BY <2>2, <2>3 DEF Clampable, State
<1>4. ASSUME NEW b \in BOOLEAN PROVE Clampable([s EXCEPT !.filtering = b])
  BY <1>1 DEF Clampable, State
<1>5. Clampable(ToggleInactive(s))
  <2>1. PICK r : r = SelectRun(s, 0)
    OBVIOUS
  <2>2. r \in State /\ (r.shell => r.off.health \in Nat)
    BY <1>3, <2>1 DEF Clampable
  <2>3. ToggleInactive(s) = [r EXCEPT !.showInactive = ~r.showInactive]
    BY <2>1 DEF ToggleInactive
  <2> QED
    BY <2>2, <2>3 DEF Clampable, State
<1>6. s.off.health \in Nat => Clampable([s EXCEPT !.shell = TRUE, !.focus = "shell"])
  BY <1>1 DEF Clampable, State, Panels, Lists
<1> QED
  BY <1>2, <1>3, <1>4, <1>5, <1>6

\* What the invariant says of the types.
LEMMA InvFacts ==
  ASSUME IInv
  PROVE  /\ m \in State /\ Clampable(m)
         /\ \A list \in Lists : m.off[list] \in Nat /\ m.sel[list] \in Nat
         /\ m.focus = FocusOf(m) /\ m.focus \in OnScreen(m) /\ OnScreen(m) \subseteq Panels
         /\ m.off.health \in Nat /\ m.sel["runs"] \in Nat
<1>0. PICK b \in Batches(m), c \in Batches(m) : Clamps(m, b, c)
  BY DEF IInv
<1>1. m \in State /\ Clampable(m) /\ m.focus = FocusOf(m)
  BY <1>0 DEF Clamps, Clampable
<1>2. ASSUME NEW list \in Lists PROVE m.off[list] \in Nat
  <2>1. CASE Visible(m, list)
    BY <1>0, <2>1 DEF Clamps, InView, Scrollable
  <2>2. CASE ~Visible(m, list)
    BY <1>1, <2>2 DEF Visible, Clampable
  <2> QED
    BY <2>1, <2>2
<1>3. ASSUME NEW list \in Lists PROVE m.sel[list] \in Nat
  BY <1>0, <1>1, InRangeIs DEF Clamps, Settled
<1>4. m.focus \in OnScreen(m) /\ OnScreen(m) \subseteq Panels
  <2>1. m.focus \in Panels
    BY <1>1 DEF State
  <2> QED
    BY <1>1, <2>1 DEF FocusOf, OnScreen, Right, Panels, Lists
<1>5. m.off.health \in Nat
  BY <1>2 DEF Lists
<1> QED
  BY <1>1, <1>2, <1>3, <1>4, <1>5 DEF Lists

LEMMA ClampedInv ==
  ASSUME NEW s, Clampable(s), Becomes(s)
  PROVE  IInv'
<1>1. PICK b \in Batches(s), c \in Batches(s) : m' = Clamped(s, b, c)
  BY DEF Becomes, Clampings
<1>2. PICK z : z = Clamped(s, b, c)
  OBVIOUS
<1>3. ClampedTo(s, b, c, z)
  BY <1>2, ClampedSettles
<1>4. m' = z /\ handed' = FALSE
  BY <1>1, <1>2 DEF Becomes
<1> QED
  BY <1>3, <1>4 DEF IInv, ClampedTo

\* Keys that move a selection.
LEMMA Moved ==
  ASSUME IInv
  PROVE  /\ \A delta \in Int : Clampable(Move(m, delta))
         /\ Clampable(Page(m, 1)) /\ Clampable(Page(m, -1))
         /\ Clampable(Home(m)) /\ \A b \in Batches(m) : Clampable(End(m, b))
<1>0. /\ Clampable(m) /\ m \in State /\ m.sel["runs"] \in Int /\ m.sel["tasks"] \in Int /\ m.sel["health"] \in Int
      /\ 0 \in Int /\ {"tasks", "health", "runs"} = Lists
  BY InvFacts DEF Lists
<1>1. ASSUME NEW delta \in Int PROVE Clampable(Move(m, delta))
  <2>1. CASE FocusOf(m) \in {"tasks", "health"}
    <3>1. m.sel[FocusOf(m)] + delta \in Int
      BY <1>0, <2>1
    <3>2. Move(m, delta) = [m EXCEPT !.sel[FocusOf(m)] = m.sel[FocusOf(m)] + delta]
      BY <2>1 DEF Move
    <3>3. PICK list \in Lists, n \in Int : list = FocusOf(m) /\ n = m.sel[FocusOf(m)] + delta
      BY <1>0, <2>1, <3>1
    <3> QED
      BY <1>0, <3>2, <3>3, Selected
  <2>2. CASE FocusOf(m) = "details"
    BY <1>0, <2>2 DEF Move
  <2>3. CASE FocusOf(m) \notin {"tasks", "health", "details"}
    <3>1. m.sel["runs"] + delta \in Int /\ Move(m, delta) = SelectRun(m, m.sel["runs"] + delta)
      BY <1>0, <2>3 DEF Move
    <3> QED
      BY <1>0, <3>1, Changed
  <2> QED
    BY <2>1, <2>2, <2>3
<1>2. ASSUME NEW d \in {1, -1} PROVE Clampable(Page(m, d))
  <2>1. CASE FocusOf(m) \in Lists
    <3>1. Viewport(m, FocusOf(m)) \in Nat
      BY <1>0, <2>1, ViewportIs DEF Panels
    <3>2. d * AtLeast(1, Viewport(m, FocusOf(m)) - 1) \in Int
      BY <3>1 DEF AtLeast
    <3> QED
      BY <1>1, <2>1, <3>2 DEF Page
  <2>2. CASE FocusOf(m) \notin Lists
    BY <1>0, <2>2 DEF Page
  <2> QED
    BY <2>1, <2>2
<1>3. Clampable(Home(m))
  <2>1. CASE FocusOf(m) \in {"tasks", "health"}
    <3>1. Home(m) = [m EXCEPT !.sel[FocusOf(m)] = 0]
      BY <2>1 DEF Home
    <3>2. PICK list \in Lists : list = FocusOf(m)
      BY <1>0, <2>1
    <3> QED
      BY <1>0, <3>1, <3>2, Selected
  <2>2. CASE FocusOf(m) \notin {"tasks", "health"}
    <3>1. Home(m) = m \/ Home(m) = SelectRun(m, 0)
      BY <2>2 DEF Home
    <3> QED
      BY <1>0, <3>1, Changed
  <2> QED
    BY <2>1, <2>2
<1>4. ASSUME NEW b \in Batches(m) PROVE Clampable(End(m, b))
  <2>1. /\ Len(Rows(m, "runs", b)) \in Nat /\ Len(Rows(m, "tasks", b)) \in Nat
        /\ Len(Rows(m, "health", b)) \in Nat
    BY <1>0, RowsLen
  <2>2. /\ Len(RunRows(m, b)) - 1 \in Int /\ Len(TaskRows(m, b)) - 1 \in Int
        /\ Len(WarningRows(m)) - 1 \in Int
    BY <2>1 DEF Rows
  <2>3. \/ End(m, b) = m
        \/ End(m, b) = SelectRun(m, Len(RunRows(m, b)) - 1)
        \/ End(m, b) = [m EXCEPT !.sel["tasks"] = Len(TaskRows(m, b)) - 1]
        \/ End(m, b) = [m EXCEPT !.sel["health"] = Len(WarningRows(m)) - 1]
    BY DEF End
  <2>4. ASSUME NEW n \in Int PROVE Clampable(SelectRun(m, n))
    BY <1>0, Changed
  <2>5. ASSUME NEW n \in Int, NEW list \in Lists, End(m, b) = [m EXCEPT !.sel[list] = n]
        PROVE  Clampable(End(m, b))
    BY <1>0, <2>5, Selected
  <2> QED
    BY <1>0, <2>2, <2>3, <2>4, <2>5
<1> QED
  BY <1>1, <1>2, <1>3, <1>4

\* A click below the title of a panel.
LEMMA Clicked ==
  ASSUME IInv, NEW panel \in OnScreen(m), NEW line \in Int, NEW b
  PROVE  Clampable(PanelClicked(m, panel, line, b))
<1>1. PICK f : f = [m EXCEPT !.focus = panel]
  OBVIOUS
<1>2. Clampable(f)
  BY <1>1, InvFacts, Changed
<1>3. CASE panel \notin Lists
  BY <1>1, <1>2, <1>3 DEF PanelClicked
<1>4. CASE panel \in Lists
  <2>1. PICK n \in Int : n = m.off[panel] + line - Static
    BY <1>4, InvFacts DEF Static
  <2>2. \/ PanelClicked(m, panel, line, b) = f
        \/ PanelClicked(m, panel, line, b) = SelectRun(f, n)
        \/ PanelClicked(m, panel, line, b) = [f EXCEPT !.sel[panel] = n]
    BY <1>1, <1>4, <2>1 DEF PanelClicked
  <2> QED
    BY <1>2, <1>4, <2>2, Changed, Selected
<1> QED
  BY <1>3, <1>4

LEMMA NeighbourIs ==
  ASSUME IInv, NEW delta \in {1, -1}
  PROVE  Neighbour(m, delta) \in Panels
<1>1. PICK i \in 1 .. 4 : FocusOrder(m)[i] = FocusOf(m)
  <2>1. m.focus = FocusOf(m) /\ m.focus \in {"runs", "tasks", "details", Right(m)}
    BY InvFacts DEF OnScreen
  <2> QED
    BY <2>1 DEF FocusOrder
<1>2. PICK j \in 1 .. 4 : j = ((i + delta + 3) % 4) + 1
  OBVIOUS
<1>3. FocusOrder(m)[j] \in Panels
  BY DEF FocusOrder, Right, Panels, Lists
<1> QED
  BY <1>1, <1>2, <1>3 DEF Neighbour

LEMMA InitInv == Init => IInv
<1> SUFFICES ASSUME Init PROVE IInv
  OBVIOUS
<1>1. PICK wd \in Worlds, ht \in Heights, a0 \in BOOLEAN, a1 \in BOOLEAN :
        m \in Clampings([world |-> wd, filter |-> NoFilter, filtering |-> FALSE,
                         showInactive |-> FALSE, focus |-> "runs",
                         sel |-> [list \in Lists |-> 0], off |-> [list \in Lists |-> 0],
                         height |-> ht, compact |-> a0, shell |-> a1])
  BY DEF Init
<1>2. PICK s : s = [world |-> wd, filter |-> NoFilter, filtering |-> FALSE,
                    showInactive |-> FALSE, focus |-> "runs",
                    sel |-> [list \in Lists |-> 0], off |-> [list \in Lists |-> 0],
                    height |-> ht, compact |-> a0, shell |-> a1]
  OBVIOUS
<1>3. Clampable(s)
  BY <1>2 DEF Clampable, State, Panels, Lists
<1>4. m \in Clampings(s)
  BY <1>1, <1>2
<1>5. PICK b \in Batches(s), c \in Batches(s) : m = Clamped(s, b, c)
  BY <1>4 DEF Clampings
<1>6. ClampedTo(s, b, c, m)
  BY <1>3, <1>5, ClampedSettles
<1>7. handed = FALSE
  BY DEF Init
<1> QED
  BY <1>6, <1>7 DEF IInv, ClampedTo

\* The focus comes to the shell, or back from it, without a clamp: everything else stays as
\* clamp has left it, and only the list that has the focus now would be scrolled.
LEMMA FocusMoved ==
  ASSUME IInv, m.shell, NEW p \in {"shell", "tasks"}, m' = [m EXCEPT !.focus = p],
         handed' = (p = "tasks")
  PROVE  IInv'
<1>0. PICK b \in Batches(m), c \in Batches(m) : Clamps(m, b, c)
  BY DEF IInv
<1>1. PICK z : z = [m EXCEPT !.focus = p]
  OBVIOUS
<1>2. m \in State /\ Clampable(z) /\ z \in State
  <2>1. p \in Panels
    BY DEF Panels, Lists
  <2>2. m \in State /\ Clampable(m)
    BY InvFacts
  <2>3. Clampable(z)
    BY <1>1, <2>1, <2>2, Changed
  <2> QED
    BY <2>2, <2>3 DEF Clampable
<1>3. /\ z.focus = p /\ z.world = m.world /\ z.filter = m.filter /\ z.showInactive = m.showInactive
      /\ z.sel = m.sel /\ z.off = m.off /\ z.height = m.height /\ z.compact = m.compact
      /\ z.shell = m.shell
  BY <1>1, <1>2 DEF State
<1>4. FocusOf(z) = p /\ Batches(z) = Batches(m)
  BY <1>3, SameRuns DEF FocusOf, Right
<1>5. ASSUME NEW list \in Lists
      PROVE  /\ Viewport(z, list) = Viewport(m, list) /\ (Visible(z, list) <=> Visible(m, list))
             /\ \A d \in Batches(m) :
                  /\ Rows(z, list, d) = Rows(m, list, d) /\ LinesOf(z, list, d) = LinesOf(m, list, d)
                  /\ InRange(z, list, d) = InRange(m, list, d)
                  /\ Scrollable(z, list, d) = Scrollable(m, list, d)
  <2>1. \A d : Rows(z, list, d) = Rows(m, list, d) /\ LinesOf(z, list, d) = LinesOf(m, list, d)
    BY <1>3, SameRows
  <2>2. Viewport(z, list) = Viewport(m, list)
    BY <1>3 DEF Viewport, PanelHeight, BodyHeight, Right
  <2> QED
    BY <1>3, <2>1, <2>2 DEF Visible, InRange, Scrollable
<1>6. Settled(z, b) /\ InView(z, c)
  BY <1>0, <1>3, <1>5 DEF Clamps, Settled, InView
<1>7. ASSUME NEW list \in Lists, ~(list = "tasks" /\ p = "tasks"), ~Unsettled(z, list),
             NEW d \in Batches(m)
      PROVE  z.off[list] = Scrolled(z, list, d)
  <2>1. z.focus # list
    BY <1>3, <1>7 DEF Lists
  <2>2. CASE Visible(z, list)
    <3>1. PICK a \in Nat : a = AtLeast(0, LinesOf(z, list, d) - Viewport(z, list))
      <4>1. LinesOf(z, list, d) \in Nat
        BY <1>2, <1>4, InRangeIs
      <4>2. Viewport(z, list) \in Nat
        BY <1>2, ViewportIs DEF Panels
      <4> QED
        BY <4>1, <4>2 DEF AtLeast
    <3>2. LinesOf(z, list, d) = LinesOf(z, list, c)
      BY <1>2, <1>4, <1>7, OtherRows
    <3>3. z.off[list] \in 0 .. a
      BY <1>6, <2>2, <3>1, <3>2 DEF InView, Scrollable
    <3>4. Clamp(z.off[list], 0, a) = z.off[list]
      BY <3>3 DEF Clamp
    <3> QED
      BY <2>1, <2>2, <3>1, <3>4 DEF Scrolled, Visible
  <2>3. CASE ~Visible(z, list)
    BY <2>3 DEF Visible, Scrolled
  <2> QED
    BY <2>2, <2>3
<1>8. Clamps(z, b, c)
  BY <1>2, <1>3, <1>4, <1>6 DEF Clamps
<1>9. m' = z
  BY <1>1
<1>10. ASSUME NEW list \in Lists, NEW d \in Batches(z)
       PROVE  (list = "tasks" /\ handed') \/ Unsettled(z, list) \/ z.off[list] = Scrolled(z, list, d)
  BY <1>4, <1>7
<1>11. handed' \in BOOLEAN /\ b \in Batches(z) /\ c \in Batches(z)
  BY <1>4
<1>12. (\E b1, c1 \in Batches(m) : Clamps(m, b1, c1))'
  BY <1>8, <1>9, <1>11
<1>13. (\A list \in Lists, c1 \in Batches(m) :
          (list = "tasks" /\ handed) \/ Unsettled(m, list) \/ m.off[list] = Scrolled(m, list, c1))'
  BY <1>9, <1>10
<1> QED
  BY <1>11, <1>12, <1>13, Zenon DEF IInv
\* The actions, one by one: all but two end with a clamp.
LEMMA NextInv == IInv /\ [Next]_<<m, handed>> => IInv'
<1> SUFFICES ASSUME IInv, [Next]_<<m, handed>> PROVE IInv'
  OBVIOUS
<1>0. m \in State /\ Clampable(m) /\ m.off.health \in Nat /\ OnScreen(m) \subseteq Panels
  BY InvFacts
<1>1. CASE WindowSize
  <2>1. PICK ht \in Heights, c \in BOOLEAN : Becomes([m EXCEPT !.height = ht, !.compact = c])
    BY <1>1 DEF WindowSize
  <2>2. Clampable([m EXCEPT !.height = ht, !.compact = c])
    BY <1>0 DEF Clampable, State
  <2> QED
    BY <2>1, <2>2, ClampedInv
<1>2. CASE SnapshotMsg
  <2>1. PICK wd \in Worlds : Becomes([m EXCEPT !.world = wd])
    BY <1>2 DEF SnapshotMsg
  <2>2. Clampable([m EXCEPT !.world = wd])
    BY <1>0 DEF Clampable, State
  <2> QED
    BY <2>1, <2>2, ClampedInv
<1>3. CASE PtyStarted
  BY <1>3, FocusMoved DEF PtyStarted
<1>4. CASE Wheel
  <2>1. PICK panel \in OnScreen(m), delta \in {-3, 3} :
          Becomes([Scroll(m, panel, delta) EXCEPT !.focus = panel])
    BY <1>4 DEF Wheel
  <2>2. PICK s : s = Scroll(m, panel, delta)
    OBVIOUS
  <2>3. Clampable(s)
    <3>1. CASE panel \in Lists
      <4>1. m.off[panel] + delta \in Int
        BY <3>1, InvFacts
      <4>2. s = [m EXCEPT !.off[panel] = m.off[panel] + delta]
        BY <2>2, <3>1 DEF Scroll
      <4>3. m.shell => panel # "health"
        BY DEF OnScreen, Right
      <4> QED
        BY <1>0, <3>1, <4>1, <4>2, <4>3 DEF Clampable, State
    <3>2. CASE panel \notin Lists
      BY <1>0, <2>2, <3>2 DEF Scroll
    <3> QED
      BY <3>1, <3>2
  <2>4. Clampable([s EXCEPT !.focus = panel])
    BY <1>0, <2>3, Changed
  <2> QED
    BY <2>1, <2>2, <2>4, ClampedInv
<1>5. CASE Click
  <2>1. PICK panel \in OnScreen(m), line \in Int, b \in Batches(m) :
          Becomes([m EXCEPT !.focus = panel]) \/ Becomes(PanelClicked(m, panel, line, b))
    BY <1>5 DEF Click
  <2>2. Clampable([m EXCEPT !.focus = panel])
    BY <1>0, Changed
  <2> QED
    BY <2>1, <2>2, Clicked, ClampedInv
<1>6. /\ \A p \in Panels : Clampable([m EXCEPT !.focus = p])
      /\ Clampable([m EXCEPT !.filtering = TRUE])
      /\ Clampable(ToggleInactive(m)) /\ Clampable(OpenShell(m))
  BY <1>0, Changed DEF OpenShell
<1>7. CASE FooterClick
  <2>1. Clampable([m EXCEPT !.focus = Neighbour(m, 1)])
    BY <1>6, NeighbourIs
  <2> QED
    BY <1>6, <1>7, <2>1, ClampedInv DEF FooterClick
<1>8. CASE ShellKey
  <2>1. m.shell
    BY <1>8, InvFacts DEF ShellKey, FocusOf, Right
  <2> QED
    BY <1>8, <2>1, FocusMoved DEF ShellKey
<1>9. CASE FilterKey
  <2>1. PICK q \in Filters \cup {m.filter, NoFilter}, more \in BOOLEAN :
          Becomes([SelectRun(m, 0) EXCEPT !.filter = q, !.filtering = more])
    BY <1>9 DEF FilterKey
  <2>2. q \in SUBSET NoFilter
    BY <1>0, DashboardAssumption DEF DashboardAssumption, State
  <2>3. PICK s : s = SelectRun(m, 0)
    OBVIOUS
  <2>4. Clampable(s)
    <3>1. \A n \in Int : Clampable(SelectRun(m, n))
      BY <1>0, Changed
    <3> QED
      BY <2>3, <3>1
  <2>5. Clampable([s EXCEPT !.filter = q, !.filtering = more])
    BY <2>2, <2>4 DEF Clampable, State
  <2> QED
    BY <2>1, <2>3, <2>5, ClampedInv
<1>10. CASE DashboardKey
  <2>1. PICK s : Becomes(s) /\
          \/ s = [m EXCEPT !.filter = NoFilter, !.sel.tasks = IF m.filter = NoFilter THEN @ ELSE 0]
          \/ s = [m EXCEPT !.filtering = TRUE] \/ s = ToggleInactive(m) \/ s = Toggled(m)
          \/ s = OpenShell(m) \/ s = Home(m) \/ \E b \in Batches(m) : s = End(m, b)
          \/ \E p \in {Neighbour(m, 1), Neighbour(m, -1)} \cup OnScreen(m) : s = [m EXCEPT !.focus = p]
          \/ \E delta \in {-1, 1} : s = Move(m, delta)
          \/ \E delta \in {-1, 1} : s = Page(m, delta)
    BY <1>10 DEF DashboardKey
  <2>2. Clampable(s)
    <3>1. CASE s = [m EXCEPT !.filter = NoFilter, !.sel.tasks = IF m.filter = NoFilter THEN @ ELSE 0]
      <4>1. PICK n \in Int : n = IF m.filter = NoFilter THEN m.sel["tasks"] ELSE 0
        BY InvFacts DEF Lists
      <4>2. PICK r : r = [m EXCEPT !.sel["tasks"] = n]
        OBVIOUS
      <4>3. r \in State /\ (r.shell => r.off.health \in Nat)
        BY <1>0, <4>2, Selected DEF Clampable, Lists
      <4>4. s = [r EXCEPT !.filter = NoFilter]
        BY <1>0, <3>1, <4>1, <4>2 DEF State, Lists
      <4> QED
        BY <4>3, <4>4 DEF Clampable, State
    <3>2. CASE s = Toggled(m)
      <4>1. s = m \/ s = [m EXCEPT !.focus = "details"] \/ s = [m EXCEPT !.focus = "tasks"]
        BY <3>2 DEF Toggled
      <4>2. "details" \in Panels /\ "tasks" \in Panels
        BY DEF Panels, Lists
      <4> QED
        BY <1>0, <1>6, <4>1, <4>2
    <3>3. CASE \E p \in {Neighbour(m, 1), Neighbour(m, -1)} \cup OnScreen(m) : s = [m EXCEPT !.focus = p]
      BY <1>0, <1>6, <3>3, NeighbourIs
    <3>4. CASE (\E delta \in {-1, 1} : s = Move(m, delta)) \/ s = Home(m) \/ \E b \in Batches(m) : s = End(m, b)
      BY <3>4, Moved
    <3>5. CASE \E delta \in {-1, 1} : s = Page(m, delta)
      BY <3>5, Moved
    <3> QED
      BY <1>6, <2>1, <3>1, <3>2, <3>3, <3>4, <3>5
  <2> QED
    BY <2>1, <2>2, ClampedInv
<1>11. CASE UNCHANGED <<m, handed>>
  BY <1>11 DEF IInv
<1> QED
  BY <1>1, <1>2, <1>3, <1>4, <1>5, <1>7, <1>8, <1>9, <1>10, <1>11 DEF Next

LEMMA Invariance == Spec => []IInv
BY InitInv, NextInv, PTL DEF Spec

-----------------------------------------------------------------------------
\* After every key, click, snapshot and size each selection is a row there is, or 0, and no
\* list on the screen is scrolled past its end; for any snapshots, filters and heights, and
\* any number of tied batches, whose tasks are those clamp was told of.
THEOREM SelectionsInRange == Spec => []TypeOK
<1>1. IInv => TypeOK
  <2> SUFFICES ASSUME IInv PROVE TypeOK
    OBVIOUS
  <2>0. PICK b \in Batches(m), c \in Batches(m) : Clamps(m, b, c)
    BY DEF IInv
  <2>1. m \in State /\ m.focus \in {"runs", "tasks", "details", Right(m)} /\ handed \in BOOLEAN
    BY InvFacts DEF OnScreen, IInv
  <2>2. ASSUME NEW list \in Lists
        PROVE  /\ m.sel[list] \in 0 .. AtLeast(0, Len(Rows(m, list, b)) - 1)
               /\ m.off[list] \in Nat
               /\ (list = "health" /\ m.shell) \/ m.off[list] < LinesOf(m, list, c)
    <3>1. m.sel[list] \in 0 .. AtLeast(0, Len(Rows(m, list, b)) - 1) /\ m.off[list] \in Nat
      BY <2>0, <2>1, InRangeIs, InvFacts DEF Clamps, Settled
    <3>2. CASE Visible(m, list)
      <4>1. m.off[list] \in 0 .. AtLeast(0, LinesOf(m, list, c) - Viewport(m, list))
        BY <2>0, <3>2 DEF Clamps, InView, Scrollable
      <4>2. PICK k \in Nat : k = LinesOf(m, list, c) /\ k >= 1
        BY <2>1, InRangeIs DEF Static
      <4>3. PICK v \in Nat : v = Viewport(m, list) /\ v >= 1
        BY <2>1, ViewportIs DEF Panels
      <4> QED
        BY <3>1, <4>1, <4>2, <4>3 DEF AtLeast
    <3> QED
      BY <3>1, <3>2 DEF Visible
  <2> QED
    BY <2>1, <2>2 DEF State, TypeOK
<1> QED
  BY <1>1, Invariance, PTL

\* A second clamp moves no selection and no scroll, but of the tasks: of a tied batch, and
\* the scroll before anything was clamped since the shell gave up the focus.
LEMMA ViewShows ==
  ASSUME IInv, NEW z \in Clampings(m)
  PROVE  /\ z.world = m.world /\ z.filter = m.filter /\ z.showInactive = m.showInactive
         /\ z.sel["runs"] = m.sel["runs"]
         /\ \A list \in Lists :
              /\ z.sel[list] = m.sel[list] \/ Unsettled(m, list)
              /\ z.off[list] = m.off[list] \/ Unsettled(m, list) \/ (list = "tasks" /\ handed)
<1>0. PICK a \in Batches(m) : Settled(m, a)
  BY DEF IInv, Clamps
<1>1. m \in State /\ Clampable(m) /\ m.focus = FocusOf(m)
  BY InvFacts
<1>2. PICK b \in Batches(m), c \in Batches(m) : z = Clamped(m, b, c)
  BY DEF Clampings
<1>3. /\ z \in State /\ z.world = m.world /\ z.filter = m.filter /\ z.showInactive = m.showInactive
      /\ z.shell = m.shell /\ z.focus = m.focus /\ z.height = m.height /\ z.compact = m.compact
      /\ \A list \in Lists :
           /\ z.sel[list] = Clamp(m.sel[list], 0, AtLeast(0, Len(Rows(z, list, b)) - 1))
           /\ z.off[list] = Scrolled([z EXCEPT !.off = m.off], list, c)
  BY <1>1, <1>2, ClampedSettles DEF ClampedTo, Clamps, Clampable
<1>4. ASSUME NEW list \in Lists, Rows(z, list, b) = Rows(m, list, b), ~Unsettled(m, list)
      PROVE  z.sel[list] = m.sel[list]
  <2>1. z.sel[list] = InRange(m, list, b)
    BY <1>3, <1>4 DEF InRange
  <2>2. InRange(m, list, b) = InRange(m, list, a)
    BY <1>1, <1>4, OtherRows
  <2> QED
    BY <1>0, <2>1, <2>2 DEF Settled
<1>5. Rows(z, "runs", b) = Rows(m, "runs", b)
  BY <1>3, SameRuns DEF Rows
<1>6. z.sel["runs"] = m.sel["runs"]
  BY <1>4, <1>5 DEF Lists, Unsettled
<1>7. ASSUME NEW list \in Lists, ~Unsettled(m, list) PROVE z.sel[list] = m.sel[list]
  BY <1>3, <1>4, <1>6, <1>7, SameRows
<1>8. ASSUME NEW list \in Lists, ~Unsettled(m, list) PROVE z.off[list] = Scrolled(m, list, c)
  <2>1. PICK k : k = [z EXCEPT !.off = m.off]
    OBVIOUS
  <2>2. /\ k.world = m.world /\ k.filter = m.filter /\ k.showInactive = m.showInactive
        /\ k.shell = m.shell /\ k.focus = m.focus /\ k.height = m.height /\ k.compact = m.compact
        /\ k.sel[list] = m.sel[list] /\ k.sel["runs"] = m.sel["runs"] /\ k.off = m.off
    BY <1>3, <1>6, <1>7, <1>8, <2>1 DEF State
  <2>3. LinesOf(k, list, c) = LinesOf(m, list, c)
    BY <2>2, SameRows
  <2>4. Viewport(k, list) = Viewport(m, list)
    BY <2>2 DEF Viewport, PanelHeight, BodyHeight, Right
  <2>5. Scrolled(k, list, c) = Scrolled(m, list, c)
    BY <2>2, <2>3, <2>4 DEF Scrolled
  <2> QED
    BY <1>3, <2>1, <2>5
<1> QED
  BY <1>3, <1>6, <1>7, <1>8 DEF IInv

\* What View shows of its clamped copy is what Update sees in the model; but for the tasks
\* of a tied batch, and for how far the tasks are scrolled before anything was clamped
\* since the shell gave up the focus.
THEOREM ViewAgrees == Spec => []ViewIsModel
<1>1. IInv => ViewIsModel
  BY ViewShows DEF ViewIsModel, Unsettled
<1> QED
  BY <1>1, Invariance, PTL

\* What a click does to the selection of its list.
LEMMA ClickSelects ==
  ASSUME IInv, NEW list \in OnScreen(m) \cap Lists, NEW line \in Int, ~Unsettled(m, list),
         NEW a \in Batches(m), NEW z \in Clampings(PanelClicked(m, list, line, a)),
         NEW n \in Int, n = m.off[list] + line - Static,
         NEW k \in Nat, k = Len(Rows(m, list, a))
  PROVE  /\ z.world = m.world /\ z.filter = m.filter /\ z.showInactive = m.showInactive
         /\ list # "runs" => z.sel["runs"] = m.sel["runs"]
         /\ z.sel[list] = IF n < 0 \/ n >= k THEN m.sel[list] ELSE n
<1>1. m \in State /\ Clampable(m) /\ "runs" \in Lists
  BY InvFacts DEF Lists
<1>2. PICK p : p = PanelClicked(m, list, line, a)
  OBVIOUS
<1>3. PICK f : f = [m EXCEPT !.focus = list]
  OBVIOUS
<1>4. f \in State /\ f.world = m.world /\ f.filter = m.filter /\ f.showInactive = m.showInactive
      /\ f.sel = m.sel
  BY <1>1, <1>3 DEF State, Panels
<1>5. /\ p.world = m.world /\ p.filter = m.filter /\ p.showInactive = m.showInactive
      /\ p.sel[list] = IF n < 0 \/ n >= k THEN m.sel[list] ELSE n
      /\ list # "runs" => p.sel["runs"] = m.sel["runs"]
  <2>1. CASE n < 0 \/ n >= k
    <3>1. p = f
      BY <1>2, <1>3, <2>1 DEF PanelClicked
    <3> QED
      BY <1>4, <2>1, <3>1
  <2>2. CASE ~(n < 0 \/ n >= k) /\ list = "runs"
    <3>1. p = SelectRun(f, n)
      BY <1>2, <1>3, <2>2 DEF PanelClicked
    <3> QED
      BY <1>4, <2>2, <3>1 DEF SelectRun, State, Lists
  <2>3. CASE ~(n < 0 \/ n >= k) /\ list # "runs"
    <3>1. p = [f EXCEPT !.sel[list] = n]
      BY <1>2, <1>3, <2>3 DEF PanelClicked
    <3> QED
      BY <1>4, <2>3, <3>1 DEF State, Lists
  <2> QED
    BY <2>1, <2>2, <2>3
<1>6. Batches(p) = Batches(m)
  BY <1>5, SameRuns
<1>7. PICK b \in Batches(m), c \in Batches(m) : z = Clamped(p, b, c)
  BY <1>2, <1>6 DEF Clampings
<1>8. /\ z.world = m.world /\ z.filter = m.filter /\ z.showInactive = m.showInactive
      /\ \A l \in Lists : z.sel[l] = Clamp(p.sel[l], 0, AtLeast(0, Len(Rows(z, l, b)) - 1))
  <2>1. Clampable(p)
    BY <1>2, Clicked
  <2>2. ClampedTo(p, b, c, z)
    BY <1>6, <1>7, <2>1, ClampedSettles
  <2> QED
    BY <1>5, <2>2 DEF ClampedTo
<1>9. ASSUME NEW l \in Lists, ~Unsettled(m, l)
      PROVE  m.sel[l] = Clamp(m.sel[l], 0, AtLeast(0, Len(Rows(m, l, b)) - 1))
  <2>1. PICK d \in Batches(m) : Settled(m, d)
    BY DEF IInv, Clamps
  <2>2. InRange(m, l, b) = InRange(m, l, d)
    BY <1>1, <1>9, OtherRows
  <2> QED
    BY <2>1, <2>2 DEF Settled, InRange
<1>10. Rows(z, "runs", b) = Rows(m, "runs", b)
  BY <1>8, SameRuns DEF Rows
<1>11. list # "runs" => z.sel["runs"] = m.sel["runs"]
  BY <1>1, <1>5, <1>8, <1>9, <1>10 DEF Unsettled
<1>12. Len(Rows(z, list, b)) = k
  <2>1. Rows(z, list, b) = Rows(m, list, b)
    BY <1>8, <1>10, <1>11, SameRows
  <2>2. Len(Rows(m, list, b)) = Len(Rows(m, list, a))
    BY <1>1, OtherRows
  <2> QED
    BY <2>1, <2>2
<1>13. z.sel[list] = Clamp(p.sel[list], 0, AtLeast(0, k - 1))
  BY <1>8, <1>12
<1>14. m.sel[list] = Clamp(m.sel[list], 0, AtLeast(0, k - 1))
  <2>1. Len(Rows(m, list, b)) = k
    BY <1>1, OtherRows
  <2> QED
    BY <1>9, <2>1
<1>15. z.sel[list] = IF n < 0 \/ n >= k THEN m.sel[list] ELSE n
  BY <1>5, <1>13, <1>14 DEF Clamp, AtLeast
<1> QED
  BY <1>8, <1>11, <1>15

\* A click on a row of a list selects the row that is drawn there, and a click on none
\* selects none (README.md:116), whatever was filtered, sorted anew, scrolled or resized
\* before; but for rows of tied batches, and for tasks clicked on before anything is clamped
\* after the shell gave up the focus.
THEOREM ClicksSelect == Spec => []ClickSelectsShown
<1>1. ASSUME IInv, NEW list \in OnScreen(m) \cap Lists, NEW line \in Int,
             ~(list = "tasks" /\ (handed \/ Tied(m))),
             NEW a \in Batches(m), NEW seen \in Clampings(m),
             NEW after \in Clampings(PanelClicked(m, list, line, a))
      PROVE  LET drawn == Drawn(seen, list, line) IN
               /\ drawn = {} => after.sel[list] = m.sel[list]
               /\ drawn # {} => Selection(after, list) = drawn
  <2>1. m \in State /\ ~Unsettled(m, list)
    BY <1>1, InvFacts DEF Unsettled
  <2>2. PICK k \in Nat : k = Len(Rows(m, list, a))
    BY <2>1, RowsLen
  <2>3. PICK n \in Int : n = m.off[list] + line - Static
    BY <1>1, InvFacts DEF Static
  <2>4. /\ after.world = m.world /\ after.filter = m.filter /\ after.showInactive = m.showInactive
        /\ list # "runs" => after.sel["runs"] = m.sel["runs"]
        /\ after.sel[list] = IF n < 0 \/ n >= k THEN m.sel[list] ELSE n
    BY <1>1, <2>1, <2>2, <2>3, ClickSelects
  <2>5. /\ seen.world = m.world /\ seen.filter = m.filter /\ seen.showInactive = m.showInactive
        /\ seen.sel["runs"] = m.sel["runs"] /\ seen.off[list] = m.off[list]
    BY <1>1, <2>1, ViewShows
  <2>6. Batches(seen) = Batches(m) /\ Batches(after) = Batches(m)
    BY <2>4, <2>5, SameRuns
  <2>7. \A b : Rows(seen, list, b) = Rows(m, list, b)
    BY <2>5, SameRows
  <2>8. \A b : Rows(after, list, b) = Rows(m, list, b)
    <3>1. CASE list = "runs"
      BY <2>4, <3>1, SameRuns DEF Rows
    <3>2. CASE list # "runs"
      BY <2>4, <3>2, SameRows
    <3> QED
      BY <3>1, <3>2
  <2>9. \A b \in Batches(m) : Len(Rows(m, list, b)) = k /\ (Rows(m, list, b) # << >> <=> k > 0)
    BY <2>1, <2>2, RowsLen, OtherRows
  <2>10. Drawn(seen, list, line) =
           {Rows(m, list, b)[n + 1] : b \in {b \in Batches(m) : n + 1 \in 1 .. Len(Rows(m, list, b))}}
    BY <2>3, <2>5, <2>6, <2>7 DEF Drawn
  <2>11. Selection(after, list) =
           {Rows(m, list, b)[after.sel[list] + 1] : b \in {b \in Batches(m) : Rows(m, list, b) # << >>}}
    BY <2>6, <2>8 DEF Selection
  <2>12. CASE n < 0 \/ n >= k
    <3>1. {b \in Batches(m) : n + 1 \in 1 .. Len(Rows(m, list, b))} = {}
      BY <2>9, <2>12
    <3>2. Drawn(seen, list, line) = {}
      BY <2>10, <3>1
    <3> QED
      BY <2>4, <2>12, <3>2
  <2>13. CASE ~(n < 0 \/ n >= k)
    <3>1. after.sel[list] = n
      BY <2>4, <2>13
    <3>2. {b \in Batches(m) : n + 1 \in 1 .. Len(Rows(m, list, b))}
            = {b \in Batches(m) : Rows(m, list, b) # << >>}
      BY <2>9, <2>13
    <3>3. a \in {b \in Batches(m) : n + 1 \in 1 .. Len(Rows(m, list, b))}
      BY <2>9, <2>13
    <3>4. Drawn(seen, list, line) = Selection(after, list)
      BY <2>10, <2>11, <3>1, <3>2
    <3>5. Drawn(seen, list, line) # {}
      BY <2>10, <3>3
    <3> QED
      BY <3>4, <3>5
  <2> QED
    BY <2>12, <2>13
<1>2. IInv => ClickSelectsShown
  <2> SUFFICES ASSUME IInv, NEW list \in OnScreen(m) \cap Lists,
                      NEW line \in 0 .. Viewport(m, list) - 1,
                      ~(list = "tasks" /\ (handed \/ Tied(m)))
               PROVE  SelectsShown(list, line)
    BY DEF ClickSelectsShown
  <2>1. line \in Int
    OBVIOUS
  <2> QED
    BY <1>1, <2>1 DEF SelectsShown
<1> QED
  BY <1>2, Invariance, PTL
=============================================================================
