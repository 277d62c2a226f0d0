------------------------------ MODULE Dashboard ------------------------------
(***************************************************************************)
(* internal/tui/model.go: which row is selected, which panel has the focus *)
(* and how far each list is scrolled, against keys, clicks, filters, new   *)
(* sizes and the snapshots the engine sends.  m is the Model; View works   *)
(* on a copy of it.                                                        *)
(*                                                                         *)
(* A world is lists to be sorted: what a row says is left out, and what a  *)
(* filter matches is given.  Left out too: the help, the launcher and the  *)
(* question before a stop, and how far Details is scrolled, which nothing  *)
(* reads.  What the panes do is in Panes; here they only take the focus.   *)
(***************************************************************************)
EXTENDS Integers, Sequences, SequencesExt, Bounds

CONSTANTS
  Worlds,        \* snapshots: sessions, batches, tasks and warnings are sets of
                 \* [id, rank, updated]; tasks also have their batch, and warnings
                 \* are all of one rank and time
  Filters,       \* what filters match: sets of ids
  Heights,       \* of the terminal
  SessionLines   \* lines Tasks has about a session

VARIABLES
  m,
  handed   \* history: the shell has given the focus up and nothing was clamped since

NoFilter == UNION {{r.id : r \in w.sessions \cup w.batches \cup w.tasks \cup w.warnings} : w \in Worlds}

ASSUME DashboardAssumption ==
  /\ SessionLines \in Nat \ (0 .. 3) /\ Heights \subseteq Nat /\ Filters \subseteq SUBSET NoFilter
  /\ \A w \in Worlds : IsFiniteSet(w.sessions) /\ IsFiniteSet(w.batches)
                       /\ IsFiniteSet(w.tasks) /\ IsFiniteSet(w.warnings)

Lists == {"runs", "tasks", "health"}
Panels == Lists \cup {"details", "shell"}

-----------------------------------------------------------------------------
\* Layout.  shell is shellVisible.
Right(s) == IF s.shell THEN "shell" ELSE "health"

BodyHeight(s) == AtLeast(16, s.height - 4)

\* tasksH is never below 4, so that compactPaneHeights takes from no other panel.
Compact(body) ==
  LET runs == Clamp(body \div 5, 4, 7)
      details == Clamp(body \div 4, 4, 8)
  IN [runs |-> runs, tasks |-> body - 2 * runs - details, details |-> details, right |-> runs]

Wide(body) ==
  LET details == Clamp(body \div 2, 8, AtLeast(8, body - 6))
  IN [runs |-> body, tasks |-> body, details |-> details, right |-> body - details]

PanelHeight(s, panel) ==
  LET h == IF s.compact THEN Compact(BodyHeight(s)) ELSE Wide(BodyHeight(s))
  IN IF panel = Right(s) THEN h.right ELSE h[panel]

Viewport(s, panel) ==
  IF panel \in {"runs", "tasks", "details", Right(s)}
  THEN AtLeast(1, PanelHeight(s, panel) - 3) ELSE 1

-----------------------------------------------------------------------------
\* What the lists show.  sort.Slice puts one row before another by rank and time.
Before(a, b) ==
  \/ a.rank < b.rank
  \/ a.rank = b.rank /\ a.updated > b.updated

\* Of sessions, tasks and warnings the order is total: their ids decide where these agree.
Earlier(a, b) == Before(a, b) \/ (~Before(b, a) /\ a.id < b.id)

\* The n-th row is the one that n - 1 rows are before.
Sorted(rows) ==
  [n \in 1 .. Cardinality(rows) |->
     CHOOSE r \in rows : Cardinality({q \in rows : Earlier(q, r)}) = n - 1]

\* Batches come from a map and their order is not total: whoever asks for them gets those
\* that agree in rank and time in any order, and whoever asks again in another.
Sortings(rows) ==
  {q \in SetToSeqs(rows) : \A i, j \in 1 .. Cardinality(rows) : i < j => ~Before(q[j], q[i])}

Inactive == 9    \* the rank of a session that is done, and of a batch at rest

Shown(s, r) == s.showInactive \/ r.rank # Inactive

Sessions(s) == Sorted({r \in s.world.sessions : Shown(s, r) /\ r.id \in s.filter})

BatchMatches(s, b) ==
  b.id \in s.filter \/ \E t \in s.world.tasks : t.batch = b.id /\ t.id \in s.filter

Batches(s) == Sortings({b \in s.world.batches : Shown(s, b) /\ BatchMatches(s, b)})

\* Below, batches is the answer that one call gets.
RunRows(s, batches) == Sessions(s) \o batches

SelectedRun(s, batches) ==
  LET rows == RunRows(s, batches) IN rows[Clamp(s.sel.runs, 0, Len(rows) - 1) + 1]

OnBatch(s, batches) ==
  RunRows(s, batches) # << >> /\ SelectedRun(s, batches) \in s.world.batches

TaskRows(s, batches) ==
  IF ~OnBatch(s, batches) THEN << >>
  ELSE LET b == SelectedRun(s, batches).id IN
       Sorted({t \in s.world.tasks : t.batch = b /\ (b \in s.filter \/ t.id \in s.filter)})

\* In the order of the world, which their ids give.
WarningRows(s) == Sorted({r \in s.world.warnings : r.id \in s.filter})

Rows(s, list, batches) ==
  CASE list = "runs" -> RunRows(s, batches)
    [] list = "tasks" -> TaskRows(s, batches)
    [] list = "health" -> WarningRows(s)

\* runLines, taskLines, healthLines: one line above the rows.  Not in watch mode, where
\* Runs has a line more when it is empty.
Static == 1

LinesOf(s, list, batches) ==
  IF list = "tasks" /\ ~OnBatch(s, batches)
  THEN IF RunRows(s, batches) = << >> THEN 4 ELSE SessionLines
  ELSE LET n == Len(Rows(s, list, batches)) IN
       IF n > 0 THEN Static + n ELSE IF list = "runs" THEN 3 ELSE 2

-----------------------------------------------------------------------------
\* clamp.
FocusOf(s) == IF s.focus \in {"health", "shell"} THEN Right(s) ELSE s.focus

InRange(s, list, batches) == Clamp(s.sel[list], 0, AtLeast(0, Len(Rows(s, list, batches)) - 1))

EnsureVisible(offset, line, viewport) ==
  IF line < offset THEN line
  ELSE IF line >= offset + viewport THEN line - viewport + 1
  ELSE offset

Scrolled(s, list, batches) ==
  LET viewport == Viewport(s, list)
      offset == Clamp(s.off[list], 0, AtLeast(0, LinesOf(s, list, batches) - viewport))
  IN IF list = "health" /\ s.shell THEN s.off.health
     ELSE IF s.focus = list THEN EnsureVisible(offset, s.sel[list] + Static, viewport)
     ELSE offset

\* clamp asks for the batches twice: to choose a task, and to scroll the tasks.
\* Mutant: the scrolls are clamped before the selection.
ClampedScrollsFirst(s, choosing, scrolling) ==
  LET focused == [s EXCEPT !.focus = FocusOf(s)]
      scrolled == [focused EXCEPT !.off = [list \in Lists |-> Scrolled(focused, list, scrolling)]]
      run == [scrolled EXCEPT !.sel.runs = InRange(scrolled, "runs", choosing)]
  IN [run EXCEPT !.sel.tasks = InRange(run, "tasks", choosing),
                 !.sel.health = InRange(run, "health", choosing)]

\* Mutant: the task selected is left where it was.
ClampedRunOnly(s, choosing, scrolling) ==
  LET focused == [s EXCEPT !.focus = FocusOf(s)]
      run == [focused EXCEPT !.sel.runs = InRange(focused, "runs", choosing)]
      chosen == [run EXCEPT !.sel.health = InRange(run, "health", choosing)]
  IN [chosen EXCEPT !.off = [list \in Lists |-> Scrolled(chosen, list, scrolling)]]

Clamped(s, choosing, scrolling) ==
  LET focused == [s EXCEPT !.focus = FocusOf(s)]
      run == [focused EXCEPT !.sel.runs = InRange(focused, "runs", choosing)]
      chosen == [run EXCEPT !.sel.tasks = InRange(run, "tasks", choosing),
                            !.sel.health = InRange(run, "health", choosing)]
  IN [chosen EXCEPT !.off = [list \in Lists |-> Scrolled(chosen, list, scrolling)]]

Clampings(s) ==
  LET orders == Batches(s)
  IN {Clamped(s, choosing, scrolling) : choosing \in orders, scrolling \in orders}

\* Update has made s of the model, and clamps it.
Becomes(s) == m' \in Clampings(s) /\ handed' = FALSE

Init ==
  \E w \in Worlds, h \in Heights, c \in BOOLEAN, allowAct \in BOOLEAN :
    /\ m \in Clampings([world |-> w, filter |-> NoFilter, filtering |-> FALSE,
                        showInactive |-> FALSE, focus |-> "runs", sel |-> [list \in Lists |-> 0],
                        off |-> [list \in Lists |-> 0], height |-> h, compact |-> c,
                        shell |-> allowAct])
    /\ handed = FALSE

-----------------------------------------------------------------------------
\* Update, on what is not a key.
WindowSize == \E h \in Heights, c \in BOOLEAN : Becomes([m EXCEPT !.height = h, !.compact = c])

SnapshotMsg == \E w \in Worlds : Becomes([m EXCEPT !.world = w])

\* Here, and when the launcher is submitted, the shell has been visible since openShell
\* or because of allowAct.
PtyStarted ==
  /\ m.shell
  /\ m' = [m EXCEPT !.focus = "shell"] /\ handed' = FALSE

Scroll(s, panel, delta) == IF panel \in Lists THEN [s EXCEPT !.off[panel] = @ + delta] ELSE s

OnScreen(s) == {"runs", "tasks", "details", Right(s)}

Wheel ==
  \E panel \in OnScreen(m), delta \in {-3, 3} :
    Becomes([Scroll(m, panel, delta) EXCEPT !.focus = panel])

SelectRun(s, n) == [s EXCEPT !.sel.runs = n, !.sel.tasks = 0]

\* handlePanelClick, on a line below the panel's title.
\* Mutant: the line above the rows is not counted.
PanelClickedOff(s, panel, line, batches) ==
  LET focused == [s EXCEPT !.focus = panel]
      n == IF panel \in Lists THEN s.off[panel] + line ELSE -1
  IN IF panel \notin Lists \/ n < 0 \/ n >= Len(Rows(s, panel, batches)) THEN focused
     ELSE IF panel = "runs" THEN SelectRun(focused, n)
     ELSE [focused EXCEPT !.sel[panel] = n]

PanelClicked(s, panel, line, batches) ==
  LET focused == [s EXCEPT !.focus = panel]
      n == IF panel \in Lists THEN s.off[panel] + line - Static ELSE -1
  IN IF panel \notin Lists \/ n < 0 \/ n >= Len(Rows(s, panel, batches)) THEN focused
     ELSE IF panel = "runs" THEN SelectRun(focused, n)
     ELSE [focused EXCEPT !.sel[panel] = n]

\* From the title up nothing is selected; the last line is the border's.
Click ==
  \E panel \in OnScreen(m), batches \in Batches(m) :
    \E s \in {[m EXCEPT !.focus = panel]}
             \cup {PanelClicked(m, panel, line, batches) : line \in 0 .. PanelHeight(m, panel) - 3} :
      Becomes(s)

-----------------------------------------------------------------------------
\* Keys, and the footer's names for some of them.
FocusOrder(s) == <<"runs", "tasks", "details", Right(s)>>

Neighbour(s, delta) ==
  CHOOSE panel \in Panels : \E i \in 1 .. 4 :
    FocusOrder(s)[i] = FocusOf(s) /\ panel = FocusOrder(s)[((i + delta + 3) % 4) + 1]

OpenShell(s) == [s EXCEPT !.shell = TRUE, !.focus = "shell"]

ToggleInactive(s) == [SelectRun(s, 0) EXCEPT !.showInactive = ~@]

FooterClick ==
  \E s \in {[m EXCEPT !.focus = Neighbour(m, 1)], [m EXCEPT !.filtering = TRUE],
           ToggleInactive(m), OpenShell(m)} : Becomes(s)

\* updateShellKey: ctrl+o, or any key once the active pane has exited.  Nothing is clamped.
ShellKey ==
  /\ m.focus = "shell" /\ ~m.filtering
  /\ m' = [m EXCEPT !.focus = "tasks"] /\ handed' = TRUE

\* updateFilterKey.
FilterKey ==
  /\ m.filtering
  /\ \E f \in Filters \cup {m.filter, NoFilter}, more \in BOOLEAN :
       Becomes([SelectRun(m, 0) EXCEPT !.filter = f, !.filtering = more])

Move(s, delta) ==
  CASE FocusOf(s) \in {"tasks", "health"} -> [s EXCEPT !.sel[FocusOf(s)] = @ + delta]
    [] FocusOf(s) = "details" -> s
    [] OTHER -> SelectRun(s, s.sel.runs + delta)

Page(s, delta) ==
  IF FocusOf(s) \in Lists THEN Move(s, delta * AtLeast(1, Viewport(s, FocusOf(s)) - 1)) ELSE s

Home(s) ==
  CASE FocusOf(s) \in {"tasks", "health"} -> [s EXCEPT !.sel[FocusOf(s)] = 0]
    [] FocusOf(s) = "details" -> s
    [] OTHER -> SelectRun(s, 0)

End(s, batches) ==
  CASE FocusOf(s) = "tasks" ->
         IF OnBatch(s, batches) THEN [s EXCEPT !.sel.tasks = Len(TaskRows(s, batches)) - 1] ELSE s
    [] FocusOf(s) = "health" -> [s EXCEPT !.sel.health = Len(WarningRows(s)) - 1]
    [] FocusOf(s) = "details" -> s
    [] OTHER -> SelectRun(s, Len(RunRows(s, batches)) - 1)

\* enter
Toggled(s) ==
  CASE s.focus = "tasks" -> [s EXCEPT !.focus = "details"]
    [] s.focus = "details" -> [s EXCEPT !.focus = "tasks"]
    [] OTHER -> s

DashboardKey ==
  /\ m.focus # "shell" /\ ~m.filtering
  /\ \E s \in
       {[m EXCEPT !.filter = NoFilter, !.sel.tasks = IF m.filter = NoFilter THEN @ ELSE 0],
        [m EXCEPT !.filtering = TRUE], ToggleInactive(m), Toggled(m), OpenShell(m), Home(m)}
       \cup {[m EXCEPT !.focus = panel] : panel \in {Neighbour(m, 1), Neighbour(m, -1)} \cup OnScreen(m)}
       \cup {Move(m, delta) : delta \in {-1, 1}} \cup {Page(m, delta) : delta \in {-1, 1}}
       \cup {End(m, batches) : batches \in Batches(m)} : Becomes(s)

Next ==
  \/ WindowSize \/ SnapshotMsg \/ PtyStarted \/ Wheel \/ Click \/ FooterClick
  \/ ShellKey \/ FilterKey \/ DashboardKey

Spec == Init /\ [][Next]_<<m, handed>>

-----------------------------------------------------------------------------
\* The batch selected is not the same for all who ask.
Tied(s) == \E b, c \in Batches(s) : SelectedRun(s, b) # SelectedRun(s, c)

\* Types; and after every key, click and snapshot each selection is a row there is, or
\* 0, and no list that is on the screen is scrolled past its end: of the tasks of the batch
\* that clamp was told is selected, when batches are tied.
TypeOK ==
  /\ m.world \in Worlds /\ m.filter \subseteq NoFilter
  /\ m.filtering \in BOOLEAN /\ m.showInactive \in BOOLEAN /\ m.shell \in BOOLEAN
  /\ m.height \in Heights /\ m.compact \in BOOLEAN /\ handed \in BOOLEAN
  /\ m.focus \in {"runs", "tasks", "details", Right(m)}
  /\ \E b \in Batches(m) : \A list \in Lists :
       /\ m.sel[list] \in 0 .. AtLeast(0, Len(Rows(m, list, b)) - 1)
       /\ m.off[list] \in Nat
  /\ \E b \in Batches(m) : \A list \in Lists :
       (list = "health" /\ m.shell) \/ m.off[list] < LinesOf(m, list, b)

\* View shows a clamped copy of the model, and Update works on the model: the two
\* agree on every selection and scroll, but for the tasks of a tied batch, and for the
\* scroll of the tasks from the time the shell gives up the focus to the next clamp.
ViewIsModel ==
  \A seen \in Clampings(m), list \in Lists :
    /\ seen.sel[list] = m.sel[list] \/ (list = "tasks" /\ Tied(m))
    /\ seen.off[list] = m.off[list] \/ (list = "tasks" /\ (handed \/ Tied(m)))

\* What may be drawn on a line between a panel's title and its border, when View has
\* clamped its copy to s; and what may be the row selected in s.
Drawn(s, list, line) ==
  LET n == s.off[list] + line - Static + 1
  IN {Rows(s, list, b)[n] : b \in {b \in Batches(s) : n \in 1 .. Len(Rows(s, list, b))}}

Selection(s, list) ==
  {Rows(s, list, b)[s.sel[list] + 1] : b \in {b \in Batches(s) : Rows(s, list, b) # << >>}}

\* A click on that line selects the row that View shows there, any of those it may show
\* when batches are tied, and where no row is it selects none.  batches is what
\* handlePanelClick is told.
SelectsShown(list, line) ==
  \A batches \in Batches(m) :
    \A seen \in Clampings(m), after \in Clampings(PanelClicked(m, list, line, batches)) :
      LET drawn == Drawn(seen, list, line) IN
        /\ drawn = {} => after.sel[list] = m.sel[list]
        /\ drawn # {} => Selection(after, list) = drawn

\* README.md:116: a click on a row selects that row, the one that View shows there,
\* whatever was filtered, sorted anew, scrolled or resized before.  Two exceptions,
\* in which the code does otherwise: of the tasks of a tied batch those of the other may be
\* clicked; and between the hand-over of the focus by updateShellKey (model.go:1404) and the
\* next clamp View draws the tasks scrolled to the selection, and a click on them is computed
\* from where they were (model.go:454).
ClickSelectsShown ==
  \A list \in OnScreen(m) \cap Lists : \A line \in 0 .. Viewport(m, list) - 1 :
    \/ list = "tasks" /\ (handed \/ Tied(m))
    \/ SelectsShown(list, line)
=============================================================================
