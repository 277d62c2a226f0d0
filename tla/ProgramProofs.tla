----------------------------- MODULE ProgramProofs -----------------------------
(***************************************************************************)
(* Nothing is started without consent, whatever the options, however many  *)
(* panes there may be and however many are asked for.  The argument:       *)
(* options that pass validateOptions allow no more than was consented to;  *)
(* the launcher opens only where actions are allowed; and of all steps     *)
(* only three start a pane, each behind a test of what is allowed.         *)
(*                                                                         *)
(* And the program is an implementation of Panes.                          *)
(***************************************************************************)
EXTENDS Program, TLAPS

Panes == [provider : {"shell", "run"},
          start : {"none", "running", "started", "failed", "done"},
          proc : {"none", "alive", "dead"}, held : BOOLEAN, closed : BOOLEAN,
          waited : BOOLEAN, read : {"none", "waiting", "text", "writing", "error"},
          killing : BOOLEAN]

PanesTyped == pane \in [P!Ids -> Panes] /\ nextID \in Nat

Kind(provider) == IF provider = "shell" THEN "shell" ELSE "act"

StartedAsAllowed == \A id \in P!Ids : pane[id].start # "none" => Kind(pane[id].provider) \in allowed

\* Beside the typing of the panes: what is allowed was consented to, what was started is
\* allowed, and an open launcher belongs to a program that may act.
Inv ==
  /\ PanesTyped
  /\ allowed \subseteq consented
  /\ StartedAsAllowed
  /\ launcher \in BOOLEAN /\ (launcher => "act" \in allowed)

\* What a step of the panes does that starts nothing, and one that may start a pane.
Keeps ==
  /\ PanesTyped'
  /\ \A id \in P!Ids : pane'[id].start # "none" =>
       pane[id].start # "none" /\ pane'[id].provider = pane[id].provider

MayStart(provider) ==
  /\ PanesTyped'
  /\ \A id \in P!Ids : pane'[id].start # "none" =>
       \/ pane[id].start # "none" /\ pane'[id].provider = pane[id].provider
       \/ pane'[id].provider = provider

-----------------------------------------------------------------------------
\* Options that Run accepts allow no more than a reader of them expects: this holds of the
\* actions for all options, and of the shell for those that pass validateOptions.
LEMMA AllowedIsWished ==
  ASSUME NEW shell \in Sources, NEW act \in Sources, NEW actors \in BOOLEAN, ValidShell(shell)
  PROVE  Allowed(shell, act, actors) \subseteq Wished(shell, act)
<1>1. ShellEnabled(shell) => Consented(shell)
  BY DEF Sources, Switch, ValidShell, ShellEnabled, ShellOn, ShellOff, On, Off, EnvBool,
         Consented, FlagForbids, EnvForbids
<1>2. ActEnabled(act) => Consented(act)
  BY DEF Sources, Switch, ActEnabled, On, Off, EnvBool, Consented, FlagForbids, EnvForbids
<1> QED
  BY <1>1, <1>2 DEF Allowed, Wished

\* Replacing a pane by one of its provider, which is no start, starts nothing.
LEMMA ChangeKeeps ==
  ASSUME PanesTyped, NEW id \in P!Ids, NEW q \in Panes,
         q.start # "none" => pane[id].start # "none", q.provider = pane[id].provider,
         P!Set(id, q), nextID' = nextID
  PROVE  Keeps
BY DEF Keeps, PanesTyped, P!Set

LEMMA StutterKeeps ==
  ASSUME PanesTyped, pane' = pane, nextID' = nextID
  PROVE  Keeps
BY DEF Keeps, PanesTyped

\* A key that opens a pane starts one of that provider and no other (launchSession, openShell).
LEMMA BeginStarts ==
  ASSUME PanesTyped, NEW provider \in {"shell", "run"}, P!Begin(provider)
  PROVE  MayStart(provider)
<1> DEFINE new == [P!NoPane EXCEPT !.provider = provider, !.start = "running"]
<1>1. new \in Panes /\ new.provider = provider
  BY DEF P!NoPane, Panes
<1>2. nextID' \in P!Ids /\ nextID' \in Nat
  BY ProgramAssumption DEF P!Begin, PanesTyped, P!Ids
<1>3. pane' = [pane EXCEPT ![nextID'] = new]
  BY DEF P!Begin, P!Set
<1> HIDE DEF new
<1> QED
  BY <1>1, <1>2, <1>3 DEF MayStart, PanesTyped

\* Everything beside Update, and the handlers of its other messages and keys, start nothing
\* that startRun was not asked for before.
LEMMA DiesKeeps ==
  ASSUME PanesTyped, NEW id \in P!Ids, NEW killing \in BOOLEAN, P!Dies(id, killing)
  PROVE  Keeps
<1>1. PICK held \in {FALSE, (id \in Lingering)} :
        P!Set(id, [pane[id] EXCEPT !.proc = "dead", !.held = held, !.killing = killing])
  BY DEF P!Dies
<1>2. held \in BOOLEAN
  <2>1. CASE id \in Lingering
    <3>1. (id \in Lingering) = TRUE
      BY <2>1
    <3> QED
      BY <3>1
  <2>2. CASE id \notin Lingering
    <3>1. (id \in Lingering) = FALSE
      BY <2>2
    <3> QED
      BY <3>1
  <2> QED
    BY <2>1, <2>2
<1>3. pane[id] \in Panes
  BY DEF PanesTyped
<1> DEFINE q == [pane[id] EXCEPT !.proc = "dead", !.held = held, !.killing = killing]
<1>4. q \in Panes /\ q.start = pane[id].start /\ q.provider = pane[id].provider
  BY <1>2, <1>3 DEF Panes
<1>5. P!Set(id, q) /\ nextID' = nextID
  BY <1>1 DEF P!Dies
<1> HIDE DEF q
<1> QED
  BY <1>4, <1>5, ChangeKeeps

LEMMA BesideKeeps ==
  ASSUME PanesTyped, NEW id \in P!Ids, P!Beside(id)
  PROVE  Keeps
<1>0. pane[id] \in Panes
  BY DEF PanesTyped
<1>1. CASE P!StartReturns(id)
  <2> DEFINE s == [pane[id] EXCEPT !.start = "started", !.proc = "alive"]
             f == [pane[id] EXCEPT !.start = "failed"]
  <2>1. s \in Panes /\ f \in Panes /\ s.provider = pane[id].provider /\ f.provider = pane[id].provider
    BY <1>0 DEF Panes
  <2>2. (P!Set(id, s) \/ P!Set(id, f)) /\ nextID' = nextID /\ pane[id].start # "none"
    BY <1>1 DEF P!StartReturns
  <2> HIDE DEF s, f
  <2> QED
    BY <2>1, <2>2, ChangeKeeps
<1>2. CASE P!Exits(id)
  BY <1>0, <1>2, DiesKeeps DEF P!Exits, Panes
<1>3. CASE P!LetsGo(id)
  <2> DEFINE q == [pane[id] EXCEPT !.held = FALSE]
  <2>1. q \in Panes /\ q.start = pane[id].start /\ q.provider = pane[id].provider
    BY <1>0 DEF Panes
  <2>2. P!Set(id, q) /\ nextID' = nextID
    BY <1>3 DEF P!LetsGo
  <2> HIDE DEF q
  <2> QED
    BY <2>1, <2>2, ChangeKeeps
<1>4. CASE P!KillTimer(id)
  <2> DEFINE q == [pane[id] EXCEPT !.killing = FALSE]
  <2>1. q \in Panes /\ q.start = pane[id].start /\ q.provider = pane[id].provider
    BY <1>0 DEF Panes
  <2>2. P!Dies(id, FALSE) \/ (P!Set(id, q) /\ nextID' = nextID)
    BY <1>4 DEF P!KillTimer
  <2> HIDE DEF q
  <2> QED
    BY <2>1, <2>2, ChangeKeeps, DiesKeeps
<1>5. CASE P!ReadReturns(id)
  <2> DEFINE t == [pane[id] EXCEPT !.read = "text"]
             e == [pane[id] EXCEPT !.read = "error"]
  <2>1. /\ t \in Panes /\ t.start = pane[id].start /\ t.provider = pane[id].provider
        /\ e \in Panes /\ e.start = pane[id].start /\ e.provider = pane[id].provider
    BY <1>0 DEF Panes
  <2>2. (P!Set(id, t) \/ P!Set(id, e)) /\ nextID' = nextID
    BY <1>5 DEF P!ReadReturns
  <2> HIDE DEF t, e
  <2> QED
    BY <2>1, <2>2, ChangeKeeps
<1> QED
  BY <1>1, <1>2, <1>3, <1>4, <1>5 DEF P!Beside

LEMMA MessagesKeep ==
  ASSUME PanesTyped, NEW id \in P!Ids, P!StartedMsg(id) \/ P!OutputMsg(id)
  PROVE  Keeps
<1>0. pane[id] \in Panes
  BY DEF PanesTyped
<1>1. CASE P!StartedMsg(id)
  <2> DEFINE d == [pane[id] EXCEPT !.start = "done"]
             a == [pane[id] EXCEPT !.start = "done", !.read = "waiting"]
             c == P!Closed(d)
  <2>1. d \in Panes /\ a \in Panes /\ c \in Panes
    BY <1>0 DEF Panes, P!Closed
  <2>2. d.provider = pane[id].provider /\ a.provider = pane[id].provider /\ c.provider = pane[id].provider
    BY <1>0 DEF Panes, P!Closed
  <2>3. P!Set(id, d) \/ P!Set(id, a) \/ P!Set(id, c)
    BY <1>1 DEF P!StartedMsg, P!Added, P!Rejected
  <2>4. nextID' = nextID /\ pane[id].start # "none"
    BY <1>1 DEF P!StartedMsg
  <2> HIDE DEF d, a, c
  <2> QED
    BY <2>1, <2>2, <2>3, <2>4, ChangeKeeps
<1>2. CASE P!OutputMsg(id)
  <2> DEFINE n == [pane[id] EXCEPT !.read = "none"]
             w == [pane[id] EXCEPT !.read = "waiting"]
             g == [pane[id] EXCEPT !.read = "writing"]
             c == P!MarkedClosed(id)
  <2>1. n \in Panes /\ w \in Panes /\ g \in Panes /\ c \in Panes
    BY <1>0 DEF Panes, P!Closed, P!MarkedClosed
  <2>2. /\ n.provider = pane[id].provider /\ n.start = pane[id].start
        /\ w.provider = pane[id].provider /\ w.start = pane[id].start
        /\ g.provider = pane[id].provider /\ g.start = pane[id].start
        /\ c.provider = pane[id].provider /\ c.start = pane[id].start
    BY <1>0 DEF Panes, P!Closed, P!MarkedClosed
  <2>3. P!Set(id, n) \/ P!Set(id, w) \/ P!Set(id, g) \/ P!Set(id, c)
    BY <1>2 DEF P!OutputMsg
  <2>4. nextID' = nextID
    BY <1>2 DEF P!OutputMsg
  <2> HIDE DEF n, w, g, c
  <2> QED
    BY <2>1, <2>2, <2>3, <2>4, ChangeKeeps
<1> QED
  BY <1>1, <1>2

LEMMA KeysKeep ==
  ASSUME PanesTyped,
         P!ConfirmStop \/ P!CancelStop \/ P!AskStop \/ P!Cycle(1) \/ P!Cycle(-1) \/ P!Quit
  PROVE  Keeps
<1>1. CASE P!ConfirmStop /\ P!Open(P!Active)
  <2> DEFINE id == P!Active
             q == [pane[id] EXCEPT !.waited = TRUE, !.killing = TRUE]
  <2>1. CASE id \in P!Ids
    <3>1. q \in Panes /\ q.start = pane[id].start /\ q.provider = pane[id].provider
      BY <2>1 DEF PanesTyped, Panes
    <3>2. P!Set(id, q) /\ nextID' = nextID
      BY <1>1 DEF P!ConfirmStop, P!Stop
    <3> HIDE DEF q, id
    <3> QED
      BY <2>1, <3>1, <3>2, ChangeKeeps
  <2>2. CASE id \notin P!Ids
    <3>1. pane' = pane /\ nextID' = nextID
      BY <1>1, <2>2 DEF P!ConfirmStop, P!Stop, P!Set, PanesTyped
    <3> QED
      BY <3>1, StutterKeeps
  <2> QED
    BY <2>1, <2>2
<1>2. CASE P!Quit
  <2>1. \A id \in P!Ids : /\ P!Closed(pane[id]) \in Panes
                          /\ P!Closed(pane[id]).start = pane[id].start
                          /\ P!Closed(pane[id]).provider = pane[id].provider
    BY DEF PanesTyped, Panes, P!Closed
  <2> QED
    BY <1>2, <2>1 DEF P!Quit, Keeps, PanesTyped
<1>3. CASE (P!ConfirmStop /\ ~P!Open(P!Active)) \/ P!CancelStop \/ P!AskStop \/ P!Cycle(1) \/ P!Cycle(-1)
  <2>1. pane' = pane /\ nextID' = nextID
    BY <1>3 DEF P!ConfirmStop, P!CancelStop, P!AskStop, P!Cycle
  <2> QED
    BY <2>1, StutterKeeps
<1> QED
  BY <1>1, <1>2, <1>3

-----------------------------------------------------------------------------
LEMMA InitInv == Init => Inv
<1> SUFFICES ASSUME Init PROVE Inv
  OBVIOUS
<1>1. pane = [id \in P!Ids |-> P!NoPane] /\ nextID = 0
  BY DEF Init, P!Init
<1>2. P!NoPane \in Panes /\ P!NoPane.start = "none"
  BY DEF P!NoPane, Panes
<1>3. allowed \subseteq consented
  BY AllowedIsWished DEF Init
<1> QED
  BY <1>1, <1>2, <1>3 DEF Init, Inv, PanesTyped, StartedAsAllowed

\* A step that starts nothing, or what is allowed, and opens the launcher only where actions
\* are allowed, keeps the invariant.
LEMMA StepKeepsInv ==
  ASSUME Inv, UNCHANGED optionVars, launcher' \in BOOLEAN, launcher' => "act" \in allowed,
         \/ Keeps
         \/ MayStart("run") /\ "act" \in allowed
         \/ MayStart("shell") /\ "shell" \in allowed
  PROVE  Inv'
<1>1. PanesTyped' /\ P!Ids = P!Ids'
  BY DEF Keeps, MayStart, P!Ids
<1>2. StartedAsAllowed'
  BY <1>1 DEF Inv, StartedAsAllowed, Keeps, MayStart, Kind, optionVars
<1> QED
  BY <1>1, <1>2 DEF Inv, optionVars

\* Whether a shell is opened or an open one shown, and by key or click, it is allowed.
LEMMA OpenShellStarts ==
  ASSUME Inv, OpenShell
  PROVE  /\ Keeps \/ (MayStart("shell") /\ "shell" \in allowed)
         /\ launcher' = launcher
<1>1. CASE "shell" \in allowed
  <2>1. P!Begin("shell") \/ (pane' = pane /\ nextID' = nextID)
    BY <1>1 DEF OpenShell, P!OpenShell
  <2>2. launcher' = launcher
    BY <1>1 DEF OpenShell, Stays
  <2> QED
    BY <1>1, <2>1, <2>2, BeginStarts, StutterKeeps DEF Inv
<1>2. CASE "shell" \notin allowed
  BY <1>2, StutterKeeps DEF OpenShell, Nothing, paneVars, formVars, Inv
<1> QED
  BY <1>1, <1>2

LEMMA SpawnStarts ==
  ASSUME Inv, NEW open, Spawn(open)
  PROVE  MayStart("run") /\ launcher' = open
BY BeginStarts DEF Spawn, P!SpawnRun, Inv

\* Whoever takes the key.
LEMMA KeyKeepsInv ==
  ASSUME Inv, UNCHANGED optionVars, NEW k, Key(k)
  PROVE  Inv'
<1>1. CASE Nothing
  BY <1>1, StutterKeeps, StepKeepsInv DEF Nothing, paneVars, formVars, Inv
<1>2. ASSUME NEW l \in BOOLEAN, OnForms(launcher' = l), l => "act" \in allowed
      PROVE  Inv'
  BY <1>2, StutterKeeps, StepKeepsInv DEF OnForms, paneVars, Inv
<1>3. CASE /\ UNCHANGED formVars
           /\ P!ConfirmStop \/ P!CancelStop \/ P!AskStop \/ P!Cycle(1) \/ P!Cycle(-1) \/ P!Quit
  BY <1>3, KeysKeep, StepKeepsInv DEF formVars, Inv
<1>4. CASE OpenShell
  BY <1>4, OpenShellStarts, StepKeepsInv DEF Inv
<1>5. CASE "act" \in allowed /\ \E open \in {FALSE, launcher} : Spawn(open)
  BY <1>5, SpawnStarts, StepKeepsInv DEF Inv
<1>6. CASE RequestRefresh
  BY <1>6, StutterKeeps, StepKeepsInv DEF RequestRefresh, paneVars, formVars, Inv
<1>7. CASE launcher /\ LauncherKey(k)
  BY <1>1, <1>2, <1>5, <1>7 DEF LauncherKey, OnForms, Inv
<1>8. CASE ConfirmKey(k)
  BY <1>1, <1>3, <1>8 DEF ConfirmKey, OnPanes
<1>9. CASE FilterKey(k)
  BY <1>1, <1>2, <1>3, <1>9 DEF FilterKey, OnForms, OnPanes, Inv
<1>10. CASE ShellKey(k)
  BY <1>1, <1>2, <1>3, <1>10 DEF ShellKey, OnForms, OnPanes, Stays, Inv
<1>11. CASE DashboardKey(k)
  BY <1>1, <1>2, <1>3, <1>4, <1>5, <1>6, <1>11 DEF DashboardKey, OnForms, OnPanes, Stays, Inv
<1> QED
  BY <1>7, <1>8, <1>9, <1>10, <1>11 DEF Key

LEMMA ClickKeepsInv ==
  ASSUME Inv, UNCHANGED optionVars, Click
  PROVE  Inv'
<1>1. CASE UNCHANGED paneVars /\ launcher' = launcher
  BY <1>1, StutterKeeps, StepKeepsInv DEF paneVars, Inv
<1>2. CASE OpenShell
  BY <1>2, OpenShellStarts, StepKeepsInv DEF Inv
<1>3. CASE RequestRefresh
  BY <1>1, <1>3 DEF RequestRefresh, formVars
<1> QED
  BY <1>1, <1>2, <1>3 DEF Click, OnForms, Stays

LEMMA NextInv == Inv /\ [Next]_vars => Inv'
<1> SUFFICES ASSUME Inv, [Next]_vars PROVE Inv'
  OBVIOUS
<1>1. CASE UserKey \/ Leave
  BY <1>1, KeyKeepsInv DEF UserKey, Leave, Updates, Looping
<1>2. CASE UserClick
  BY <1>2, ClickKeepsInv DEF UserClick, Updates, Looping
<1>3. CASE pane' = pane /\ nextID' = nextID /\ launcher' = launcher /\ UNCHANGED optionVars
  BY <1>3, StutterKeeps, StepKeepsInv DEF Inv
<1>4. CASE WantToLeave \/ Killed \/ EngineStep \/ StopEngine \/ UNCHANGED vars
  BY <1>3, <1>4 DEF WantToLeave, Updates, Looping, Nothing, Killed, OnPanes, P!Killed, EngineStep,
                    EngineOnly, StopEngine, vars, paneVars, formVars
<1>5. ASSUME NEW id \in P!Ids, PaneMsg(id)
      PROVE  Inv'
  BY <1>5, MessagesKeep, StepKeepsInv DEF PaneMsg, Updates, Looping, Stays, formVars, Inv
<1>6. ASSUME NEW id \in P!Ids, PaneBeside(id)
      PROVE  Inv'
  BY <1>6, BesideKeeps, StepKeepsInv DEF PaneBeside, Looping, OnPanes, formVars, Inv
<1> QED
  BY <1>1, <1>2, <1>4, <1>5, <1>6 DEF Next

\* Nothing is executed unless the user triggers it (model.go:135): whatever the flags, the
\* environment and the file say, and by whatever key or click, of any number of panes none
\* is started that the options, read level by level, do not allow.
THEOREM Consent == Spec => []OnlyWithConsent
<1>1. Inv => OnlyWithConsent
  BY DEF Inv, OnlyWithConsent, StartedAsAllowed, Kind
<1> QED
  BY <1>1, InitInv, NextInv, PTL DEF Spec

-----------------------------------------------------------------------------
\* Whatever takes the keys, a step of the panes in the program is a step of Panes.
LEMMA KeyIsPaneStep ==
  ASSUME NEW k, Key(k), ~quit
  PROVE  P!Next \/ UNCHANGED paneVars
<1>1. OpenShell => P!Next \/ UNCHANGED paneVars
  BY DEF OpenShell, Nothing, P!Next, P!User
<1>2. \A open : Spawn(open) => P!Next
  BY DEF Spawn, P!Next, P!User
<1>3. P!ConfirmStop \/ P!CancelStop \/ P!AskStop \/ P!Cycle(1) \/ P!Cycle(-1) \/ P!Quit => P!Next
  BY DEF P!Next, P!User
<1> QED
  BY <1>1, <1>2, <1>3 DEF Key, LauncherKey, ConfirmKey, FilterKey, ShellKey, DashboardKey,
     OnPanes, OnForms, Nothing, RequestRefresh

LEMMA StepIsPaneStep == [Next]_vars => [P!Next]_(P!vars)
<1> SUFFICES ASSUME [Next]_vars PROVE P!Next \/ UNCHANGED paneVars
  BY DEF P!vars, paneVars
<1>1. CASE UserKey \/ Leave
  BY <1>1, KeyIsPaneStep DEF UserKey, Leave, Updates, Looping
<1>2. CASE UserClick
  BY <1>2 DEF UserClick, Click, OnForms, OpenShell, RequestRefresh, Nothing, P!Next, P!User
<1>3. CASE WantToLeave \/ EngineStep \/ StopEngine \/ UNCHANGED vars
  BY <1>3 DEF WantToLeave, Nothing, EngineStep, StopEngine, EngineOnly, vars
<1>4. CASE Killed
  BY <1>4 DEF Killed, OnPanes, P!Next
<1>5. ASSUME NEW id \in P!Ids, PaneMsg(id) PROVE P!Next
  BY <1>5 DEF PaneMsg, P!Next, P!Messages
<1>6. ASSUME NEW id \in P!Ids, PaneBeside(id) PROVE P!Next
  BY <1>6 DEF PaneBeside, Looping, OnPanes, P!Next
<1> QED
  BY <1>1, <1>2, <1>3, <1>4, <1>5, <1>6 DEF Next

\* The program implements Panes: overlays, focus and the engine take nothing from it and
\* add nothing to it, so that what PanesProofs says of the panes holds of the program.
THEOREM ProgramRunsPanes == Spec => P!Spec
BY StepIsPaneStep, PTL DEF Spec, Init, P!Spec
=============================================================================
