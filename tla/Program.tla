-------------------------------- MODULE Program --------------------------------
(***************************************************************************)
(* The dashboard as a program: Run starts the engine beside the event loop *)
(* of the user interface.  The loop takes keys, clicks and messages one at *)
(* a time and gives each key to whoever listens: the launcher, the         *)
(* question before a stop, the filter line, the active pane or the         *)
(* dashboard.  The engine sends each world it has scanned and waits until  *)
(* the loop takes it; a key asks it for a scan and waits for nothing.      *)
(*                                                                         *)
(* The panes are those of Panes, at most MaxRuns of them.  Of the panels   *)
(* only the right one matters: where the focus is on it, the keys go to    *)
(* the active pane.  It counts as clickable once the shell or the actions  *)
(* are allowed.  The keys that move a selection or the view, and what is   *)
(* typed into a form, are in Dashboard or left out.                        *)
(***************************************************************************)
EXTENDS Sequences, Integers, Options

CONSTANTS MaxPanes, MaxRuns, Lingering

ASSUME ProgramAssumption ==
  MaxPanes \in Nat \ {0} /\ MaxRuns \in Nat /\ Lingering \subseteq 1 .. MaxRuns

VARIABLES
  pane, order, active, nextID, confirm, quit,   \* Panes
  allowed,    \* m.allowShell, m.allowAct: a subset of {"shell", "act"}
  consented,  \* history: what the options allow, read level by level
  focus,      \* m.focus: "shell" or "elsewhere"
  filtering,  \* m.filtering
  launcher,   \* m.launcher.open
  epc,        \* Engine.Run: "scan", "send", "select", "exit"
  refreshCh,  \* a request waits in e.refreshCh
  done,       \* engineCtx is cancelled
  wanted,     \* history: a request was made and is not answered yet
  covers,     \* history: the scan under way began after it
  leaving     \* the key a user who wants to leave presses next, or "no"

P == INSTANCE Panes

paneVars == <<pane, order, active, nextID, confirm, quit>>
formVars == <<focus, filtering, launcher>>
optionVars == <<allowed, consented>>
askVars == <<refreshCh, wanted, covers>>
vars == <<paneVars, optionVars, formVars, epc, done, askVars, leaving>>

-----------------------------------------------------------------------------
\* Run, up to the event loop.  Without a provider that can act nothing is allowed.
Allowed(shell, act, actors) ==
  {x \in {"shell", "act"} : IF x = "shell" THEN ShellEnabled(shell) ELSE ActEnabled(act) /\ actors}

Wished(shell, act) ==
  {x \in {"shell", "act"} : Consented(IF x = "shell" THEN shell ELSE act)}

Init ==
  /\ P!Init
  /\ \E shell, act \in Sources, actors \in BOOLEAN :
       /\ ValidShell(shell)
       /\ allowed = Allowed(shell, act, actors)
       /\ consented = Wished(shell, act)
  /\ focus = "elsewhere" /\ filtering = FALSE /\ launcher = FALSE
  /\ epc = "scan" /\ refreshCh = FALSE /\ done = FALSE
  /\ wanted = FALSE /\ covers = FALSE
  /\ leaving = "no"

-----------------------------------------------------------------------------
\* The parts of a step of Update: on the panes, on the forms, on the engine.
Stays(f) == focus' = f /\ UNCHANGED <<filtering, launcher>>
NoAsk == UNCHANGED askVars
OnPanes(A) == A /\ UNCHANGED formVars /\ NoAsk
OnForms(A) == A /\ UNCHANGED paneVars /\ NoAsk
Nothing == UNCHANGED <<paneVars, formVars>> /\ NoAsk

\* r: a request while one waits is dropped.  Of the requests that are not answered
\* one is remembered, any of them.
\* Mutant: the channel has no room, and a request during a scan is lost.
AskWhenIdle == refreshCh' = (refreshCh \/ epc = "select")

Ask == refreshCh' = TRUE

RequestRefresh ==
  /\ Ask
  /\ \/ ~wanted /\ wanted' = TRUE /\ covers' = FALSE
     \/ UNCHANGED <<wanted, covers>>
  /\ UNCHANGED <<paneVars, formVars>>

\* s.
OpenShell ==
  IF "shell" \in allowed THEN P!OpenShell /\ Stays("shell") /\ NoAsk ELSE Nothing

Spawn(open) ==
  /\ P!SpawnRun
  /\ focus' = "shell" /\ launcher' = open /\ UNCHANGED filtering /\ NoAsk

\* Each handler knows its keys; the others, and those it can do nothing about, do nothing.
LauncherKey(k) ==
  \/ k = "esc" /\ OnForms(launcher' = FALSE /\ UNCHANGED <<focus, filtering>>)
  \/ k = "enter" /\ Spawn(FALSE)
  \/ k # "esc" /\ Nothing            \* enter, with an error; or typed

\* Mutant: only y and n are asked for.
ConfirmYesNo(k) ==
  \/ k = "y" /\ OnPanes(P!ConfirmStop)
  \/ k = "n" /\ OnPanes(P!CancelStop)
  \/ k \notin {"y", "n"} /\ Nothing

ConfirmKey(k) ==
  \/ k = "y" /\ OnPanes(P!ConfirmStop)
  \/ k \in {"n", "esc", "q"} /\ OnPanes(P!CancelStop)
  \/ k \notin {"y", "n", "esc", "q"} /\ Nothing

ShellKey(k) ==
  \/ k = "ctrl+o" /\ OnForms(Stays("elsewhere"))
  \/ k = "ctrl+]" /\ order # << >> /\ OnPanes(P!Cycle(1))
  \/ /\ k \notin {"ctrl+o", "ctrl+]"}
     /\ IF P!Open(P!Active) THEN Nothing ELSE OnForms(Stays("elsewhere"))

FilterKey(k) ==
  \/ k = "ctrl+c" /\ OnPanes(P!Quit)
  \/ k \in {"esc", "enter"} /\ OnForms(filtering' = FALSE /\ UNCHANGED <<focus, launcher>>)
  \/ k \notin {"ctrl+c", "esc", "enter"} /\ Nothing

DashboardKey(k) ==
  \/ k \in {"q", "ctrl+c"} /\ OnPanes(P!Quit)
  \/ k = "/" /\ OnForms(filtering' = TRUE /\ UNCHANGED <<focus, launcher>>)
  \/ k = "tab" /\ allowed # {} /\ OnForms(Stays("shell"))
  \/ k = "s" /\ OpenShell
  \/ k = "n" /\ "act" \in allowed /\ OnForms(launcher' = TRUE /\ UNCHANGED <<focus, filtering>>)
  \/ k = "R" /\ "act" \in allowed /\ Spawn(launcher)
  \/ k = "x" /\ "act" \in allowed /\ OnPanes(P!AskStop)
  \/ k = "[" /\ OnPanes(P!Cycle(-1))
  \/ k = "]" /\ OnPanes(P!Cycle(1))
  \/ k = "r" /\ RequestRefresh
  \/ k \in {"esc", "ctrl+o"} /\ Nothing

Keys == {"q", "ctrl+c", "esc", "enter", "ctrl+o", "ctrl+]", "/", "tab", "s", "n", "R", "x",
         "y", "[", "]", "r"}

Key(k) ==
  IF launcher THEN LauncherKey(k)
  ELSE IF confirm THEN ConfirmKey(k)
  ELSE IF filtering THEN FilterKey(k)
  ELSE IF focus = "shell" THEN ShellKey(k)
  ELSE DashboardKey(k)

\* The mouse reaches the panels and the footer whatever is open above them.
Click ==
  \/ \E f \in {"elsewhere"} \cup (IF allowed # {} THEN {"shell"} ELSE {}) : OnForms(Stays(f))
  \/ OnForms(filtering' = TRUE /\ UNCHANGED <<focus, launcher>>)
  \/ OpenShell
  \/ RequestRefresh

\* Before the program ends; and while Update takes keys, clicks and messages.
Looping == ~quit /\ UNCHANGED <<optionVars, epc, done>>
Updates == Looping /\ P!Updating

UserKey == Updates /\ leaving = "no" /\ (\E k \in Keys : Key(k)) /\ UNCHANGED leaving
UserClick == Updates /\ leaving = "no" /\ Click /\ UNCHANGED leaving

\* A user who wants to leave presses ctrl+o, esc and q in turn, and nothing else.
WantToLeave ==
  /\ Looping /\ leaving = "no"
  /\ leaving' = "ctrl+o"
  /\ Nothing

After(k) == CASE k = "ctrl+o" -> "esc" [] k = "esc" -> "q" [] k = "q" -> "ctrl+o"

Leave == Updates /\ leaving # "no" /\ Key(leaving) /\ leaving' = After(leaving)

\* What the panes send: a pane that was added takes the focus.
PaneMsg(id) ==
  /\ Updates /\ UNCHANGED leaving /\ NoAsk
  /\ \/ P!StartedMsg(id) /\ Stays(IF order' # order THEN "shell" ELSE focus)
     \/ P!OutputMsg(id) /\ UNCHANGED formVars

PaneBeside(id) == Looping /\ UNCHANGED leaving /\ OnPanes(P!Beside(id))

-----------------------------------------------------------------------------
\* The engine.
EngineOnly(A) == A /\ UNCHANGED <<paneVars, optionVars, formVars, leaving>>

Begins == epc' = "scan" /\ covers' = wanted /\ UNCHANGED <<wanted, done>>

TakeRefresh == epc = "select" /\ refreshCh /\ refreshCh' = FALSE /\ Begins
TakeOther == epc = "select" /\ UNCHANGED refreshCh /\ Begins

Scanned == epc = "scan" /\ epc' = "send" /\ NoAsk /\ UNCHANGED done

\* The loop takes SnapshotMsg, which Send waits for; once it has ended nobody waits for it.
Delivered ==
  /\ epc = "send" /\ P!Updating /\ epc' = "select"
  /\ wanted' = (wanted /\ ~covers) /\ UNCHANGED <<refreshCh, covers, done>>

SendDropped == epc = "send" /\ quit /\ epc' = "select" /\ NoAsk /\ UNCHANGED done

EngineExit == epc = "select" /\ done /\ epc' = "exit" /\ NoAsk /\ UNCHANGED done

Send == Scanned \/ Delivered \/ SendDropped

EngineStep == EngineOnly(TakeRefresh \/ TakeOther \/ Send \/ EngineExit)

\* The context of Run is cancelled by a signal: the loop ends and closes no pane.
Killed == Updates /\ UNCHANGED leaving /\ OnPanes(P!Killed)

\* program.Run has returned.
StopEngine == EngineOnly(quit /\ ~done /\ done' = TRUE /\ NoAsk /\ UNCHANGED epc)

Next ==
  \/ UserKey \/ UserClick \/ WantToLeave \/ Leave \/ Killed
  \/ \E id \in P!Ids : PaneMsg(id) \/ PaneBeside(id)
  \/ EngineStep \/ StopEngine

Spec == Init /\ [][Next]_vars

\* While Update returns messages are taken; reads return and timers fire, as in Panes; scans
\* end; Go's select takes a ready case at random; a user who wants to leave goes on.
FairSpec ==
  /\ Spec
  /\ \A id \in P!Ids :
       /\ WF_vars(PaneMsg(id) \/ (Looping /\ UNCHANGED leaving /\ OnPanes(P!ReadReturns(id))))
       /\ WF_vars(Looping /\ UNCHANGED leaving /\ OnPanes(P!KillTimer(id)))
  /\ WF_vars(EngineOnly(Send)) /\ WF_vars(StopEngine)
  /\ SF_vars(EngineOnly(TakeRefresh)) /\ SF_vars(EngineOnly(EngineExit))
  /\ WF_vars(Leave)

-----------------------------------------------------------------------------
\* model.go:135: "Nothing is executed unless the user triggers it".  A shell or a run is
\* only ever started where the options, read level by level, allow it: whatever the
\* combination of flags, environment and file, and by whatever key or click.
OnlyWithConsent ==
  \A id \in P!Ids :
    pane[id].start # "none" =>
      (IF pane[id].provider = "shell" THEN "shell" ELSE "act") \in consented

\* A confirmed stop closes the pane in the end, whatever takes the keys meanwhile; held
\* terminals and a hung Update excepted.
StopClosesPane == P!StopClosesPane

\* Whatever is open, focused or being typed, and whatever starts meanwhile, a user who
\* presses ctrl+o, esc and q in turn ends the program; and however it ends, the engine
\* ends too, even while it waits for the loop to take a world.  Not so when Update hangs in
\* the output of a pane (MCScreen_tab shows how): then no key is taken any more.
AlwaysAWayOut == leaving # "no" \/ quit ~> epc = "exit" \/ P!Hung

\* A user who asked for a refresh is shown a world that was scanned after it, although
\* the key waits for nothing, a request may be dropped, and a scan may be under way; unless
\* Update hangs, and with it the engine in Send.
RefreshShown == wanted ~> ~wanted \/ quit \/ P!Hung
=============================================================================
