------------------------------- MODULE Panes -------------------------------
(***************************************************************************)
(* internal/tui: the managed PTY panes, the local shell and the launched   *)
(* runs.  One goroutine, Update, takes keys, clicks and messages in turn;  *)
(* what runs beside it and answers with a message are the commands that    *)
(* start a process, the reads of the terminals and the timers that kill.   *)
(*                                                                         *)
(* Started with --act and --shell.  The focus is left out: a click moves   *)
(* it at any time, and with it which keys Update listens to.  Left out too *)
(* are the filter line and the launcher form, whose keys do nothing here   *)
(* before Enter.  Nothing is said of what runs on after the program quits. *)
(***************************************************************************)
EXTENDS Sequences, SequencesExt, Integers

CONSTANTS
  MaxPanes,   \* maxManagedSessions
  MaxRuns,    \* bound: panes ever asked for
  Lingering   \* panes whose process may leave children behind that hold its terminal

ASSUME PanesAssumption ==
  MaxPanes \in Nat \ {0} /\ MaxRuns \in Nat /\ Lingering \subseteq 1 .. MaxRuns

VARIABLES
  pane,      \* of each id: provider; start, the command startRun; proc; held, the
             \* terminal by a child left behind; closed; waited, cmd.Wait runs;
             \* read, the read under way or its message, or "writing" while Update is
             \* in session.write of its output for ever; killing, the timer of stop
  order,     \* m.runs.order; byID has the same ids
  active,    \* m.runs.active
  nextID,    \* m.runs.nextID
  confirm,   \* m.confirmStop
  quit       \* tea.Quit

vars == <<pane, order, active, nextID, confirm, quit>>

Ids == 1 .. MaxRuns
Nobody == 0
NoPane == [provider |-> "run", start |-> "none", proc |-> "none", held |-> FALSE,
           closed |-> FALSE, waited |-> FALSE, read |-> "none", killing |-> FALSE]

Init ==
  /\ pane = [id \in Ids |-> NoPane]
  /\ order = << >> /\ active = 0 /\ nextID = 0
  /\ confirm = FALSE /\ quit = FALSE

Shown == {order[i] : i \in 1 .. Len(order)}
Open(id) == id \in Shown /\ ~pane[id].closed

\* Update has not returned from a message, and takes no other message, key or click.
Hung == \E id \in Ids : pane[id].read = "writing"
Updating == ~quit /\ ~Hung
Active == IF order = << >> THEN Nobody ELSE order[active + 1]

\* The first of some positions in order.
First(positions) == {i \in positions : \A j \in positions : i <= j}

Set(id, changed) == pane' = [pane EXCEPT ![id] = changed]

-----------------------------------------------------------------------------
\* Keys and clicks.
Begin(provider) ==
  /\ nextID < MaxRuns
  /\ nextID' = nextID + 1
  /\ Set(nextID', [NoPane EXCEPT !.provider = provider, !.start = "running"])
  /\ UNCHANGED <<order, active, quit>>

\* s, or a click on it in the footer, which no question stops.
OpenShells == {i \in 1 .. Len(order) : Open(order[i]) /\ pane[order[i]].provider = "shell"}

OpenShell ==
  /\ Updating
  /\ UNCHANGED confirm
  /\ IF OpenShells = {}
     THEN Begin("shell")
     ELSE /\ \E i \in First(OpenShells) : active' = i - 1
          /\ UNCHANGED <<pane, order, nextID, quit>>

\* Enter in the launcher, or R on a resumable session.
SpawnRun ==
  /\ Updating /\ ~confirm
  /\ UNCHANGED confirm
  /\ Begin("run")

Cycle(delta) ==
  /\ Updating /\ ~confirm /\ order # << >>
  /\ active' = (active + delta + Len(order)) % Len(order)
  /\ UNCHANGED <<pane, order, nextID, confirm, quit>>

AskStop ==
  /\ Updating /\ ~confirm /\ Open(Active)
  /\ confirm' = TRUE
  /\ UNCHANGED <<pane, order, active, nextID, quit>>

\* y: SIGTERM, a timer, cmd.Wait.  The process may exit by it, or not.
\* Mutant: without the timer.
StoppedByTerm(id) == Set(id, [pane[id] EXCEPT !.waited = TRUE])

Stop(id) == Set(id, [pane[id] EXCEPT !.waited = TRUE, !.killing = TRUE])

ConfirmStop ==
  /\ Updating /\ confirm
  /\ confirm' = FALSE
  /\ IF Open(Active) THEN Stop(Active) ELSE UNCHANGED pane
  /\ UNCHANGED <<order, active, nextID, quit>>

CancelStop ==
  /\ Updating /\ confirm
  /\ confirm' = FALSE
  /\ UNCHANGED <<pane, order, active, nextID, quit>>

\* q or ctrl+c: closeAll.
Closed(p) == [p EXCEPT !.closed = TRUE, !.waited = TRUE]

Quit ==
  /\ Updating /\ ~confirm
  /\ quit' = TRUE
  /\ pane' = [id \in Ids |-> IF id \in Shown THEN Closed(pane[id]) ELSE pane[id]]
  /\ UNCHANGED <<order, active, nextID, confirm>>

\* The context of the program is cancelled: the loop ends and closes no pane.
Killed ==
  /\ Updating
  /\ quit' = TRUE
  /\ UNCHANGED <<pane, order, active, nextID, confirm>>

User ==
  \/ OpenShell \/ SpawnRun
  \/ Cycle(1) \/ Cycle(-1) \/ AskStop \/ ConfirmStop \/ CancelStop \/ Quit

-----------------------------------------------------------------------------
\* Beside Update: startRun, the processes, the reads, the timers.
StartReturns(id) ==
  /\ pane[id].start = "running"
  /\ \/ Set(id, [pane[id] EXCEPT !.start = "started", !.proc = "alive"])
     \/ Set(id, [pane[id] EXCEPT !.start = "failed"])
  /\ UNCHANGED <<order, active, nextID, confirm, quit>>

Dies(id, killing) ==
  /\ \E held \in {FALSE, (id \in Lingering)} :
       Set(id, [pane[id] EXCEPT !.proc = "dead", !.held = held, !.killing = killing])
  /\ UNCHANGED <<order, active, nextID, confirm, quit>>

Exits(id) == pane[id].proc = "alive" /\ Dies(id, pane[id].killing)

LetsGo(id) ==
  /\ pane[id].held
  /\ Set(id, [pane[id] EXCEPT !.held = FALSE])
  /\ UNCHANGED <<order, active, nextID, confirm, quit>>

\* SIGKILL fails harmlessly on a process that has exited.
KillTimer(id) ==
  /\ pane[id].killing
  /\ IF pane[id].proc = "alive"
     THEN Dies(id, FALSE)
     ELSE /\ Set(id, [pane[id] EXCEPT !.killing = FALSE])
          /\ UNCHANGED <<order, active, nextID, confirm, quit>>

InUse(id) == pane[id].proc = "alive" \/ pane[id].held

\* readPTY: output, or an error once nobody holds the terminal or it was closed.
ReadReturns(id) ==
  /\ pane[id].read = "waiting"
  /\ \/ InUse(id) /\ ~pane[id].closed /\ Set(id, [pane[id] EXCEPT !.read = "text"])
     \/ (~InUse(id) \/ pane[id].closed) /\ Set(id, [pane[id] EXCEPT !.read = "error"])
  /\ UNCHANGED <<order, active, nextID, confirm, quit>>

-----------------------------------------------------------------------------
\* Update, on ptyStartedMsg: add.
\* Mutants: the oldest pane goes, exited or not; nobody goes.
EvictNobody(oldest) == order

EvictOldest(oldest) == Tail(order)

Exited == {i \in 1 .. Len(order) : pane[order[i]].closed}

EvictOldestExited(oldest) == RemoveAt(order, oldest)

Added(id, before) ==
  /\ order' = Append(before, id)
  /\ active' = Len(before)
  /\ Set(id, [pane[id] EXCEPT !.start = "done", !.read = "waiting"])

\* All panes are running: the new one is closed at once.
\* Mutant: it is only forgotten.
Refused(id) == Set(id, [pane[id] EXCEPT !.start = "done"]) /\ UNCHANGED <<order, active>>

Rejected(id) == Set(id, Closed([pane[id] EXCEPT !.start = "done"])) /\ UNCHANGED <<order, active>>

StartedMsg(id) ==
  /\ Updating
  /\ \/ /\ pane[id].start = "failed"
        /\ Set(id, [pane[id] EXCEPT !.start = "done"]) /\ UNCHANGED <<order, active>>
     \/ /\ pane[id].start = "started"
        /\ IF Len(order) < MaxPanes THEN Added(id, order)
           ELSE IF Exited # {} THEN \E i \in First(Exited) : Added(id, EvictOldestExited(i))
           ELSE Rejected(id)
  /\ UNCHANGED <<nextID, confirm, quit>>

\* Update, on ptyOutputMsg.
\* Mutant: the error is shown and the pane stays open.
NotedError(id) == [pane[id] EXCEPT !.read = "none"]

MarkedClosed(id) == Closed([pane[id] EXCEPT !.read = "none"])

\* Text is written to the screen, which Screen shows not to end for some texts: a tab whose
\* stop lies past the last column.
OutputMsg(id) ==
  /\ Updating /\ pane[id].read \in {"text", "error"}
  /\ IF id \notin Shown THEN Set(id, [pane[id] EXCEPT !.read = "none"])
     ELSE IF pane[id].read = "error" THEN Set(id, MarkedClosed(id))
     ELSE \/ Set(id, [pane[id] EXCEPT !.read = IF pane[id].closed THEN "none" ELSE "waiting"])
          \/ Set(id, [pane[id] EXCEPT !.read = "writing"])
  /\ UNCHANGED <<order, active, nextID, confirm, quit>>

Messages(id) == StartedMsg(id) \/ OutputMsg(id)
Beside(id) == StartReturns(id) \/ Exits(id) \/ LetsGo(id) \/ KillTimer(id) \/ ReadReturns(id)

Next == User \/ Killed \/ \E id \in Ids : Messages(id) \/ (~quit /\ Beside(id))

Spec == Init /\ [][Next]_vars

\* While Update returns, messages arrive in the end; reads return and timers fire;
\* processes need not exit.
\* A pane waits for one message or one read at a time.
Advances(id) == Messages(id) \/ (~quit /\ ReadReturns(id))

FairSpec ==
  /\ Spec
  /\ \A id \in Ids : WF_vars(Advances(id)) /\ WF_vars(~quit /\ KillTimer(id))

-----------------------------------------------------------------------------
\* Types; the panes are distinct and within the budget, and the active one is among
\* them (sessionManager.add, remove, cycle and openShell all move it).
TypeOK ==
  /\ pane \in [Ids -> [provider : {"shell", "run"},
                       start : {"none", "running", "started", "failed", "done"},
                       proc : {"none", "alive", "dead"}, held : BOOLEAN, closed : BOOLEAN,
                       waited : BOOLEAN, read : {"none", "waiting", "text", "writing", "error"},
                       killing : BOOLEAN]]
  /\ order \in Seq(Ids) /\ IsInjective(order) /\ Len(order) <= MaxPanes
  /\ active \in Nat /\ (order # << >> => active < Len(order))
  /\ nextID \in 0 .. MaxRuns /\ confirm \in BOOLEAN
  /\ quit \in BOOLEAN

\* Every open pane has exactly one read under way or one message of it to handle, and
\* no other has any: Update hears of each exit, and no pane is read twice.
OneReader == ~quit => \A id \in Ids : pane[id].read # "none" <=> Open(id)

\* A process that was started is shown in an open pane, or was hung up and is waited
\* for: a start that comes too late for the budget leaves no process behind.
NoOrphan ==
  \A id \in Ids : pane[id].start = "done" /\ pane[id].proc # "none" =>
    Open(id) \/ (pane[id].closed /\ pane[id].waited)

\* Until the user quits a running pane stays: eviction takes panes that have exited.
RunningPaneStays == [][\A id \in Ids : Open(id) => id \in Shown']_vars

\* A pane that the user has stopped, so that its process is waited for, is closed in the
\* end, even when the process ignores SIGTERM; unless a child of the process holds the
\* terminal, or Update hangs and takes no message.
StopClosesPane ==
  \A id \in Ids : pane[id].waited ~> pane[id].closed \/ pane[id].held \/ quit \/ Hung
=============================================================================
