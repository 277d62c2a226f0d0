------------------------------- MODULE Sessions -------------------------------
(***************************************************************************)
(* What the board says of each session: the scans of Transcripts together  *)
(* with the processes of the claude sessions and the files they keep in    *)
(* ~/.claude/sessions, one per process.  The claude adapter reads those    *)
(* files first, then its transcripts, and lays the one over the other.     *)
(*                                                                         *)
(* A session is named by its transcript.  The board keeps what a scan      *)
(* returned until the next one ends, as the engine's cache does.           *)
(*                                                                         *)
(* Agents, processes and faults make MaxChanges changes at most.           *)
(***************************************************************************)
EXTENDS Transcripts

CONSTANTS Pids,         \* processes, in the order of their files' names
          NoSession,    \* no file, or the file of no session
          MaxChanges    \* bound: changes of the agents, and faults

ASSUME SessionsAssumption ==
  /\ \A i, j \in 1 .. Len(Pids) : Pids[i] = Pids[j] => i = j
  /\ NoSession \notin PathSet /\ MaxChanges \in Nat

VARIABLES
  procs,     \* process -> alive; own, it is the one that wrote the file; names, the
             \* session its file names; status, what its file says
  readPids,  \* scanLiveSessions: number of files done
  live,      \* scanLiveSessions: session -> its status, or Absent
  board,     \* session -> the status last published, or Absent
  changes    \* bound

procVars == <<procs, readPids, live, board>>
allVars == <<vars, procVars, changes>>

Absent == "absent"
PidSet == {Pids[i] : i \in 1 .. Len(Pids)}
NoProc == [alive |-> FALSE, own |-> FALSE, names |-> NoSession, status |-> "idle"]

SessionsInit ==
  /\ Init
  /\ procs = [k \in PidSet |-> NoProc]
  /\ readPids = 0
  /\ live = [p \in PathSet |-> Absent]
  /\ board = [p \in PathSet |-> Absent]
  /\ changes = 0

Change(A) == changes < MaxChanges /\ changes' = changes + 1 /\ A
ScanOnly(A) == A /\ UNCHANGED <<procs, changes>>

-----------------------------------------------------------------------------
\* The processes.  One that crashes leaves its file behind, and its number may be given
\* to another program.
Process(k, changed) ==
  /\ procs' = [procs EXCEPT ![k] = changed]
  /\ UNCHANGED <<vars, readPids, live, board>>

RunsIt(k, p) == procs[k].alive /\ procs[k].names = p

Starts(k, p) ==
  /\ ~procs[k].alive /\ \A j \in PidSet : ~RunsIt(j, p)
  /\ Process(k, [alive |-> TRUE, own |-> TRUE, names |-> p, status |-> "idle"])

Turns(k) ==
  /\ procs[k].alive /\ procs[k].own
  /\ Process(k, [procs[k] EXCEPT !.status = IF @ = "idle" THEN "busy" ELSE "idle"])

Exits(k) == procs[k].alive /\ procs[k].own /\ Process(k, NoProc)

Crashes(k) ==
  /\ procs[k].alive
  /\ Process(k, [procs[k] EXCEPT !.alive = FALSE, !.own = FALSE])

Reused(k) ==
  /\ "reused" \in Faults /\ ~procs[k].alive /\ procs[k].names # NoSession
  /\ Process(k, [procs[k] EXCEPT !.alive = TRUE])

Processes ==
  \E k \in PidSet :
    (\E p \in Of("claude") : Starts(k, p)) \/ Turns(k) \/ Exits(k) \/ Crashes(k) \/ Reused(k)

-----------------------------------------------------------------------------
\* scanLiveSessions.
\* Mutant: the file is trusted, whether or not its process runs.
TrustedStatus(k) == procs[k].status

LiveStatus(k) == IF procs[k].alive THEN procs[k].status ELSE "done"

ReadingPids == visit = 0 /\ readPids < Len(Pids)

ReadPid ==
  /\ ReadingPids
  /\ LET k == Pids[readPids + 1] IN
       live' = IF procs[k].names = NoSession THEN live
               ELSE [live EXCEPT ![procs[k].names] = LiveStatus(k)]
  /\ readPids' = readPids + 1
  /\ UNCHANGED <<vars, board>>

\* The file is gone since it was listed, or cannot be read.
PassOverPid ==
  /\ ReadingPids /\ "unlisted" \in Faults
  /\ readPids' = readPids + 1
  /\ UNCHANGED <<vars, procs, live, board>>

BeginSnapshot ==
  /\ Begin
  /\ readPids' = 0 /\ live' = [p \in PathSet |-> Absent]
  /\ UNCHANGED board

ScanTranscripts ==
  /\ ~ReadingPids
  /\ Look \/ Visit
  /\ UNCHANGED <<readPids, live, board>>

\* mergeSessions.
\* Mutant: only sessions with a transcript are listed.
Overlaid(p) ==
  IF ~sessions[p].shown THEN Absent
  ELSE IF live[p] = Absent THEN sessions[p].status ELSE live[p]

Merged(p) ==
  IF live[p] # Absent THEN live[p]
  ELSE IF sessions[p].shown THEN sessions[p].status
  ELSE Absent

Publish ==
  /\ End
  /\ board' = [p \in PathSet |-> Merged(p)]
  /\ UNCHANGED <<readPids, live>>

ScanStep == ScanOnly(BeginSnapshot \/ ReadPid \/ ScanTranscripts \/ Publish)

PassOverOld == ScanOnly(~ReadingPids /\ PassOver /\ Current \in old /\ UNCHANGED procVars)

Faulty ==
  Change(PassOverPid \/ (~ReadingPids /\ PassOver /\ Current \notin old /\ UNCHANGED procVars))

Outside == Change((Agents /\ UNCHANGED procVars) \/ Processes)

SessionsNext == ScanStep \/ PassOverOld \/ Faulty \/ Outside

\* The engine polls for ever, and a scan comes to its end.
SessionsSpec ==
  SessionsInit /\ [][SessionsNext]_allVars /\ WF_allVars(ScanStep \/ PassOverOld)

-----------------------------------------------------------------------------
\* sessions.go:35: "Files whose process no longer exists are demoted to done rather
\* than trusted."  However a process ends, and whatever file it leaves, its session is
\* not shown as running for ever; a process that got its number hides that.
Runs(p) == \E k \in PidSet : RunsIt(k, p)

GoneIsDone ==
  \A p \in Of("claude") : <>[](Runs(p) \/ board[p] \in {Absent, "done"})

\* README.md:11: "live busy/idle status per process".  A session whose process runs is
\* shown as its file says, with or without a transcript, provided no file that is
\* listed later names it too.
ListedLast(k) ==
  \E i \in 1 .. Len(Pids) :
    Pids[i] = k /\ \A j \in i + 1 .. Len(Pids) : procs[Pids[j]].names # procs[k].names

LiveIsShown ==
  \A k \in PidSet, p \in Of("claude") :
    <>[](RunsIt(k, p) /\ ListedLast(k) => board[p] = procs[k].status)

\* Nobody writes when an agent falls silent, so no event leads to a scan: the status of
\* the other kinds decays by the polls alone.
StatusDecays ==
  \A p \in PathSet \ Of("claude") : <>[](age[p] = "quiet" => board[p] \in {Absent, "done"})

\* Everything written is counted in the end and its session is on the board, unless the
\* transcript is too old: a scan that failed, or that looked just before the write, is
\* made up for by a later one.
TurnsArrive ==
  \A p \in PathSet :
    <>[](p \in old \/ (board[p] # Absent /\ tails[p].offset = file[p].size))
=============================================================================
