----------------------------- MODULE Transcripts -----------------------------
(***************************************************************************)
(* The transcript scanners of the four adapters: a scan visits every       *)
(* recent transcript, tails it and folds the new lines into what it has    *)
(* accumulated for that path; at its end the tailer and the adapter forget *)
(* the paths it did not see.  Agents write between any two of its steps.   *)
(*                                                                         *)
(* The adapters differ in what a line counts for, in what makes a          *)
(* transcript too old to list, and in how a session's status is derived.   *)
(* A path may occur twice among a scan's Paths: a manifest has several     *)
(* globs, and a file may match more than one.                              *)
(*                                                                         *)
(* Here every line of a transcript is one byte, its newline: TailFile then *)
(* counts lines.  Every line is a message.  A line of a claude transcript  *)
(* reports the usage of one token; one of a codex rollout reports the      *)
(* running total, the odd ones start a task and the even ones complete it. *)
(***************************************************************************)
EXTENDS TailFile, Sequences, FiniteSets

CONSTANTS Paths,      \* transcripts, in the order a scan visits them
          KindOf,     \* path -> "claude", "codex", "cursor" or "manifest"
          Window,     \* transcriptTailBytes, rolloutTailBytes, fileTailBytes
          Inodes,
          StartSizes, \* bound: lines a transcript may have when the program starts
          Faults      \* what may go wrong: see TailLines and PassOver

PathSet == {Paths[i] : i \in 1 .. Len(Paths)}

ASSUME TranscriptsAssumption ==
  /\ Paths \in Seq(PathSet)
  /\ KindOf \in [PathSet -> {"claude", "codex", "cursor", "manifest"}]
  /\ \A i, j \in 1 .. Len(Paths) :
       i # j /\ Paths[i] = Paths[j] => KindOf[Paths[i]] = "manifest"
  /\ Window \in Nat \ {0} /\ Inodes \subseteq Nat \ {0} /\ StartSizes \subseteq 0 .. MaxSize
  /\ Faults \subseteq {"unreadable", "unlisted", "reused"}

VARIABLES
  file,      \* path -> its file
  age,       \* path -> how long ago it was written: "busy" (up to busyWithin),
             \* "idle" (up to idleWithin or liveWindow), "quiet" (longer)
  old,       \* paths that are not listed any more: last written before the cutoff,
             \* or, in codex, kept under a date before it
  tails,     \* the tailer's states
  states,    \* the adapter's states: path -> [known, turns, tokens]
  visit,     \* the scan: number of paths done, or Idle
  looked,    \* the scan: the age it saw of the current path, or NotYet
  seen,      \* the scan: the paths it has seen
  sessions,  \* the scan: path -> [shown, turns, tokens, status]
  start      \* history: line each path was folded from, since it is known

agentVars == <<file, age, old>>
scanVars == <<tails, states, visit, looked, seen, sessions, start>>
vars == <<file, age, old, tails, states, visit, looked, seen, sessions, start>>

Idle == -1
NotYet == "not yet"

Of(kind) == {p \in PathSet : KindOf[p] = kind}

Unknown == [known |-> FALSE, turns |-> 0, tokens |-> 0]
Unshown == [shown |-> FALSE, turns |-> 0, tokens |-> 0, status |-> "done"]

\* A transcript of n lines.
Transcript(i, n) ==
  [exists |-> TRUE, gen |-> 0, ino |-> i, size |-> n, mtime |-> n, nls |-> 1 .. n]

Init ==
  /\ \E n \in [PathSet -> StartSizes], i \in [PathSet -> Inodes] :
       file = [p \in PathSet |-> Transcript(i[p], n[p])]
  /\ age = [p \in PathSet |-> "quiet"]
  /\ old = {}
  /\ tails = [p \in PathSet |-> None]
  /\ states = [p \in PathSet |-> Unknown]
  /\ visit = Idle /\ looked = NotYet
  /\ seen = {}
  /\ sessions = [p \in PathSet |-> Unshown]
  /\ start = [p \in PathSet |-> 0]

-----------------------------------------------------------------------------
\* The agents: a message is appended, or time passes since the last one.  A rollout
\* stays under the date its session began on, whatever is written to it later.
Write(p) ==
  /\ file[p].size < MaxSize
  /\ file' = [file EXCEPT ![p] = Transcript(@.ino, @.size + 1)]
  /\ age' = [age EXCEPT ![p] = "busy"]
  /\ old' = IF KindOf[p] = "codex" THEN old ELSE old \ {p}
  /\ UNCHANGED scanVars

Age(p) ==
  /\ age[p] # "quiet"
  /\ age' = [age EXCEPT ![p] = IF @ = "busy" THEN "idle" ELSE "quiet"]
  /\ UNCHANGED <<file, old, scanVars>>

AgeOut(p) ==
  /\ p \notin old /\ (KindOf[p] # "codex" => age[p] = "quiet")
  /\ old' = old \cup {p}
  /\ UNCHANGED <<file, age, scanVars>>

Agents == \E p \in PathSet : Write(p) \/ Age(p) \/ AgeOut(p)

-----------------------------------------------------------------------------
\* The last total among these lines.
LastTotal(ls) == CHOOSE n \in 1 .. MaxSize : \E l \in ls : l.to = n /\ \A m \in ls : m.to <= n

\* Mutants: a running total is added up; the fold begins anew with every read.
FoldedSums(p, s, ls) ==
  [known |-> TRUE, turns |-> s.turns + Cardinality(ls), tokens |-> s.tokens + Cardinality(ls)]
FoldedAnew(p, s, ls) ==
  [known |-> TRUE, turns |-> Cardinality(ls), tokens |-> Cardinality(ls)]

\* The adapters' folds: claude adds usage up, codex takes the last total, the others
\* have none.
Tokens(p, before, ls) ==
  CASE KindOf[p] = "claude" -> before + Cardinality(ls)
    [] KindOf[p] = "codex" -> IF ls = {} THEN before ELSE LastTotal(ls)
    [] OTHER -> before

Folded(p, s, ls) ==
  [known |-> TRUE, turns |-> s.turns + Cardinality(ls), tokens |-> Tokens(p, s.tokens, ls)]

\* deriveStatus of codex.
TaskRuns(s) == s.tokens % 2 = 1

\* Mutant: a task that began is running until it is said to be complete.
RolloutForever(s, seenAge) == IF TaskRuns(s) THEN "busy" ELSE "idle"

RolloutStatus(s, seenAge) ==
  IF seenAge = "quiet" THEN "done" ELSE IF TaskRuns(s) THEN "busy" ELSE "idle"

\* statusFromRecency of cursor and manifest.
RecencyStatus(seenAge) == IF seenAge = "quiet" THEN "done" ELSE seenAge

\* A claude session is done until a live process says otherwise: see Sessions.
Derived(p, s, seenAge) ==
  CASE KindOf[p] = "claude" -> "done"
    [] KindOf[p] = "codex" -> RolloutStatus(s, seenAge)
    [] OTHER -> RecencyStatus(seenAge)

\* Mutant: what was appended is noted and never read.
NotReadAgain(p, t, ls) == t = Noted(tails[p], file[p]) /\ ls = {}

\* The tailer's call: Lines for a known path, TailFrom for a new one.  It may fail
\* before it has a state of the path (Stat) or after (open, seek, read).
TailLines(p, t, ls) ==
  \/ /\ Same(tails[p], file[p]) /\ t = tails[p] /\ ls = {}
  \/ /\ ~Same(tails[p], file[p]) /\ Consume(Noted(tails[p], file[p]), file[p], t, ls)
  \/ /\ "unreadable" \in Faults /\ t = None /\ ls = {}

TailCold(p, t, ls) ==
  \/ Consume(Cold(file[p], Window), file[p], t, ls)
  \/ /\ "unreadable" \in Faults /\ t = None /\ ls = {}

Begin ==
  /\ visit = Idle
  /\ visit' = 0
  /\ seen' = {}
  /\ sessions' = [p \in PathSet |-> Unshown]
  /\ UNCHANGED <<agentVars, tails, states, looked, start>>

Scanning == visit # Idle /\ visit < Len(Paths)
Current == Paths[visit + 1]

\* Info of the directory entry, or Stat: its time is what the status is derived from.
Look ==
  /\ Scanning /\ looked = NotYet /\ Current \notin old
  /\ looked' = age[Current]
  /\ seen' = seen \cup {Current}
  /\ UNCHANGED <<agentVars, tails, states, visit, sessions, start>>

Tailed(p, t, ls) == IF states[p].known THEN TailLines(p, t, ls) ELSE TailCold(p, t, ls)

\* What the call can leave and return: a state of this file, some of its last lines.
StatesFor(f) ==
  {None} \cup {[Noted(None, f) EXCEPT !.offset = n, !.skipping = k] :
                n \in 0 .. MaxSize, k \in BOOLEAN}
LastLines(f) == {{l \in AllLines(f) : l.from >= n} : n \in 0 .. f.size}

Visit ==
  /\ Scanning /\ looked # NotYet
  /\ LET p == Current IN
       \E t \in StatesFor(file[p]), ls \in LastLines(file[p]) :
         /\ Tailed(p, t, ls)
         /\ tails' = [tails EXCEPT ![p] = t]
         /\ states' = [states EXCEPT ![p] = Folded(p, @, ls)]
         /\ sessions' = [sessions EXCEPT ![p] =
              [shown |-> TRUE, turns |-> states'[p].turns, tokens |-> states'[p].tokens,
               status |-> Derived(p, states'[p], looked)]]
         /\ start' = [start EXCEPT ![p] = IF states[p].known THEN @ ELSE t.offset - Cardinality(ls)]
  /\ visit' = visit + 1 /\ looked' = NotYet
  /\ UNCHANGED <<agentVars, seen>>

\* An old transcript is passed over.  So is one whose directory cannot be listed, whose
\* Stat fails, or that is left when the context ends.
PassOver ==
  /\ Scanning /\ looked = NotYet
  /\ Current \in old \/ "unlisted" \in Faults
  /\ visit' = visit + 1
  /\ UNCHANGED <<agentVars, tails, states, looked, seen, sessions, start>>

\* Mutant: only the adapter forgets.
AdapterForgets ==
  /\ states' = [p \in PathSet |-> IF p \in seen THEN states[p] ELSE Unknown]
  /\ UNCHANGED tails

\* The end of a scan: both forget what it has not seen.
Forget ==
  /\ tails' = [p \in PathSet |-> IF p \in seen THEN tails[p] ELSE None]
  /\ states' = [p \in PathSet |-> IF p \in seen THEN states[p] ELSE Unknown]

End ==
  /\ visit = Len(Paths)
  /\ Forget
  /\ visit' = Idle
  /\ UNCHANGED <<agentVars, looked, seen, sessions, start>>

Scan == Begin \/ Look \/ Visit \/ PassOver \/ End

Next == Agents \/ Scan
Spec == Init /\ [][Next]_vars

-----------------------------------------------------------------------------
\* README.md:294: "Message history and token usage are not invented"; tail.go:36: a
\* call returns the lines "appended to path since the previous call".  A scan never
\* shows a session with more turns or tokens than its transcript holds, whatever
\* was read, forgotten and read again before.
NothingInvented ==
  [][\A p \in PathSet :
       sessions'[p] # sessions[p] /\ sessions'[p].shown =>
         sessions'[p].turns <= file[p].size /\ sessions'[p].tokens <= file[p].size]_vars

\* Tailer and adapter agree about a path: what has been folded is what lies between
\* the line the path was begun at and the tailer's offset, and between scans the one
\* holds a path if and only if the other knows it.
FoldedOnce ==
  \A p \in PathSet :
    /\ states[p].known => states[p].turns = tails[p].offset - start[p]
    /\ visit = Idle => (states[p].known <=> tails[p].held)

\* The total of a rollout is right as of the last line read, even if the scan began
\* in the middle of it.
TotalsExact ==
  \A p \in Of("codex") :
    states[p].known /\ states[p].turns > 0 => states[p].tokens = tails[p].offset
=============================================================================
