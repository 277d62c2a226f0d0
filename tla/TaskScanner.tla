----------------------------- MODULE TaskScanner -----------------------------
(***************************************************************************)
(* internal/claude/scan.go: the scanner of the task directories, with its  *)
(* cache of records by path.  Agents write the files at any moment, also   *)
(* between two calls of one scan.                                          *)
(*                                                                         *)
(* A scan lists the batches, then each batch, and for each file looks at   *)
(* it (Lstat), reads it and looks again: each of these is a step.  A       *)
(* stamp stands for size and mtime together, a payload for the contents:   *)
(* a file may be written twice within one tick of its file system's clock. *)
(* What normalizeTask makes of a payload is left out, and the warnings.    *)
(***************************************************************************)
EXTENDS Integers, FiniteSets

CONSTANTS
  Paths, Batches,   \* files whose name classify knows, and their directories
  BatchOf,          \* of each path
  TasksDir,         \* the directory of the batches
  Payloads,         \* what a file may hold
  Torn,             \* one of them: a file while it is written, no JSON
  NotCached,        \* for "no record"
  MaxStamp          \* bound: changes of the files

ASSUME ScannerAssumption ==
  /\ BatchOf \in [Paths -> Batches]
  /\ Torn \in Payloads /\ MaxStamp \in Nat
  /\ TasksDir \notin Batches /\ NotCached \notin Payloads

VARIABLES
  file,        \* of each path: form ("gone", "plain", "unreadable", "symlink" or
               \* "oversized"), stamp, payload
  clock,       \* changes so far, and so the last stamp there may be
  closed,      \* directories that cannot be listed
  cancelled,   \* ctx.Err() # nil
  cache,       \* Scanner.cache: of each path its stamp and payload, or NotCached
  pc,          \* "idle", "listing", "Lstat", "ReadFile", "LstatAgain" or "normalizing"
  batches,     \* entries of TasksDir still to be listed
  todo,        \* entries of the present batch still to be read
  at,          \* readRecord: path, stamp of before, payload
  records,     \* of each path: the payload returned by this scan, or NotCached
  world,       \* of each path: the payload published by the last scan, or NotCached
  since,       \* history: of each path, the payloads it had since the scan began
  blurred      \* history: paths with the stamps under which they had several payloads

scan == <<cache, pc, batches, todo, at, records, world>>
environment == <<file, clock, closed, cancelled, blurred>>
vars == <<file, clock, closed, cancelled, cache, pc, batches, todo, at, records, world, since,
          blurred>>

Nothing == [p \in Paths |-> NotCached]
Nowhere == [path |-> NotCached, stamp |-> 0, payload |-> Torn]

Init ==
  /\ file \in [Paths -> [form : {"gone", "plain"}, stamp : {0}, payload : Payloads \ {Torn}]]
  /\ clock = 0 /\ closed = {} /\ cancelled = FALSE
  /\ cache = Nothing /\ world = Nothing /\ records = Nothing
  /\ pc = "idle" /\ batches = {} /\ todo = {} /\ at = Nowhere
  /\ since = [p \in Paths |-> {}] /\ blurred = {}

-----------------------------------------------------------------------------
\* The agents.
Has(f) == IF f.form \in {"plain", "unreadable"} THEN {f.payload} ELSE {}

Becomes(p, f) ==
  /\ file' = [file EXCEPT ![p] = f]
  /\ since' = [since EXCEPT ![p] = @ \cup Has(f)]

Write ==
  /\ clock < MaxStamp /\ clock' = clock + 1
  /\ \E p \in Paths :
       \/ \E payload \in Payloads :
            Becomes(p, [form |-> "plain", stamp |-> clock', payload |-> payload])
       \/ \E form \in {"gone", "symlink", "oversized"} :
            Becomes(p, [file[p] EXCEPT !.form = form, !.stamp = clock'])
  /\ UNCHANGED <<closed, cancelled, blurred>> /\ UNCHANGED scan

\* As many bytes again, before the clock of the file system has ticked.
Rewrite ==
  /\ clock < MaxStamp /\ clock' = clock + 1
  /\ \E p \in Paths : \E payload \in Payloads \ {file[p].payload} :
       /\ file[p].form = "plain"
       /\ Becomes(p, [file[p] EXCEPT !.payload = payload])
       /\ blurred' = blurred \cup {<<p, file[p].stamp>>}
  /\ UNCHANGED <<closed, cancelled>> /\ UNCHANGED scan

\* A change of mode is not a change of mtime.
ChangeMode ==
  /\ clock < MaxStamp /\ clock' = clock + 1
  /\ \/ \E p \in Paths :
          /\ file[p].form = "plain" /\ Becomes(p, [file[p] EXCEPT !.form = "unreadable"])
          /\ UNCHANGED closed
     \/ /\ \E b \in Batches \cup {TasksDir} : closed' = IF b \in closed THEN closed \ {b} ELSE closed \cup {b}
        /\ UNCHANGED <<file, since>>
  /\ UNCHANGED <<cancelled, blurred>> /\ UNCHANGED scan

Cancel ==
  /\ ~cancelled /\ cancelled' = TRUE
  /\ UNCHANGED <<file, clock, closed, since, blurred>> /\ UNCHANGED scan

-----------------------------------------------------------------------------
\* snapshotRecords.
Begin ==
  /\ pc = "idle" /\ pc' = "listing"
  /\ batches' = IF cancelled \/ TasksDir \in closed THEN {} ELSE Batches
  /\ records' = Nothing
  /\ since' = [p \in Paths |-> Has(file[p])]
  /\ UNCHANGED <<cache, todo, at, world>> /\ UNCHANGED environment

Listed(b) == {p \in Paths : BatchOf[p] = b /\ file[p].form # "gone"}

ListBatch ==
  /\ pc = "listing" /\ todo = {} /\ ~cancelled
  /\ \E b \in batches :
       /\ batches' = batches \ {b}
       /\ todo' = IF b \in closed THEN {} ELSE Listed(b)
  /\ UNCHANGED <<cache, pc, at, records, world, since>> /\ UNCHANGED environment

\* readRecord.
Took(p, payload) == records' = [records EXCEPT ![p] = payload]

Skips == pc' = "listing" /\ at' = Nowhere /\ UNCHANGED <<cache, records>>

TooLate(p) == cancelled \/ file[p].form \in {"gone", "symlink", "oversized"}

\* Mutant: any record of the path will do.
HitByPath(p) == cache[p] # NotCached

Hit(p) == cache[p] # NotCached /\ cache[p].stamp = file[p].stamp

LstatBefore ==
  /\ pc = "listing"
  /\ \E p \in todo :
       /\ todo' = todo \ {p}
       /\ IF TooLate(p) THEN Skips
          ELSE IF Hit(p) THEN Took(p, cache[p].payload) /\ UNCHANGED <<cache, pc, at>>
          ELSE /\ at' = [path |-> p, stamp |-> file[p].stamp, payload |-> Torn]
               /\ pc' = "ReadFile"
               /\ UNCHANGED <<cache, records>>
  /\ UNCHANGED <<batches, world, since>> /\ UNCHANGED environment

\* os.ReadFile follows a link that has taken the place of the file.
ReadFile ==
  /\ pc = "ReadFile"
  /\ LET p == at.path IN
       IF cancelled \/ file[p].form \in {"gone", "unreadable"} THEN Skips
       ELSE /\ at' = [at EXCEPT !.payload = file[p].payload]
            /\ pc' = "LstatAgain"
            /\ UNCHANGED <<cache, records>>
  /\ UNCHANGED <<batches, todo, world, since>> /\ UNCHANGED environment

\* Mutant: what was read is stored under what the file is now.
LstatAfterUnchecked ==
  /\ pc = "LstatAgain"
  /\ Took(at.path, at.payload)
  /\ cache' = [cache EXCEPT ![at.path] = [stamp |-> file[at.path].stamp, payload |-> at.payload]]
  /\ pc' = "listing" /\ at' = Nowhere
  /\ UNCHANGED <<batches, todo, world, since>> /\ UNCHANGED environment

SameAgain(p) == file[p].form # "gone" /\ file[p].stamp = at.stamp

LstatAfter ==
  /\ pc = "LstatAgain"
  /\ IF ~SameAgain(at.path) THEN Skips
     ELSE /\ Took(at.path, at.payload)
          /\ cache' = [cache EXCEPT ![at.path] = [stamp |-> at.stamp, payload |-> at.payload]]
          /\ pc' = "listing" /\ at' = Nowhere
  /\ UNCHANGED <<batches, todo, world, since>> /\ UNCHANGED environment

\* pruneCache, whichever way snapshotRecords returns.
\* Mutant: only when every batch was listed.
PrunedAtEnd(got) ==
  IF batches = {} THEN [p \in Paths |-> IF got[p] = NotCached THEN NotCached ELSE cache[p]] ELSE cache

Pruned(got) == [p \in Paths |-> IF got[p] = NotCached THEN NotCached ELSE cache[p]]

EndRecords ==
  /\ pc = "listing" /\ todo = {} /\ (batches = {} \/ cancelled)
  /\ cache' = Pruned(records)
  /\ pc' = "normalizing" /\ batches' = {}
  /\ UNCHANGED <<todo, at, records, world, since>> /\ UNCHANGED environment

\* ScanContext: what was read is published, or, once cancelled, some of it.
Publish ==
  /\ pc = "normalizing" /\ pc' = "idle"
  /\ \/ world' = records
     \/ cancelled /\ \E kept \in SUBSET Paths :
          world' = [p \in Paths |-> IF p \in kept THEN records[p] ELSE NotCached]
  /\ UNCHANGED <<cache, batches, todo, at, records, since>> /\ UNCHANGED environment

Scan == Begin \/ ListBatch \/ LstatBefore \/ ReadFile \/ LstatAfter \/ EndRecords \/ Publish

Next == Write \/ Rewrite \/ ChangeMode \/ Cancel \/ Scan

Spec == Init /\ [][Next]_vars

\* The engine's poll scans again and again, and a scan ends.
FairSpec == Spec /\ WF_vars(Scan)

-----------------------------------------------------------------------------
\* readRecord compares size and mtime, and cannot tell apart what a file holds under one
\* stamp: it may go on with what it read until the stamp changes.
Blurred(p, stamp) == <<p, stamp>> \in blurred

\* A record is cached under the size and mtime of the file it was read from: as long
\* as the file has them its payload is the one cached, but for a file rewritten under them.
\* readRecord looks before and after it reads, so that a write in between is never stored
\* under either stamp.  Once a scan is over, the cache holds the records it returned and no
\* others, also when it was cancelled halfway (README.md:225).
CacheIsTrue ==
  \A p \in Paths :
    /\ cache[p] # NotCached /\ file[p].stamp = cache[p].stamp =>
         file[p].payload = cache[p].payload \/ Blurred(p, cache[p].stamp)
    /\ pc = "normalizing" =>
         IF records[p] = NotCached THEN cache[p] = NotCached ELSE cache[p].payload = records[p]

\* Every record a scan returns is what its file held at some moment of that scan,
\* also when it comes from the cache, but for a file rewritten under the stamp it is cached
\* with; what was no regular file all along returns none.
RecordsAreOfThisScan ==
  \A p \in Paths : pc # "idle" /\ records[p] # NotCached =>
    records[p] \in since[p] \/ Blurred(p, cache[p].stamp)

\* Once the files are left alone, what is published is what they hold: a file that
\* changed while it was read is read again ("retrying next refresh").  Not so one that was
\* rewritten under the stamp it has.
UpToDate ==
  \A p \in Paths :
    \/ world[p] = IF file[p].form = "plain" /\ {TasksDir, BatchOf[p]} \cap closed = {}
                  THEN file[p].payload ELSE NotCached
    \/ Blurred(p, file[p].stamp)

CatchesUp ==
  (clock = MaxStamp /\ ~cancelled /\ \A p \in Paths : file[p].form # "unreadable")
    ~> (UpToDate \/ cancelled)
=============================================================================
