------------------------------- MODULE Tailer -------------------------------
(***************************************************************************)
(* One path tailed by a core/tail Tailer while another process writes it.  *)
(*                                                                         *)
(* A call is two steps, because another process runs between them: the     *)
(* os.Stat at its start, and the open-and-read of consume.  A rename after *)
(* the open is the same as one after the read, so open and read are one    *)
(* step.  Between calls the caller may prune the path and begin again.     *)
(***************************************************************************)
EXTENDS TailFile

CONSTANTS Inodes,     \* inode numbers the file system may give
          LastN,      \* TailFrom's window
          MaxMtime,   \* bound: clock values of mtime
          MaxGen,     \* bound: replacements of the file
          Faults,     \* what else happens to the path: see the actions
          Racing      \* whether a file may be put there between Stat and open

ASSUME TailerAssumption ==
  /\ LastN \in Nat /\ MaxMtime \in Nat /\ MaxGen \in Nat
  /\ Inodes \subseteq Nat \ {0} /\ Inodes # {}
  /\ Faults \subseteq {"rotate", "reuse", "truncate", "outgrow", "delete", "unreadable"}
  /\ Racing \in BOOLEAN

VARIABLES
  file,      \* the file at the path
  st,        \* Tailer.states[path]
  pc,        \* "idle", or "open" between the Stat and the open of a call
  known,     \* the caller has begun with the path: it calls Lines, not TailFrom
  out,       \* the lines the last call returned
  emitted,   \* history: every line returned since the caller began
  base       \* history: generation tailed and the offset tailing began at

vars == <<file, st, pc, known, out, emitted, base>>

Init ==
  /\ \E k \in 0 .. MaxSize, i \in Inodes : \E ns \in SUBSET (1 .. k) :
       file = [exists |-> TRUE, gen |-> 0, ino |-> i, size |-> k, mtime |-> 0,
               nls |-> ns]
  /\ st = None
  /\ pc = "idle"
  /\ known \in BOOLEAN
  /\ out = {}
  /\ emitted = {}
  /\ base = [gen |-> 0, from |-> 0]

-----------------------------------------------------------------------------
\* A file truncated in place, which the tailer has not looked at since.
CutShort == st.held /\ st.ino = file.ino /\ base.gen # file.gen

\* The writer.  Two writes within one clock tick leave the same mtime.  The fault
\* "outgrow": a truncated file passes its old offset before the next call.
Append(k, ns) ==
  /\ file.exists
  /\ file.size + k <= MaxSize
  /\ CutShort => file.size + k < st.offset \/ "outgrow" \in Faults
  /\ \E t \in {file.mtime, file.mtime + 1} :
       /\ t <= MaxMtime
       /\ file' = [file EXCEPT !.size = @ + k, !.mtime = t, !.nls = @ \cup ns]
  /\ UNCHANGED <<st, pc, known, out, emitted, base>>

Appending ==
  \E k \in 1 .. MaxSize : \E ns \in SUBSET (file.size + 1 .. file.size + k) :
    Append(k, ns)

\* What else may happen to the path.
CanReplace(fault) == fault \in Faults /\ (Racing \/ pc = "idle")

Replacement(i, k, ns) ==
  [exists |-> TRUE, gen |-> file.gen + 1, ino |-> i, size |-> k,
   mtime |-> file.mtime, nls |-> ns]

\* The file system gives a new file an inode no earlier file at this path had,
\* unless it reuses the numbers it freed.
NewInodes ==
  {i \in Inodes : i > file.ino \/ ("reuse" \in Faults /\ i # file.ino)}

\* Another file is renamed over the path.
Rotate ==
  /\ CanReplace("rotate") /\ file.exists /\ file.gen < MaxGen
  /\ \E k \in 0 .. MaxSize, i \in NewInodes :
       \E ns \in SUBSET (1 .. k) : file' = Replacement(i, k, ns)
  /\ UNCHANGED <<st, pc, known, out, emitted, base>>

\* The file is truncated in place and goes on under the same inode, at a time of
\* its own: to a tailer that had read nothing of it (and is at the top of what
\* comes now), a file rewritten to its old size within one tick is unchanged.
Truncate ==
  /\ CanReplace("truncate") /\ file.exists /\ file.gen < MaxGen
  /\ file.mtime < MaxMtime
  /\ file' = [Replacement(file.ino, 0, {}) EXCEPT !.mtime = file.mtime + 1]
  /\ base' = IF st.held /\ st.ino = file.ino /\ st.offset = 0
               THEN [gen |-> file.gen + 1, from |-> 0] ELSE base
  /\ UNCHANGED <<st, pc, known, out, emitted>>

\* A file may go at any time, between the Stat and the open of a call too.
Delete ==
  /\ "delete" \in Faults /\ file.exists
  /\ file' = [file EXCEPT !.exists = FALSE]
  /\ UNCHANGED <<st, pc, known, out, emitted, base>>

\* A deleted file comes back.
Recreate ==
  /\ CanReplace("delete") /\ ~file.exists /\ file.gen < MaxGen
  /\ \E i \in NewInodes : file' = Replacement(i, 0, {})
  /\ UNCHANGED <<st, pc, known, out, emitted, base>>

Environment == Appending \/ Rotate \/ Truncate \/ Delete \/ Recreate

-----------------------------------------------------------------------------
\* Lines, for a caller that knows the path.
CallsLines == pc = "idle" /\ known

\* Stat, open, seek and read fail on a file that is gone, or on any file.
MayFail == ~file.exists \/ "unreadable" \in Faults

LinesMissing ==
  /\ CallsLines /\ MayFail
  /\ st' = None
  /\ out' = {}
  /\ UNCHANGED <<file, pc, known, emitted, base>>

LinesUnchanged ==
  /\ CallsLines /\ file.exists /\ Same(st, file)
  /\ out' = {}
  /\ UNCHANGED <<file, st, pc, known, emitted, base>>

LinesStat ==
  /\ CallsLines /\ file.exists /\ ~Same(st, file)
  /\ st' = Noted(st, file)
  /\ base' = IF st.held /\ ~Rotated(st, file) THEN base
                                              ELSE [gen |-> file.gen, from |-> 0]
  /\ pc' = "open"
  /\ out' = {}
  /\ UNCHANGED <<file, known, emitted>>

\* TailFrom, for a caller that does not; it knows the path after, error or not.
TailFromMissing ==
  /\ pc = "idle" /\ ~known /\ MayFail
  /\ known' = TRUE
  /\ out' = {}
  /\ UNCHANGED <<file, st, pc, emitted, base>>

TailFromStat ==
  /\ pc = "idle" /\ ~known /\ file.exists
  /\ known' = TRUE
  /\ st' = Cold(file, LastN)
  /\ base' = [gen |-> file.gen, from |-> Cold(file, LastN).offset]
  /\ pc' = "open"
  /\ out' = {}
  /\ UNCHANGED <<file, emitted>>

OpenFails ==
  /\ pc = "open" /\ MayFail
  /\ st' = None
  /\ pc' = "idle"
  /\ out' = {}
  /\ UNCHANGED <<file, known, emitted, base>>

OpenAndRead ==
  /\ pc = "open" /\ file.exists
  /\ Consume(st, file, st', out')
  /\ emitted' = emitted \cup out'
  /\ pc' = "idle"
  /\ UNCHANGED <<file, known, base>>

\* The path aged out of the caller's scan: caller and tailer forget it.
Prune ==
  /\ pc = "idle" /\ known
  /\ known' = FALSE
  /\ st' = None
  /\ out' = {}
  /\ emitted' = {}
  /\ base' = [gen |-> file.gen, from |-> 0]
  /\ UNCHANGED <<file, pc>>

Call == LinesMissing \/ LinesUnchanged \/ LinesStat \/ TailFromMissing \/ TailFromStat

Tailing == Call \/ OpenFails \/ OpenAndRead \/ Prune

Next == Environment \/ Tailing

Spec == Init /\ [][Next]_vars

\* The engine's poll calls again and again, and a call ends.
FairSpec == Spec /\ WF_vars(Call \/ OpenFails \/ OpenAndRead)

-----------------------------------------------------------------------------
\* Types: the offset and size a call stores lie within the largest file, whatever
\* happened to the path between its Stat and its read.
TypeOK ==
  /\ FileOK(file, Inodes)
  /\ StateOK(st, Inodes)
  /\ pc \in {"idle", "open"}
  /\ known \in BOOLEAN
  /\ out \subseteq [gen : Nat, from : 0 .. MaxSize, to : 0 .. MaxSize]
  /\ emitted \subseteq [gen : Nat, from : 0 .. MaxSize, to : 0 .. MaxSize]
  /\ base \in [gen : Nat, from : 0 .. MaxSize]

\* A tailer returns complete lines of the file it reads, never a fragment: the
\* doc comment of Lines ("the complete lines appended", "never emitted early").
OnlyWholeLines == \A l \in emitted : l.gen = file.gen => IsLine(file, l)

\* A call returns only lines that follow every line returned before, so none
\* is returned twice or out of order.
InOrderOnce ==
  [][\A l \in out', e \in emitted : e.gen = l.gen => e.to <= l.from]_<<st, out, emitted>>

\* A line the tailer has passed was returned, unless it is longer than MaxPartial
\* or begins no later than the window TailFrom was given: no short line is lost,
\* whatever parts the reads saw it in.
TailingFrom(l) == base.from = 0 \/ l.from > base.from

NoLineLost ==
  pc = "idle" /\ st.held /\ base.gen = file.gen =>
    \A l \in AllLines(file) :
      l.to <= st.offset /\ TailingFrom(l)
        => l \in emitted \/ LineLength(l) > MaxPartial

\* The offset of a state that is not skipping is a line start, whatever
\* combination of long lines, cold starts and partial reads came before.
OffsetAtLineStart ==
  st.held /\ ~st.skipping /\ base.gen = file.gen
    => st.offset = 0 \/ st.offset \in file.nls

\* Every complete line short enough is returned in the end, unless its file is
\* replaced or removed first, or it is given up by a later cold start.
ShortLineAt(g, from) ==
  file.gen = g /\ \E l \in AllLines(file) : l.from = from /\ LineLength(l) <= MaxPartial

EveryLineArrives ==
  \A g \in 0 .. MaxGen, from \in 0 .. MaxSize - 1 :
    ShortLineAt(g, from)
      ~> (\/ \E l \in emitted : l.gen = g /\ l.from = from
          \/ ~TailingFrom([from |-> from]) \/ file.gen # g \/ ~file.exists)

\* What the tailer knows of the present file, and has returned of it.
OfThisFile == st.held /\ file.exists /\ base.gen = file.gen

Feed == INSTANCE LineFeed
          WITH MaxLength <- MaxPartial, ends <- file.nls,
               mark <- IF OfThisFile THEN st.offset ELSE 0,
               start <- IF OfThisFile THEN base.from ELSE 0,
               fed <- IF OfThisFile
                      THEN {<<l.from, l.to>> : l \in {e \in emitted : e.gen = file.gen}}
                      ELSE {}

\* The tailer implements the feed: a line is handed out when the offset passes
\* its end, whole and once, or it is one the feed may leave out; and after a
\* replacement it feeds the new file, from its top, and nothing of the old one.
IsLineFeed == Feed!Spec
=============================================================================
