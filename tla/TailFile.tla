------------------------------ MODULE TailFile ------------------------------
(***************************************************************************)
(* core/tail: what one Tailer computes for one file.  The functions of     *)
(* tail.go are operators here; the modules that call them (Tailer,         *)
(* Transcripts) supply the file, the caller and the interleaving.          *)
(*                                                                         *)
(* A file is what the tailer can tell about it: its inode, size and mtime  *)
(* (os.Stat) and the positions of its newlines (bytes 1..size).  The other *)
(* bytes are only counted.  "gen" names one lifetime of the content: it    *)
(* changes when the path is replaced or truncated and is never read by     *)
(* the code.                                                               *)
(***************************************************************************)
EXTENDS Integers

CONSTANTS MaxPartial,   \* Tailer.MaxPartial
          MaxSize       \* bound: largest file, in bytes

ASSUME TailAssumption == MaxPartial \in Nat \ {0} /\ MaxSize \in Nat

FileOK(f, inodes) ==
  /\ f \in [exists : BOOLEAN, gen : Nat, ino : inodes, size : 0 .. MaxSize,
            mtime : Nat, nls : SUBSET (1 .. MaxSize)]
  /\ \A n \in f.nls : n <= f.size

\* A line of the file: bytes from+1 .. to-1, with its newline at "to".
IsLine(f, l) ==
  /\ l.gen = f.gen
  /\ l.to \in f.nls
  /\ l.from < l.to
  /\ l.from = 0 \/ l.from \in f.nls
  /\ \A n \in f.nls : n <= l.from \/ l.to <= n

LineLength(l) == l.to - l.from - 1

AllLines(f) ==
  {l \in [gen : {f.gen}, from : {0} \cup f.nls, to : f.nls] : IsLine(f, l)}

-----------------------------------------------------------------------------
\* fileState; "held" is whether the path is a key of Tailer.states.
None == [held |-> FALSE, offset |-> 0, size |-> 0, mtime |-> 0, ino |-> 0,
         skipping |-> FALSE]

Fresh == [held |-> TRUE, offset |-> 0, size |-> 0, mtime |-> 0, ino |-> 0,
          skipping |-> FALSE]

StateOK(s, inodes) ==
  s \in [held : BOOLEAN, offset : 0 .. MaxSize, size : 0 .. MaxSize, mtime : Nat,
         ino : inodes \cup {0}, skipping : BOOLEAN]

\* Mutants: the two reasons to start over, each alone.
RotatedBySize(s, f) == s.held /\ f.size < s.offset
RotatedEagerly(s, f) == s.held /\ (s.ino # f.ino \/ f.size <= s.offset)

\* Lines: a held state no longer describes the file at this path.
Rotated(s, f) == s.held /\ (s.ino # f.ino \/ f.size < s.offset)

\* Mutant: a fast path that trusts the mtime alone.
SameByTime(s, f) == s.held /\ ~Rotated(s, f) /\ f.mtime = s.mtime

\* Lines: nothing to read, no call to consume.
Same(s, f) == s.held /\ ~Rotated(s, f) /\ f.size = s.size /\ f.mtime = s.mtime

\* Lines: the state consume is called with.
Noted(s, f) ==
  [IF s.held /\ ~Rotated(s, f) THEN s ELSE Fresh
     EXCEPT !.ino = f.ino, !.size = f.size, !.mtime = f.mtime]

\* TailFrom: the state consume is called with.
Cold(f, lastN) ==
  [held |-> TRUE, size |-> f.size, mtime |-> f.mtime, ino |-> f.ino,
   offset |-> IF f.size > lastN THEN f.size - lastN ELSE 0,
   skipping |-> f.size > lastN]

-----------------------------------------------------------------------------
\* consume, while skipping: no newline after the offset yet.
NothingToKeep(s, f) == s.skipping /\ \A n \in f.nls : n <= s.offset

\* consume: b is where emission begins (after the first newline if skipping).
Begins(s, f, b) ==
  IF s.skipping THEN /\ b \in f.nls /\ b > s.offset
                     /\ \A n \in f.nls : n <= s.offset \/ b <= n
                ELSE b = s.offset

\* consume: e is where emission ends, the last newline if there is one past b.
Ends(f, b, e) == /\ e >= b
                 /\ e = b \/ e \in f.nls
                 /\ \A n \in f.nls : n <= e

\* consume: the lines emitted from position b on.
LinesFrom(f, b) ==
  {l \in [gen : {f.gen}, from : {b} \cup f.nls, to : f.nls] :
     b <= l.from /\ l.from < l.to /\ \A n \in f.nls : n <= l.from \/ l.to <= n}

\* Mutant: the unfinished rest is committed as if it had been emitted.
SettledPastPartial(s, f, e) == [s EXCEPT !.offset = f.size, !.skipping = FALSE]
\* Mutant: a rest that is still short enough is given up.
SettledTooSoon(s, f, e) ==
  IF f.size - e >= MaxPartial
  THEN [s EXCEPT !.offset = f.size, !.skipping = TRUE]
  ELSE [s EXCEPT !.offset = e, !.skipping = FALSE]
\* Mutant: the offset stays where it was, as if newlines were not counted.
NeverSettled(s, f, e) == [s EXCEPT !.skipping = FALSE]
\* Mutant: the newline is counted twice.
SettledOffByOne(s, f, e) == [s EXCEPT !.offset = e + 1, !.skipping = FALSE]

\* consume: the state after emission up to e; an unfinished rest longer than
\* MaxPartial is given up.
Settled(s, f, e) ==
  IF f.size - e > MaxPartial
  THEN [s EXCEPT !.offset = f.size, !.skipping = TRUE]
  ELSE [s EXCEPT !.offset = e, !.skipping = FALSE]

\* consume, once the file is open: from state s it returns lines ls and leaves s2.
Consume(s, f, s2, ls) ==
  \/ /\ NothingToKeep(s, f)
     /\ s2 = [s EXCEPT !.offset = IF f.size > @ THEN f.size ELSE @]
     /\ ls = {}
  \/ /\ ~NothingToKeep(s, f)
     /\ \E b, e \in {s.offset} \cup f.nls :
          /\ Begins(s, f, b)
          /\ Ends(f, b, e)
          /\ s2 = Settled(s, f, e)
          /\ ls = LinesFrom(f, b)
=============================================================================
