---------------------------- MODULE TailerProofs ----------------------------
(***************************************************************************)
(* Proofs about Tailer, for every file size, MaxPartial, window and inode  *)
(* set.  The environment may append and delete at any time, and may rename *)
(* over, truncate and recreate the path between calls (RaceFree).  A new   *)
(* file put there between the Stat and the open of one call, and one cut   *)
(* short that has grown again by the next, break these properties.         *)
(***************************************************************************)
EXTENDS Tailer, TLAPS

RaceFree == Faults \subseteq {"rotate", "truncate", "delete"} /\ (Racing => Faults = {})

\* The held state is about the present lifetime of the file.
Current == st.held /\ base.gen = file.gen

-----------------------------------------------------------------------------
\* The inductive invariant, in parts.

\* The state follows the path: inode numbers tell lifetimes apart, and so does
\* the size of a file cut short.
Follows ==
  /\ base.gen <= file.gen
  /\ st.held => st.ino <= file.ino
  /\ Current => st.ino = file.ino
  /\ CutShort => file.size < st.offset
  /\ st.held /\ base.gen = file.gen => base.from <= st.offset /\ st.offset <= file.size
  /\ pc = "open" => Current
  /\ ~known => ~st.held

\* Everything handed out of this lifetime is a whole line before the offset.
Handed ==
  \A e \in emitted :
    /\ e.gen <= file.gen
    /\ e.gen = file.gen =>
         /\ IsLine(file, e)
         /\ file.exists => Current /\ e.to <= st.offset

\* A state that is not skipping is at a line start; one that is skipping is in a
\* line longer than MaxPartial or in the one the window "from" cut.
AtLineStart(s, f) == ~s.skipping => s.offset = 0 \/ s.offset \in f.nls

InSkippedLine(s, f, from) ==
  s.skipping =>
    \A p \in {0} \cup f.nls :
      p <= s.offset /\ (\A n \in f.nls : n <= p \/ s.offset < n)
        => s.offset - p > MaxPartial \/ (from > 0 /\ p <= from)

Skips == Current => InSkippedLine(st, file, base.from)

\* No short line behind the offset is missing.
Complete ==
  Current =>
    \A l \in AllLines(file) :
      l.to <= st.offset /\ TailingFrom(l) => l \in emitted \/ LineLength(l) > MaxPartial

IInv == TypeOK /\ Follows /\ Handed /\ OffsetAtLineStart /\ Skips /\ Complete

-----------------------------------------------------------------------------
\* What consume does to a state, and what it returns, for any file.
LEMMA ConsumeType ==
  ASSUME NEW s, NEW f, NEW s2, NEW ls, FileOK(f, Inodes), StateOK(s, Inodes),
         Consume(s, f, s2, ls)
  PROVE  /\ StateOK(s2, Inodes)
         /\ s2.held = s.held /\ s2.ino = s.ino
         /\ s.offset <= s2.offset
         /\ s.offset <= f.size => s2.offset <= f.size
         /\ ls \subseteq [gen : {f.gen}, from : 0 .. MaxSize, to : 0 .. MaxSize]
         /\ \A l \in ls : s.offset <= l.from /\ l.to <= s2.offset
<1> USE TailAssumption
<1>1. CASE NothingToKeep(s, f)
  <2>1. s2 = [s EXCEPT !.offset = IF f.size > s.offset THEN f.size ELSE s.offset] /\ ls = {}
    BY <1>1 DEF Consume
  <2> QED
    BY <2>1 DEF StateOK, FileOK
<1>2. CASE ~NothingToKeep(s, f)
  <2>1. PICK b \in {s.offset} \cup f.nls, e \in {s.offset} \cup f.nls :
          Begins(s, f, b) /\ Ends(f, b, e) /\ s2 = Settled(s, f, e) /\ ls = LinesFrom(f, b)
    BY <1>2 DEF Consume
  <2>2. /\ b \in 0 .. MaxSize /\ e \in 0 .. MaxSize /\ s.offset <= b /\ b <= e
        /\ f.nls \subseteq 0 .. MaxSize
        /\ s.offset <= f.size => e <= f.size
    BY <2>1 DEF Begins, Ends, FileOK, StateOK
  <2>3. /\ StateOK(s2, Inodes) /\ s2.held = s.held /\ s2.ino = s.ino
        /\ e <= s2.offset /\ (s.offset <= f.size => s2.offset <= f.size)
    <3>1. f.size \in 0 .. MaxSize
      BY DEF FileOK
    <3>2. CASE f.size - e > MaxPartial
      <4>1. s2 = [s EXCEPT !.offset = f.size, !.skipping = TRUE]
        BY <2>1, <3>2 DEF Settled
      <4>2. StateOK(s2, Inodes)
        BY <2>2, <3>1, <4>1 DEF StateOK
      <4>3. s2.held = s.held /\ s2.ino = s.ino /\ s2.offset = f.size
        BY <4>1 DEF StateOK
      <4> QED
        BY <2>2, <3>1, <3>2, <4>2, <4>3
    <3>3. CASE ~(f.size - e > MaxPartial)
      <4>1. s2 = [s EXCEPT !.offset = e, !.skipping = FALSE]
        BY <2>1, <3>3 DEF Settled
      <4>2. StateOK(s2, Inodes)
        BY <2>2, <3>1, <4>1 DEF StateOK
      <4>3. s2.held = s.held /\ s2.ino = s.ino /\ s2.offset = e
        BY <4>1 DEF StateOK
      <4> QED
        BY <2>2, <3>1, <3>3, <4>2, <4>3
    <3> QED
      BY <3>2, <3>3
  <2>4. /\ ls \subseteq [gen : {f.gen}, from : 0 .. MaxSize, to : 0 .. MaxSize]
        /\ \A l \in ls : b <= l.from /\ l.to <= e
    BY <2>1, <2>2 DEF LinesFrom, Ends
  <2>5. /\ s.offset \in Int /\ s2.offset \in Int
        /\ \A l \in ls : l.from \in Int /\ l.to \in Int
    BY <2>3, <2>4 DEF StateOK
  <2> QED
    BY <2>2, <2>3, <2>4, <2>5
<1> QED
  BY <1>1, <1>2

LEMMA InitType == Init => TypeOK
BY TailAssumption, TailerAssumption
   DEF Init, TypeOK, FileOK, StateOK, None

\* Every file the environment leaves at the path is well formed.
LEMMA EnvironmentType ==
  ASSUME FileOK(file, Inodes), Environment
  PROVE  /\ FileOK(file', Inodes) /\ UNCHANGED <<st, pc, known, out, emitted>>
         /\ ~Truncate => base' = base
         /\ base' = base \/ base' = [gen |-> file.gen + 1, from |-> 0]
<1> USE TailAssumption, TailerAssumption
<1>1. CASE Appending
  <2>1. PICK k \in 1 .. MaxSize : \E ns \in SUBSET (file.size + 1 .. file.size + k) : Append(k, ns)
    BY <1>1 DEF Appending
  <2>2. PICK ns \in SUBSET (file.size + 1 .. file.size + k) : Append(k, ns)
    BY <2>1
  <2>3. PICK t \in {file.mtime, file.mtime + 1} :
          file' = [file EXCEPT !.size = @ + k, !.mtime = t, !.nls = @ \cup ns]
    BY <2>2 DEF Append
  <2>4. file.size + k <= MaxSize /\ UNCHANGED <<st, pc, known, out, emitted, base>>
    BY <2>2 DEF Append
  <2>5. /\ t \in Nat /\ file.size \in 0 .. MaxSize /\ file.size + k \in 0 .. MaxSize
        /\ ns \subseteq 1 .. MaxSize /\ file.nls \subseteq 1 .. MaxSize
        /\ \A n \in file.nls \cup ns : n <= file.size + k
    BY <2>4 DEF FileOK
  <2>6. file' \in [exists : BOOLEAN, gen : Nat, ino : Inodes, size : 0 .. MaxSize,
                   mtime : Nat, nls : SUBSET (1 .. MaxSize)]
    BY <2>3, <2>5 DEF FileOK
  <2>7. file'.size = file.size + k /\ file'.nls = file.nls \cup ns
    BY <2>3 DEF FileOK
  <2> QED
    BY <2>4, <2>5, <2>6, <2>7 DEF FileOK
<1>2. ASSUME NEW i \in Inodes, NEW k \in 0 .. MaxSize, NEW ns \in SUBSET (1 .. k)
      PROVE  FileOK(Replacement(i, k, ns), Inodes)
  BY DEF FileOK, Replacement
<1>3. CASE Rotate
  BY <1>2, <1>3 DEF Rotate, NewInodes
<1>4. CASE Truncate
  <2>1. /\ file.ino \in Inodes /\ file.gen + 1 \in Nat /\ file.mtime + 1 \in Nat
        /\ 0 \in 0 .. MaxSize /\ {} \in SUBSET (1 .. MaxSize)
    BY DEF FileOK
  <2>2. file' = [exists |-> TRUE, gen |-> file.gen + 1, ino |-> file.ino, size |-> 0,
                 mtime |-> file.mtime + 1, nls |-> {}]
    BY <1>4 DEF Truncate, Replacement
  <2>3. FileOK(file', Inodes)
    BY <2>1, <2>2 DEF FileOK
  <2> QED
    BY <1>4, <2>3 DEF Truncate
<1>5. CASE Delete
  <2>1. file' = [file EXCEPT !.exists = FALSE]
    BY <1>5 DEF Delete
  <2>2. FileOK(file', Inodes)
    BY <2>1 DEF FileOK
  <2> QED
    BY <1>5, <2>2 DEF Delete
<1>6. CASE Recreate
  BY <1>2, <1>6 DEF Recreate, NewInodes
<1> QED
  BY <1>1, <1>3, <1>4, <1>5, <1>6 DEF Environment

\* The states a call starts consume with are well formed.
LEMMA NotedType ==
  ASSUME NEW s, NEW f, FileOK(f, Inodes), StateOK(s, Inodes)
  PROVE  /\ StateOK(None, Inodes) /\ StateOK(Noted(s, f), Inodes)
         /\ Noted(s, f).ino = f.ino
         /\ Noted(s, f).held
         /\ s.held /\ ~Rotated(s, f)
              => Noted(s, f).offset = s.offset /\ Noted(s, f).skipping = s.skipping
         /\ ~(s.held /\ ~Rotated(s, f))
              => Noted(s, f).offset = 0 /\ Noted(s, f).skipping = FALSE
<1> USE TailAssumption
<1>1. f.ino \in Inodes /\ f.size \in 0 .. MaxSize /\ f.mtime \in Nat
  BY DEF FileOK
<1>2. StateOK(None, Inodes)
  BY DEF StateOK, None
<1>3. CASE s.held /\ ~Rotated(s, f)
  <2>1. Noted(s, f) = [s EXCEPT !.ino = f.ino, !.size = f.size, !.mtime = f.mtime]
    BY <1>3 DEF Noted
  <2>2. StateOK(Noted(s, f), Inodes)
    BY <1>1, <2>1 DEF StateOK
  <2>3. /\ Noted(s, f).ino = f.ino /\ Noted(s, f).held = s.held
        /\ Noted(s, f).offset = s.offset /\ Noted(s, f).skipping = s.skipping
    BY <2>1 DEF StateOK
  <2> QED
    BY <1>2, <1>3, <2>2, <2>3
<1>4. CASE ~(s.held /\ ~Rotated(s, f))
  <2>1. Noted(s, f) = [held |-> TRUE, offset |-> 0, size |-> f.size, mtime |-> f.mtime,
                       ino |-> f.ino, skipping |-> FALSE]
    <3>1. Noted(s, f) = [Fresh EXCEPT !.ino = f.ino, !.size = f.size, !.mtime = f.mtime]
      BY <1>4 DEF Noted
    <3> QED
      BY <3>1 DEF Fresh
  <2>2. StateOK(Noted(s, f), Inodes)
    BY <1>1, <2>1 DEF StateOK
  <2>3. /\ Noted(s, f).ino = f.ino /\ Noted(s, f).held
        /\ Noted(s, f).offset = 0 /\ Noted(s, f).skipping = FALSE
    BY <2>1
  <2> QED
    BY <1>2, <1>4, <2>2, <2>3
<1> QED
  BY <1>3, <1>4

LEMMA ColdType ==
  ASSUME NEW f, FileOK(f, Inodes)
  PROVE  /\ StateOK(Cold(f, LastN), Inodes)
         /\ Cold(f, LastN).held /\ Cold(f, LastN).ino = f.ino
         /\ Cold(f, LastN).offset <= f.size
         /\ Cold(f, LastN).skipping <=> Cold(f, LastN).offset > 0
<1> USE TailAssumption, TailerAssumption
<1>1. f.ino \in Inodes /\ f.size \in 0 .. MaxSize /\ f.mtime \in Nat
  BY DEF FileOK
<1> DEFINE o == IF f.size > LastN THEN f.size - LastN ELSE 0
<1>2. Cold(f, LastN) = [held |-> TRUE, offset |-> o, size |-> f.size, mtime |-> f.mtime,
                        ino |-> f.ino, skipping |-> f.size > LastN]
  BY DEF Cold
<1>3. o \in 0 .. MaxSize /\ o <= f.size /\ (f.size > LastN <=> o > 0)
  BY <1>1
<1>4. StateOK(Cold(f, LastN), Inodes)
  BY <1>1, <1>2, <1>3 DEF StateOK
<1>5. /\ Cold(f, LastN).held /\ Cold(f, LastN).ino = f.ino
      /\ Cold(f, LastN).offset = o /\ Cold(f, LastN).skipping = (f.size > LastN)
  BY <1>2
<1> QED
  BY <1>3, <1>4, <1>5

LEMMA NextType == TypeOK /\ [Next]_vars => TypeOK'
<1> USE TailAssumption, TailerAssumption
<1> SUFFICES ASSUME TypeOK, [Next]_vars
             PROVE  TypeOK'
  OBVIOUS
<1> USE DEF TypeOK
<1>1. CASE Environment
  <2>1. file.gen + 1 \in Nat /\ 0 \in 0 .. MaxSize
    BY DEF FileOK
  <2>2. base' \in [gen : Nat, from : 0 .. MaxSize]
    BY <1>1, <2>1, EnvironmentType
  <2> QED
    BY <1>1, <2>2, EnvironmentType
<1>2. CASE LinesMissing
  BY <1>2, NotedType DEF LinesMissing
<1>3. CASE LinesUnchanged
  BY <1>3 DEF LinesUnchanged
<1>4. CASE LinesStat
  <2>1. file.gen \in Nat
    BY DEF FileOK
  <2>2. base' \in [gen : Nat, from : 0 .. MaxSize]
    BY <1>4, <2>1 DEF LinesStat
  <2>3. StateOK(st', Inodes)
    BY <1>4, NotedType DEF LinesStat
  <2> QED
    BY <1>4, <2>2, <2>3 DEF LinesStat
<1>5. CASE TailFromMissing
  BY <1>5 DEF TailFromMissing
<1>6. CASE TailFromStat
  <2>1. file.gen \in Nat
    BY DEF FileOK
  <2>2. StateOK(Cold(file, LastN), Inodes) /\ Cold(file, LastN).offset \in 0 .. MaxSize
    BY ColdType DEF StateOK
  <2> QED
    BY <1>6, <2>1, <2>2 DEF TailFromStat
<1>7. CASE OpenFails
  BY <1>7, NotedType DEF OpenFails
<1>8. CASE OpenAndRead
  <2>1. Consume(st, file, st', out')
    BY <1>8 DEF OpenAndRead
  <2>2. /\ StateOK(st', Inodes)
        /\ out' \subseteq [gen : {file.gen}, from : 0 .. MaxSize, to : 0 .. MaxSize]
    BY <2>1, ConsumeType
  <2>3. out' \subseteq [gen : Nat, from : 0 .. MaxSize, to : 0 .. MaxSize]
    BY <2>2 DEF FileOK
  <2> QED
    BY <1>8, <2>2, <2>3 DEF OpenAndRead
<1>9. CASE Prune
  <2>1. file.gen \in Nat
    BY DEF FileOK
  <2>2. base' \in [gen : Nat, from : 0 .. MaxSize]
    BY <1>9, <2>1 DEF Prune
  <2>3. StateOK(st', Inodes)
    BY <1>9, NotedType DEF Prune
  <2> QED
    BY <1>9, <2>2, <2>3 DEF Prune
<1>10. CASE UNCHANGED vars
  BY <1>10 DEF vars
<1> QED
  BY <1>1, <1>2, <1>3, <1>4, <1>5, <1>6, <1>7, <1>8, <1>9, <1>10 DEF Next, Tailing, Call

\* Whatever else happens to the path, the variables keep their types: offsets
\* stay within the largest file and every line handed out is a pair of positions.
THEOREM TypeCorrect == Spec => []TypeOK
BY InitType, NextType, PTL DEF Spec

-----------------------------------------------------------------------------
\* consume keeps what the invariant says of a state, and every line whose end
\* the offset passes is returned, is too long, or began before the window.
LEMMA ConsumeKeeps ==
  ASSUME NEW s, NEW f, NEW s2, NEW ls, NEW from \in Nat,
         FileOK(f, Inodes), StateOK(s, Inodes), Consume(s, f, s2, ls),
         s.offset <= f.size, AtLineStart(s, f), InSkippedLine(s, f, from)
  PROVE  /\ \A l \in ls : IsLine(f, l)
         /\ AtLineStart(s2, f)
         /\ InSkippedLine(s2, f, from)
         /\ \A l \in AllLines(f) :
              s.offset < l.to /\ l.to <= s2.offset
                => l \in ls \/ LineLength(l) > MaxPartial \/ (from > 0 /\ l.from <= from)
<1> USE TailAssumption
<1>1. /\ s.offset \in Nat /\ f.size \in Nat /\ f.nls \subseteq Nat /\ 0 \notin f.nls
      /\ \A n \in f.nls : n <= f.size
  BY DEF StateOK, FileOK
<1>2. CASE NothingToKeep(s, f)
  <2>1. s2 = [s EXCEPT !.offset = IF f.size > s.offset THEN f.size ELSE s.offset] /\ ls = {}
    BY <1>2 DEF Consume
  <2>2. s2.offset = f.size /\ s2.skipping = s.skipping
    BY <1>1, <2>1 DEF StateOK
  <2>3. s.skipping /\ \A n \in f.nls : n <= s.offset
    BY <1>2 DEF NothingToKeep
  <2>4. ASSUME NEW l \in AllLines(f), s.offset < l.to
        PROVE  FALSE
    BY <1>1, <2>3, <2>4 DEF AllLines
  <2>5. ASSUME NEW p \in {0} \cup f.nls, p <= f.size,
               \A n \in f.nls : n <= p \/ f.size < n
        PROVE  f.size - p > MaxPartial \/ (from > 0 /\ p <= from)
    <3>1. p <= s.offset /\ \A n \in f.nls : n <= p \/ s.offset < n
      BY <1>1, <2>3, <2>5
    <3>2. s.offset - p > MaxPartial \/ (from > 0 /\ p <= from)
      BY <2>3, <3>1 DEF InSkippedLine
    <3>3. p \in Nat
      BY <1>1
    <3> QED
      BY <1>1, <3>2, <3>3
  <2> QED
    BY <2>1, <2>2, <2>3, <2>4, <2>5 DEF AtLineStart, InSkippedLine
<1>3. CASE ~NothingToKeep(s, f)
  <2>1. PICK b \in {s.offset} \cup f.nls, e \in {s.offset} \cup f.nls :
          Begins(s, f, b) /\ Ends(f, b, e) /\ s2 = Settled(s, f, e) /\ ls = LinesFrom(f, b)
    BY <1>3 DEF Consume
  <2>2. /\ b \in Nat /\ e \in Nat /\ b <= e
        /\ e = b \/ e \in f.nls
        /\ \A n \in f.nls : n <= e
    BY <1>1, <2>1 DEF Ends
  <2>3. b = 0 \/ b \in f.nls
    BY <2>1 DEF Begins, AtLineStart
  <2>4. e = 0 \/ e \in f.nls
    BY <2>2, <2>3
  <2>5. ASSUME NEW l \in ls
        PROVE  IsLine(f, l)
    BY <2>1, <2>3 DEF LinesFrom, IsLine
  <2>6. \/ f.size - e > MaxPartial /\ s2.offset = f.size /\ s2.skipping = TRUE
        \/ s2.offset = e /\ s2.skipping = FALSE
    BY <2>1 DEF Settled, StateOK
  <2>7. AtLineStart(s2, f)
    BY <2>4, <2>6 DEF AtLineStart
  <2>8. InSkippedLine(s2, f, from)
    <3>1. ASSUME NEW p \in {0} \cup f.nls, f.size - e > MaxPartial,
                 \A n \in f.nls : n <= p \/ f.size < n
          PROVE  f.size - p > MaxPartial
      BY <1>1, <2>2, <2>4, <3>1
    <3> QED
      BY <2>6, <3>1 DEF InSkippedLine
  <2>9. ASSUME NEW l \in AllLines(f), s.offset < l.to
        PROVE  l \in ls \/ LineLength(l) > MaxPartial \/ (from > 0 /\ l.from <= from)
    <3>1. /\ l \in [gen : {f.gen}, from : {0} \cup f.nls, to : f.nls]
          /\ l.from \in {0} \cup f.nls /\ l.from \in Nat /\ l.to \in f.nls /\ l.to \in Nat
          /\ l.from < l.to
          /\ \A n \in f.nls : n <= l.from \/ l.to <= n
      BY <1>1 DEF AllLines, IsLine
    <3>2. CASE b <= l.from
      <4>1. l.from \in {b} \cup f.nls
        BY <2>2, <3>1, <3>2
      <4>2. l \in [gen : {f.gen}, from : {b} \cup f.nls, to : f.nls]
        BY <3>1, <4>1
      <4> QED
        BY <2>1, <3>1, <3>2, <4>2 DEF LinesFrom
    <3>3. CASE l.from < b
      <4>1. s.skipping /\ l.to = b /\ s.offset < b
        BY <1>1, <2>1, <2>2, <2>3, <2>9, <3>1, <3>3 DEF Begins
      <4>2. l.from <= s.offset /\ \A n \in f.nls : n <= l.from \/ s.offset < n
        BY <1>1, <2>1, <3>1, <3>3, <4>1 DEF Begins
      <4>3. s.offset - l.from > MaxPartial \/ (from > 0 /\ l.from <= from)
        BY <3>1, <4>1, <4>2 DEF InSkippedLine
      <4> QED
        BY <1>1, <2>9, <3>1, <4>3 DEF LineLength
    <3> QED
      BY <2>2, <3>1, <3>2, <3>3
  <2> QED
    BY <2>5, <2>7, <2>8, <2>9
<1> QED
  BY <1>2, <1>3

\* Appending leaves every line, and what is known of the state, as it was.
LEMMA AppendKeeps ==
  ASSUME NEW f, FileOK(f, Inodes), NEW f2, NEW ns,
         f2.gen = f.gen, f2.nls = f.nls \cup ns, \A n \in ns : n \in Nat /\ f.size < n
  PROVE  /\ \A l : IsLine(f, l) => IsLine(f2, l)
         /\ \A l \in AllLines(f2) : l.to <= f.size => l \in AllLines(f)
         /\ \A s, from : /\ StateOK(s, Inodes) /\ s.offset <= f.size
                        /\ InSkippedLine(s, f, from)
                        => InSkippedLine(s, f2, from)
<1> USE TailAssumption
<1>1. f.size \in Nat /\ f.nls \subseteq Nat /\ \A n \in f.nls : n <= f.size
  BY DEF FileOK
<1>2. ASSUME NEW l, IsLine(f, l)
      PROVE  IsLine(f2, l)
  BY <1>1, <1>2 DEF IsLine
<1>3. ASSUME NEW l \in AllLines(f2), l.to <= f.size
      PROVE  l \in AllLines(f)
  <2>1. /\ l \in [gen : {f.gen}, from : {0} \cup f2.nls, to : f2.nls] /\ IsLine(f2, l)
        /\ l.to \in f.nls \cup ns /\ l.from \in {0} \cup f.nls \cup ns /\ l.from < l.to
    BY DEF AllLines, IsLine
  <2>2. l.to \in f.nls /\ l.from \in {0} \cup f.nls
    BY <1>1, <1>3, <2>1
  <2>3. IsLine(f, l)
    BY <2>1, <2>2 DEF IsLine
  <2>4. l \in [gen : {f.gen}, from : {0} \cup f.nls, to : f.nls]
    BY <2>1, <2>2
  <2> QED
    BY <2>3, <2>4 DEF AllLines
<1>4. ASSUME NEW s, NEW from, StateOK(s, Inodes), s.offset <= f.size, InSkippedLine(s, f, from)
      PROVE  InSkippedLine(s, f2, from)
  <2>1. s.offset \in Nat
    BY <1>4 DEF StateOK
  <2>2. ASSUME NEW p \in {0} \cup f2.nls, p <= s.offset
        PROVE  p \in {0} \cup f.nls
    BY <1>1, <1>4, <2>1, <2>2
  <2> QED
    BY <1>4, <2>2 DEF InSkippedLine
<1> QED
  BY <1>2, <1>3, <1>4

LEMMA TypeFacts ==
  ASSUME TypeOK
  PROVE  /\ FileOK(file, Inodes) /\ StateOK(st, Inodes)
         /\ file.gen \in Nat /\ base.gen \in Nat /\ file.ino \in Nat /\ st.ino \in Nat
         /\ file.size \in Nat /\ st.offset \in Nat /\ base.from \in Nat
         /\ \A e \in emitted : e.gen \in Nat /\ e.to \in Nat
<1> USE TailAssumption, TailerAssumption
<1>1. FileOK(file, Inodes) /\ StateOK(st, Inodes)
  BY DEF TypeOK
<1>2. file.gen \in Nat /\ file.ino \in Inodes /\ file.size \in Nat
  BY <1>1 DEF FileOK
<1>3. st.offset \in Nat /\ st.ino \in Inodes \cup {0}
  BY <1>1 DEF StateOK
<1>4. base.gen \in Nat /\ base.from \in Nat
  BY DEF TypeOK
<1>5. \A e \in emitted : e.gen \in Nat /\ e.to \in Nat
  BY DEF TypeOK
<1>6. \A i \in Inodes : i \in Nat
  BY DEF TailerAssumption
<1>7. file.ino \in Nat
  BY <1>2, <1>6
<1>8. st.ino \in Nat
  <2>1. st.ino \in Inodes \/ st.ino = 0
    BY <1>3
  <2>2. 0 \in Nat
    OBVIOUS
  <2> QED
    BY <1>6, <2>1, <2>2
<1> QED
  BY <1>1, <1>2, <1>3, <1>4, <1>5, <1>7, <1>8

LEMMA InitInv == Init => IInv
<1> SUFFICES ASSUME Init PROVE IInv
  OBVIOUS
<1>1. TypeOK
  BY InitType
<1>2. /\ ~st.held /\ emitted = {} /\ pc = "idle" /\ base.gen = 0 /\ file.gen = 0
  BY DEF Init, None
<1> QED
  BY <1>1, <1>2 DEF IInv, Follows, Handed, OffsetAtLineStart, Skips, Complete, Current, CutShort

\* The environment, between calls or appending.
LEMMA EnvironmentInv ==
  ASSUME RaceFree, IInv, Environment
  PROVE  Follows' /\ Handed' /\ OffsetAtLineStart' /\ Skips' /\ Complete'
<1> USE TailAssumption, TailerAssumption
<1>1. TypeOK /\ Follows /\ Handed /\ OffsetAtLineStart /\ Skips /\ Complete
  BY DEF IInv
<1>2. /\ FileOK(file', Inodes) /\ UNCHANGED <<st, pc, known, out, emitted>>
      /\ ~Truncate => base' = base
  BY <1>1, EnvironmentType DEF TypeOK
<1>3. /\ FileOK(file, Inodes) /\ StateOK(st, Inodes)
      /\ file.gen \in Nat /\ base.gen \in Nat /\ file.ino \in Nat /\ st.ino \in Nat
      /\ file.size \in Nat /\ st.offset \in Nat /\ base.from \in Nat
      /\ \A e \in emitted : e.gen \in Nat /\ e.to \in Nat
  BY <1>1, TypeFacts
<1>4. CASE Appending
  <2>0. PICK k \in 1 .. MaxSize : \E ns \in SUBSET (file.size + 1 .. file.size + k) : Append(k, ns)
    BY <1>4 DEF Appending
  <2>1. PICK ns \in SUBSET (file.size + 1 .. file.size + k) : Append(k, ns)
    BY <2>0
  <2>2. /\ file'.gen = file.gen /\ file'.ino = file.ino /\ file'.exists = file.exists
        /\ file'.size = file.size + k /\ file'.nls = file.nls \cup ns
    BY <1>3, <2>1 DEF Append, FileOK
  <2>12. base' = base /\ (CutShort => file.size + k < st.offset)
    BY <2>1 DEF Append, RaceFree
  <2>3. \A n \in ns : n \in Nat /\ file.size < n
    BY <1>3
  <2>4. /\ \A l : IsLine(file, l) => IsLine(file', l)
        /\ \A l \in AllLines(file') : l.to <= file.size => l \in AllLines(file)
        /\ st.offset <= file.size /\ InSkippedLine(st, file, base.from)
             => InSkippedLine(st, file', base.from)
    BY <1>3, <2>2, <2>3, AppendKeeps
  <2>5. Current' = Current
    BY <1>2, <2>2, <2>12 DEF Current
  <2>6. Follows'
    BY <1>1, <1>2, <1>3, <2>2, <2>5, <2>12 DEF Follows, CutShort
  <2>7. Handed'
    BY <1>1, <1>2, <2>2, <2>4, <2>5 DEF Handed
  <2>8. OffsetAtLineStart'
    BY <1>1, <1>2, <2>2, <2>12 DEF OffsetAtLineStart
  <2>9. Current => st.offset <= file.size
    BY <1>1 DEF Follows, Current
  <2>10. Skips'
    BY <1>1, <1>2, <2>4, <2>5, <2>9, <2>12 DEF Skips
  <2>11. Complete'
    <3>1. ASSUME Current, NEW l \in AllLines(file'), l.to <= st.offset
          PROVE  l \in AllLines(file)
      <4>1. l.to \in Nat
        BY <1>3, <2>2, <2>3 DEF AllLines, FileOK
      <4> QED
        BY <1>3, <2>4, <2>9, <3>1, <4>1
    <3> QED
      BY <1>1, <1>2, <2>5, <2>12, <3>1 DEF Complete, TailingFrom
  <2> QED
    BY <2>6, <2>7, <2>8, <2>10, <2>11
<1>5. CASE Rotate \/ Recreate
  <2>0. base' = base
    BY <1>5 DEF Rotate, Recreate
  <2>1. file'.gen = file.gen + 1 /\ file.ino < file'.ino /\ pc = "idle"
    <3>1. PICK i \in NewInodes : \E k, ns : file' = Replacement(i, k, ns)
      BY <1>5 DEF Rotate, Recreate
    <3>2. file.ino < i
      BY <3>1 DEF NewInodes, RaceFree
    <3> QED
      BY <1>5, <3>1, <3>2 DEF Rotate, Recreate, CanReplace, RaceFree, Replacement
  <2>2. file'.ino \in Nat
    BY <1>2 DEF FileOK
  <2>3. base.gen < file'.gen /\ \A e \in emitted : e.gen < file'.gen
    BY <1>1, <1>3, <2>1 DEF Follows, Handed
  <2>4. ~Current'
    BY <1>2, <1>3, <2>0, <2>1, <2>3 DEF Current
  <2>5. Follows'
    BY <1>1, <1>2, <1>3, <2>0, <2>1, <2>2, <2>3, <2>4 DEF Follows, CutShort, Current
  <2>6. Handed'
    BY <1>2, <1>3, <2>1, <2>3 DEF Handed
  <2>7. OffsetAtLineStart'
    BY <2>4 DEF OffsetAtLineStart, Current
  <2> QED
    BY <2>4, <2>5, <2>6, <2>7 DEF Skips, Complete
<1>6. CASE Delete
  <2>1. /\ file'.exists = FALSE /\ file'.gen = file.gen /\ base' = base
        /\ file'.ino = file.ino /\ file'.size = file.size /\ file'.nls = file.nls
    BY <1>3, <1>6 DEF Delete, FileOK
  <2>2. /\ \A l : IsLine(file, l) => IsLine(file', l)
        /\ AllLines(file') = AllLines(file)
    BY <2>1 DEF IsLine, AllLines
  <2>3. Follows'
    BY <1>1, <1>2, <2>1 DEF Follows, CutShort, Current
  <2>4. Handed'
    BY <1>1, <1>2, <2>1, <2>2 DEF Handed
  <2>5. OffsetAtLineStart'
    BY <1>1, <1>2, <2>1 DEF OffsetAtLineStart
  <2>6. Skips' /\ Complete'
    BY <1>1, <1>2, <2>1, <2>2 DEF Skips, Complete, InSkippedLine, Current, TailingFrom
  <2> QED
    BY <2>3, <2>4, <2>5, <2>6
<1>7. CASE Truncate
  <2>1. /\ file' = [Replacement(file.ino, 0, {}) EXCEPT !.mtime = file.mtime + 1]
        /\ pc = "idle"
        /\ base' = IF st.held /\ st.ino = file.ino /\ st.offset = 0
                    THEN [gen |-> file.gen + 1, from |-> 0] ELSE base
    BY <1>7 DEF Truncate, CanReplace, RaceFree
  <2>2. /\ file'.gen = file.gen + 1 /\ file'.ino = file.ino
        /\ file'.size = 0 /\ file'.nls = {}
    BY <2>1 DEF Replacement
  <2>3. base.gen < file'.gen /\ \A e \in emitted : e.gen < file'.gen
    BY <1>1, <1>3, <2>2 DEF Follows, Handed
  <2>4. Current' => st.ino = file.ino /\ st.offset = 0 /\ base'.from = 0
    BY <1>2, <1>3, <2>1, <2>2, <2>3 DEF Current
  <2>5. CutShort' => st.offset > 0
    BY <1>2, <1>3, <2>1, <2>2 DEF CutShort
  <2>6. base'.gen <= file'.gen /\ base'.from \in Nat
    BY <1>3, <2>1, <2>2, <2>3
  <2>7. Follows'
    BY <1>1, <1>2, <1>3, <2>1, <2>2, <2>4, <2>5, <2>6 DEF Follows, Current
  <2>8. Handed'
    BY <1>2, <1>3, <2>2, <2>3 DEF Handed
  <2>9. AllLines(file') = {}
    BY <2>2 DEF AllLines
  <2>10. OffsetAtLineStart' /\ Complete'
    BY <1>2, <2>4, <2>9 DEF OffsetAtLineStart, Complete, Current
  <2>11. Skips'
    <3>1. ASSUME Current'
          PROVE  ~st.skipping
      <4>1. Current
        BY <1>1, <1>2, <1>3, <2>4, <3>1 DEF Follows, CutShort, Current
      <4>2. InSkippedLine(st, file, base.from) /\ base.from <= 0
        BY <1>1, <2>4, <3>1, <4>1 DEF Skips, Follows, Current
      <4>3. \A n \in file.nls : n \in Nat
        BY <1>3 DEF FileOK
      <4> QED
        BY <1>3, <2>4, <3>1, <4>2, <4>3 DEF InSkippedLine
    <3> QED
      BY <1>2, <3>1 DEF Skips, InSkippedLine
  <2> QED
    BY <2>7, <2>8, <2>10, <2>11
<1> QED
  BY <1>4, <1>5, <1>6, <1>7 DEF Environment

\* The tailer's steps.
LEMMA ReadInv ==
  ASSUME IInv, OpenAndRead
  PROVE  /\ Follows' /\ Handed' /\ OffsetAtLineStart' /\ Skips' /\ Complete'
         /\ \A l \in out', e \in emitted : e.gen = l.gen => e.to <= l.from
<1> USE TailAssumption, TailerAssumption
<1>1. TypeOK /\ Follows /\ Handed /\ OffsetAtLineStart /\ Skips /\ Complete
  BY DEF IInv
<1>2. /\ FileOK(file, Inodes) /\ StateOK(st, Inodes)
      /\ file.gen \in Nat /\ base.gen \in Nat /\ file.ino \in Nat /\ st.ino \in Nat
      /\ file.size \in Nat /\ st.offset \in Nat /\ base.from \in Nat
      /\ \A e \in emitted : e.gen \in Nat /\ e.to \in Nat
  BY <1>1, TypeFacts
<1>3. /\ pc = "open" /\ pc' = "idle" /\ file' = file /\ base' = base /\ known' = known
      /\ Consume(st, file, st', out') /\ emitted' = emitted \cup out'
  BY DEF OpenAndRead
<1>4. Current /\ file.exists /\ ~CutShort
  BY <1>1, <1>3 DEF Follows, Current, CutShort, OpenAndRead
<1>5. /\ StateOK(st', Inodes) /\ st'.held = st.held /\ st'.ino = st.ino
      /\ st.offset <= st'.offset
      /\ st.offset <= file.size => st'.offset <= file.size
      /\ out' \subseteq [gen : {file.gen}, from : 0 .. MaxSize, to : 0 .. MaxSize]
      /\ \A l \in out' : st.offset <= l.from /\ l.to <= st'.offset
  BY <1>2, <1>3, ConsumeType
<1>6. st.offset <= file.size /\ base.from <= st.offset
  BY <1>1, <1>4 DEF Follows, Current
<1>7. AtLineStart(st, file) /\ InSkippedLine(st, file, base.from)
  BY <1>1, <1>4 DEF AtLineStart, OffsetAtLineStart, Skips, Current
<1>8. /\ \A l \in out' : IsLine(file, l)
      /\ AtLineStart(st', file)
      /\ InSkippedLine(st', file, base.from)
      /\ \A l \in AllLines(file) :
           st.offset < l.to /\ l.to <= st'.offset
             => \/ l \in out' \/ LineLength(l) > MaxPartial
                \/ (base.from > 0 /\ l.from <= base.from)
  BY <1>2, <1>3, <1>6, <1>7, ConsumeKeeps
<1>9. Current' = Current /\ st'.offset \in Nat
  BY <1>3, <1>5 DEF Current, StateOK
<1>10. Follows'
  BY <1>1, <1>2, <1>3, <1>4, <1>5, <1>6, <1>9 DEF Follows, Current, CutShort
<1>11. Handed'
  <2>1. ASSUME NEW e \in emitted
        PROVE  e.gen <= file.gen /\ (e.gen = file.gen => IsLine(file, e) /\ e.to <= st'.offset)
    BY <1>1, <1>2, <1>4, <1>5, <1>9 DEF Handed
  <2>2. ASSUME NEW e \in out'
        PROVE  e.gen = file.gen /\ IsLine(file, e) /\ e.to <= st'.offset
    BY <1>5, <1>8
  <2> QED
    BY <1>2, <1>3, <1>4, <1>9, <2>1, <2>2 DEF Handed
<1>12. OffsetAtLineStart'
  BY <1>3, <1>8 DEF OffsetAtLineStart, AtLineStart
<1>13. Skips'
  BY <1>3, <1>8 DEF Skips
<1>14. Complete'
  <2>1. ASSUME NEW l \in AllLines(file), l.to <= st'.offset, TailingFrom(l)
        PROVE  l \in emitted' \/ LineLength(l) > MaxPartial
    <3>1. l.to \in Nat /\ l.from \in Nat
      BY DEF AllLines, FileOK, TypeOK, IInv
    <3>2. CASE l.to <= st.offset
      BY <1>1, <1>3, <1>4, <2>1, <3>2 DEF Complete
    <3>3. CASE st.offset < l.to
      BY <1>2, <1>3, <1>8, <2>1, <3>1, <3>3 DEF TailingFrom
    <3> QED
      BY <1>2, <3>1, <3>2, <3>3
  <2> QED
    BY <1>3, <2>1 DEF Complete, TailingFrom
<1>15. ASSUME NEW l \in out', NEW e \in emitted, e.gen = l.gen
       PROVE  e.to <= l.from
  <2>1. l.gen = file.gen /\ st.offset <= l.from /\ l.from \in Nat
    BY <1>5
  <2>2. e.to <= st.offset
    BY <1>1, <1>4, <1>15, <2>1 DEF Handed
  <2> QED
    BY <1>2, <2>1, <2>2
<1> QED
  BY <1>10, <1>11, <1>12, <1>13, <1>14, <1>15

LEMMA StatInv ==
  ASSUME IInv, LinesStat \/ TailFromStat
  PROVE  Follows' /\ Handed' /\ OffsetAtLineStart' /\ Skips' /\ Complete'
<1> USE TailAssumption, TailerAssumption
<1>1. TypeOK /\ Follows /\ Handed /\ OffsetAtLineStart /\ Skips /\ Complete
  BY DEF IInv
<1>2. /\ FileOK(file, Inodes) /\ StateOK(st, Inodes)
      /\ file.gen \in Nat /\ base.gen \in Nat /\ file.ino \in Nat /\ st.ino \in Nat
      /\ file.size \in Nat /\ st.offset \in Nat /\ base.from \in Nat
      /\ \A e \in emitted : e.gen \in Nat /\ e.to \in Nat
  BY <1>1, TypeFacts
<1>3. /\ file' = file /\ emitted' = emitted /\ pc' = "open" /\ file.exists
      /\ known'
  BY DEF LinesStat, TailFromStat, CallsLines
<1>4. CASE LinesStat /\ st.held /\ ~Rotated(st, file)
  <2>1. /\ st'.held /\ st'.ino = file.ino /\ st'.offset = st.offset
        /\ st'.skipping = st.skipping /\ base' = base
    BY <1>2, <1>4, NotedType DEF LinesStat
  <2>2. st.ino = file.ino /\ ~(file.size < st.offset)
    BY <1>4 DEF Rotated
  <2>3. Current /\ Current'
    BY <1>1, <1>3, <1>4, <2>1, <2>2 DEF Follows, Current, CutShort
  <2>4. Follows'
    BY <1>1, <1>2, <1>3, <2>1, <2>2, <2>3 DEF Follows, Current, CutShort
  <2>5. Handed'
    BY <1>1, <1>3, <2>1, <2>3 DEF Handed
  <2>6. OffsetAtLineStart' /\ Skips' /\ Complete'
    BY <1>1, <1>3, <1>4, <2>1, <2>3
       DEF OffsetAtLineStart, Skips, Complete, InSkippedLine, Current, TailingFrom
  <2> QED
    BY <2>4, <2>5, <2>6
<1>5. ASSUME NEW o \in 0 .. file.size, ~Current,
             st'.held, st'.ino = file.ino, st'.offset = o, st'.skipping => o > 0,
             o > 0 => st'.skipping, base' = [gen |-> file.gen, from |-> o]
      PROVE  Follows' /\ Handed' /\ OffsetAtLineStart' /\ Skips' /\ Complete'
  <2>1. Current'
    BY <1>3, <1>5 DEF Current
  <2>2. Follows'
    BY <1>2, <1>3, <1>5, <2>1 DEF Follows, Current, CutShort
  <2>3. \A e \in emitted : e.gen <= file.gen /\ e.gen # file.gen
    BY <1>1, <1>3, <1>5 DEF Handed
  <2>4. Handed'
    BY <1>3, <2>3 DEF Handed
  <2>5. OffsetAtLineStart'
    BY <1>2, <1>5 DEF OffsetAtLineStart
  <2>6. Skips'
    BY <1>5 DEF Skips, InSkippedLine
  <2>7. Complete'
    <3>1. ASSUME NEW l \in AllLines(file), l.to <= o, o = 0 \/ l.from > o
          PROVE  FALSE
      <4>1. l.to \in 1 .. MaxSize /\ l.from \in 0 .. MaxSize /\ l.from < l.to
        BY <1>2 DEF AllLines, IsLine, FileOK
      <4> QED
        BY <1>2, <3>1, <4>1
    <3> QED
      BY <1>3, <1>5, <3>1 DEF Complete, TailingFrom
  <2> QED
    BY <2>2, <2>4, <2>5, <2>6, <2>7
<1>6. CASE LinesStat /\ ~(st.held /\ ~Rotated(st, file))
  <2>1. /\ st'.held /\ st'.ino = file.ino /\ st'.offset = 0 /\ st'.skipping = FALSE
        /\ base' = [gen |-> file.gen, from |-> 0]
    BY <1>2, <1>6, NotedType DEF LinesStat
  <2>2. ~Current
    BY <1>1, <1>2, <1>6 DEF Rotated, Follows, Current
  <2>3. 0 \in 0 .. file.size
    BY <1>2
  <2> QED
    BY <1>5, <2>1, <2>2, <2>3
<1>7. CASE TailFromStat
  <2>1. ~Current
    BY <1>1, <1>7 DEF TailFromStat, Follows, Current
  <2> DEFINE c == Cold(file, LastN)
  <2>2. st' = c /\ base' = [gen |-> file.gen, from |-> c.offset]
    BY <1>7 DEF TailFromStat
  <2>3. /\ StateOK(c, Inodes) /\ c.held /\ c.ino = file.ino /\ c.offset <= file.size
        /\ c.skipping <=> c.offset > 0
    BY <1>2, ColdType
  <2>4. c.offset \in 0 .. file.size
    BY <1>2, <2>3 DEF StateOK
  <2> HIDE DEF c
  <2> QED
    BY <1>5, <2>1, <2>2, <2>3, <2>4
<1> QED
  BY <1>4, <1>6, <1>7

LEMMA NextInv == RaceFree /\ IInv /\ [Next]_vars => IInv'
<1> SUFFICES ASSUME RaceFree, IInv, [Next]_vars
             PROVE  IInv'
  OBVIOUS
<1>1. TypeOK'
  BY NextType DEF IInv
<1>2. Follows' /\ Handed' /\ OffsetAtLineStart' /\ Skips' /\ Complete'
  <2>1. TypeOK /\ Follows /\ Handed /\ OffsetAtLineStart /\ Skips /\ Complete
    BY DEF IInv
  <2>2. CASE Environment
    BY <2>2, EnvironmentInv
  <2>3. CASE LinesStat \/ TailFromStat
    BY <2>3, StatInv
  <2>4. CASE OpenAndRead
    BY <2>4, ReadInv
  <2>5. CASE LinesUnchanged \/ TailFromMissing \/ UNCHANGED vars
    <3>1. /\ UNCHANGED <<file, st, pc, emitted, base>>
          /\ known' = known \/ known' = TRUE
      BY <2>5 DEF LinesUnchanged, TailFromMissing, vars
    <3>2. Follows'
      BY <2>1, <3>1 DEF Follows, Current, CutShort
    <3> QED
      BY <2>1, <3>1, <3>2 DEF Handed, OffsetAtLineStart, Skips, Complete, Current, TailingFrom
  <2>6. CASE LinesMissing \/ OpenFails \/ Prune
    <3>1. /\ file' = file /\ pc' = "idle" /\ st' = None /\ ~st'.held
          /\ base'.gen = base.gen \/ base'.gen = file.gen
          /\ emitted' = {} \/ (emitted' = emitted /\ ~file.exists)
      BY <2>6 DEF LinesMissing, OpenFails, Prune, CallsLines, None, MayFail, RaceFree
    <3>2. Follows'
      BY <2>1, <3>1, TypeFacts DEF Follows, Current, CutShort
    <3>3. Handed'
      BY <2>1, <3>1 DEF Handed
    <3> QED
      BY <3>1, <3>2, <3>3 DEF OffsetAtLineStart, Skips, Complete, Current
  <2> QED
    BY <2>2, <2>3, <2>4, <2>5, <2>6 DEF Next, Tailing, Call
<1> QED
  BY <1>1, <1>2 DEF IInv

LEMMA Invariance == ASSUME RaceFree PROVE Spec => []IInv
BY InitInv, NextInv, PTL DEF Spec

-----------------------------------------------------------------------------
\* A tailer never hands out a fragment: every line returned is a complete line of
\* the file it was read from (the doc comment of Lines), as long as the path is
\* replaced by new files and only between calls.
THEOREM WholeLines == ASSUME RaceFree PROVE Spec => []OnlyWholeLines
<1>1. IInv => OnlyWholeLines
  BY DEF IInv, Handed, OnlyWholeLines
<1> QED
  BY <1>1, Invariance, PTL

\* No line short enough is ever skipped by a read, a long line or a rotation.
THEOREM NothingLost == ASSUME RaceFree PROVE Spec => []NoLineLost
<1>1. IInv => NoLineLost
  BY DEF IInv, Complete, Current, NoLineLost
<1> QED
  BY <1>1, Invariance, PTL

\* A tailer that is not skipping resumes at a line start.
THEOREM ResumesAtLineStart == ASSUME RaceFree PROVE Spec => []OffsetAtLineStart
<1>1. IInv => OffsetAtLineStart
  BY DEF IInv
<1> QED
  BY <1>1, Invariance, PTL

\* No line is handed out twice or after a later one.
THEOREM HandedOutInOrder == ASSUME RaceFree PROVE Spec => InOrderOnce
<1> DEFINE Ordered == \A l \in out', e \in emitted : e.gen = l.gen => e.to <= l.from
<1>1. IInv /\ [Next]_vars => [Ordered]_<<st, out, emitted>>
  <2> SUFFICES ASSUME IInv, Next, ~UNCHANGED <<st, out, emitted>>
               PROVE  Ordered
    BY DEF vars
  <2>1. CASE OpenAndRead
    BY <2>1, ReadInv
  <2>2. CASE Environment
    BY <2>2, EnvironmentType DEF IInv, TypeOK
  <2>3. CASE Call \/ OpenFails \/ Prune
    BY <2>3 DEF Call, LinesMissing, LinesUnchanged, LinesStat, TailFromMissing,
                TailFromStat, OpenFails, Prune
  <2> QED
    BY <2>1, <2>2, <2>3 DEF Next, Tailing
<1>2. Spec => [][Ordered]_<<st, out, emitted>>
  <2> HIDE DEF Ordered
  <2> QED
    BY <1>1, Invariance, PTL DEF Spec
<1> QED
  BY <1>2 DEF InOrderOnce

-----------------------------------------------------------------------------
\* Refinement: the tailer is a line feed of whatever file is at the path.

LEMMA LinesAreLines ==
  ASSUME NEW l, IsLine(file, l), FileOK(file, Inodes)
  PROVE  <<l.from, l.to>> \in Feed!Lines(file.nls)
BY DEF IsLine, Feed!Lines

FeedFed == {<<l.from, l.to>> : l \in {e \in emitted : e.gen = file.gen}}

LEMMA FeedInit == Init => Feed!Init
<1> SUFFICES ASSUME Init PROVE Feed!Init
  OBVIOUS
<1>1. TypeOK
  BY InitType
<1>2. file.nls \in SUBSET (1 .. MaxSize) /\ ~OfThisFile
  BY <1>1 DEF Init, None, TypeOK, FileOK, OfThisFile
<1> QED
  BY <1>2 DEF Feed!Init

\* While the state is not about the file at the path, the feed has not begun; and
\* when it comes to be, nothing of that file was returned before.
LEMMA NothingFedYet ==
  ASSUME Handed, file.exists, ~OfThisFile
  PROVE  FeedFed = {}
BY DEF Handed, Current, OfThisFile, FeedFed

LEMMA FeedNext ==
  ASSUME RaceFree, IInv, [Next]_vars
  PROVE  [Feed!Write \/ Feed!Replace \/ Feed!Begin \/ Feed!Feed]_(Feed!feedVars)
<1> USE TailAssumption, TailerAssumption
<1> DEFINE mark == IF OfThisFile THEN st.offset ELSE 0
           start == IF OfThisFile THEN base.from ELSE 0
           fed == IF OfThisFile THEN FeedFed ELSE {}
<1>0. ASSUME /\ file'.nls = file.nls /\ mark' = mark /\ start' = start /\ fed' = fed
      PROVE  UNCHANGED Feed!feedVars
  BY <1>0 DEF Feed!feedVars, FeedFed
<1>1. /\ TypeOK /\ Follows /\ Handed /\ OffsetAtLineStart /\ Skips /\ FileOK(file, Inodes)
      /\ StateOK(st, Inodes) /\ st.offset \in Nat /\ base.from \in Nat
      /\ FileOK(file', Inodes)
  BY TypeFacts, NextType DEF IInv, TypeOK
<1>2. CASE Appending
  <2>1. PICK k \in 1 .. MaxSize : \E ns \in SUBSET (file.size + 1 .. file.size + k) : Append(k, ns)
    BY <1>2 DEF Appending
  <2>2. PICK ns \in SUBSET (file.size + 1 .. file.size + k) : Append(k, ns)
    BY <2>1
  <2>3. /\ file'.nls = file.nls \cup ns /\ file.size + k <= MaxSize
        /\ file'.exists = file.exists /\ file'.gen = file.gen
    BY <1>1, <2>2 DEF Append, FileOK
  <2>4. ns \in SUBSET (1 .. MaxSize) /\ \A a \in file.nls, n \in ns : a < n
    BY <1>1, <2>3 DEF FileOK
  <2>5. UNCHANGED <<st, emitted, base>>
    BY <2>2 DEF Append
  <2>6. mark' = mark /\ start' = start /\ fed' = fed
    BY <2>3, <2>5 DEF OfThisFile, FeedFed
  <2> QED
    BY <2>3, <2>4, <2>6 DEF Feed!Write, FeedFed
<1>3. CASE Rotate \/ Delete \/ Recreate
  <2>2. ~OfThisFile'
    <3>1. CASE Delete
      BY <1>1, <3>1 DEF Delete, OfThisFile, FileOK
    <3>2. CASE Rotate \/ Recreate
      <4>1. file'.gen = file.gen + 1 /\ base' = base
        BY <3>2 DEF Rotate, Recreate, Replacement
      <4>2. base.gen \in Nat /\ file.gen \in Nat /\ base.gen <= file.gen
        BY <1>1 DEF TypeOK, FileOK, Follows
      <4> QED
        BY <4>1, <4>2 DEF OfThisFile
    <3> QED
      BY <1>3, <3>1, <3>2
  <2>3. file'.nls \in SUBSET (1 .. MaxSize)
    BY <1>1 DEF FileOK
  <2> QED
    BY <2>2, <2>3 DEF Feed!Replace
<1>8. CASE Truncate
  <2>1. /\ file'.gen = file.gen + 1 /\ emitted' = emitted /\ st' = st
        /\ base' = IF st.held /\ st.ino = file.ino /\ st.offset = 0
                    THEN [gen |-> file.gen + 1, from |-> 0] ELSE base
    BY <1>8 DEF Truncate, Replacement
  <2>2. /\ file.gen \in Nat /\ base.gen \in Nat /\ base.gen <= file.gen
        /\ \A e \in emitted : e.gen \in Nat /\ e.gen <= file.gen
    BY <1>1, TypeFacts DEF Follows, Handed
  <2>3. FeedFed' = {}
    BY <2>1, <2>2 DEF FeedFed
  <2>4. OfThisFile' => st'.offset = 0 /\ base'.from = 0
    BY <2>1, <2>2 DEF OfThisFile
  <2>5. mark' = 0 /\ start' = 0 /\ fed' = {}
    BY <2>3, <2>4
  <2>6. file'.nls \in SUBSET (1 .. MaxSize)
    BY <1>1 DEF FileOK
  <2> QED
    BY <2>5, <2>6 DEF Feed!Replace, FeedFed
<1>4. CASE LinesMissing \/ LinesUnchanged \/ TailFromMissing \/ OpenFails \/ UNCHANGED vars
  <2>1. CASE LinesUnchanged \/ TailFromMissing \/ UNCHANGED vars
    <3>1. UNCHANGED <<file, st, base, emitted>>
      BY <2>1 DEF LinesUnchanged, TailFromMissing, vars
    <3> QED
      BY <1>0, <3>1 DEF OfThisFile, FeedFed
  <2>2. CASE LinesMissing \/ OpenFails
    <3>1. ~file.exists /\ file' = file
      BY <2>2 DEF LinesMissing, OpenFails, MayFail, RaceFree
    <3>2. ~OfThisFile /\ ~OfThisFile'
      BY <3>1 DEF OfThisFile
    <3> QED
      BY <1>0, <3>1, <3>2
  <2> QED
    BY <1>4, <2>1, <2>2
<1>5. CASE LinesStat
  <2>1. /\ st' = Noted(st, file) /\ file' = file /\ emitted' = emitted /\ file.exists
        /\ base' = IF st.held /\ ~Rotated(st, file) THEN base
                                                   ELSE [gen |-> file.gen, from |-> 0]
    BY <1>5 DEF LinesStat
  <2>2. CASE OfThisFile
    <3>1. ~Rotated(st, file)
      <4>1. st.ino = file.ino /\ st.offset <= file.size
        BY <1>1, <2>2 DEF OfThisFile, Follows, Current
      <4>2. file.size \in Nat
        BY <1>1 DEF FileOK
      <4> QED
        BY <1>1, <4>1, <4>2 DEF Rotated
    <3>2. st'.offset = st.offset /\ st'.held /\ base' = base
      BY <1>1, <2>1, <2>2, <3>1, NotedType DEF OfThisFile
    <3> QED
      BY <1>0, <2>1, <2>2, <3>2 DEF OfThisFile, FeedFed
  <2>3. CASE ~OfThisFile
    <3>1. FeedFed = {}
      BY <1>1, <2>1, <2>3, NothingFedYet
    <3>2. CASE st.held /\ ~Rotated(st, file)
      <4>1. base' = base /\ base.gen # file.gen
        BY <2>1, <2>3, <3>2 DEF OfThisFile
      <4> QED
        BY <1>0, <2>1, <2>3, <4>1 DEF OfThisFile
    <3>3. CASE ~(st.held /\ ~Rotated(st, file))
      <4>1. st'.offset = 0 /\ base'.from = 0
        BY <1>1, <2>1, <3>3, NotedType
      <4>2. FeedFed' = {}
        BY <2>1, <3>1 DEF FeedFed
      <4> QED
        BY <1>0, <2>1, <2>3, <4>1, <4>2
    <3> QED
      BY <3>2, <3>3
  <2> QED
    BY <2>2, <2>3
<1>6. CASE TailFromStat \/ Prune
  <2>1. file' = file
    BY <1>6 DEF TailFromStat, Prune
  <2>2. CASE TailFromStat
    <3>1. ~OfThisFile /\ file.exists
      BY <1>1, <2>2 DEF TailFromStat, Follows, OfThisFile
    <3>2. FeedFed' = {}
      <4>1. FeedFed = {}
        BY <1>1, <3>1, NothingFedYet
      <4> QED
        BY <2>2, <4>1 DEF TailFromStat, FeedFed
    <3>3. st'.offset \in 0 .. MaxSize /\ base'.from = st'.offset
      BY <1>1, <2>2, ColdType DEF TailFromStat, StateOK
    <3>4. mark' \in 0 .. MaxSize /\ start' = mark' /\ fed' = {}
      BY <3>2, <3>3
    <3> QED
      BY <2>1, <3>4 DEF Feed!Begin, FeedFed
  <2>3. CASE Prune
    <3>1. ~OfThisFile'
      BY <2>3 DEF Prune, None, OfThisFile
    <3>2. mark' \in 0 .. MaxSize /\ start' = mark' /\ fed' = {}
      BY <3>1
    <3> QED
      BY <2>1, <3>2 DEF Feed!Begin, FeedFed
  <2> QED
    BY <1>6, <2>2, <2>3
<1>7. CASE OpenAndRead
  <2>1. /\ Consume(st, file, st', out') /\ emitted' = emitted \cup out'
        /\ file' = file /\ base' = base
    BY <1>7 DEF OpenAndRead
  <2>2. Current /\ OfThisFile /\ st.offset <= file.size
    BY <1>1, <1>7 DEF OpenAndRead, Follows, Current, OfThisFile
  <2>3. AtLineStart(st, file) /\ InSkippedLine(st, file, base.from)
    BY <1>1, <2>2 DEF AtLineStart, OffsetAtLineStart, Skips, Current
  <2>4. /\ StateOK(st', Inodes) /\ st.offset <= st'.offset /\ st'.held = st.held
        /\ out' \subseteq [gen : {file.gen}, from : 0 .. MaxSize, to : 0 .. MaxSize]
        /\ \A l \in out' : st.offset <= l.from /\ l.to <= st'.offset
    BY <1>1, <2>1, ConsumeType
  <2>5. /\ \A l \in out' : IsLine(file, l)
        /\ \A l \in AllLines(file) :
             st.offset < l.to /\ l.to <= st'.offset
               => \/ l \in out' \/ LineLength(l) > MaxPartial
                  \/ (base.from > 0 /\ l.from <= base.from)
    BY <1>1, <2>1, <2>2, <2>3, ConsumeKeeps
  <2>6. st'.offset \in st.offset .. MaxSize
    BY <1>1, <2>4 DEF StateOK
  <2>11. OfThisFile'
    BY <2>1, <2>2, <2>4 DEF OfThisFile
  <2>12. /\ fed' = FeedFed \cup {<<l.from, l.to>> : l \in out'} /\ fed = FeedFed
         /\ mark = st.offset /\ mark' = st'.offset /\ start = base.from /\ start' = base.from
    <3>1. \A l \in out' : l.gen = file.gen
      BY <2>4
    <3> QED
      BY <2>1, <2>2, <2>11, <3>1 DEF FeedFed
  <2>7. fed \subseteq fed'
    BY <2>12
  <2>8. ASSUME NEW p \in fed' \ fed
        PROVE  p \in Feed!Lines(file.nls) /\ st.offset <= p[1] /\ p[2] <= st'.offset
    <3>1. PICK l \in out' : p = <<l.from, l.to>>
      BY <2>8, <2>12
    <3> QED
      BY <1>1, <2>4, <2>5, <3>1, LinesAreLines
  <2>9. ASSUME NEW p \in Feed!Lines(file.nls), st.offset < p[2], p[2] <= st'.offset
        PROVE  p \in fed' \/ p[2] - p[1] - 1 > MaxPartial \/ (start > 0 /\ p[1] <= start)
    <3> DEFINE l == [gen |-> file.gen, from |-> p[1], to |-> p[2]]
    <3>1. /\ p[1] \in {0} \cup file.nls /\ p[2] \in file.nls /\ p = <<p[1], p[2]>>
          /\ p[1] < p[2] /\ \A n \in file.nls : n <= p[1] \/ p[2] <= n
      BY DEF Feed!Lines
    <3>2. l \in AllLines(file)
      BY <3>1 DEF AllLines, IsLine
    <3>3. \/ l \in out' \/ LineLength(l) > MaxPartial
          \/ (base.from > 0 /\ l.from <= base.from)
      BY <2>5, <2>9, <3>2
    <3>4. CASE l \in out'
      <4>1. <<l.from, l.to>> \in fed'
        BY <2>12, <3>4
      <4> QED
        BY <3>1, <4>1
    <3>5. CASE LineLength(l) > MaxPartial \/ (base.from > 0 /\ l.from <= base.from)
      BY <2>12, <3>5 DEF LineLength
    <3> QED
      BY <3>3, <3>4, <3>5
  <2>10. start' = start /\ file'.nls = file.nls /\ mark' \in mark .. MaxSize
    BY <2>1, <2>6, <2>12
  <2>13. /\ \A p \in fed' \ fed : p \in Feed!Lines(file.nls) /\ mark <= p[1] /\ p[2] <= mark'
         /\ \A p \in Feed!Lines(file.nls) : mark < p[2] /\ p[2] <= mark'
              => p \in fed' \/ p[2] - p[1] - 1 > MaxPartial \/ (start > 0 /\ p[1] <= start)
    BY <2>8, <2>9, <2>12
  <2> HIDE DEF fed, mark, start
  <2>14. /\ mark' \in mark .. MaxSize /\ fed \subseteq fed' /\ start' = start
         /\ file'.nls = file.nls
    BY <2>7, <2>10
  <2> QED
    BY <2>13, <2>14 DEF Feed!Feed, Feed!Exempt, fed, mark, start, FeedFed
<1> QED
  BY <1>2, <1>3, <1>4, <1>5, <1>6, <1>7, <1>8 DEF Next, Environment, Tailing, Call

\* The tailer implements the line feed: whatever the reads saw of each line, a
\* line is handed out when the offset passes its end, whole and once, or it is
\* longer than MaxPartial, or the caller began its window inside it; after a rename
\* or a removal the feed starts over on the new file.
THEOREM ImplementsLineFeed == ASSUME RaceFree PROVE Spec => IsLineFeed
<1>1. Init => Feed!Init
  BY FeedInit
<1>2. IInv /\ [Next]_vars
        => [Feed!Write \/ Feed!Replace \/ Feed!Begin \/ Feed!Feed]_(Feed!feedVars)
  BY FeedNext
<1> QED
  BY <1>1, <1>2, Invariance, PTL DEF Spec, IsLineFeed, Feed!Spec
=============================================================================
