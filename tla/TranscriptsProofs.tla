-------------------------- MODULE TranscriptsProofs --------------------------
(***************************************************************************)
(* Proofs about Transcripts, and about Sessions, which composes it with    *)
(* the claude processes, for every list of transcripts, every kind, window *)
(* and size.  A read that fails after Stat breaks all of them: see         *)
(* MCTranscripts.  Directories that cannot be listed do not.               *)
(***************************************************************************)
EXTENDS Sessions, FiniteSetTheorems, TLAPS

Readable == "unreadable" \notin Faults

-----------------------------------------------------------------------------
\* The inductive invariant, in parts.
FileIsTranscript(p) ==
  /\ file[p].size \in 0 .. MaxSize
  /\ file[p] = Transcript(file[p].ino, file[p].size)

\* Nothing is known of the path, or the tailer's state is one between two lines of the
\* file that is there, and what was folded are the lines from the start on.
Untouched(p) == states[p] = Unknown /\ tails[p] = None

\* s has counted the lines between two positions of a transcript.
Counts(kind, s, from, offset) ==
  /\ s \in [known : BOOLEAN, turns : Nat, tokens : Nat]
  /\ s.turns = offset - from
  /\ CASE kind = "claude" -> s.tokens = s.turns
       [] kind = "codex" -> s.tokens = IF s.turns = 0 THEN 0 ELSE offset
       [] OTHER -> s.tokens = 0

\* t is a state for transcript number i, with an offset in its n lines.
StateIn(t, i, n) ==
  t \in [held : {TRUE}, offset : 0 .. n, size : Nat, mtime : Nat, ino : {i}, skipping : BOOLEAN]

FollowedWith(kind, i, n, t, s, from) ==
  /\ StateIn(t, i, n) /\ ~t.skipping
  /\ from \in 0 .. t.offset
  /\ s.known /\ Counts(kind, s, from, t.offset)

Followed(p) ==
  FollowedWith(KindOf[p], file[p].ino, file[p].size, tails[p], states[p], start[p])

Domains ==
  /\ DOMAIN file = PathSet /\ DOMAIN tails = PathSet /\ DOMAIN states = PathSet
  /\ DOMAIN start = PathSet /\ DOMAIN sessions = PathSet
  /\ visit \in {Idle} \cup 0 .. Len(Paths)

PathOK(p) == FileIsTranscript(p) /\ (Untouched(p) \/ Followed(p))

IInv == Domains /\ \A p \in PathSet : PathOK(p)

-----------------------------------------------------------------------------
\* The lines of a transcript of n lines from the b-th on, and how many they are.
LEMMA LinesOfTranscript ==
  ASSUME NEW i, NEW n \in Nat, NEW b \in 0 .. n
  PROVE  LinesFrom(Transcript(i, n), b) = {[gen |-> 0, from |-> k, to |-> k + 1] : k \in b .. n - 1}
<1> DEFINE f == Transcript(i, n)
           L(k) == [gen |-> 0, from |-> k, to |-> k + 1]
<1>1. f.gen = 0 /\ f.nls = 1 .. n
  BY DEF Transcript
<1>2. ASSUME NEW l \in LinesFrom(f, b)
      PROVE  l \in {L(k) : k \in b .. n - 1}
  <2>1. /\ l \in [gen : {0}, from : {b} \cup 1 .. n, to : 1 .. n]
        /\ b <= l.from /\ l.from < l.to /\ \A m \in 1 .. n : m <= l.from \/ l.to <= m
    BY <1>1, <1>2 DEF LinesFrom
  <2>2. l.from \in b .. n - 1 /\ l.from + 1 \in 1 .. n
    BY <2>1
  <2>3. l.to = l.from + 1
    BY <2>1, <2>2
  <2>4. l = L(l.from)
    BY <2>1, <2>3
  <2> QED
    BY <2>2, <2>4
<1>3. ASSUME NEW k \in b .. n - 1
      PROVE  L(k) \in LinesFrom(f, b)
  <2>1. L(k) \in [gen : {0}, from : {b} \cup 1 .. n, to : 1 .. n]
    OBVIOUS
  <2>2. \A m \in 1 .. n : m <= k \/ k + 1 <= m
    OBVIOUS
  <2> QED
    BY <1>1, <2>1, <2>2 DEF LinesFrom
<1> QED
  BY <1>2, <1>3

LEMMA LineCount ==
  ASSUME NEW i, NEW n \in Nat, NEW b \in 0 .. n
  PROVE  /\ IsFiniteSet(LinesFrom(Transcript(i, n), b))
         /\ Cardinality(LinesFrom(Transcript(i, n), b)) = n - b
<1> DEFINE K == b .. n - 1
           S == LinesFrom(Transcript(i, n), b)
           g == [k \in K |-> [gen |-> 0, from |-> k, to |-> k + 1]]
<1>1. S = {[gen |-> 0, from |-> k, to |-> k + 1] : k \in K}
  BY LinesOfTranscript
<1>2. g \in Bijection(K, S)
  <2>1. g \in [K -> S]
    BY <1>1
  <2>2. \A k, m \in K : g[k] = g[m] => k = m
    OBVIOUS
  <2>3. \A l \in S : \E k \in K : g[k] = l
    BY <1>1
  <2> QED
    BY <2>1, <2>2, <2>3 DEF Bijection, Injection, Surjection, IsInjective
<1>3. IsFiniteSet(K) /\ Cardinality(K) = n - b
  <2>1. b \in Int /\ n - 1 \in Int /\ (b > n - 1 => n - b = 0)
    OBVIOUS
  <2>2. IsFiniteSet(K) /\ Cardinality(K) = IF b > n - 1 THEN 0 ELSE (n - 1) - b + 1
    BY <2>1, FS_Interval
  <2> QED
    BY <2>1, <2>2
<1>4. ExistsBijection(K, S)
  BY <1>2 DEF ExistsBijection
<1> QED
  BY <1>3, <1>4, FS_Bijection

\* The last of them is the last of the transcript.
LEMMA LastLine ==
  ASSUME NEW i, NEW n \in 0 .. MaxSize, NEW b \in 0 .. n, b < n
  PROVE  LastTotal(LinesFrom(Transcript(i, n), b)) = n
<1> DEFINE S == LinesFrom(Transcript(i, n), b)
<1>1. S = {[gen |-> 0, from |-> k, to |-> k + 1] : k \in b .. n - 1}
  BY TailAssumption, LinesOfTranscript
<1>2. /\ n - 1 \in b .. n - 1 /\ n \in 1 .. MaxSize
      /\ \E l \in S : l.to = n
      /\ \A l \in S : l.to \in Int /\ l.to <= n
  <2>1. n - 1 \in b .. n - 1 /\ n \in 1 .. MaxSize /\ (n - 1) + 1 = n
    BY TailAssumption
  <2>2. [gen |-> 0, from |-> n - 1, to |-> (n - 1) + 1] \in S
    BY <1>1, <2>1
  <2>3. \A l \in S : \E k \in b .. n - 1 : l.to = k + 1
    BY <1>1
  <2> QED
    BY <2>1, <2>2, <2>3
<1>3. \A m \in 1 .. MaxSize : (\E l \in S : l.to = m /\ \A o \in S : o.to <= m) <=> m = n
  BY <1>2
<1> QED
  BY <1>2, <1>3 DEF LastTotal

\* A call of consume reads a transcript to its end, and skips no line but one it began
\* in the middle of.
LEMMA ConsumeTranscript ==
  ASSUME NEW i, NEW n \in 0 .. MaxSize, NEW t, NEW ls,
         NEW s, StateIn(s, i, n), s.skipping => s.offset < n,
         Consume(s, Transcript(i, n), t, ls)
  PROVE  /\ StateIn(t, i, n) /\ ~t.skipping /\ t.offset = n
         /\ \E b \in s.offset .. n :
              (s.skipping \/ b = s.offset) /\ ls = LinesFrom(Transcript(i, n), b)
<1> DEFINE f == Transcript(i, n)
<1>1. f.size = n /\ f.nls = 1 .. n
  BY DEF Transcript
<1> USE DEF StateIn
<1>2. ~NothingToKeep(s, f)
  <2>1. ASSUME s.skipping PROVE n \in f.nls /\ ~(n <= s.offset)
    BY <1>1, <2>1, TailAssumption
  <2> QED
    BY <2>1 DEF NothingToKeep
<1>3. PICK b \in {s.offset} \cup f.nls, e \in {s.offset} \cup f.nls :
        Begins(s, f, b) /\ Ends(f, b, e) /\ t = Settled(s, f, e) /\ ls = LinesFrom(f, b)
  BY <1>2 DEF Consume
<1>4. b \in s.offset .. n /\ (s.skipping \/ b = s.offset)
  BY <1>1, <1>3 DEF Begins
<1>5. e = n
  <2>1. n \in Nat /\ s.offset \in 0 .. n
    BY TailAssumption
  <2>2. e \in 0 .. n
    BY <1>1, <1>3, <2>1
  <2>3. b <= e /\ (e = b \/ e \in 1 .. n) /\ \A m \in 1 .. n : m <= e
    BY <1>1, <1>3 DEF Ends
  <2> QED
    BY <1>4, <2>1, <2>2, <2>3
<1>6. t = [s EXCEPT !.offset = n, !.skipping = FALSE]
  BY <1>1, <1>3, <1>5, TailAssumption DEF Settled
<1>7. n \in Nat /\ n \in 0 .. n
  BY TailAssumption
<1>8. StateIn(t, i, n) /\ ~t.skipping /\ t.offset = n
  BY <1>6, <1>7
<1> QED
  BY <1>3, <1>4, <1>8

-----------------------------------------------------------------------------
\* The fold of the lines between two offsets keeps turns and tokens right.
LEMMA FoldKeeps ==
  ASSUME NEW p \in PathSet, NEW i, NEW n \in 0 .. MaxSize, NEW b \in 0 .. n, NEW from \in 0 .. b,
         NEW s, Counts(KindOf[p], s, from, b)
  PROVE  /\ Folded(p, s, LinesFrom(Transcript(i, n), b)).known
         /\ Counts(KindOf[p], Folded(p, s, LinesFrom(Transcript(i, n), b)), from, n)
<1> DEFINE ls == LinesFrom(Transcript(i, n), b)
           s2 == Folded(p, s, ls)
<1>1. /\ n \in Nat /\ b \in Nat /\ from \in Nat
      /\ KindOf[p] \in {"claude", "codex", "cursor", "manifest"}
  BY TailAssumption, TranscriptsAssumption
<1>2. IsFiniteSet(ls) /\ Cardinality(ls) = n - b
  BY <1>1, LineCount
<1>3. ls = {} <=> b = n
  BY <1>1, <1>2, FS_EmptySet
<1>4. b # n => LastTotal(ls) = n
  BY <1>1, LastLine
<1> HIDE DEF ls
<1>5. PICK tk : tk = Tokens(p, s.tokens, ls)
  OBVIOUS
<1>6. /\ s.turns \in Nat /\ s.tokens \in Nat /\ s.turns + (n - b) = n - from
      /\ n - from \in Nat /\ (n - from = 0 => b = n /\ s.turns = 0)
  <2>1. s.turns \in Nat /\ s.tokens \in Nat /\ s.turns = b - from
    BY DEF Counts
  <2>2. (b - from) + (n - b) = n - from /\ n - from \in Nat
    BY <1>1
  <2>3. n - from = 0 => b = n /\ b - from = 0
    BY <1>1
  <2> QED
    BY <2>1, <2>2, <2>3
<1>7. s2 = [known |-> TRUE, turns |-> n - from, tokens |-> tk]
  BY <1>2, <1>5, <1>6 DEF Folded
<1>8. /\ tk \in Nat
      /\ CASE KindOf[p] = "claude" -> tk = n - from
           [] KindOf[p] = "codex" -> tk = IF n - from = 0 THEN 0 ELSE n
           [] OTHER -> tk = 0
  <2>1. CASE KindOf[p] = "claude"
    <3>1. tk = s.tokens + (n - b) /\ s.tokens = s.turns
      BY <1>2, <1>5, <2>1 DEF Tokens, Counts
    <3> QED
      BY <1>1, <1>6, <2>1, <3>1
  <2>2. CASE KindOf[p] = "codex"
    <3>1. tk = (IF b = n THEN s.tokens ELSE n) /\ s.tokens = IF s.turns = 0 THEN 0 ELSE b
      BY <1>3, <1>4, <1>5, <2>2 DEF Tokens, Counts
    <3>2. tk = IF n - from = 0 THEN 0 ELSE n
      BY <1>1, <1>6, <3>1
    <3> QED
      BY <1>1, <2>2, <3>2
  <2>3. CASE KindOf[p] \notin {"claude", "codex"}
    BY <1>5, <2>3 DEF Tokens, Counts
  <2> QED
    BY <2>1, <2>2, <2>3
<1>9. s2.known /\ Counts(KindOf[p], s2, from, n)
  BY <1>6, <1>7, <1>8 DEF Counts
<1> QED
  BY <1>9 DEF ls

\* A path is begun with the lines in the window, and followed from the first of them.
LEMMA ColdFollows ==
  ASSUME NEW p \in PathSet, NEW i, NEW n \in 0 .. MaxSize, NEW t, NEW ls,
         Consume(Cold(Transcript(i, n), Window), Transcript(i, n), t, ls)
  PROVE  FollowedWith(KindOf[p], i, n, t, Folded(p, Unknown, ls), t.offset - Cardinality(ls))
<1>1. n \in Nat /\ Window \in Nat \ {0}
  BY TailAssumption, TranscriptsAssumption
<1>2. PICK s : s = Cold(Transcript(i, n), Window)
  OBVIOUS
<1> DEFINE o == IF n > Window THEN n - Window ELSE 0
<1>3. s = [held |-> TRUE, offset |-> o, size |-> n, mtime |-> n, ino |-> i, skipping |-> n > Window]
  BY <1>2 DEF Cold, Transcript
<1>4. o \in 0 .. n /\ (n > Window => o < n)
  BY <1>1
<1> HIDE DEF o
<1>5. StateIn(s, i, n) /\ s.offset = o /\ (s.skipping => s.offset < n)
  <2>1. (n > Window) \in BOOLEAN
    OBVIOUS
  <2>2. StateIn(s, i, n)
    BY <1>1, <1>3, <1>4, <2>1 DEF StateIn
  <2>3. s.offset = o /\ s.skipping = (n > Window)
    BY <1>3
  <2> QED
    BY <1>4, <2>2, <2>3
<1>6. StateIn(t, i, n) /\ ~t.skipping /\ t.offset = n
  BY <1>2, <1>5, ConsumeTranscript
<1>7. PICK b \in s.offset .. n : ls = LinesFrom(Transcript(i, n), b)
  BY <1>2, <1>5, ConsumeTranscript
<1>8. b \in 0 .. n /\ b \in 0 .. b
  BY <1>1, <1>4, <1>5
<1>9. n - Cardinality(ls) = b
  BY <1>1, <1>7, <1>8, LineCount
<1>10. Counts(KindOf[p], Unknown, b, b)
  BY <1>8 DEF Counts, Unknown
<1>11. Folded(p, Unknown, ls).known /\ Counts(KindOf[p], Folded(p, Unknown, ls), b, n)
  BY <1>7, <1>8, <1>10, FoldKeeps
<1> QED
  BY <1>6, <1>8, <1>9, <1>11 DEF FollowedWith

\* A path that is followed is followed on, from the same line.
LEMMA CallFollows ==
  ASSUME Readable, NEW p \in PathSet, NEW i, NEW n \in 0 .. MaxSize, NEW t, NEW ls,
         NEW u, NEW s, NEW from, FollowedWith(KindOf[p], i, n, u, s, from),
         \/ Same(u, Transcript(i, n)) /\ t = u /\ ls = {}
         \/ /\ ~Same(u, Transcript(i, n))
            /\ Consume(Noted(u, Transcript(i, n)), Transcript(i, n), t, ls)
  PROVE  FollowedWith(KindOf[p], i, n, t, Folded(p, s, ls), from)
<1>1. /\ StateIn(u, i, n) /\ ~u.skipping /\ from \in 0 .. u.offset
      /\ Counts(KindOf[p], s, from, u.offset)
  BY DEF FollowedWith
<1>2. n \in Nat /\ u.offset \in 0 .. n /\ u.held /\ u.ino = i
  <2>1. n \in Nat
    BY TailAssumption
  <2>2. u.offset \in 0 .. n /\ u.held /\ u.ino = i
    BY <1>1 DEF StateIn
  <2> QED
    BY <2>1, <2>2
<1>3. CASE t = u /\ ls = {}
  <2>1. /\ u.offset \in 0 .. u.offset /\ u.offset \in 0 .. MaxSize /\ u.offset \in Nat
        /\ \A k \in u.offset .. u.offset - 1 : FALSE
    BY <1>2, TailAssumption
  <2>2. ls = LinesFrom(Transcript(i, u.offset), u.offset)
    BY <1>3, <2>1, LinesOfTranscript
  <2>3. Folded(p, s, ls).known /\ Counts(KindOf[p], Folded(p, s, ls), from, u.offset)
    BY <1>1, <2>1, <2>2, FoldKeeps
  <2> QED
    BY <1>1, <1>3, <2>3 DEF FollowedWith
<1>4. CASE Consume(Noted(u, Transcript(i, n)), Transcript(i, n), t, ls)
  <2>1. ~Rotated(u, Transcript(i, n))
    BY <1>2 DEF Rotated, Transcript
  <2>2. PICK v : v = Noted(u, Transcript(i, n))
    OBVIOUS
  <2>3. v = [u EXCEPT !.ino = i, !.size = n, !.mtime = n]
    BY <1>2, <2>1, <2>2 DEF Noted, Transcript
  <2>4. StateIn(v, i, n) /\ ~v.skipping /\ v.offset = u.offset
    BY <1>1, <1>2, <2>3 DEF StateIn
  <2>5. StateIn(t, i, n) /\ ~t.skipping /\ t.offset = n
    BY <1>4, <2>2, <2>4, ConsumeTranscript
  <2>6. ls = LinesFrom(Transcript(i, n), u.offset)
    BY <1>4, <2>2, <2>4, ConsumeTranscript
  <2>7. Folded(p, s, ls).known /\ Counts(KindOf[p], Folded(p, s, ls), from, n)
    BY <1>1, <1>2, <2>6, FoldKeeps
  <2>8. from \in 0 .. n
    BY <1>1, <1>2
  <2> QED
    BY <2>5, <2>7, <2>8 DEF FollowedWith
<1> QED
  BY <1>3, <1>4

\* A visit of a path leaves it followed.
LEMMA TailedFollows ==
  ASSUME Readable, NEW p \in PathSet, PathOK(p), NEW t, NEW ls, Tailed(p, t, ls)
  PROVE  FollowedWith(KindOf[p], file[p].ino, file[p].size, t, Folded(p, states[p], ls),
                      IF states[p].known THEN start[p] ELSE t.offset - Cardinality(ls))
<1>1. PICK i, n : /\ n \in 0 .. MaxSize /\ file[p] = Transcript(i, n)
                  /\ i = file[p].ino /\ n = file[p].size
  BY DEF PathOK, FileIsTranscript
<1>2. CASE Untouched(p)
  <2>1. Consume(Cold(file[p], Window), file[p], t, ls) /\ ~states[p].known
    BY <1>2 DEF Untouched, Unknown, Tailed, TailCold, Readable
  <2> QED
    BY <1>1, <1>2, <2>1, ColdFollows DEF Untouched
<1>3. CASE Followed(p)
  <2>1. states[p].known
    BY <1>3 DEF Followed, FollowedWith
  <2>2. \/ Same(tails[p], file[p]) /\ t = tails[p] /\ ls = {}
        \/ ~Same(tails[p], file[p]) /\ Consume(Noted(tails[p], file[p]), file[p], t, ls)
    BY <2>1 DEF Tailed, TailLines, Readable
  <2>3. FollowedWith(KindOf[p], i, n, tails[p], states[p], start[p])
    BY <1>1, <1>3 DEF Followed
  <2> QED
    BY <1>1, <2>1, <2>2, <2>3, CallFollows
<1> QED
  BY <1>2, <1>3 DEF PathOK

-----------------------------------------------------------------------------
\* The invariant is inductive.
LEMMA InitInv == Init => IInv
<1> SUFFICES ASSUME Init PROVE IInv
  OBVIOUS
<1>1. Domains
  BY TranscriptsAssumption DEF Init, Domains
<1>2. ASSUME NEW p \in PathSet
      PROVE  PathOK(p)
  <2>1. PICK n \in [PathSet -> StartSizes], i \in [PathSet -> Inodes] :
          file = [q \in PathSet |-> Transcript(i[q], n[q])]
    BY DEF Init
  <2>2. file[p] = Transcript(i[p], n[p]) /\ n[p] \in 0 .. MaxSize
    BY <2>1, TranscriptsAssumption
  <2>3. FileIsTranscript(p)
    BY <2>2 DEF FileIsTranscript, Transcript
  <2> QED
    BY <2>3 DEF Init, PathOK, Untouched
<1> QED
  BY <1>1, <1>2 DEF IInv

\* A path of which nothing changes stays as it is.
LEMMA PathStays ==
  ASSUME NEW p, PathOK(p), file'[p] = file[p], tails'[p] = tails[p], states'[p] = states[p],
         start'[p] = start[p]
  PROVE  PathOK(p)'
BY DEF PathOK, FileIsTranscript, Untouched, Followed

LEMMA CurrentIsPath == IInv /\ Scanning => Current \in PathSet
<1> SUFFICES ASSUME IInv, Scanning PROVE Current \in PathSet
  OBVIOUS
<1>1. Len(Paths) \in Nat
  BY TranscriptsAssumption
<1>2. visit + 1 \in 1 .. Len(Paths)
  BY <1>1 DEF IInv, Domains, Scanning, Idle
<1> QED
  BY <1>2 DEF Current, PathSet

\* A transcript only grows: the state of it stays in its lines.
LEMMA WriteInv ==
  ASSUME IInv, NEW p \in PathSet, Write(p)
  PROVE  IInv'
<1> USE DEF IInv
<1>1. /\ file' = [file EXCEPT ![p] = Transcript(file[p].ino, file[p].size + 1)]
      /\ file[p].size < MaxSize /\ UNCHANGED <<tails, states, start, sessions, visit>>
  BY DEF Write, scanVars
<1>2. Domains'
  BY <1>1 DEF Domains
<1>3. ASSUME NEW q \in PathSet, q # p
      PROVE  PathOK(q)'
  BY <1>1, <1>3, PathStays DEF Domains
<1>4. PICK i, n : i = file[p].ino /\ n = file[p].size /\ n \in 0 .. MaxSize
  BY DEF PathOK, FileIsTranscript
<1>5. file'[p] = Transcript(i, n + 1) /\ file'[p].ino = i /\ file'[p].size = n + 1
  BY <1>1, <1>4 DEF Domains, Transcript
<1>6. n + 1 \in 0 .. MaxSize
  BY <1>1, <1>4, TailAssumption
<1>7. FileIsTranscript(p)'
  BY <1>5, <1>6 DEF FileIsTranscript
<1>8. Untouched(p) => Untouched(p)'
  BY <1>1 DEF Untouched
<1>9. ASSUME Followed(p) PROVE Followed(p)'
  <2>1. \A u : StateIn(u, i, n) => StateIn(u, i, n + 1)
    <3>1. 0 .. n \subseteq 0 .. n + 1
      BY <1>4, TailAssumption
    <3> QED
      BY <3>1 DEF StateIn
  <2>2. FollowedWith(KindOf[p], i, n, tails[p], states[p], start[p])
    BY <1>4, <1>9 DEF Followed
  <2>3. FollowedWith(KindOf[p], i, n + 1, tails'[p], states'[p], start'[p])
    BY <1>1, <2>1, <2>2 DEF FollowedWith
  <2> QED
    BY <1>5, <2>3 DEF Followed
<1> QED
  BY <1>2, <1>3, <1>7, <1>8, <1>9 DEF PathOK

\* What a visit does to the path it is at.
LEMMA VisitFollows ==
  ASSUME Readable, IInv, Visit, NEW p, p = Current
  PROVE  /\ p \in PathSet /\ Followed(p)'
         /\ sessions'[p].turns = states'[p].turns
         /\ sessions'[p].tokens = states'[p].tokens
         /\ UNCHANGED file
         /\ \A q \in PathSet \ {p} : sessions'[q] = sessions[q]
         /\ \E t, s, ses, from :
              /\ tails' = [tails EXCEPT ![p] = t] /\ states' = [states EXCEPT ![p] = s]
              /\ sessions' = [sessions EXCEPT ![p] = ses] /\ start' = [start EXCEPT ![p] = from]
<1>1. p \in PathSet /\ PathOK(p) /\ Domains
  BY CurrentIsPath DEF Visit, IInv
<1>2. PICK t, ls :
        /\ Tailed(p, t, ls)
        /\ tails' = [tails EXCEPT ![p] = t]
        /\ states' = [states EXCEPT ![p] = Folded(p, @, ls)]
        /\ sessions' = [sessions EXCEPT ![p] =
             [shown |-> TRUE, turns |-> states'[p].turns, tokens |-> states'[p].tokens,
              status |-> Derived(p, states'[p], looked)]]
        /\ start' = [start EXCEPT ![p] = IF states[p].known THEN @ ELSE t.offset - Cardinality(ls)]
  BY DEF Visit
<1>3. UNCHANGED file
  BY DEF Visit, agentVars
<1>4. /\ tails'[p] = t /\ states'[p] = Folded(p, states[p], ls)
      /\ start'[p] = IF states[p].known THEN start[p] ELSE t.offset - Cardinality(ls)
  BY <1>1, <1>2 DEF Domains
<1>5. Followed(p)'
  BY <1>1, <1>2, <1>3, <1>4, TailedFollows DEF Followed
<1>6. /\ sessions'[p].turns = states'[p].turns /\ sessions'[p].tokens = states'[p].tokens
      /\ \A q \in PathSet \ {p} : sessions'[q] = sessions[q]
  BY <1>1, <1>2 DEF Domains
<1> QED
  BY <1>1, <1>2, <1>3, <1>5, <1>6

LEMMA VisitInv ==
  ASSUME Readable, IInv, Visit
  PROVE  IInv'
<1> USE DEF IInv
<1>1. PICK p : p = Current
  OBVIOUS
<1>2. p \in PathSet /\ Followed(p)' /\ UNCHANGED file
  BY <1>1, VisitFollows
<1>3. PICK t, s, ses, from :
        /\ tails' = [tails EXCEPT ![p] = t] /\ states' = [states EXCEPT ![p] = s]
        /\ sessions' = [sessions EXCEPT ![p] = ses] /\ start' = [start EXCEPT ![p] = from]
  BY <1>1, VisitFollows
<1>4. Domains'
  <2>1. Len(Paths) \in Nat
    BY TranscriptsAssumption
  <2>2. visit' \in {Idle} \cup 0 .. Len(Paths)
    BY <2>1 DEF Visit, Scanning, Domains, Idle
  <2> QED
    BY <1>2, <1>3, <2>2 DEF Domains
<1>5. ASSUME NEW q \in PathSet, q # p
      PROVE  PathOK(q)'
  <2>1. /\ tails'[q] = tails[q] /\ states'[q] = states[q] /\ start'[q] = start[q]
        /\ file'[q] = file[q]
    BY <1>2, <1>3, <1>5 DEF Domains
  <2> QED
    BY <2>1, PathStays
<1>6. PathOK(p)'
  BY <1>2 DEF PathOK, FileIsTranscript
<1> QED
  BY <1>4, <1>5, <1>6

\* Adapter and tailer forget the same paths.
LEMMA EndInv ==
  ASSUME IInv, End
  PROVE  IInv'
<1> USE DEF IInv
<1>1. /\ tails' = [p \in PathSet |-> IF p \in seen THEN tails[p] ELSE None]
      /\ states' = [p \in PathSet |-> IF p \in seen THEN states[p] ELSE Unknown]
      /\ visit' = Idle /\ UNCHANGED <<file, start, sessions>>
  BY DEF End, Forget, agentVars
<1>2. Domains'
  BY <1>1 DEF Domains
<1>3. ASSUME NEW p \in PathSet
      PROVE  PathOK(p)'
  <2>1. CASE p \in seen
    BY <1>1, <2>1, PathStays
  <2>2. CASE p \notin seen
    BY <1>1, <2>2 DEF PathOK, FileIsTranscript, Untouched
  <2> QED
    BY <2>1, <2>2
<1> QED
  BY <1>2, <1>3

LEMMA NextInv == Readable /\ IInv /\ [Next]_vars => IInv'
<1> SUFFICES ASSUME Readable, IInv, [Next]_vars PROVE IInv'
  OBVIOUS
<1>1. ASSUME UNCHANGED <<file, tails, states, start, sessions, visit>>
      PROVE  IInv'
  BY <1>1, PathStays DEF IInv, Domains
<1>2. CASE \E p \in PathSet : Write(p)
  BY <1>2, WriteInv
<1>3. CASE \E p \in PathSet : Age(p) \/ AgeOut(p)
  BY <1>1, <1>3 DEF Age, AgeOut, scanVars
<1>4. CASE Begin
  <2>1. /\ visit' = 0 /\ sessions' = [p \in PathSet |-> Unshown]
        /\ UNCHANGED <<file, tails, states, start>>
    BY <1>4 DEF Begin, agentVars
  <2>2. 0 \in 0 .. Len(Paths)
    BY TranscriptsAssumption
  <2> QED
    BY <2>1, <2>2, PathStays DEF IInv, Domains
<1>5. CASE Look
  BY <1>1, <1>5 DEF Look, agentVars
<1>6. CASE Visit
  BY <1>6, VisitInv
<1>7. CASE PassOver
  <2>1. /\ visit' = visit + 1 /\ Scanning
        /\ UNCHANGED <<file, tails, states, start, sessions>>
    BY <1>7 DEF PassOver, agentVars
  <2>2. Len(Paths) \in Nat
    BY TranscriptsAssumption
  <2>3. visit' \in {Idle} \cup 0 .. Len(Paths)
    BY <2>1, <2>2 DEF IInv, Domains, Scanning, Idle
  <2> QED
    BY <2>1, <2>3, PathStays DEF IInv, Domains
<1>8. CASE End
  BY <1>8, EndInv
<1>9. CASE UNCHANGED vars
  BY <1>1, <1>9 DEF vars
<1> QED
  BY <1>2, <1>3, <1>4, <1>5, <1>6, <1>7, <1>8, <1>9 DEF Next, Agents, Scan

LEMMA Invariance == ASSUME Readable PROVE Spec => []IInv
<1>1. Readable
  OBVIOUS
<1> QED
  BY <1>1, InitInv, NextInv, PTL DEF Spec

-----------------------------------------------------------------------------
\* What the invariant says.
LEMMA InvImplies == IInv => FoldedOnce /\ TotalsExact
<1> SUFFICES ASSUME IInv PROVE FoldedOnce /\ TotalsExact
  OBVIOUS
<1>1. ASSUME NEW p \in PathSet
      PROVE  /\ states[p].known => states[p].turns = tails[p].offset - start[p]
             /\ states[p].known <=> tails[p].held
             /\ KindOf[p] = "codex" /\ states[p].known /\ states[p].turns > 0 =>
                  states[p].tokens = tails[p].offset
  <2>1. CASE Untouched(p)
    BY <2>1 DEF Untouched, Unknown, None
  <2>2. CASE Followed(p)
    <3>1. tails[p].held
      BY <2>2 DEF Followed, FollowedWith, StateIn
    <3>2. /\ states[p].known /\ states[p].turns = tails[p].offset - start[p]
          /\ KindOf[p] = "codex" =>
               states[p].tokens = IF states[p].turns = 0 THEN 0 ELSE tails[p].offset
      BY <2>2 DEF Followed, FollowedWith, Counts
    <3> QED
      BY <3>1, <3>2
  <2> QED
    BY <2>1, <2>2 DEF IInv, PathOK
<1> QED
  BY <1>1 DEF FoldedOnce, TotalsExact, Of

\* NothingInvented, of one step: what a visit shows is at most what its file holds.
LEMMA StepInventsNothing ==
  ASSUME Readable, IInv, Next, NEW p \in PathSet, sessions'[p] # sessions[p], sessions'[p].shown
  PROVE  sessions'[p].turns <= file[p].size /\ sessions'[p].tokens <= file[p].size
<1>1. CASE Visit
  <2>0. PICK c : c = Current
    OBVIOUS
  <2>1. /\ p = c /\ Followed(p)' /\ UNCHANGED file
        /\ sessions'[p].turns = states'[p].turns /\ sessions'[p].tokens = states'[p].tokens
    BY <1>1, <2>0, VisitFollows
  <2>2. PICK n, o, from, s :
          /\ n = file[p].size /\ o = tails'[p].offset /\ from = start'[p] /\ s = states'[p]
          /\ o \in 0 .. n /\ from \in 0 .. o /\ Counts(KindOf[p], s, from, o)
    BY <2>1 DEF Followed, FollowedWith, StateIn
  <2>3. n \in Nat
    BY <2>2, TailAssumption DEF IInv, PathOK, FileIsTranscript
  <2>4. s.turns = o - from
    BY <2>2 DEF Counts
  <2>5. s.tokens \in {0, s.turns, o}
    BY <2>2 DEF Counts
  <2> QED
    BY <2>1, <2>2, <2>3, <2>4, <2>5
<1>2. CASE Begin
  <2>1. sessions'[p] = Unshown
    BY <1>2 DEF Begin
  <2> QED
    BY <2>1 DEF Unshown
<1>3. CASE Agents \/ Look \/ PassOver \/ End
  BY <1>3 DEF Agents, Write, Age, AgeOut, Look, PassOver, End, scanVars
<1> QED
  BY <1>1, <1>2, <1>3 DEF Next, Scan

\* NothingInvented: provided files can be read, a scan never shows more turns or tokens
\* than the transcript holds (MCTranscripts finds how a failed read breaks it).
THEOREM InventsNothing == ASSUME Readable PROVE Spec => NothingInvented
<1>1. Readable
  OBVIOUS
<1>2. Readable /\ IInv /\ [Next]_vars =>
        [\A p \in PathSet :
           sessions'[p] # sessions[p] /\ sessions'[p].shown =>
             sessions'[p].turns <= file[p].size /\ sessions'[p].tokens <= file[p].size]_vars
  BY StepInventsNothing
<1> QED
  BY <1>1, <1>2, Invariance, PTL DEF Spec, NothingInvented

-----------------------------------------------------------------------------
\* The claude processes and their files disturb no scan: Sessions is Transcripts with
\* more to see.
THEOREM SessionsAreTranscripts == SessionsSpec => Spec
<1>1. SessionsInit => Init
  BY DEF SessionsInit
<1>2. [SessionsNext]_allVars => [Next]_vars
  <2> SUFFICES ASSUME [SessionsNext]_allVars PROVE [Next]_vars
    OBVIOUS
  <2>1. CASE ScanStep
    BY <2>1 DEF ScanStep, ScanOnly, BeginSnapshot, ReadPid, ScanTranscripts, Publish, Next, Scan
  <2>2. CASE PassOverOld
    BY <2>2 DEF PassOverOld, ScanOnly, Next, Scan
  <2>3. CASE Faulty
    BY <2>3 DEF Faulty, Change, PassOverPid, Next, Scan
  <2>4. CASE Outside
    BY <2>4 DEF Outside, Change, Processes, Starts, Turns, Exits, Crashes, Reused, Process, Next
  <2>5. CASE UNCHANGED allVars
    BY <2>5 DEF allVars
  <2> QED
    BY <2>1, <2>2, <2>3, <2>4, <2>5 DEF SessionsNext
<1> QED
  BY <1>1, <1>2, PTL DEF SessionsSpec, Spec

\* FoldedOnce: what was folded are the lines from where a path was begun to the tailer's
\* offset, and between scans tailer and adapter know the same paths.
THEOREM FoldsOnce == ASSUME Readable PROVE SessionsSpec => []FoldedOnce
<1>1. Readable
  OBVIOUS
<1> QED
  BY <1>1, Invariance, InvImplies, SessionsAreTranscripts, PTL

\* TotalsExact: the total of a rollout is right as of the last line read.
THEOREM ExactTotals == ASSUME Readable PROVE SessionsSpec => []TotalsExact
<1>1. Readable
  OBVIOUS
<1> QED
  BY <1>1, Invariance, InvImplies, SessionsAreTranscripts, PTL
=============================================================================
