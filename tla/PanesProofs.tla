----------------------------- MODULE PanesProofs -----------------------------
(***************************************************************************)
(* Proofs about Panes, for every budget, every number of runs and any set  *)
(* of processes that leave children behind.                                *)
(***************************************************************************)
EXTENDS Panes, SequenceTheorems, TLAPS

-----------------------------------------------------------------------------
\* The inductive invariant, in parts.

\* An id that was not given out yet is nobody's.
FreshIds == \A id \in Ids : id > nextID => pane[id] = NoPane

\* Only a pane whose start was handled is shown, or closed; one that is closed is waited
\* for; only a start that succeeded leaves a process, and one that was handled shows or
\* closes its pane; and a pane is read while it is shown and open.
PaneOK(q, shown) ==
  /\ shown \/ q.closed => q.start = "done"
  /\ q.closed => q.waited
  /\ q.proc # "none" => q.start \in {"started", "done"}
  /\ q.start = "done" /\ q.proc # "none" => shown \/ q.closed
  /\ ~quit => (q.read # "none" <=> shown /\ ~q.closed)

IInv == TypeOK /\ FreshIds /\ \A id \in Ids : PaneOK(pane[id], id \in Shown)

PaneSet ==
  [provider : {"shell", "run"}, start : {"none", "running", "started", "failed", "done"},
   proc : {"none", "alive", "dead"}, held : BOOLEAN, closed : BOOLEAN, waited : BOOLEAN,
   read : {"none", "waiting", "text", "writing", "error"}, killing : BOOLEAN]

-----------------------------------------------------------------------------
\* A sequence without its i-th element.
LEMMA Removed ==
  ASSUME NEW S, NEW s \in Seq(S), NEW i \in 1 .. Len(s)
  PROVE  /\ RemoveAt(s, i) \in Seq(S)
         /\ Len(RemoveAt(s, i)) = Len(s) - 1
         /\ \A j \in 1 .. Len(s) - 1 :
              RemoveAt(s, i)[j] = IF j < i THEN s[j] ELSE s[j + 1]
<1> DEFINE a == SubSeq(s, 1, i - 1)
           b == SubSeq(s, i + 1, Len(s))
<1>1. Len(s) \in Nat /\ i \in Int
  OBVIOUS
<1>2. a \in Seq(S) /\ Len(a) = i - 1 /\ \A j \in 1 .. i - 1 : a[j] = s[j]
  BY <1>1, SubSeqProperties
<1>3. /\ b \in Seq(S) /\ Len(b) = Len(s) - i
      /\ \A j \in 1 .. Len(s) - i : b[j] = s[i + j]
  BY <1>1, SubSeqProperties
<1> HIDE DEF a, b
<1>4. a \o b \in Seq(S) /\ Len(a \o b) = Len(s) - 1
  <2>1. a \o b \in Seq(S) /\ Len(a \o b) = Len(a) + Len(b)
    BY <1>2, <1>3, ConcatProperties
  <2>2. (i - 1) + (Len(s) - i) = Len(s) - 1
    BY <1>1
  <2> QED
    BY <1>2, <1>3, <2>1, <2>2
<1>5. ASSUME NEW j \in 1 .. Len(s) - 1
      PROVE  (a \o b)[j] = IF j < i THEN s[j] ELSE s[j + 1]
  BY <1>1, <1>2, <1>3, <1>5, ConcatProperties
<1>6. RemoveAt(s, i) = a \o b
  BY DEF RemoveAt, a, b
<1> QED
  BY <1>4, <1>5, <1>6

\* Panes with another one at the end: who is shown, and that all are distinct.
LEMMA Appended ==
  ASSUME NEW before \in Seq(Ids), NEW id \in Ids,
         \A j \in 1 .. Len(before) : before[j] # id,
         \A j, k \in 1 .. Len(before) : before[j] = before[k] => j = k
  PROVE  /\ Append(before, id) \in Seq(Ids) /\ Len(Append(before, id)) = Len(before) + 1
         /\ IsInjective(Append(before, id))
         /\ {Append(before, id)[j] : j \in 1 .. Len(before) + 1} =
              {before[j] : j \in 1 .. Len(before)} \cup {id}
<1> DEFINE n == Len(before)
           s == Append(before, id)
<1>1. /\ n \in Nat /\ s \in Seq(Ids) /\ Len(s) = n + 1
      /\ \A j \in 1 .. n : s[j] = before[j]
      /\ s[n + 1] = id
  BY AppendProperties
<1> HIDE DEF n, s
<1>2. 1 .. n + 1 = (1 .. n) \cup {n + 1} /\ n + 1 \notin 1 .. n
  BY <1>1
<1>3. IsInjective(s)
  <2>1. DOMAIN s = 1 .. n + 1
    BY <1>1
  <2>2. \A j, k \in 1 .. n + 1 : s[j] = s[k] => j = k
    BY <1>1, <1>2 DEF n
  <2> QED
    BY <2>1, <2>2 DEF IsInjective
<1>4. {s[j] : j \in 1 .. n + 1} = {before[j] : j \in 1 .. n} \cup {id}
  BY <1>1, <1>2
<1> QED
  BY <1>1, <1>3, <1>4 DEF n, s

-----------------------------------------------------------------------------
\* The invariant is inductive.
LEMMA InitInv == Init => IInv
<1> SUFFICES ASSUME Init PROVE IInv
  OBVIOUS
<1>1. order = << >> /\ Shown = {} /\ Len(order) = 0
  BY DEF Init, Shown
<1>2. IsInjective(order) /\ order \in Seq(Ids)
  BY <1>1 DEF IsInjective
<1>3. NoPane \in PaneSet
  BY DEF NoPane, PaneSet
<1>4. TypeOK
  <2>1. pane \in [Ids -> PaneSet]
    BY <1>3 DEF Init
  <2>2. MaxPanes \in Nat /\ 0 <= MaxPanes /\ 0 \in 0 .. MaxRuns
    BY PanesAssumption
  <2> QED
    BY <1>1, <1>2, <2>1, <2>2 DEF Init, TypeOK, PaneSet
<1> QED
  BY <1>1, <1>4 DEF Init, IInv, FreshIds, PaneOK, NoPane

\* What IInv says of the panes and their order.
LEMMA InvFacts ==
  ASSUME IInv
  PROVE  /\ pane \in [Ids -> PaneSet] /\ Shown \subseteq Ids
         /\ order \in Seq(Ids) /\ Len(order) \in Nat /\ Len(order) <= MaxPanes
         /\ \A j, k \in 1 .. Len(order) : order[j] = order[k] => j = k
         /\ nextID \in 0 .. MaxRuns /\ MaxRuns \in Nat
BY PanesAssumption DEF IInv, TypeOK, PaneSet, Shown, IsInjective

\* A change of one pane that was given out.
LEMMA PaneInv ==
  ASSUME IInv, NEW id \in Ids, pane[id] # NoPane, NEW q \in PaneSet, Set(id, q),
         PaneOK(q, id \in Shown), UNCHANGED <<order, active, nextID, quit>>,
         confirm' \in BOOLEAN
  PROVE  IInv'
<1>1. /\ pane \in [Ids -> PaneSet] /\ pane' = [pane EXCEPT ![id] = q]
  BY InvFacts DEF Set
<1>2. pane' \in [Ids -> PaneSet] /\ pane'[id] = q /\ \A o \in Ids \ {id} : pane'[o] = pane[o]
  BY <1>1
<1>3. Shown' = Shown
  BY DEF Shown
<1>4. TypeOK'
  BY <1>2 DEF IInv, TypeOK, PaneSet
<1>5. FreshIds'
  BY <1>2 DEF IInv, FreshIds
<1>6. ASSUME NEW o \in Ids
      PROVE  PaneOK(pane[o], o \in Shown)'
  BY <1>2, <1>3 DEF IInv, PaneOK
<1> QED
  BY <1>4, <1>5, <1>6 DEF IInv

\* A new pane: its id is the next one.
LEMMA BeginInv ==
  ASSUME IInv, NEW provider \in {"shell", "run"}, Begin(provider), UNCHANGED confirm
  PROVE  IInv'
<1> DEFINE q == [NoPane EXCEPT !.provider = provider, !.start = "running"]
<1>1. /\ nextID \in 0 .. MaxRuns /\ nextID < MaxRuns /\ nextID' = nextID + 1
      /\ MaxRuns \in Nat /\ UNCHANGED <<order, active, quit>>
  BY InvFacts DEF Begin
<1>2. nextID' \in Ids /\ nextID' > nextID
  BY <1>1 DEF Ids
<1>3. PICK id : id = nextID'
  OBVIOUS
<1>4. pane[id] = NoPane /\ id \in Ids
  BY <1>2, <1>3 DEF IInv, FreshIds
<1>5. q.start = "running" /\ q.proc = "none" /\ ~q.closed /\ q.read = "none"
  BY DEF NoPane
<1>6. q \in PaneSet
  BY DEF NoPane, PaneSet
<1>7. pane' = [pane EXCEPT ![id] = q]
  BY <1>3 DEF Begin, Set
<1> HIDE DEF q
<1>8. pane' \in [Ids -> PaneSet] /\ pane'[id] = q /\ \A o \in Ids \ {id} : pane'[o] = pane[o]
  BY <1>4, <1>6, <1>7, InvFacts
<1>9. Shown' = Shown
  BY <1>1 DEF Shown
<1>10. TypeOK'
  <2>1. nextID' \in 0 .. MaxRuns
    BY <1>1
  <2> QED
    BY <1>1, <1>8, <2>1 DEF IInv, TypeOK, PaneSet
<1>11. FreshIds'
  <2>1. ASSUME NEW o \in Ids, o > nextID'
        PROVE  o > nextID /\ o # id
    BY <1>1, <1>3, <2>1 DEF Ids
  <2> QED
    BY <1>8, <2>1 DEF IInv, FreshIds
<1>12. ASSUME NEW o \in Ids
       PROVE  PaneOK(pane[o], o \in Shown)'
  <2>1. CASE o # id
    BY <1>1, <1>8, <1>9, <2>1 DEF IInv, PaneOK
  <2>2. CASE o = id
    <3>1. id \notin Shown
      BY <1>4 DEF IInv, PaneOK, NoPane
    <3> QED
      BY <1>5, <1>8, <1>9, <2>2, <3>1 DEF PaneOK
  <2> QED
    BY <2>1, <2>2
<1> QED
  BY <1>10, <1>11, <1>12 DEF IInv

\* The active pane moves.
LEMMA MoveInv ==
  ASSUME IInv, active' \in Nat, order # << >> => active' < Len(order),
         UNCHANGED <<pane, order, nextID, confirm, quit>>
  PROVE  IInv'
<1>1. Shown' = Shown
  BY DEF Shown
<1> QED
  BY <1>1 DEF IInv, TypeOK, FreshIds, PaneOK

LEMMA UserInv == IInv /\ User => IInv'
<1> SUFFICES ASSUME IInv, User PROVE IInv'
  OBVIOUS
<1>1. CASE OpenShell
  <2>1. CASE Begin("shell")
    BY <1>1, <2>1, BeginInv DEF OpenShell
  <2>2. CASE \E i \in First(OpenShells) :
               active' = i - 1 /\ UNCHANGED <<pane, order, nextID, confirm, quit>>
    <3>1. PICK i \in 1 .. Len(order) : active' = i - 1
      BY <2>2 DEF First, OpenShells
    <3>2. active' \in Nat /\ active' < Len(order)
      BY <3>1, InvFacts
    <3> QED
      BY <2>2, <3>2, MoveInv
  <2> QED
    BY <1>1, <2>1, <2>2 DEF OpenShell
<1>2. CASE SpawnRun
  BY <1>2, BeginInv DEF SpawnRun
<1>3. ASSUME NEW delta \in {-1, 1}, Cycle(delta)
      PROVE  IInv'
  <2>1. order # << >> /\ active' = (active + delta + Len(order)) % Len(order)
        /\ UNCHANGED <<pane, order, nextID, confirm, quit>>
    BY <1>3 DEF Cycle
  <2>2. Len(order) \in Nat \ {0} /\ active \in Nat /\ delta \in Int
    BY <2>1, InvFacts DEF IInv, TypeOK
  <2>3. active' \in Nat /\ active' < Len(order)
    <3>1. active + delta + Len(order) \in Int
      BY <2>2
    <3>2. \A x \in Int, n \in Nat \ {0} : x % n \in Nat /\ x % n < n
      OBVIOUS
    <3> QED
      BY <2>1, <2>2, <3>1, <3>2
  <2> QED
    BY <2>1, <2>3, MoveInv
<1>4. ASSUME confirm' \in BOOLEAN, UNCHANGED <<pane, order, active, nextID, quit>>
      PROVE  IInv'
  <2>1. Shown' = Shown
    BY <1>4 DEF Shown
  <2> QED
    BY <1>4, <2>1 DEF IInv, TypeOK, FreshIds, PaneOK
<1>5. CASE AskStop \/ CancelStop
  BY <1>4, <1>5 DEF AskStop, CancelStop
<1>6. CASE ConfirmStop
  <2>1. CASE Open(Active) /\ Stop(Active)
    <3>1. PICK id : id = Active
      OBVIOUS
    <3>2. id \in Ids /\ id \in Shown /\ pane[id] \in PaneSet
      BY <2>1, <3>1, InvFacts DEF Open
    <3> DEFINE q == [pane[id] EXCEPT !.waited = TRUE, !.killing = TRUE]
    <3>3. q \in PaneSet /\ PaneOK(q, id \in Shown)
      BY <3>2 DEF PaneSet, IInv, PaneOK
    <3>4. pane[id] # NoPane
      BY <3>2 DEF IInv, PaneOK, NoPane
    <3>5. Set(id, q) /\ confirm' \in BOOLEAN /\ UNCHANGED <<order, active, nextID, quit>>
      BY <1>6, <2>1, <3>1 DEF ConfirmStop, Stop
    <3> QED
      BY <3>2, <3>3, <3>4, <3>5, PaneInv
  <2>2. CASE UNCHANGED pane
    BY <1>4, <1>6, <2>2 DEF ConfirmStop
  <2> QED
    BY <1>6, <2>1, <2>2 DEF ConfirmStop
<1>7. CASE Quit
  <2>1. /\ quit' = TRUE /\ UNCHANGED <<order, active, nextID, confirm>>
        /\ pane' = [id \in Ids |-> IF id \in Shown THEN Closed(pane[id]) ELSE pane[id]]
    BY <1>7 DEF Quit
  <2>2. \A q \in PaneSet : Closed(q) \in PaneSet
    BY DEF Closed, PaneSet
  <2>3. pane' \in [Ids -> PaneSet]
    BY <2>1, <2>2, InvFacts
  <2>4. TypeOK'
    BY <2>1, <2>3 DEF IInv, TypeOK, PaneSet
  <2>5. FreshIds'
    <3>1. \A id \in Ids : id > nextID => id \notin Shown
      BY DEF IInv, FreshIds, PaneOK, NoPane
    <3> QED
      BY <2>1, <3>1 DEF IInv, FreshIds
  <2>6. ASSUME NEW id \in Ids
        PROVE  PaneOK(pane[id], id \in Shown)'
    <3>1. Shown' = Shown /\ pane[id] \in PaneSet
      BY <2>1, InvFacts DEF Shown
    <3>2. CASE id \in Shown
      BY <2>1, <3>1, <3>2 DEF IInv, PaneOK, Closed, PaneSet
    <3>3. CASE id \notin Shown
      BY <2>1, <3>1, <3>3 DEF IInv, PaneOK
    <3> QED
      BY <3>2, <3>3
  <2> QED
    BY <2>4, <2>5, <2>6 DEF IInv
<1> QED
  BY <1>1, <1>2, <1>3, <1>5, <1>6, <1>7 DEF User

LEMMA NobodyHolds == ~NoPane.held /\ ~NoPane.killing
BY DEF NoPane

\* A process dies, by itself or by the timer; a child may stay behind.
LEMMA DiesInv ==
  ASSUME IInv, ~quit, NEW id \in Ids, NEW killing \in BOOLEAN, pane[id].proc = "alive",
         Dies(id, killing)
  PROVE  IInv'
<1>1. PICK held \in {FALSE, (id \in Lingering)} :
        Set(id, [pane[id] EXCEPT !.proc = "dead", !.held = held, !.killing = killing])
  BY DEF Dies
<1>2. held \in BOOLEAN
  <2>1. CASE held = FALSE
    BY <2>1
  <2>2. CASE held = (id \in Lingering)
    BY <2>2
  <2> QED
    BY <2>1, <2>2
<1>3. pane[id] \in PaneSet /\ pane[id] # NoPane
  BY InvFacts DEF NoPane
<1>4. PICK q : q = [pane[id] EXCEPT !.proc = "dead", !.held = held, !.killing = killing]
  OBVIOUS
<1>5. /\ q \in PaneSet /\ q.start = pane[id].start /\ q.closed = pane[id].closed
      /\ q.waited = pane[id].waited /\ q.read = pane[id].read
  BY <1>2, <1>3, <1>4 DEF PaneSet
<1>6. PaneOK(q, id \in Shown)
  BY <1>5 DEF IInv, PaneOK
<1>7. confirm' \in BOOLEAN /\ UNCHANGED <<order, active, nextID, quit>>
  BY DEF Dies, IInv, TypeOK
<1> QED
  BY <1>1, <1>3, <1>4, <1>5, <1>6, <1>7, PaneInv

LEMMA BesideInv ==
  ASSUME IInv, ~quit, NEW id \in Ids, Beside(id)
  PROVE  IInv'
<1>0. /\ pane[id] \in PaneSet /\ PaneOK(pane[id], id \in Shown) /\ confirm \in BOOLEAN
  BY InvFacts DEF IInv, TypeOK
<1>1. CASE StartReturns(id)
  <2>1. PICK q : /\ q = [pane[id] EXCEPT !.start = "started", !.proc = "alive"] \/
                     q = [pane[id] EXCEPT !.start = "failed"]
                 /\ Set(id, q)
    BY <1>1 DEF StartReturns
  <2>2. pane[id].start = "running" /\ UNCHANGED <<order, active, nextID, confirm, quit>>
    BY <1>1 DEF StartReturns
  <2>3. pane[id] # NoPane /\ pane[id].proc = "none" /\ id \notin Shown /\ ~pane[id].closed
    BY <1>0, <2>2 DEF PaneOK, NoPane
  <2>4. q \in PaneSet /\ PaneOK(q, id \in Shown)
    BY <1>0, <2>1, <2>2, <2>3 DEF PaneSet, PaneOK
  <2> QED
    BY <1>0, <2>1, <2>2, <2>3, <2>4, PaneInv
<1>2. CASE Exits(id)
  <2>1. pane[id].killing \in BOOLEAN
    BY <1>0 DEF PaneSet
  <2> QED
    BY <1>2, <2>1, DiesInv DEF Exits
<1>3. CASE LetsGo(id)
  <2>1. PICK q : q = [pane[id] EXCEPT !.held = FALSE]
    OBVIOUS
  <2>2. Set(id, q) /\ pane[id].held /\ UNCHANGED <<order, active, nextID, confirm, quit>>
    BY <1>3, <2>1 DEF LetsGo
  <2>3. /\ q \in PaneSet /\ q.start = pane[id].start /\ q.proc = pane[id].proc
        /\ q.closed = pane[id].closed /\ q.waited = pane[id].waited /\ q.read = pane[id].read
    BY <1>0, <2>1 DEF PaneSet
  <2>4. PaneOK(q, id \in Shown)
    BY <1>0, <2>3 DEF PaneOK
  <2>5. pane[id] # NoPane
    BY <2>2, NobodyHolds, Zenon
  <2> QED
    BY <1>0, <2>2, <2>3, <2>4, <2>5, PaneInv
<1>4. CASE KillTimer(id)
  <2>1. CASE pane[id].proc = "alive"
    BY <1>4, <2>1, DiesInv DEF KillTimer
  <2>2. CASE pane[id].proc # "alive"
    <3>1. PICK q : q = [pane[id] EXCEPT !.killing = FALSE]
      OBVIOUS
    <3>2. Set(id, q) /\ pane[id].killing /\ UNCHANGED <<order, active, nextID, confirm, quit>>
      BY <1>4, <2>2, <3>1 DEF KillTimer
    <3>3. /\ q \in PaneSet /\ q.start = pane[id].start /\ q.proc = pane[id].proc
          /\ q.closed = pane[id].closed /\ q.waited = pane[id].waited /\ q.read = pane[id].read
      BY <1>0, <3>1 DEF PaneSet
    <3>4. PaneOK(q, id \in Shown)
      BY <1>0, <3>3 DEF PaneOK
    <3>5. pane[id] # NoPane
      BY <3>2, NobodyHolds, Zenon
    <3> QED
      BY <1>0, <3>2, <3>3, <3>4, <3>5, PaneInv
  <2> QED
    BY <2>1, <2>2
<1>5. CASE ReadReturns(id)
  <2>1. PICK q : /\ q = [pane[id] EXCEPT !.read = "text"] \/ q = [pane[id] EXCEPT !.read = "error"]
                 /\ Set(id, q)
    BY <1>5 DEF ReadReturns
  <2>2. pane[id].read = "waiting" /\ UNCHANGED <<order, active, nextID, confirm, quit>>
    BY <1>5 DEF ReadReturns
  <2>3. q \in PaneSet /\ PaneOK(q, id \in Shown) /\ pane[id] # NoPane
    BY <1>0, <2>1, <2>2 DEF PaneSet, PaneOK, NoPane
  <2> QED
    BY <1>0, <2>1, <2>2, <2>3, PaneInv
<1> QED
  BY <1>1, <1>2, <1>3, <1>4, <1>5 DEF Beside

\* A pane is added after those that stay: all but the ones that have exited.
LEMMA AddedInv ==
  ASSUME IInv, ~quit, NEW id \in Ids, pane[id].start = "started",
         NEW before \in Seq(Ids), Len(before) < MaxPanes,
         \A j, k \in 1 .. Len(before) : before[j] = before[k] => j = k,
         \A j \in 1 .. Len(before) : before[j] \in Shown,
         \A o \in Shown : pane[o].closed \/ \E j \in 1 .. Len(before) : before[j] = o,
         Added(id, before), UNCHANGED <<nextID, confirm, quit>>
  PROVE  IInv' /\ \A o \in Ids : Open(o) => o \in Shown'
<1> DEFINE kept == {before[j] : j \in 1 .. Len(before)}
           q == [pane[id] EXCEPT !.start = "done", !.read = "waiting"]
<1>1. /\ order' = Append(before, id) /\ active' = Len(before) /\ pane' = [pane EXCEPT ![id] = q]
  BY DEF Added, Set
<1>2. pane[id] \in PaneSet /\ PaneOK(pane[id], id \in Shown)
  BY InvFacts DEF IInv
<1>3. id \notin Shown /\ ~pane[id].closed /\ pane[id] # NoPane
  BY <1>2 DEF PaneOK, NoPane
<1>4. /\ order' \in Seq(Ids) /\ Len(order') = Len(before) + 1 /\ IsInjective(order')
      /\ Shown' = kept \cup {id}
  <2>1. \A j \in 1 .. Len(before) : before[j] # id
    BY <1>3
  <2> QED
    BY <1>1, <2>1, Appended DEF Shown
<1>5. /\ q \in PaneSet /\ q.start = "done" /\ q.read = "waiting" /\ q.closed = pane[id].closed
  BY <1>2 DEF PaneSet
<1> HIDE DEF q
<1>6. pane' \in [Ids -> PaneSet] /\ pane'[id] = q /\ \A o \in Ids \ {id} : pane'[o] = pane[o]
  BY <1>1, <1>5, InvFacts
<1>7. TypeOK'
  <2>1. Len(before) \in Nat /\ MaxPanes \in Nat
    BY PanesAssumption
  <2>2. /\ Len(order') <= MaxPanes /\ active' \in Nat /\ active' < Len(order')
    BY <1>1, <1>4, <2>1
  <2> QED
    BY <1>4, <1>6, <2>2 DEF IInv, TypeOK, PaneSet
<1>8. FreshIds'
  <2>1. ~(id > nextID)
    BY <1>3 DEF IInv, FreshIds
  <2> QED
    BY <1>6, <2>1 DEF IInv, FreshIds
<1>9. ASSUME NEW o \in Ids
      PROVE  PaneOK(pane[o], o \in Shown)'
  <2>1. CASE o = id
    BY <1>3, <1>4, <1>5, <1>6, <2>1 DEF PaneOK
  <2>2. CASE o # id
    <3>1. PaneOK(pane[o], o \in Shown) /\ pane'[o] = pane[o]
      BY <1>6, <2>2 DEF IInv
    <3>2. \/ o \in Shown' /\ o \in Shown
          \/ o \notin Shown' /\ o \notin Shown
          \/ o \notin Shown' /\ o \in Shown /\ pane[o].closed
      BY <1>4, <2>2
    <3> QED
      BY <3>1, <3>2 DEF PaneOK
  <2> QED
    BY <2>1, <2>2
<1>10. \A o \in Ids : Open(o) => o \in Shown'
  BY <1>4 DEF Open
<1> QED
  BY <1>7, <1>8, <1>9, <1>10 DEF IInv

LEMMA MessagesInv ==
  ASSUME IInv, NEW id \in Ids, Messages(id)
  PROVE  IInv' /\ \A o \in Ids : Open(o) => o \in Shown'
<1>0. /\ pane[id] \in PaneSet /\ PaneOK(pane[id], id \in Shown) /\ confirm \in BOOLEAN
      /\ ~quit /\ UNCHANGED <<nextID, confirm, quit>>
  BY InvFacts DEF IInv, TypeOK, Messages, StartedMsg, OutputMsg, Updating
<1>1. ASSUME NEW q \in PaneSet, Set(id, q), PaneOK(q, id \in Shown), pane[id] # NoPane,
             UNCHANGED <<order, active>>
      PROVE  IInv' /\ \A o \in Ids : Open(o) => o \in Shown'
  BY <1>0, <1>1, PaneInv DEF Open, Shown
<1>2. CASE StartedMsg(id)
  <2>1. CASE pane[id].start = "failed" /\ UNCHANGED <<order, active>>
             /\ Set(id, [pane[id] EXCEPT !.start = "done"])
    <3>1. PICK q : q = [pane[id] EXCEPT !.start = "done"]
      OBVIOUS
    <3>2. q \in PaneSet /\ PaneOK(q, id \in Shown) /\ pane[id] # NoPane
      BY <1>0, <2>1, <3>1 DEF PaneSet, PaneOK, NoPane
    <3> QED
      BY <1>1, <2>1, <3>1, <3>2
  <2>2. CASE pane[id].start = "started" /\ Len(order) < MaxPanes /\ Added(id, order)
    <3>1. \A j \in 1 .. Len(order) : order[j] \in Shown
      BY DEF Shown
    <3>2. \A o \in Shown : \E j \in 1 .. Len(order) : order[j] = o
      BY DEF Shown
    <3> QED
      BY <1>0, <2>2, <3>1, <3>2, InvFacts, AddedInv
  <2>3. CASE pane[id].start = "started" /\ \E i \in First(Exited) : Added(id, EvictOldestExited(i))
    <3>1. PICK i \in 1 .. Len(order) : pane[order[i]].closed /\ Added(id, EvictOldestExited(i))
      BY <2>3 DEF First, Exited
    <3>2. PICK before : before = EvictOldestExited(i)
      OBVIOUS
    <3>3. /\ order \in Seq(Ids) /\ Len(order) \in Nat /\ Len(order) <= MaxPanes
          /\ \A j, k \in 1 .. Len(order) : order[j] = order[k] => j = k
      BY InvFacts
    <3>4. /\ before \in Seq(Ids) /\ Len(before) = Len(order) - 1
          /\ \A j \in 1 .. Len(order) - 1 :
               before[j] = IF j < i THEN order[j] ELSE order[j + 1]
      BY <3>2, <3>3, Removed DEF EvictOldestExited
    <3>5. Len(before) < MaxPanes
      BY <3>3, <3>4, PanesAssumption
    <3>6. \A j \in 1 .. Len(before) : before[j] \in Shown
      BY <3>3, <3>4 DEF Shown
    <3>7. \A j, k \in 1 .. Len(before) : before[j] = before[k] => j = k
      BY <3>3, <3>4
    <3>8. ASSUME NEW o \in Shown, ~pane[o].closed
          PROVE  \E j \in 1 .. Len(before) : before[j] = o
      <4>1. PICK k \in 1 .. Len(order) : order[k] = o
        BY DEF Shown
      <4>2. k # i
        BY <3>1, <3>8, <4>1
      <4>3. CASE k < i
        BY <3>3, <3>4, <4>1, <4>3
      <4>4. CASE k > i
        <5>1. k - 1 \in 1 .. Len(order) - 1 /\ ~(k - 1 < i) /\ (k - 1) + 1 = k
          BY <3>3, <4>4
        <5> QED
          BY <3>4, <4>1, <5>1
      <4> QED
        BY <3>3, <4>2, <4>3, <4>4
    <3>9. \A o \in Shown : pane[o].closed \/ \E j \in 1 .. Len(before) : before[j] = o
      BY <3>8
    <3>10. Added(id, before)
      BY <3>1, <3>2
    <3>11. before \in Seq(Ids)
      BY <3>4
    <3> QED
      BY <1>0, <2>3, <3>5, <3>6, <3>7, <3>9, <3>10, <3>11, AddedInv
  <2>4. CASE pane[id].start = "started" /\ Rejected(id)
    <3>1. PICK q : q = Closed([pane[id] EXCEPT !.start = "done"])
      OBVIOUS
    <3>2. Set(id, q) /\ UNCHANGED <<order, active>>
      BY <2>4, <3>1 DEF Rejected
    <3>3. id \notin Shown /\ pane[id].read = "none" /\ pane[id] # NoPane
      BY <1>0, <2>4 DEF PaneOK, NoPane, PaneSet
    <3>4. q \in PaneSet /\ q.start = "done" /\ q.closed /\ q.waited /\ q.read = pane[id].read
      BY <1>0, <3>1 DEF PaneSet, Closed
    <3>5. PaneOK(q, id \in Shown)
      BY <3>3, <3>4 DEF PaneOK
    <3> QED
      BY <1>1, <3>2, <3>3, <3>4, <3>5
  <2> QED
    BY <1>2, <2>1, <2>2, <2>3, <2>4 DEF StartedMsg
<1>3. CASE OutputMsg(id)
  <2>1. pane[id].read # "none" /\ id \in Shown /\ ~pane[id].closed /\ pane[id] # NoPane
    BY <1>0, <1>3 DEF OutputMsg, PaneOK, NoPane
  <2>2. PICK q : /\ \/ q = Closed([pane[id] EXCEPT !.read = "none"])
                    \/ q = [pane[id] EXCEPT !.read = "waiting"]
                    \/ q = [pane[id] EXCEPT !.read = "writing"]
                 /\ Set(id, q) /\ UNCHANGED <<order, active>>
    BY <1>3, <2>1 DEF OutputMsg, MarkedClosed
  <2>3. q \in PaneSet /\ PaneOK(q, id \in Shown)
    BY <1>0, <2>1, <2>2 DEF PaneSet, PaneOK, Closed
  <2> QED
    BY <1>1, <2>1, <2>2, <2>3
<1> QED
  BY <1>2, <1>3 DEF Messages

LEMMA NextInv == IInv /\ [Next]_vars => IInv'
<1> SUFFICES ASSUME IInv, [Next]_vars PROVE IInv'
  OBVIOUS
<1>1. CASE UNCHANGED vars
  <2>1. Shown' = Shown
    BY <1>1 DEF vars, Shown
  <2> QED
    BY <1>1, <2>1 DEF vars, IInv, TypeOK, FreshIds, PaneOK
<1>2. CASE Killed
  <2>1. Shown' = Shown
    BY <1>2 DEF Killed, Shown
  <2> QED
    BY <1>2, <2>1 DEF Killed, IInv, TypeOK, FreshIds, PaneOK
<1> QED
  BY <1>1, <1>2, UserInv, BesideInv, MessagesInv DEF Next

LEMMA Invariance == Spec => []IInv
BY InitInv, NextInv, PTL DEF Spec

-----------------------------------------------------------------------------
\* TypeOK: the panes shown are distinct and at most MaxPanes, whatever starts, exits and
\* is evicted, and the active one is among them.
THEOREM TypeCorrect == Spec => []TypeOK
<1>1. IInv => TypeOK
  BY DEF IInv
<1> QED
  BY <1>1, Invariance, PTL

\* OneReader: until the program quits every open pane is read by exactly one read or
\* message, and no other.
THEOREM ReadOnce == Spec => []OneReader
<1>1. IInv => OneReader
  BY DEF IInv, PaneOK, OneReader, Open
<1> QED
  BY <1>1, Invariance, PTL

\* NoOrphan: a process that was started is shown in an open pane, or its terminal was
\* closed and it is waited for.
THEOREM NobodyOrphaned == Spec => []NoOrphan
<1>1. IInv => NoOrphan
  BY DEF IInv, PaneOK, NoOrphan, Open
<1> QED
  BY <1>1, Invariance, PTL

\* RunningPaneStays: eviction takes only panes that have exited.
THEOREM OnlyExitedEvicted == Spec => RunningPaneStays
<1>1. ASSUME IInv, [Next]_vars
      PROVE  [\A id \in Ids : Open(id) => id \in Shown']_vars
  <2>1. ASSUME UNCHANGED order PROVE \A id \in Ids : Open(id) => id \in Shown'
    BY <2>1 DEF Open, Shown
  <2>2. CASE User \/ Killed
    BY <2>1, <2>2 DEF User, Killed, OpenShell, SpawnRun, Begin, Cycle, AskStop, ConfirmStop, CancelStop, Quit
  <2>3. CASE \E id \in Ids : Messages(id)
    BY <1>1, <2>3, MessagesInv
  <2>4. CASE \E id \in Ids : Beside(id)
    BY <2>1, <2>4 DEF Beside, StartReturns, Exits, LetsGo, KillTimer, ReadReturns, Dies
  <2>5. CASE UNCHANGED vars
    BY <2>5
  <2>6. CASE Next
    BY <2>2, <2>3, <2>4, <2>6 DEF Next
  <2> QED
    BY <1>1, <2>5, <2>6
<1> QED
  BY <1>1, Invariance, PTL DEF Spec, RunningPaneStays
=============================================================================
