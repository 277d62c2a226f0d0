--------------------------- MODULE WatcherProofs ----------------------------
(***************************************************************************)
(* Proofs about Watcher, for any files, providers, budget, debounce and    *)
(* queue bounds, and any environment: files that come and go at any time,  *)
(* a caller that marks any file hot and drains the channel when it likes.  *)
(***************************************************************************)
EXTENDS Watcher, SequenceTheorems, TLAPS

Distinct(s) == \A i, j \in 1 .. Len(s) : s[i] = s[j] => i = j

Event == [name : Files, gone : BOOLEAN]

-----------------------------------------------------------------------------
\* What the helpers on the hot list return.

LEMMA WithoutOne ==
  ASSUME NEW s \in Seq(Files), Distinct(s), NEW f \in Elements(s)
  PROVE  /\ Without(s, f) \in Seq(Files)
         /\ Len(Without(s, f)) = Len(s) - 1
         /\ Distinct(Without(s, f))
         /\ Elements(Without(s, f)) = Elements(s) \ {f}
<1> DEFINE p == Place(s, f)
           t == Without(s, f)
<1>1. p \in 1 .. Len(s) /\ s[p] = f
  BY DEF Place, Elements
<1>2. t = [j \in 1 .. Len(s) - 1 |-> IF j < p THEN s[j] ELSE s[j + 1]]
  BY DEF Without
<1>3. Len(s) \in Nat /\ Len(s) - 1 \in Nat
  BY <1>1
<1>4. \A j \in 1 .. Len(s) - 1 : (IF j < p THEN s[j] ELSE s[j + 1]) \in Files
  BY <1>1, <1>3
<1> HIDE DEF p, t
<1>5. t \in Seq(Files) /\ Len(t) = Len(s) - 1
  BY <1>2, <1>3, <1>4
<1>6. \A j \in 1 .. Len(t) : t[j] = IF j < p THEN s[j] ELSE s[j + 1]
  BY <1>2, <1>5
<1>7. Distinct(t)
  <2> SUFFICES ASSUME NEW i \in 1 .. Len(t), NEW j \in 1 .. Len(t), t[i] = t[j]
               PROVE  i = j
    BY DEF Distinct
  <2> DEFINE from(x) == IF x < p THEN x ELSE x + 1
  <2>1. from(i) \in 1 .. Len(s) /\ from(j) \in 1 .. Len(s)
    BY <1>1, <1>3, <1>5
  <2>2. s[from(i)] = s[from(j)]
    BY <1>6
  <2>3. from(i) = from(j)
    BY <2>1, <2>2 DEF Distinct
  <2> QED
    BY <1>1, <1>3, <1>5, <2>3
<1>8. ASSUME NEW x \in Elements(t)
      PROVE  x \in Elements(s) \ {f}
  <2>1. PICK j \in 1 .. Len(t) : x = t[j]
    BY <1>8 DEF Elements
  <2>2. \E a \in 1 .. Len(s) : x = s[a] /\ a # p
    BY <1>1, <1>3, <1>5, <1>6, <2>1
  <2> QED
    BY <1>1, <2>2 DEF Elements, Distinct
<1>9. ASSUME NEW x \in Elements(s) \ {f}
      PROVE  x \in Elements(t)
  <2>1. PICK a \in 1 .. Len(s) : x = s[a]
    BY <1>9 DEF Elements
  <2>2. a # p
    BY <1>1, <1>9, <2>1
  <2>3. CASE a < p
    <3>1. a \in 1 .. Len(t) /\ t[a] = x
      BY <1>1, <1>3, <1>5, <1>6, <2>1, <2>3
    <3> QED
      BY <3>1 DEF Elements
  <2>4. CASE a > p
    <3>1. a - 1 \in 1 .. Len(t) /\ t[a - 1] = x
      BY <1>1, <1>3, <1>5, <1>6, <2>1, <2>4
    <3> QED
      BY <3>1 DEF Elements
  <2> QED
    BY <1>1, <2>2, <2>3, <2>4
<1> QED
  BY <1>5, <1>7, <1>8, <1>9 DEF t

LEMMA SuffixOf ==
  ASSUME NEW s \in Seq(Files), Distinct(s), NEW k \in 1 .. Len(s) + 1
  PROVE  LET t == SubSeq(s, k, Len(s)) IN
         /\ t \in Seq(Files) /\ Len(t) = Len(s) - k + 1
         /\ Distinct(t) /\ Elements(t) \subseteq Elements(s)
<1> DEFINE t == SubSeq(s, k, Len(s))
<1>1. \A i \in k .. Len(s) : s[i] \in Files
  OBVIOUS
<1>2. /\ t \in Seq(Files)
      /\ Len(t) = IF k <= Len(s) THEN Len(s) - k + 1 ELSE 0
      /\ \A i \in 1 .. Len(s) - k + 1 : t[i] = s[k + i - 1]
  BY <1>1, SubSeqProperties
<1> HIDE DEF t
<1>3. Len(t) = Len(s) - k + 1
  BY <1>2
<1>4. \A i \in 1 .. Len(t) : k + i - 1 \in 1 .. Len(s) /\ t[i] = s[k + i - 1]
  BY <1>2, <1>3
<1>5. Distinct(t)
  <2> SUFFICES ASSUME NEW i \in 1 .. Len(t), NEW j \in 1 .. Len(t), t[i] = t[j]
               PROVE  i = j
    BY DEF Distinct
  <2>1. k + i - 1 = k + j - 1
    BY <1>4 DEF Distinct
  <2> QED
    BY <2>1, <1>3
<1>6. Elements(t) \subseteq Elements(s)
  BY <1>4 DEF Elements
<1> QED
  BY <1>2, <1>3, <1>5, <1>6 DEF t

LEMMA AppendOne ==
  ASSUME NEW s \in Seq(Files), Distinct(s), NEW f \in Files \ Elements(s)
  PROVE  /\ Append(s, f) \in Seq(Files) /\ Len(Append(s, f)) = Len(s) + 1
         /\ Distinct(Append(s, f)) /\ Elements(Append(s, f)) = Elements(s) \cup {f}
<1>1. /\ Append(s, f) \in Seq(Files) /\ Len(Append(s, f)) = Len(s) + 1
      /\ Append(s, f)[Len(s) + 1] = f
      /\ \A i \in 1 .. Len(s) : Append(s, f)[i] = s[i]
  OBVIOUS
<1>2. Len(s) \in Nat
  OBVIOUS
<1>3. \A i \in 1 .. Len(s) : s[i] # f
  BY DEF Elements
<1>4. \A i \in 1 .. Len(s) + 1 : i = Len(s) + 1 \/ i \in 1 .. Len(s)
  BY <1>2
<1>5. Distinct(Append(s, f))
  BY <1>1, <1>2, <1>3, <1>4 DEF Distinct
<1>6. Elements(Append(s, f)) = Elements(s) \cup {f}
  <2>1. Elements(Append(s, f)) \subseteq Elements(s) \cup {f}
    BY <1>1, <1>4 DEF Elements
  <2>2. ASSUME NEW x \in Elements(s)
        PROVE  x \in Elements(Append(s, f))
    <3>1. PICK i \in 1 .. Len(s) : x = s[i]
      BY <2>2 DEF Elements
    <3>2. i \in 1 .. Len(Append(s, f)) /\ x = Append(s, f)[i]
      BY <1>1, <1>2, <3>1
    <3> QED
      BY <3>2 DEF Elements
  <2>3. f \in Elements(Append(s, f))
    BY <1>1, <1>2 DEF Elements
  <2> QED
    BY <2>1, <2>2, <2>3
<1> QED
  BY <1>1, <1>5, <1>6

\* MarkHot always leaves room for the file it is about to add.
LEMMA TrimmedFits ==
  ASSUME hot \in Seq(Files), Distinct(hot), Len(hot) <= MaxHot, NEW expired \in 0 .. Len(hot)
  PROVE  /\ Trimmed(expired) \in Seq(Files) /\ Len(Trimmed(expired)) <= MaxHot - 1
         /\ Distinct(Trimmed(expired)) /\ Elements(Trimmed(expired)) \subseteq Elements(hot)
<1> DEFINE kept == SubSeq(hot, expired + 1, Len(hot))
<1>1. Len(hot) \in Nat /\ MaxHot \in Nat \ {0}
  BY WatcherAssumption
<1>2. expired + 1 \in 1 .. Len(hot) + 1
  BY <1>1
<1>3. /\ kept \in Seq(Files) /\ Len(kept) = Len(hot) - expired
      /\ Distinct(kept) /\ Elements(kept) \subseteq Elements(hot)
  BY <1>1, <1>2, SuffixOf
<1>4. Trimmed(expired) = IF Len(kept) >= MaxHot THEN Last(kept, MaxHot - 1) ELSE kept
  BY DEF Trimmed
<1> HIDE DEF kept
<1>5. CASE Len(kept) >= MaxHot
  <2> DEFINE k == Len(kept) - (MaxHot - 1) + 1
  <2>1. k \in 1 .. Len(kept) + 1 /\ Len(kept) - k + 1 = MaxHot - 1
    BY <1>1, <1>3, <1>5
  <2>2. Trimmed(expired) = SubSeq(kept, k, Len(kept))
    BY <1>4, <1>5 DEF Last
  <2> HIDE DEF k
  <2>3. /\ Trimmed(expired) \in Seq(Files) /\ Len(Trimmed(expired)) = Len(kept) - k + 1
        /\ Distinct(Trimmed(expired)) /\ Elements(Trimmed(expired)) \subseteq Elements(kept)
    BY <1>3, <2>1, <2>2, SuffixOf
  <2> QED
    BY <1>1, <1>3, <2>1, <2>3
<1>6. CASE ~(Len(kept) >= MaxHot)
  BY <1>1, <1>3, <1>4, <1>6
<1> QED
  BY <1>5, <1>6

-----------------------------------------------------------------------------
\* What the actions do to the queue and to the hot list.

Queued(x) == \E i \in 1 .. Len(events) : events[i] = x

LEMMA EnqueueKeeps ==
  ASSUME events \in Seq(Event), NEW e \in Event, NEW n \in 0 .. 2, Enqueue(e, n)
  PROVE  /\ events' \in Seq(Event)
         /\ \A x : Queued(x) => Queued(x)'
         /\ n >= 1 /\ Overflow = FALSE /\ Room(n) => Queued(e)'
<1> DEFINE m == IF Len(events) + n <= MaxEvents THEN n ELSE 0
           t == [i \in 1 .. m |-> e]
<1>1. m \in 0 .. 2 /\ (n >= 1 /\ Overflow = FALSE /\ Room(n) => m >= 1)
  BY DEF Room
<1>2. events' = events \o t
  BY DEF Enqueue
<1> HIDE DEF m
<1>3. t \in Seq(Event) /\ Len(t) = m /\ \A i \in 1 .. m : t[i] = e
  BY <1>1
<1> HIDE DEF t
<1>4. /\ events' \in Seq(Event) /\ Len(events') = Len(events) + Len(t)
      /\ \A i \in 1 .. Len(events) + Len(t) :
           events'[i] = IF i <= Len(events) THEN events[i] ELSE t[i - Len(events)]
  BY <1>2, <1>3, ConcatProperties
<1>5. Len(events) \in Nat
  OBVIOUS
<1>6. ASSUME NEW x, Queued(x)
      PROVE  Queued(x)'
  <2>1. PICK i \in 1 .. Len(events) : events[i] = x
    BY <1>6 DEF Queued
  <2>2. i \in 1 .. Len(events') /\ events'[i] = x
    BY <1>1, <1>3, <1>4, <1>5, <2>1
  <2> QED
    BY <2>2 DEF Queued
<1>7. ASSUME m >= 1
      PROVE  Queued(e)'
  <2>1. Len(events) + 1 \in 1 .. Len(events')
    BY <1>1, <1>3, <1>4, <1>5, <1>7
  <2>2. events'[Len(events) + 1] = t[1]
    BY <1>1, <1>3, <1>4, <1>5, <1>7
  <2>3. t[1] = e
    BY <1>1, <1>3, <1>7
  <2> QED
    BY <2>1, <2>2, <2>3 DEF Queued
<1> QED
  BY <1>1, <1>4, <1>6, <1>7

HotOK == hot \in Seq(Files) /\ live \subseteq Files /\ HotBudget

\* The files that are watched, or dropped from the hot list, after a step: no file
\* becomes hot or stays hot without its watch.
WatchKept == \A f \in Elements(hot') : f \in live' \/ (f \in Elements(hot) /\ f \notin live)

LEMMA MarkHotKeeps ==
  ASSUME HotOK, NEW f \in Files, NEW exists \in BOOLEAN, MarkHot(f, exists)
  PROVE  HotOK' /\ WatchKept
<1>1. hot \in Seq(Files) /\ Distinct(hot) /\ Len(hot) <= MaxHot /\ live \subseteq Elements(hot)
  BY DEF HotOK, HotBudget, Distinct
<1>2. MaxHot \in Nat \ {0} /\ Len(hot) \in Nat
  BY <1>1, WatcherAssumption
<1>3. CASE MarkHotAgain(f)
  <2>1. f \in Elements(hot) /\ hot' = Append(Without(hot, f), f) /\ live' = live
    BY <1>3 DEF MarkHotAgain
  <2>2. /\ Without(hot, f) \in Seq(Files) /\ Len(Without(hot, f)) = Len(hot) - 1
        /\ Distinct(Without(hot, f)) /\ Elements(Without(hot, f)) = Elements(hot) \ {f}
    BY <1>1, <2>1, WithoutOne
  <2>3. /\ hot' \in Seq(Files) /\ Len(hot') = Len(hot) /\ Distinct(hot')
        /\ Elements(hot') = Elements(hot)
    <3>1. f \in Files \ Elements(Without(hot, f))
      BY <2>2
    <3>2. /\ hot' \in Seq(Files) /\ Len(hot') = Len(Without(hot, f)) + 1 /\ Distinct(hot')
          /\ Elements(hot') = Elements(Without(hot, f)) \cup {f}
      BY <2>1, <2>2, <3>1, AppendOne
    <3> QED
      BY <1>2, <2>1, <2>2, <3>2
  <2>4. live' \subseteq Elements(hot)'
    BY <1>1, <2>1, <2>3 DEF Elements
  <2> QED
    BY <1>1, <2>1, <2>3, <2>4 DEF HotOK, HotBudget, Distinct, WatchKept
<1>4. ASSUME NEW expired \in 0 .. Len(hot), NEW added \in BOOLEAN,
             MarkHotAnew(f, expired, added)
      PROVE  HotOK' /\ WatchKept
  <2> DEFINE t == Trimmed(expired)
  <2>1. /\ f \notin Elements(hot) /\ hot' = (IF added THEN Append(t, f) ELSE t)
        /\ live' = (live \ (Elements(hot) \ Elements(t))) \cup (IF added THEN {f} ELSE {})
    BY <1>4 DEF MarkHotAnew
  <2>2. /\ t \in Seq(Files) /\ Len(t) <= MaxHot - 1
        /\ Distinct(t) /\ Elements(t) \subseteq Elements(hot)
    BY <1>1, TrimmedFits
  <2> HIDE DEF t
  <2>3. /\ hot' \in Seq(Files) /\ Len(hot') <= MaxHot /\ Distinct(hot')
        /\ Elements(hot') = Elements(t) \cup (IF added THEN {f} ELSE {})
    <3>1. CASE added
      <4>1. f \in Files \ Elements(t)
        BY <2>1, <2>2
      <4>2. /\ hot' \in Seq(Files) /\ Len(hot') = Len(t) + 1 /\ Distinct(hot')
            /\ Elements(hot') = Elements(t) \cup {f}
        BY <2>1, <2>2, <3>1, <4>1, AppendOne
      <4> QED
        BY <1>2, <2>2, <3>1, <4>2
    <3>2. CASE ~added
      BY <1>2, <2>1, <2>2, <3>2
    <3> QED
      BY <3>1, <3>2
  <2>4. live' \subseteq Files /\ live' \subseteq Elements(hot')
    <3>1. live \subseteq Files
      BY DEF HotOK
    <3> QED
      BY <1>1, <2>1, <2>3, <3>1
  <2>5. WatchKept
    BY <2>1, <2>2, <2>3 DEF WatchKept
  <2>6. Elements(hot') = Elements(hot)'
    BY DEF Elements
  <2> QED
    BY <2>3, <2>4, <2>5, <2>6 DEF HotOK, HotBudget, Distinct
<1> QED
  BY <1>3, <1>4 DEF MarkHot

LEMMA DropHotKeeps ==
  ASSUME HotOK, NEW e \in Event, DropHot(e)
  PROVE  /\ HotOK' /\ WatchKept
         /\ e.gone => e.name \notin Elements(hot')
<1>1. hot \in Seq(Files) /\ Distinct(hot) /\ Len(hot) <= MaxHot /\ live \subseteq Elements(hot)
  BY DEF HotOK, HotBudget, Distinct
<1>2. CASE e.gone /\ e.name \in Elements(hot)
  <2>1. hot' = Without(hot, e.name) /\ live' = live \ {e.name}
    BY <1>2 DEF DropHot
  <2>2. /\ hot' \in Seq(Files) /\ Len(hot') = Len(hot) - 1
        /\ Distinct(hot') /\ Elements(hot') = Elements(hot) \ {e.name}
    BY <1>1, <1>2, <2>1, WithoutOne
  <2>3. live' \subseteq Elements(hot)' /\ live' \subseteq Files
    BY <1>1, <2>1, <2>2 DEF HotOK, Elements
  <2>4. Len(hot') <= MaxHot
    BY <1>1, <2>2, WatcherAssumption
  <2>5. WatchKept
    BY <2>1, <2>2 DEF WatchKept
  <2> QED
    BY <2>2, <2>3, <2>4, <2>5 DEF HotOK, HotBudget, Distinct
<1>3. CASE ~(e.gone /\ e.name \in Elements(hot))
  <2>1. hot' = hot /\ live' = live
    BY <1>3 DEF DropHot
  <2> QED
    BY <1>3, <2>1 DEF HotOK, HotBudget, WatchKept, Elements
<1> QED
  BY <1>2, <1>3

-----------------------------------------------------------------------------
\* The inductive invariant of the first theorems: that hot files are distinct is
\* needed even for the type of the hot list, from which an entry is taken by name.
Inv == TypeOK /\ HotBudget /\ PendingIsTimed

\* TypeOK without the hot list, which HotOK has.
RestOK ==
  /\ events \in Seq(Event)
  /\ pending \subseteq Providers /\ sending \subseteq Providers
  /\ timer \in {Off} \cup 0 .. Debounce
  /\ wpc \in {"off", "select", "flush", "exit"}
  /\ out \in Seq(SUBSET Providers) /\ Len(out) <= OutCap
  /\ done \in BOOLEAN

LEMMA InvParts == Inv <=> HotOK /\ RestOK /\ PendingIsTimed
BY DEF Inv, TypeOK, HotOK, RestOK, Event

LEMMA InvInit == Init => Inv
<1> SUFFICES ASSUME Init PROVE Inv
  OBVIOUS
<1>1. /\ hot = << >> /\ live = {} /\ events = << >> /\ pending = {} /\ timer = Off
      /\ sending = {} /\ wpc \in {"off", "select"} /\ out = << >> /\ done = FALSE
  BY DEF Init, WatchInit
<1>2. HotOK
  BY <1>1, WatcherAssumption DEF HotOK, HotBudget, Elements
<1>3. RestOK
  <2>1. events \in Seq(Event)
    BY <1>1
  <2>2. out \in Seq(SUBSET Providers)
    BY <1>1
  <2>3. Len(out) <= OutCap
    BY <1>1, WatcherAssumption
  <2> QED
    BY <1>1, <2>1, <2>2, <2>3 DEF RestOK
<1>4. PendingIsTimed
  BY <1>1 DEF PendingIsTimed
<1> QED
  BY <1>2, <1>3, <1>4, InvParts

LEMMA InvStep == Inv /\ [Next]_vars => Inv'
<1> SUFFICES ASSUME Inv, [Next]_vars PROVE Inv'
  OBVIOUS
<1>1. HotOK /\ RestOK /\ PendingIsTimed
  BY InvParts
<1>2. SUFFICES HotOK' /\ RestOK' /\ PendingIsTimed'
  BY DEF Inv, TypeOK, HotOK, RestOK, Event
<1> USE <1>1
<1>h. ASSUME hot' = hot, live' \subseteq live
      PROVE  HotOK'
  BY <1>h DEF HotOK, HotBudget, Elements
<1>t. ASSUME timer' = timer, pending' = pending
      PROVE  PendingIsTimed'
  BY <1>t DEF PendingIsTimed
<1>3. ASSUME NEW e \in Event, NEW n \in 0 .. 2, Enqueue(e, n), hot' = hot,
             live' \subseteq live, UNCHANGED <<pending, timer, wpc, sending, out, done>>
      PROVE  HotOK' /\ RestOK' /\ PendingIsTimed'
  <2>1. events' \in Seq(Event)
    BY <1>3, EnqueueKeeps DEF RestOK
  <2>2. RestOK'
    BY <1>3, <2>1 DEF RestOK
  <2> QED
    BY <1>3, <1>h, <1>t, <2>2
<1>4. ASSUME NEW f \in Files, Vanished(f)
      PROVE  HotOK' /\ RestOK' /\ PendingIsTimed'
  <2>1. PICK n \in 0 .. 2 : Enqueue([name |-> f, gone |-> TRUE], n)
    BY <1>4 DEF Vanished
  <2>2. /\ hot' = hot /\ live' \subseteq live
        /\ UNCHANGED <<pending, timer, wpc, sending, out, done>>
    BY <1>4 DEF Vanished
  <2>3. [name |-> f, gone |-> TRUE] \in Event
    BY DEF Event
  <2> QED
    BY <1>3, <2>1, <2>2, <2>3
<1>5. ASSUME NEW f \in Files, NEW created \in BOOLEAN, Written(f, created)
      PROVE  HotOK' /\ RestOK' /\ PendingIsTimed'
  <2>1. PICK n \in 0 .. 2 : Enqueue([name |-> f, gone |-> FALSE], n)
    BY <1>5 DEF Written
  <2>2. /\ hot' = hot /\ live' \subseteq live
        /\ UNCHANGED <<pending, timer, wpc, sending, out, done>>
    BY <1>5 DEF Written
  <2>3. [name |-> f, gone |-> FALSE] \in Event
    BY DEF Event
  <2> QED
    BY <1>3, <2>1, <2>2, <2>3
<1>6. ASSUME HandleEvent
      PROVE  HotOK' /\ RestOK' /\ PendingIsTimed'
  <2> DEFINE e == Head(events)
  <2>1. e \in Event /\ events' \in Seq(Event)
    BY <1>6 DEF HandleEvent, RestOK
  <2>2. UNCHANGED <<wpc, sending, out, done>>
    BY <1>6 DEF HandleEvent
  <2>3. CASE UNCHANGED <<hot, live, pending, timer>>
    <3>1. RestOK'
      BY <2>1, <2>2, <2>3 DEF RestOK
    <3> QED
      BY <1>h, <1>t, <2>3, <3>1
  <2>4. CASE DropHot(e) /\ NotedPending(e) /\ timer' = Debounce
    <3>1. HotOK'
      BY <2>1, <2>4, DropHotKeeps
    <3>2. ProviderOf[e.name] \in Providers
      BY <2>1, WatcherAssumption DEF Event
    <3>3. pending' \subseteq Providers /\ pending' # {}
      BY <2>4, <3>2 DEF NotedPending, RestOK
    <3>4. timer' \in 0 .. Debounce /\ timer' # Off
      BY <2>4, WatcherAssumption DEF Off
    <3>5. RestOK'
      BY <2>1, <2>2, <3>3, <3>4 DEF RestOK
    <3> QED
      BY <3>1, <3>3, <3>4, <3>5 DEF PendingIsTimed
  <2> QED
    BY <1>6, <2>3, <2>4 DEF HandleEvent
<1>7. CASE Elapse
  <2>1. timer' \in 0 .. Debounce /\ timer' # Off /\ timer # Off
    BY <1>7, WatcherAssumption DEF Elapse, RestOK, Off
  <2>2. UNCHANGED <<hot, live, events, pending, wpc, sending, out, done>>
    BY <1>7 DEF Elapse
  <2>3. RestOK'
    BY <2>1, <2>2 DEF RestOK
  <2> QED
    BY <1>h, <2>1, <2>2, <2>3 DEF PendingIsTimed
<1>8. CASE TimerFires
  <2>1. /\ timer' = Off /\ pending' = {} /\ sending' = pending
        /\ wpc' \in {"select", "flush"} /\ UNCHANGED <<hot, live, events, out, done>>
    BY <1>8 DEF TimerFires
  <2>2. RestOK'
    BY <2>1 DEF RestOK
  <2> QED
    BY <1>h, <2>1, <2>2 DEF PendingIsTimed
<1>9. CASE Send
  <2>1. /\ Len(out) < OutCap /\ out' = Append(out, sending) /\ sending' = {}
        /\ wpc' = "select" /\ UNCHANGED <<hot, live, events, pending, timer, done>>
    BY <1>9 DEF Send
  <2>2. out' \in Seq(SUBSET Providers) /\ Len(out') <= OutCap
    BY <2>1, WatcherAssumption DEF RestOK
  <2>3. RestOK'
    BY <2>1, <2>2 DEF RestOK
  <2> QED
    BY <1>h, <1>t, <2>1, <2>3
<1>10. CASE AbandonSend
  <2>1. /\ sending' = {} /\ wpc' = "select"
        /\ UNCHANGED <<hot, live, events, pending, timer, out, done>>
    BY <1>10 DEF AbandonSend
  <2>2. RestOK'
    BY <2>1 DEF RestOK
  <2> QED
    BY <1>h, <1>t, <2>1, <2>2
<1>11. CASE Exit
  <2>1. /\ live' = {} /\ wpc' = "exit"
        /\ UNCHANGED <<hot, events, pending, timer, sending, out, done>>
    BY <1>11 DEF Exit
  <2>2. RestOK'
    BY <2>1 DEF RestOK
  <2> QED
    BY <1>h, <1>t, <2>1, <2>2
<1>12. ASSUME NEW f \in Files, NEW exists \in BOOLEAN, MarkHot(f, exists)
       PROVE  HotOK' /\ RestOK' /\ PendingIsTimed'
  <2>1. HotOK'
    BY <1>12, MarkHotKeeps
  <2>2. UNCHANGED <<events, pending, timer, wpc, sending, out, done>>
    BY <1>12 DEF MarkHot, MarkHotAgain, MarkHotAnew
  <2>3. RestOK'
    BY <2>2 DEF RestOK
  <2> QED
    BY <1>t, <2>1, <2>2, <2>3
<1>13. CASE out # << >> /\ out' = Tail(out) /\ UNCHANGED <<watchVars, done>>
  <2>1. out' \in Seq(SUBSET Providers) /\ Len(out') <= OutCap
    BY <1>13, WatcherAssumption DEF RestOK
  <2>2. UNCHANGED <<hot, live, events, pending, timer, wpc, sending, done>>
    BY <1>13 DEF watchVars
  <2>3. RestOK'
    BY <2>1, <2>2 DEF RestOK
  <2> QED
    BY <1>h, <1>t, <2>2, <2>3
<1>14. CASE ~done /\ done' = TRUE /\ UNCHANGED <<watchVars, out>>
  <2>1. UNCHANGED <<hot, live, events, pending, timer, wpc, sending, out>>
    BY <1>14 DEF watchVars
  <2>2. RestOK'
    BY <1>14, <2>1 DEF RestOK
  <2> QED
    BY <1>h, <1>t, <2>1, <2>2
<1>15. CASE UNCHANGED vars
  <2>1. UNCHANGED <<hot, live, events, pending, timer, wpc, sending, out, done>>
    BY <1>15 DEF vars
  <2>2. RestOK'
    BY <2>1 DEF RestOK
  <2> QED
    BY <1>h, <1>t, <2>1, <2>2
<1> QED
  BY <1>4, <1>5, <1>6, <1>7, <1>8, <1>9, <1>10, <1>11, <1>12, <1>13, <1>14, <1>15
     DEF Next, FileEvents, WatchRun, Caller

LEMMA Invariance == Spec => []Inv
BY InvInit, InvStep, PTL DEF Spec

\* The types of the watcher's state, in every run.
THEOREM TypeCorrect == Spec => []TypeOK
BY Invariance, PTL DEF Inv

\* MarkHot, its evictions and the removal of vanished files never let the hot list
\* grow beyond maxHot, name a file twice, or leave a watch nobody will end.
THEOREM BudgetKept == Spec => []HotBudget
BY Invariance, PTL DEF Inv

\* run arms the timer with the first pending provider and spends it with the flush:
\* no change is left pending without a timer that will send it.
THEOREM PendingTimed == Spec => []PendingIsTimed
BY Invariance, PTL DEF Inv

-----------------------------------------------------------------------------
\* A queue that never drops the event of a removal.
Lossless == Overflow = FALSE

Gone(f) == [name |-> f, gone |-> TRUE]

LEMMA WatchedStep ==
  ASSUME Lossless
  PROVE  Inv /\ HotIsWatched /\ [Next]_vars => HotIsWatched'
<1> SUFFICES ASSUME Inv, HotIsWatched, [Next]_vars, WatcherOn',
                    NEW f \in Elements(hot')
             PROVE  f \in live' \/ Queued(Gone(f))'
  BY DEF HotIsWatched, Queued, Gone, Elements, WatcherOn
<1>1. HotOK /\ RestOK /\ hot \in Seq(Files)
  BY InvParts DEF HotOK
<1>2. ASSUME WatcherOn, NEW g \in Elements(hot)
      PROVE  g \in live \/ Queued(Gone(g))
  BY <1>2 DEF HotIsWatched, Queued, Gone
<1>3. ASSUME hot' = hot, live' = live, events' = events, WatcherOn
      PROVE  f \in live' \/ Queued(Gone(f))'
  BY <1>2, <1>3 DEF Queued
<1>4. ASSUME WatchKept, events' = events, WatcherOn
      PROVE  f \in live' \/ Queued(Gone(f))'
  BY <1>2, <1>4 DEF WatchKept, Queued
<1>5. ASSUME NEW g \in Files, Vanished(g), WatcherOn
      PROVE  f \in live' \/ Queued(Gone(f))'
  <2> DEFINE n == (IF g \in live THEN 1 ELSE 0) + (IF g \in InWatchedDir THEN 1 ELSE 0)
  <2>1. n \in 0 .. 2 /\ Gone(g) \in Event /\ (g \in live => n >= 1)
    BY DEF Event, Gone
  <2>2. Room(n) /\ Enqueue(Gone(g), n) /\ live' = live \ {g} /\ hot' = hot
    BY <1>5 DEF Vanished, Gone
  <2> HIDE DEF n
  <2>3. /\ \A x : Queued(x) => Queued(x)'
        /\ n >= 1 => Queued(Gone(g))'
    BY <1>1, <2>1, <2>2, EnqueueKeeps DEF RestOK, Lossless
  <2>4. f \in live \/ Queued(Gone(f))
    BY <1>2, <1>5, <2>2
  <2> QED
    BY <2>1, <2>2, <2>3, <2>4
<1>6. ASSUME NEW g \in Files, NEW created \in BOOLEAN, Written(g, created), WatcherOn
      PROVE  f \in live' \/ Queued(Gone(f))'
  <2>1. PICK n \in 0 .. 2 : Enqueue([name |-> g, gone |-> FALSE], n)
    BY <1>6 DEF Written
  <2>2. hot' = hot /\ live' = live
    BY <1>6 DEF Written
  <2>3. \A x : Queued(x) => Queued(x)'
    BY <1>1, <2>1, EnqueueKeeps DEF RestOK, Event
  <2>4. f \in live \/ Queued(Gone(f))
    BY <1>2, <1>6, <2>2
  <2> QED
    BY <2>2, <2>3, <2>4
<1>7. ASSUME HandleEvent
      PROVE  f \in live' \/ Queued(Gone(f))'
  <2> DEFINE e == Head(events)
  <2>1. /\ e \in Event /\ events # << >> /\ events' = Tail(events) /\ WatcherOn
        /\ events \in Seq(Event)
    BY <1>1, <1>7 DEF HandleEvent, RestOK, WatcherOn
  <2>2. ASSUME NEW x, Queued(x), x # e
        PROVE  Queued(x)'
    <3>1. PICK i \in 1 .. Len(events) : events[i] = x
      BY <2>2 DEF Queued
    <3>2. i # 1
      BY <2>1, <2>2, <3>1
    <3>3. i - 1 \in 1 .. Len(events') /\ events'[i - 1] = x
      BY <2>1, <3>1, <3>2
    <3> QED
      BY <3>3 DEF Queued
  <2>3. CASE ~Attributed(e.name) /\ UNCHANGED <<hot, live>>
    <3>1. f \in live \/ Queued(Gone(f))
      BY <1>2, <2>1, <2>3
    <3>2. Gone(f) # e
      BY <2>3 DEF Attributed, Gone
    <3> QED
      BY <2>2, <2>3, <3>1, <3>2
  <2>4. CASE DropHot(e)
    <3>1. WatchKept /\ (e.gone => e.name \notin Elements(hot'))
      BY <1>1, <2>1, <2>4, DropHotKeeps
    <3>2. Gone(f) # e
      BY <3>1 DEF Gone
    <3> QED
      BY <1>2, <2>1, <2>2, <3>1, <3>2 DEF WatchKept
  <2> QED
    BY <1>7, <2>3, <2>4 DEF HandleEvent
<1>8. CASE Elapse \/ TimerFires \/ Send \/ AbandonSend
  BY <1>3, <1>8 DEF Elapse, TimerFires, Send, AbandonSend, WatcherOn, RestOK
<1>9. CASE Exit
  BY <1>9 DEF Exit, WatcherOn
<1>10. ASSUME NEW g \in Files, NEW exists \in BOOLEAN, MarkHot(g, exists)
       PROVE  f \in live' \/ Queued(Gone(f))'
  <2>1. WatchKept
    BY <1>1, <1>10, MarkHotKeeps
  <2>2. events' = events /\ WatcherOn
    BY <1>10 DEF MarkHot, MarkHotAgain, MarkHotAnew, WatcherOn
  <2> QED
    BY <1>4, <2>1, <2>2
<1>11. CASE \/ out # << >> /\ out' = Tail(out) /\ UNCHANGED <<watchVars, done>>
            \/ ~done /\ done' = TRUE /\ UNCHANGED <<watchVars, out>>
            \/ UNCHANGED vars
  BY <1>3, <1>11 DEF watchVars, vars, WatcherOn
<1> QED
  BY <1>5, <1>6, <1>7, <1>8, <1>9, <1>10, <1>11 DEF Next, FileEvents, WatchRun, Caller

\* MarkHot returns early for a hot file, so a hot file must really be watched: it is,
\* or the event of its removal is queued and will take it off the list.  The queue
\* must not drop events: an inotify overflow can leave a hot file without a watch.
THEOREM HotWatched ==
  ASSUME Lossless
  PROVE  Spec => []HotIsWatched
<1>1. Init => HotIsWatched
  BY DEF Init, WatchInit, HotIsWatched, Elements
<1>2. Inv /\ HotIsWatched /\ [Next]_vars => HotIsWatched'
  BY WatchedStep
<1> QED
  BY <1>1, <1>2, Invariance, PTL DEF Spec
=============================================================================
