------------------------------ MODULE Watcher ------------------------------
(***************************************************************************)
(* core/watch: the Watcher, its goroutine run, and the file system watch   *)
(* under it.  Events of watched files make providers pending; a debounce   *)
(* timer turns pending providers into one Dirty message on "out", which    *)
(* another goroutine drains.  MarkHot is called by that other goroutine;   *)
(* w.mu makes each critical section one step here.  Next is the watcher    *)
(* with any files and any caller; Observer puts the engine in their place. *)
(*                                                                         *)
(* "hot" lists the keys of w.hot by last event time, stalest first, so the *)
(* time of an entry is its place.  "live" is what fsnotify watches file by *)
(* file; fsnotify drops a watch itself when its file goes away.            *)
(***************************************************************************)
EXTENDS Sequences, Integers, FiniteSets

CONSTANTS Files,       \* paths that can be hot
          Providers,
          ProviderOf,  \* provider whose sessions a file belongs to
          InWatchedDir,\* files under a directory of w.dirs
          DirReports,  \* of these, files whose directory watch reports writes too
          MaxHot,      \* w.maxHot
          OutCap,      \* capacity of out
          Debounce,    \* w.debounce, in clock units
          MaxEvents,   \* bound: length of fsnotify's queue
          Overflow     \* whether events beyond MaxEvents are dropped (else they wait)

ASSUME WatcherAssumption ==
  /\ ProviderOf \in [Files -> Providers]
  /\ InWatchedDir \subseteq Files /\ DirReports \subseteq InWatchedDir
  /\ MaxHot \in Nat \ {0} /\ OutCap \in Nat \ {0}
  /\ Debounce \in Nat \ {0} /\ MaxEvents \in Nat \ {0}
  /\ Overflow \in BOOLEAN

VARIABLES
  hot,      \* w.hot, w.hotProv
  live,     \* files fsnotify watches
  events,   \* w.fs.Events: [name, gone], gone for Remove and Rename
  pending,  \* run: pending
  timer,    \* run: units left, or Off
  wpc,      \* "off" (not started), "select", "flush" (sending), "exit"
  sending,  \* run: the Dirty being sent
  out,      \* the channel: a sequence of sets of providers
  done      \* ctx.Done is closed

watchVars == <<hot, live, events, pending, timer, wpc, sending>>

Off == -1

Elements(s) == {s[i] : i \in 1 .. Len(s)}
Place(s, f) == CHOOSE i \in 1 .. Len(s) : s[i] = f
Without(s, f) ==
  [j \in 1 .. Len(s) - 1 |-> IF j < Place(s, f) THEN s[j] ELSE s[j + 1]]
Last(s, n) == SubSeq(s, Len(s) - n + 1, Len(s))

WatchInit ==
  /\ hot = << >> /\ live = {} /\ events = << >> /\ pending = {}
  /\ timer = Off /\ sending = {}
  /\ wpc \in {"off", "select"}

-----------------------------------------------------------------------------
\* fsnotify.  A write is reported by the file's own watch or, where the platform
\* does so, by its directory's; a new name by its directory's watch alone.
Room(n) == Overflow \/ Len(events) + n <= MaxEvents

Enqueue(e, n) ==
  events' = events \o [i \in 1 .. (IF Len(events) + n <= MaxEvents THEN n ELSE 0) |-> e]

Written(f, created) ==
  LET heard == f \in DirReports \cup (IF created THEN InWatchedDir ELSE live)
      n == IF heard THEN 1 ELSE 0 IN
    /\ Room(n)
    /\ Enqueue([name |-> f, gone |-> FALSE], n)
    /\ UNCHANGED <<hot, live, pending, timer, wpc, sending, out, done>>

\* The file is removed or renamed away: each watch reports it, the file's own ends.
Vanished(f) ==
  LET n == (IF f \in live THEN 1 ELSE 0) + (IF f \in InWatchedDir THEN 1 ELSE 0) IN
    /\ Room(n)
    /\ Enqueue([name |-> f, gone |-> TRUE], n)
    /\ live' = live \ {f}
    /\ UNCHANGED <<hot, pending, timer, wpc, sending, out, done>>

-----------------------------------------------------------------------------
\* MarkHot.  The entries older than hotWindow are the first "expired" ones.
\* Mutant: room is made for one entry too few.
TrimmedShort(expired) ==
  LET kept == SubSeq(hot, expired + 1, Len(hot)) IN
    IF Len(kept) > MaxHot THEN Last(kept, MaxHot) ELSE kept

\* evictLocked, then evictOldestLocked: what is left of hot before an Add.
Trimmed(expired) ==
  LET kept == SubSeq(hot, expired + 1, Len(hot)) IN
    IF Len(kept) >= MaxHot THEN Last(kept, MaxHot - 1) ELSE kept

MarkHotAgain(f) ==
  /\ f \in Elements(hot)
  /\ hot' = Append(Without(hot, f), f)
  /\ UNCHANGED <<live, events, pending, timer, wpc, sending, out, done>>

\* "added" is whether fs.Add succeeds; after Close it does not.
MarkHotAnew(f, expired, added) ==
  /\ f \notin Elements(hot)
  /\ added => wpc # "exit"
  /\ hot' = IF added THEN Append(Trimmed(expired), f) ELSE Trimmed(expired)
  /\ live' = (live \ (Elements(hot) \ Elements(Trimmed(expired))))
               \cup (IF added THEN {f} ELSE {})
  /\ UNCHANGED <<events, pending, timer, wpc, sending, out, done>>

\* A missing file cannot be watched.
MarkHot(f, exists) ==
  /\ wpc # "off"
  /\ \/ MarkHotAgain(f)
     \/ \E expired \in 0 .. Len(hot), added \in {FALSE, exists} :
          MarkHotAnew(f, expired, added)

-----------------------------------------------------------------------------
\* Mutant: only hot files have a provider.
AttributedHot(f) == f \in Elements(hot)

\* providerFor: a hot file, or one under a watched directory; else no provider.
Attributed(f) == f \in Elements(hot) \cup InWatchedDir

\* Mutant: the watch of a file that is gone is ended, its entry stays.
DropWatchOnly(e) == live' = live \ {e.name} /\ UNCHANGED hot

\* run, on Remove and Rename.
DropHot(e) ==
  IF e.gone /\ e.name \in Elements(hot)
  THEN hot' = Without(hot, e.name) /\ live' = live \ {e.name}
  ELSE UNCHANGED <<hot, live>>

\* Mutant: the file is noted in the place of its provider.
NotedByName(e) == pending' = pending \cup {e.name}

\* run, on every attributed event.
NotedPending(e) == pending' = pending \cup {ProviderOf[e.name]}

HandleEvent ==
  /\ wpc = "select" /\ events # << >>
  /\ events' = Tail(events)
  /\ LET e == Head(events) IN
       \/ /\ ~Attributed(e.name)
          /\ UNCHANGED <<hot, live, pending, timer>>
       \/ /\ Attributed(e.name)
          /\ DropHot(e)
          /\ NotedPending(e)
          /\ timer' = Debounce
  /\ UNCHANGED <<wpc, sending, out, done>>

Elapse ==
  /\ timer > 0
  /\ timer' = timer - 1
  /\ UNCHANGED <<hot, live, events, pending, wpc, sending, out, done>>

\* Mutant: with the channel full, the timer is spent and pending kept for later.
TimerKeepsPending ==
  /\ wpc = "select" /\ timer = 0
  /\ timer' = Off
  /\ IF pending = {} \/ Len(out) = OutCap
     THEN UNCHANGED <<wpc, sending, pending>>
     ELSE wpc' = "flush" /\ sending' = pending /\ pending' = {}
  /\ UNCHANGED <<hot, live, events, out, done>>

TimerFires ==
  /\ wpc = "select" /\ timer = 0
  /\ timer' = Off
  /\ wpc' = IF pending = {} THEN "select" ELSE "flush"
  /\ sending' = pending
  /\ pending' = {}
  /\ UNCHANGED <<hot, live, events, out, done>>

\* flush: blocked while the channel is full, unless the context ends.
Send ==
  /\ wpc = "flush" /\ Len(out) < OutCap
  /\ out' = Append(out, sending)
  /\ sending' = {}
  /\ wpc' = "select"
  /\ UNCHANGED <<hot, live, events, pending, timer, done>>

\* Mutant: a blocked send does not heed the context.
AbandonNever == FALSE /\ UNCHANGED <<watchVars, out, done>>

AbandonSend ==
  /\ wpc = "flush" /\ done
  /\ sending' = {}
  /\ wpc' = "select"
  /\ UNCHANGED <<hot, live, events, pending, timer, out, done>>

Exit ==
  /\ wpc = "select" /\ done
  /\ wpc' = "exit"
  /\ live' = {}
  /\ UNCHANGED <<hot, events, pending, timer, sending, out, done>>

WatchRun == HandleEvent \/ Elapse \/ TimerFires \/ Send \/ AbandonSend \/ Exit

-----------------------------------------------------------------------------
\* Any environment: files come and go, someone drains out and calls MarkHot.
WatcherOn == wpc \in {"select", "flush"}

FileEvents ==
  /\ WatcherOn
  /\ \E f \in Files : Vanished(f) \/ \E created \in BOOLEAN : Written(f, created)

Caller ==
  \/ \E f \in Files, exists \in BOOLEAN : MarkHot(f, exists)
  \/ out # << >> /\ out' = Tail(out) /\ UNCHANGED <<watchVars, done>>
  \/ ~done /\ done' = TRUE /\ UNCHANGED <<watchVars, out>>

vars == <<hot, live, events, pending, timer, wpc, sending, out, done>>

Init == WatchInit /\ out = << >> /\ done = FALSE
Next == FileEvents \/ WatchRun \/ Caller
Spec == Init /\ [][Next]_vars

\* Types; only providers are pending or sent, and out holds no more than its capacity.
TypeOK ==
  /\ hot \in Seq(Files) /\ live \subseteq Files
  /\ events \in Seq([name : Files, gone : BOOLEAN])
  /\ pending \subseteq Providers /\ sending \subseteq Providers
  /\ timer \in {Off} \cup 0 .. Debounce
  /\ wpc \in {"off", "select", "flush", "exit"}
  /\ out \in Seq(SUBSET Providers) /\ Len(out) <= OutCap
  /\ done \in BOOLEAN

\* The watch budget: hot files are few and distinct, and fsnotify watches no file
\* that is not hot, whatever evictions, removals and failed Adds came before.
HotBudget ==
  /\ Len(hot) <= MaxHot
  /\ \A i, j \in 1 .. Len(hot) : hot[i] = hot[j] => i = j
  /\ live \subseteq Elements(hot)

\* A hot file is really watched, or the event that will drop it is on its way: a
\* scan that finds the file hot (MarkHot returns early) may rely on the watch.
HotIsWatched ==
  WatcherOn =>
    \A f \in Elements(hot) :
      f \in live \/ \E i \in 1 .. Len(events) : events[i] = [name |-> f, gone |-> TRUE]

\* The debounce timer runs exactly while something is pending, except that during
\* a flush it is spent: nothing pending is ever left without a timer.
PendingIsTimed == timer = Off <=> pending = {}
=============================================================================
