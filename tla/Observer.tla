------------------------------ MODULE Observer ------------------------------
(***************************************************************************)
(* The engine and the watcher together: the agents change files, fsnotify  *)
(* reports, the watcher debounces, the engine scans, nominates hot files   *)
(* and publishes.  They share the dirty channel, the context and, through  *)
(* MarkHot, the watcher's maps.                                            *)
(***************************************************************************)
EXTENDS Sequences, Integers, FiniteSets

CONSTANTS Files, Providers, ProviderOf, InWatchedDir, DirReports, MaxHot, OutCap,
          Debounce, MaxEvents, Overflow, Adapters, MaxVersion

ASSUME ObserverAssumption ==
  /\ ProviderOf \in [Files -> Providers]
  /\ Adapters \in Seq(Providers) /\ Providers = {Adapters[i] : i \in 1 .. Len(Adapters)}
  /\ InWatchedDir \subseteq Files /\ DirReports \subseteq InWatchedDir
  /\ MaxHot \in Nat \ {0} /\ OutCap \in Nat \ {0}
  /\ Debounce \in Nat \ {0} /\ MaxEvents \in Nat \ {0}
  /\ Overflow \in BOOLEAN /\ MaxVersion \in Nat

VARIABLES hot, live, events, pending, timer, wpc, sending, out, done,
          disk, present, epc, only, next, toread, tomark, snaps, lastSnaps, cached, world,
          refreshCh, tick, missed, best,
          notified   \* history: version of each file when last put in the event queue

W == INSTANCE Watcher
E == INSTANCE Engine

vars == <<hot, live, events, pending, timer, wpc, sending, out, done, disk, present,
          epc, only, next, toread, tomark, snaps, lastSnaps, cached, world, refreshCh,
          tick, missed, best, notified>>

WatcherIdle == UNCHANGED <<hot, live, events, pending, timer, wpc, sending>>
EngineIdle == UNCHANGED <<epc, only, next, toread, tomark, snaps, lastSnaps, cached, world,
                          disk, present, refreshCh, tick, missed, best>>

Init ==
  /\ W!WatchInit /\ E!EngineInit
  /\ out = << >> /\ done = FALSE
  /\ notified = [f \in Files |-> 0]

-----------------------------------------------------------------------------
WatcherOn == W!WatcherOn

Reported(f) ==
  notified' = IF Len(events') > Len(events) THEN [notified EXCEPT ![f] = disk'[f]]
                                            ELSE notified

\* An agent writes, creates or removes a session file.
Touch(f) ==
  /\ E!Change(f, TRUE)
  /\ IF WatcherOn THEN W!Written(f, f \notin present) ELSE WatcherIdle
  /\ Reported(f)

Remove(f) ==
  /\ E!Change(f, FALSE)
  /\ IF WatcherOn THEN W!Vanished(f) ELSE WatcherIdle
  /\ Reported(f)

Agents == \E f \in Files : Touch(f) \/ Remove(f)

\* A step of the watcher, or of the engine and its inputs, that leaves the other alone.
WatcherAlone(A) == A /\ EngineIdle /\ UNCHANGED notified
EngineAlone(A) == A /\ WatcherIdle /\ UNCHANGED notified

WatcherStep == WatcherAlone(W!WatchRun)

\* markHot returns at once without a watcher.
NominateHot ==
  \E f \in tomark :
    /\ E!Nominate(f)
    /\ W!MarkHot(f, f \in present) \/ (wpc = "off" /\ WatcherIdle)
    /\ UNCHANGED notified

EngineStep ==
  NominateHot
  \/ EngineAlone(E!ScanStep \/ E!TakeDirty \/ E!TakeTick \/ E!TakeRefresh \/ E!EngineExit)

Outside == EngineAlone(E!RequestRefresh \/ E!Ticks \/ E!Cancel)

Next == Agents \/ WatcherStep \/ EngineStep \/ Outside

Spec == Init /\ [][Next]_vars

-----------------------------------------------------------------------------
\* The scan under way will read f, or has read it since it was reported.
ScanCovers(f) ==
  LET p == ProviderOf[f] IN
    \/ /\ epc \in {"scan", "read", "mark"} /\ p \in only
       /\ \E i \in next + (IF epc = "scan" THEN 0 ELSE 1) .. Len(Adapters) : Adapters[i] = p
    \/ /\ epc = "read" /\ Adapters[next] = p
       /\ f \in toread \/ snaps[f] >= notified[f]

\* Somewhere between fsnotify and the adapter there is a trace of the change.
OnItsWay(f) ==
  LET p == ProviderOf[f] IN
    \/ \E i \in 1 .. Len(events) : events[i].name = f
    \/ p \in pending /\ timer # W!Off
    \/ p \in sending
    \/ \E i \in 1 .. Len(out) : p \in out[i]
    \/ ScanCovers(f)

\* Reported, and neither read nor missed since.
Unseen(f) == notified[f] > lastSnaps[f] /\ notified[f] > missed[f]

\* No wake-up is lost: a change that was reported and that no snapshot has read
\* yet will lead to a snapshot, without help from the poll; unless the snapshot it led
\* to missed the file, which nothing makes up for but the poll.
NoLostSignal ==
  WatcherOn /\ ~done => \A f \in InWatchedDir : Unseen(f) => OnItsWay(f)

\* Between scans the store shows exactly what the cache holds, for every provider.
StoreMatchesCache == epc = "select" => world = lastSnaps /\ cached = Providers

\* Engine and watcher implement the mirror: what is published never runs ahead of the
\* disk and never goes back to an older version, although a scan of some providers
\* publishes the cached snapshots of the others.  A file falls out of the picture only
\* if the last snapshot of its provider missed it, and comes back no older than it was.
M == INSTANCE Mirror
       WITH real <- disk, shown <- world, unread <- {f \in Files : missed[f] # 0}, stopped <- done
IsMirror == M!Spec

-----------------------------------------------------------------------------
\* Both goroutines run on whenever they can, time passes, and Go's select takes a
\* ready case at random: none that is ready again and again is passed over for ever.
ScansEnd == WF_vars(NominateHot \/ EngineAlone(E!ScanStep))
WatcherRuns == WF_vars(WatcherAlone(W!WatchRun))
EngineStops == SF_vars(EngineAlone(E!EngineExit))

\* Nothing is promised of ticks and requests.
FairSpec ==
  /\ Spec /\ ScansEnd /\ WatcherRuns /\ EngineStops
  /\ SF_vars(EngineAlone(E!TakeDirty)) /\ SF_vars(EngineAlone(E!TakeRefresh))

\* The ticker ticks for ever, and its case is taken as the others are.
PollRuns == SF_vars(EngineAlone(E!TakeTick)) /\ WF_vars(EngineAlone(E!Ticks))

\* A reported change reaches the store through the watcher alone, unless the snapshot
\* that was to read it missed the file.
SignalServed ==
  \A f \in InWatchedDir, v \in 1 .. MaxVersion :
    notified[f] = v ~> world[f] >= v \/ done \/ missed[f] >= v

\* A manual refresh leads to a world that is no older than the request, although a request
\* made while another waits is dropped; files that were missed excepted.
RefreshServed ==
  \A f \in Files, v \in 1 .. MaxVersion :
    refreshCh /\ disk[f] = v ~> world[f] >= v \/ done \/ missed[f] >= v

\* Both goroutines end once the context is cancelled, whatever they wait for.
CancelStops == done ~> epc = "exit" /\ wpc \in {"off", "exit"}

\* A file that is read again and again is not missed for ever.
ReadsSucceed == \A f \in Files : SF_vars(EngineAlone(E!ReadFile(f)))

\* The safety-net poll gives the mirror its fairness: no file stays behind for ever,
\* reported or not, and not after snapshots that missed it, if only its reads do not
\* fail for ever.
PollCatchesUp == PollRuns /\ ReadsSucceed => M!CatchesUp
=============================================================================
