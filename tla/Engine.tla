------------------------------- MODULE Engine -------------------------------
(***************************************************************************)
(* internal/engine: the goroutine Run and its scans, with the store and    *)
(* the refresh channel.  A scan reads the named providers one after the    *)
(* other (all of them for a poll or a manual refresh), keeps the cached    *)
(* snapshot of the others, and publishes the merged world.                 *)
(*                                                                         *)
(* A provider's session file is its version: every change raises it.  A    *)
(* snapshot is the versions of the provider's files; session keys carry    *)
(* the provider's name, so the merged world is one version per file, and 0 *)
(* where no session of the file is shown.  A snapshot may miss a file: its *)
(* directory is not listed, its stat or its read fails, it is too old, or  *)
(* the context ends while the adapter goes through its files.  The scan    *)
(* caches and publishes such a snapshot as any other.                      *)
(* Adapters have distinct names here.                                      *)
(***************************************************************************)
EXTENDS Sequences, Integers

CONSTANTS Files, Providers, ProviderOf,
          Adapters,     \* the adapters in order
          MaxVersion    \* bound: changes of a file

VARIABLES
  disk,       \* version of each file
  present,    \* files that exist
  epc,        \* "scan" (before an adapter), "read", "mark", "select", "exit"
  only,       \* scan: the providers named
  next,       \* scan: index of the next adapter
  toread,     \* adapter.Snapshot: session files still to read
  tomark,     \* markHot: session files still to nominate
  snaps,      \* scan: version of each file in the snapshots gathered
  lastSnaps,  \* e.lastSnaps: version of each file
  cached,     \* the keys of e.lastSnaps
  world,      \* the store's world: version of each file
  refreshCh,  \* a request waits in e.refreshCh
  tick,       \* a tick waits in ticker.C
  out,        \* dirtyCh
  done,       \* ctx.Done is closed
  missed,     \* history: version on disk when the last snapshot of the file missed it; 0 if it did not
  best        \* history: highest version of each file published so far

engineVars == <<epc, only, next, toread, tomark, snaps, lastSnaps, cached, world>>
history == <<missed, best>>
inputVars == <<disk, present, refreshCh, tick, history>>

\* A scan of everything (nil in the code) reads whom a scan naming everyone reads.
All == Providers

FilesOf(p) == {f \in Files : ProviderOf[f] = p}

EngineInit ==
  /\ disk = [f \in Files |-> 0] /\ present \in SUBSET Files
  /\ epc = "scan" /\ only = All /\ next = 1
  /\ toread = {} /\ tomark = {}
  /\ snaps = [f \in Files |-> 0]
  /\ lastSnaps = [f \in Files |-> 0] /\ cached = {}
  /\ world = [f \in Files |-> 0]
  /\ refreshCh = FALSE /\ tick = FALSE
  /\ missed = [f \in Files |-> 0] /\ best = [f \in Files |-> 0]

-----------------------------------------------------------------------------
\* The agents' files.
Change(f, exists) ==
  /\ disk[f] < MaxVersion
  /\ f \in present \/ exists
  /\ disk' = [disk EXCEPT ![f] = @ + 1]
  /\ present' = IF exists THEN present \cup {f} ELSE present \ {f}
  /\ UNCHANGED <<engineVars, refreshCh, tick, out, done, history>>

\* RequestRefresh, from the user interface.
RequestRefresh ==
  /\ refreshCh' = TRUE
  /\ UNCHANGED <<engineVars, disk, present, tick, out, done, history>>

Ticks ==
  /\ tick' = TRUE
  /\ UNCHANGED <<engineVars, disk, present, refreshCh, out, done, history>>

Cancel ==
  /\ done' = TRUE
  /\ UNCHANGED <<engineVars, inputVars, out>>

-----------------------------------------------------------------------------
\* Run: the cases of its select.
Begin(names) ==
  /\ epc' = "scan" /\ only' = names /\ next' = 1
  /\ snaps' = [f \in Files |-> 0]
  /\ UNCHANGED <<toread, tomark, lastSnaps, cached, world, disk, present, done, history>>

TakeDirty ==
  /\ epc = "select" /\ out # << >>
  /\ out' = Tail(out)
  /\ Begin(Head(out))
  /\ UNCHANGED <<refreshCh, tick>>

\* Mutants: the scan of a tick, or of a request, names nobody instead of everybody.
TakeTickCached ==
  /\ epc = "select" /\ tick
  /\ tick' = FALSE
  /\ Begin({})
  /\ UNCHANGED <<refreshCh, out>>

TakeRefreshCached ==
  /\ epc = "select" /\ refreshCh
  /\ refreshCh' = FALSE
  /\ Begin({})
  /\ UNCHANGED <<tick, out>>

TakeTick ==
  /\ epc = "select" /\ tick
  /\ tick' = FALSE
  /\ Begin(All)
  /\ UNCHANGED <<refreshCh, out>>

TakeRefresh ==
  /\ epc = "select" /\ refreshCh
  /\ refreshCh' = FALSE
  /\ Begin(All)
  /\ UNCHANGED <<tick, out>>

EngineExit ==
  /\ epc = "select" /\ done
  /\ epc' = "exit"
  /\ UNCHANGED <<only, next, toread, tomark, snaps, lastSnaps, cached, world,
                 inputVars, out, done>>

-----------------------------------------------------------------------------
\* scan.
Adapter == Adapters[next]

\* f as the versions "from" has them for the files of p, "old" for the others.
Taking(p, from, old) == [f \in Files |-> IF ProviderOf[f] = p THEN from[f] ELSE old[f]]

Scanning == epc = "scan" /\ next <= Len(Adapters)

Clean(p) == p \notin only /\ p \in cached

\* Mutant: a clean provider is skipped without its cached snapshot.
CachedSkipped ==
  /\ Scanning /\ Clean(Adapter)
  /\ next' = next + 1
  /\ UNCHANGED <<epc, only, toread, tomark, snaps, lastSnaps, cached, world,
                 inputVars, out, done>>

UseCached ==
  /\ Scanning /\ Clean(Adapter)
  /\ snaps' = Taking(Adapter, lastSnaps, snaps)
  /\ next' = next + 1
  /\ UNCHANGED <<epc, only, toread, tomark, lastSnaps, cached, world, inputVars, out, done>>

BeginSnapshot ==
  /\ Scanning /\ ~Clean(Adapter)
  /\ epc' = "read"
  /\ toread' = FilesOf(Adapter)
  /\ UNCHANGED <<only, next, tomark, snaps, lastSnaps, cached, world, inputVars, out, done>>

\* adapter.Snapshot goes through its files one after the other, in no given order.
Through(f) ==
  /\ epc = "read" /\ f \in toread
  /\ toread' = toread \ {f}
  /\ UNCHANGED <<epc, only, next, tomark, lastSnaps, cached, world, disk, present,
                 refreshCh, tick, best, out, done>>

ReadFile(f) ==
  /\ Through(f)
  /\ snaps' = [snaps EXCEPT ![f] = disk[f]]
  /\ missed' = [missed EXCEPT ![f] = 0]

\* The snapshot has no session of f (not listed, no stat, too old, or the loop broken off
\* by the context), or, when only the read failed, what was folded before.
MissFile(f) ==
  /\ Through(f)
  /\ \E old \in {0, lastSnaps[f]} :
       /\ snaps' = [snaps EXCEPT ![f] = old]
       /\ missed' = [missed EXCEPT ![f] = IF old < disk[f] THEN disk[f] ELSE 0]

\* Mutant: the new snapshot is published but the cache keeps the old one.
CacheOnce ==
  lastSnaps' = IF Adapter \in cached THEN lastSnaps ELSE Taking(Adapter, snaps, lastSnaps)

CacheSnapshot == lastSnaps' = Taking(Adapter, snaps, lastSnaps)

\* Of the session files just read, those changed in the last ten minutes
\* ("recent") will be nominated.
EndSnapshot ==
  /\ epc = "read" /\ toread = {}
  /\ CacheSnapshot
  /\ cached' = cached \cup {Adapter}
  /\ \E recent \in SUBSET FilesOf(Adapter) : tomark' = recent
  /\ epc' = "mark"
  /\ UNCHANGED <<only, next, toread, snaps, world, inputVars, out, done>>

\* markHot: one call of Watcher.MarkHot.
Nominate(f) ==
  /\ epc = "mark" /\ f \in tomark
  /\ tomark' = tomark \ {f}
  /\ UNCHANGED <<epc, only, next, toread, snaps, lastSnaps, cached, world,
                 inputVars, out, done>>

Marked ==
  /\ epc = "mark" /\ tomark = {}
  /\ epc' = "scan"
  /\ next' = next + 1
  /\ UNCHANGED <<only, toread, tomark, snaps, lastSnaps, cached, world, inputVars, out, done>>

\* Merge, store.Replace and notify; then back to the select.
Publish ==
  /\ epc = "scan" /\ next > Len(Adapters)
  /\ world' = snaps
  /\ best' = [f \in Files |-> IF snaps[f] > best[f] THEN snaps[f] ELSE best[f]]
  /\ epc' = "select"
  /\ UNCHANGED <<only, next, toread, tomark, snaps, lastSnaps, cached, disk, present,
                 refreshCh, tick, missed, out, done>>

ScanStep ==
  UseCached \/ BeginSnapshot \/ (\E f \in toread : ReadFile(f) \/ MissFile(f))
  \/ EndSnapshot \/ Marked \/ Publish
=============================================================================
