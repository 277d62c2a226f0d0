---------------------------- MODULE ObserverProofs ----------------------------
(***************************************************************************)
(* Proofs about Observer, for any files of any providers, any order of the *)
(* adapters, any budget, debounce and queue bounds, and agents that change *)
(* any file at any time.                                                   *)
(***************************************************************************)
EXTENDS Observer, SequenceTheorems, TLAPS

Event == [name : Files, gone : BOOLEAN]
Versions == [Files -> 0 .. MaxVersion]

-----------------------------------------------------------------------------
\* The engine.
EngineOK ==
  /\ disk \in Versions /\ snaps \in Versions /\ lastSnaps \in Versions /\ world \in Versions
  /\ missed \in Versions /\ best \in Versions
  /\ epc \in {"scan", "read", "mark", "select", "exit"}
  /\ next \in 1 .. Len(Adapters) + 1
  /\ epc \in {"read", "mark"} => next <= Len(Adapters)
  /\ cached \subseteq Providers
  /\ epc = "read" => toread \subseteq {f \in Files : ProviderOf[f] = Adapters[next]}

\* v is no older than what was ever shown of f, or nothing because f was missed.
Shows(v, f) == best[f] <= v \/ (v = 0 /\ missed[f] # 0)

\* The snapshot under way has gone through f.
BeenRead(f) == epc = "read" /\ ProviderOf[f] = Adapters[next] /\ f \notin toread

\* While a provider is read, what has been read of it may be shown next; and it is no
\* older than its cached snapshot, unless it was missed.
ReadForward ==
  \A f \in Files : BeenRead(f) =>
    /\ Shows(snaps[f], f) /\ snaps[f] <= disk[f]
    /\ lastSnaps[f] <= snaps[f] \/ lastSnaps[f] <= missed[f]

\* What was shown and what is cached are behind the disk; the cache may be shown, until it
\* is read anew.
Behind ==
  \A f \in Files :
    /\ best[f] <= disk[f] /\ lastSnaps[f] <= disk[f]
    /\ BeenRead(f) \/ Shows(lastSnaps[f], f)

InScan == epc \in {"scan", "read", "mark"}

\* The providers the scan has done with.
Gathered == {Adapters[i] : i \in 1 .. (IF epc = "mark" THEN next ELSE next - 1)}
              \ (IF epc = "read" THEN {Adapters[next]} ELSE {})

GatheredIsCached ==
  InScan =>
    /\ Gathered \subseteq cached
    /\ \A f \in Files : ProviderOf[f] \in Gathered => snaps[f] = lastSnaps[f]

\* Also once the engine has ended.
StoreMatches == ~InScan => world = lastSnaps /\ cached = Providers

ScanInv == EngineOK /\ ReadForward /\ Behind /\ GatheredIsCached /\ StoreMatches

-----------------------------------------------------------------------------
\* The watcher, as far as a signal passes through it.
QueueOK ==
  /\ events \in Seq(Event) /\ out \in Seq(SUBSET Providers)
  /\ pending \subseteq Providers /\ sending \subseteq Providers
  /\ timer \in Int
  /\ pending # {} => timer # W!Off
  /\ wpc # "flush" => sending = {}

NotifiedOK == notified \in Versions /\ \A f \in Files : notified[f] <= disk[f]

IInv == ScanInv /\ QueueOK /\ NotifiedOK /\ NoLostSignal

-----------------------------------------------------------------------------
\* The engine keeps its part, one lemma per step.
EngineStays ==
  /\ UNCHANGED <<epc, next, toread, snaps, lastSnaps, cached, world, missed, best>>
  /\ disk' \in Versions /\ \A f \in Files : disk[f] <= disk'[f]

LEMMA ScanInvStays == ScanInv /\ EngineStays => ScanInv'
<1> SUFFICES ASSUME ScanInv, EngineStays PROVE ScanInv'
  OBVIOUS
<1>1. /\ UNCHANGED <<epc, next, toread, snaps, lastSnaps, cached, world, missed, best>>
      /\ disk' \in Versions /\ \A f \in Files : disk[f] <= disk'[f]
  BY DEF EngineStays
<1>2. EngineOK'
  BY <1>1 DEF ScanInv, EngineOK
<1>3. \A f \in Files : /\ disk[f] \in Int /\ disk'[f] \in Int /\ lastSnaps[f] \in Int
                       /\ snaps[f] \in Int /\ best[f] \in Int
  BY <1>1, ObserverAssumption DEF ScanInv, EngineOK, Versions
<1>4. Behind'
  BY <1>1, <1>3 DEF ScanInv, Behind, BeenRead, Shows
<1>5. ReadForward'
  BY <1>1, <1>3 DEF ScanInv, ReadForward, BeenRead, Shows
<1> QED
  BY <1>1, <1>2, <1>4, <1>5 DEF ScanInv, GatheredIsCached, Gathered, InScan, StoreMatches

LEMMA ChangeStays ==
  ASSUME ScanInv, NEW f \in Files, NEW exists, E!Change(f, exists)
  PROVE  /\ EngineStays
         /\ disk' = [disk EXCEPT ![f] = @ + 1] /\ disk[f] < MaxVersion
         /\ UNCHANGED <<only, out, done>>
<1>1. /\ UNCHANGED <<epc, next, toread, snaps, lastSnaps, cached, world, only, out, done, missed, best>>
      /\ disk' = [disk EXCEPT ![f] = @ + 1] /\ disk[f] < MaxVersion
  BY DEF E!Change, E!engineVars, E!history
<1>2. disk \in [Files -> 0 .. MaxVersion] /\ MaxVersion \in Nat
  BY ObserverAssumption DEF ScanInv, EngineOK, Versions
<1>3. disk' \in Versions /\ \A g \in Files : disk[g] <= disk'[g]
  BY <1>1, <1>2 DEF Versions
<1> QED
  BY <1>1, <1>3 DEF EngineStays

\* A new scan starts from nothing gathered.
LEMMA BeginKeeps ==
  ASSUME ScanInv, ~InScan, NEW names, E!Begin(names)
  PROVE  ScanInv'
<1>1. /\ epc' = "scan" /\ next' = 1 /\ snaps' = [f \in Files |-> 0]
      /\ UNCHANGED <<toread, lastSnaps, cached, world, disk, missed, best>>
  BY DEF E!Begin, E!history
<1>2. EngineOK'
  BY <1>1, ObserverAssumption DEF ScanInv, EngineOK, Versions
<1>3. Gathered' = {}
  BY <1>1 DEF Gathered
<1>4. GatheredIsCached'
  BY <1>3 DEF GatheredIsCached
<1> QED
  BY <1>1, <1>2, <1>4 DEF ScanInv, ReadForward, Behind, BeenRead, Shows, StoreMatches, InScan

LEMMA UseCachedKeeps == ScanInv /\ E!UseCached => ScanInv'
<1> SUFFICES ASSUME ScanInv, E!UseCached PROVE ScanInv'
  OBVIOUS
<1> DEFINE p == Adapters[next]
<1>1. /\ epc = "scan" /\ next <= Len(Adapters) /\ p \in cached /\ next' = next + 1
      /\ snaps' = [f \in Files |-> IF ProviderOf[f] = p THEN lastSnaps[f] ELSE snaps[f]]
      /\ UNCHANGED <<epc, toread, lastSnaps, cached, world, disk, missed, best>>
  BY DEF E!UseCached, E!Scanning, E!Clean, E!Adapter, E!Taking, E!inputVars, E!history
<1>2. EngineOK
  BY DEF ScanInv
<1>3. EngineOK'
  BY <1>1, <1>2, ObserverAssumption DEF EngineOK, Versions
<1>4. Gathered' = Gathered \cup {p}
  BY <1>1, <1>2, ObserverAssumption DEF Gathered, EngineOK
<1>5. GatheredIsCached'
  BY <1>1, <1>4 DEF ScanInv, GatheredIsCached, InScan
<1> QED
  BY <1>1, <1>3, <1>5 DEF ScanInv, ReadForward, Behind, BeenRead, Shows, StoreMatches, InScan

LEMMA BeginSnapshotKeeps == ScanInv /\ E!BeginSnapshot => ScanInv'
<1> SUFFICES ASSUME ScanInv, E!BeginSnapshot PROVE ScanInv'
  OBVIOUS
<1> DEFINE p == Adapters[next]
<1>1. /\ epc = "scan" /\ epc' = "read" /\ next <= Len(Adapters)
      /\ toread' = {f \in Files : ProviderOf[f] = p}
      /\ UNCHANGED <<next, snaps, lastSnaps, cached, world, disk, missed, best>>
  BY DEF E!BeginSnapshot, E!Scanning, E!Adapter, E!FilesOf, E!inputVars, E!history
<1>2. EngineOK'
  BY <1>1 DEF ScanInv, EngineOK
<1>3. Gathered' \subseteq Gathered
  BY <1>1 DEF Gathered
<1>4. GatheredIsCached'
  BY <1>1, <1>3 DEF ScanInv, GatheredIsCached, InScan
<1> QED
  BY <1>1, <1>2, <1>4 DEF ScanInv, ReadForward, Behind, BeenRead, Shows, StoreMatches, InScan

\* What is read from the disk is no older than anything shown or cached; what is missed is
\* noted, unless it shows what there is.
LEMMA ThroughReads ==
  ASSUME ScanInv, NEW g, E!ReadFile(g) \/ E!MissFile(g)
  PROVE  /\ epc = "read" /\ g \in toread /\ g \in Files /\ ProviderOf[g] = Adapters[next]
         /\ UNCHANGED <<epc, only, next, lastSnaps, cached, world, disk, best, out, done>>
         /\ toread' = toread \ {g}
         /\ \A f \in Files : f # g => snaps'[f] = snaps[f] /\ missed'[f] = missed[f]
         /\ snaps' \in Versions /\ missed' \in Versions
         /\ \/ snaps'[g] = disk[g]
            \/ snaps'[g] \in {0, lastSnaps[g]} /\ snaps'[g] < disk[g] /\ missed'[g] = disk[g]
<1>1. /\ epc = "read" /\ g \in toread /\ toread' = toread \ {g}
      /\ UNCHANGED <<epc, only, next, lastSnaps, cached, world, disk, best, out, done>>
  BY DEF E!ReadFile, E!MissFile, E!Through
<1>2. EngineOK /\ g \in Files /\ ProviderOf[g] = Adapters[next]
  BY <1>1 DEF ScanInv, EngineOK
<1>3. /\ snaps \in Versions /\ missed \in Versions /\ disk[g] \in 0 .. MaxVersion
      /\ lastSnaps[g] \in 0 .. MaxVersion /\ lastSnaps[g] <= disk[g] /\ MaxVersion \in Nat
  BY <1>2, ObserverAssumption DEF EngineOK, Versions, ScanInv, Behind
<1>4. CASE E!ReadFile(g)
  <2>1. snaps' = [snaps EXCEPT ![g] = disk[g]] /\ missed' = [missed EXCEPT ![g] = 0]
    BY <1>4 DEF E!ReadFile
  <2>2. snaps' \in Versions /\ missed' \in Versions
    <3>1. 0 \in 0 .. MaxVersion
      BY <1>3
    <3> QED
      BY <1>3, <2>1, <3>1 DEF Versions
  <2>3. snaps'[g] = disk[g] /\ \A f \in Files : f # g => snaps'[f] = snaps[f] /\ missed'[f] = missed[f]
    BY <1>2, <1>3, <2>1 DEF Versions
  <2> QED
    BY <1>1, <1>2, <2>2, <2>3
<1>5. CASE E!MissFile(g)
  <2>1. PICK old \in {0, lastSnaps[g]} :
          /\ snaps' = [snaps EXCEPT ![g] = old]
          /\ missed' = [missed EXCEPT ![g] = IF old < disk[g] THEN disk[g] ELSE 0]
    BY <1>5 DEF E!MissFile
  <2>2. snaps' \in Versions /\ missed' \in Versions
    <3>1. 0 \in 0 .. MaxVersion
      BY <1>3
    <3>2. old \in 0 .. MaxVersion /\ (IF old < disk[g] THEN disk[g] ELSE 0) \in 0 .. MaxVersion
      BY <1>3, <3>1
    <3> QED
      BY <1>3, <2>1, <3>2 DEF Versions
  <2>3. /\ snaps'[g] = old /\ missed'[g] = IF old < disk[g] THEN disk[g] ELSE 0
        /\ \A f \in Files : f # g => snaps'[f] = snaps[f] /\ missed'[f] = missed[f]
    BY <1>2, <1>3, <2>1 DEF Versions
  <2>4. old < disk[g] \/ old = disk[g]
    BY <1>3
  <2> QED
    BY <1>1, <1>2, <2>1, <2>2, <2>3, <2>4
<1> QED
  BY <1>4, <1>5

LEMMA ThroughKeeps ==
  ASSUME ScanInv, NEW g, E!ReadFile(g) \/ E!MissFile(g)
  PROVE  ScanInv'
<1>1. /\ epc = "read" /\ g \in toread /\ g \in Files /\ ProviderOf[g] = Adapters[next]
      /\ UNCHANGED <<epc, next, lastSnaps, cached, world, disk, best>> /\ toread' = toread \ {g}
      /\ \A f \in Files : f # g => snaps'[f] = snaps[f] /\ missed'[f] = missed[f]
      /\ snaps' \in Versions /\ missed' \in Versions
      /\ \/ snaps'[g] = disk[g]
         \/ snaps'[g] \in {0, lastSnaps[g]} /\ snaps'[g] < disk[g] /\ missed'[g] = disk[g]
  BY ThroughReads
<1>2. EngineOK'
  BY <1>1 DEF ScanInv, EngineOK
<1>3. /\ best[g] <= disk[g] /\ lastSnaps[g] <= disk[g] /\ Shows(lastSnaps[g], g)
      /\ disk[g] \in Nat /\ lastSnaps[g] \in Nat /\ best[g] \in Nat
  BY <1>1, ObserverAssumption DEF ScanInv, Behind, BeenRead, EngineOK, Versions
<1>4. \A f \in Files : BeenRead(f)' <=> BeenRead(f) \/ f = g
  BY <1>1 DEF BeenRead
<1>5. Shows(snaps[g], g)' /\ snaps'[g] <= disk[g] /\ (lastSnaps[g] <= snaps'[g] \/ lastSnaps[g] <= missed'[g])
  <2>1. CASE snaps'[g] = disk[g]
    BY <1>1, <1>3, <2>1 DEF Shows
  <2>2. CASE snaps'[g] \in {0, lastSnaps[g]} /\ snaps'[g] < disk[g] /\ missed'[g] = disk[g]
    BY <1>1, <1>3, <2>2 DEF Shows
  <2> QED
    BY <1>1, <2>1, <2>2
<1>6. ReadForward'
  <2> SUFFICES ASSUME NEW f \in Files, BeenRead(f)'
               PROVE  /\ Shows(snaps[f], f)' /\ snaps'[f] <= disk'[f]
                      /\ lastSnaps'[f] <= snaps'[f] \/ lastSnaps'[f] <= missed'[f]
    BY DEF ReadForward, Shows
  <2>1. CASE f = g
    BY <1>1, <1>5, <2>1
  <2>2. CASE f # g
    <3>1. BeenRead(f) /\ snaps'[f] = snaps[f] /\ missed'[f] = missed[f]
      BY <1>1, <1>4, <2>2
    <3> QED
      BY <1>1, <3>1 DEF ScanInv, ReadForward, Shows
  <2> QED
    BY <2>1, <2>2
<1>7. Behind'
  <2> SUFFICES ASSUME NEW f \in Files
               PROVE  BeenRead(f)' \/ Shows(lastSnaps[f], f)'
    BY <1>1 DEF ScanInv, Behind, Shows
  <2>1. CASE f # g
    BY <1>1, <1>4, <2>1 DEF ScanInv, Behind, Shows
  <2> QED
    BY <1>4, <2>1
<1>8. Gathered' = Gathered /\ Adapters[next] \notin Gathered
  BY <1>1 DEF Gathered
<1>9. GatheredIsCached'
  <2> SUFFICES ASSUME NEW f \in Files, ProviderOf[f] \in Gathered
               PROVE  snaps'[f] = lastSnaps[f]
    BY <1>1, <1>8 DEF ScanInv, GatheredIsCached, InScan
  <2>1. f # g
    BY <1>1, <1>8
  <2> QED
    BY <1>1, <2>1 DEF ScanInv, GatheredIsCached, InScan
<1> QED
  BY <1>1, <1>2, <1>6, <1>7, <1>9 DEF ScanInv, StoreMatches, InScan

\* The cache takes the snapshot just read.
LEMMA EndSnapshotMoves ==
  ASSUME ScanInv, E!EndSnapshot
  PROVE  /\ epc = "read" /\ toread = {} /\ lastSnaps' \in Versions
         /\ \A f \in Files :
              lastSnaps'[f] = IF ProviderOf[f] = Adapters[next] THEN snaps[f] ELSE lastSnaps[f]
<1>1. /\ epc = "read" /\ toread = {}
      /\ lastSnaps' = [f \in Files |-> IF ProviderOf[f] = Adapters[next] THEN snaps[f] ELSE lastSnaps[f]]
  BY DEF E!EndSnapshot, E!CacheSnapshot, E!Taking, E!Adapter
<1> QED
  BY <1>1 DEF ScanInv, EngineOK, Versions

LEMMA EndSnapshotKeeps == ScanInv /\ E!EndSnapshot => ScanInv'
<1> SUFFICES ASSUME ScanInv, E!EndSnapshot PROVE ScanInv'
  OBVIOUS
<1> DEFINE p == Adapters[next]
<1>1. /\ epc = "read" /\ epc' = "mark" /\ toread = {} /\ cached' = cached \cup {p}
      /\ UNCHANGED <<next, toread, snaps, world, disk, missed, best>>
  BY DEF E!EndSnapshot, E!Adapter, E!inputVars, E!history
<1>2. EngineOK /\ Behind /\ p \in Providers
  BY <1>1, ObserverAssumption DEF ScanInv, EngineOK
<1>3. EngineOK'
  BY <1>1, <1>2, EndSnapshotMoves DEF EngineOK
<1>4. Behind'
  <2> SUFFICES ASSUME NEW f \in Files PROVE lastSnaps'[f] <= disk[f] /\ Shows(lastSnaps'[f], f)
    BY <1>1, <1>2 DEF Behind, Shows
  <2>1. CASE ProviderOf[f] = p
    BY <1>1, <2>1, EndSnapshotMoves DEF ScanInv, ReadForward, BeenRead
  <2>2. CASE ProviderOf[f] # p
    BY <1>1, <2>2, EndSnapshotMoves DEF ScanInv, Behind, BeenRead
  <2> QED
    BY <2>1, <2>2
<1>5. Gathered' \subseteq Gathered \cup {p}
  BY <1>1, <1>2, ObserverAssumption DEF Gathered, EngineOK
<1>6. GatheredIsCached'
  BY <1>1, <1>5, EndSnapshotMoves DEF ScanInv, GatheredIsCached, InScan
<1> QED
  BY <1>1, <1>3, <1>4, <1>6 DEF ScanInv, ReadForward, BeenRead, StoreMatches, InScan

LEMMA MarkedKeeps == ScanInv /\ E!Marked => ScanInv'
<1> SUFFICES ASSUME ScanInv, E!Marked PROVE ScanInv'
  OBVIOUS
<1>1. /\ epc = "mark" /\ epc' = "scan" /\ next' = next + 1
      /\ UNCHANGED <<toread, snaps, lastSnaps, cached, world, disk, missed, best>>
  BY DEF E!Marked, E!inputVars, E!history
<1>2. EngineOK /\ EngineOK'
  BY <1>1, ObserverAssumption DEF ScanInv, EngineOK
<1>3. Gathered' = Gathered
  BY <1>1, <1>2, ObserverAssumption DEF Gathered, EngineOK
<1>4. GatheredIsCached'
  BY <1>1, <1>3 DEF ScanInv, GatheredIsCached, InScan
<1> QED
  BY <1>1, <1>2, <1>4 DEF ScanInv, ReadForward, Behind, BeenRead, Shows, StoreMatches, InScan

\* At the end every provider has been gathered.
LEMMA PublishShows ==
  ASSUME ScanInv, E!Publish
  PROVE  snaps = lastSnaps /\ cached = Providers
<1>1. epc = "scan" /\ next > Len(Adapters)
  BY DEF E!Publish
<1>2. next - 1 = Len(Adapters) /\ snaps \in Versions /\ lastSnaps \in Versions /\ cached \subseteq Providers
  BY <1>1, ObserverAssumption DEF ScanInv, EngineOK
<1>3. Gathered = Providers
  BY <1>1, <1>2, ObserverAssumption DEF Gathered
<1>4. \A f \in Files : snaps[f] = lastSnaps[f]
  BY <1>1, <1>3, ObserverAssumption DEF ScanInv, GatheredIsCached, InScan
<1>5. snaps = lastSnaps
  BY <1>2, <1>4 DEF Versions
<1> QED
  BY <1>1, <1>2, <1>3, <1>5 DEF ScanInv, GatheredIsCached, InScan

\* What is published is as new as the best before, or nothing of a missed file.
LEMMA PublishForward ==
  ASSUME ScanInv, E!Publish
  PROVE  /\ epc = "scan" /\ world' = snaps /\ UNCHANGED <<disk, missed, lastSnaps>>
         /\ best' = [f \in Files |-> IF snaps[f] > best[f] THEN snaps[f] ELSE best[f]]
         /\ \A f \in Files : Shows(snaps[f], f) /\ snaps[f] <= disk[f]
<1>1. /\ epc = "scan" /\ world' = snaps /\ UNCHANGED <<disk, missed, lastSnaps>>
      /\ best' = [f \in Files |-> IF snaps[f] > best[f] THEN snaps[f] ELSE best[f]]
  BY DEF E!Publish
<1> QED
  BY <1>1, PublishShows DEF ScanInv, Behind, BeenRead

LEMMA PublishKeeps == ScanInv /\ E!Publish => ScanInv'
<1> SUFFICES ASSUME ScanInv, E!Publish PROVE ScanInv'
  OBVIOUS
<1>1. /\ epc' = "select" /\ world' = snaps
      /\ UNCHANGED <<next, toread, snaps, lastSnaps, cached, disk, missed>>
  BY DEF E!Publish
<1>2. snaps = lastSnaps /\ cached = Providers
  BY PublishShows
<1>3. best' \in Versions /\ \A f \in Files : best'[f] = IF snaps[f] > best[f] THEN snaps[f] ELSE best[f]
  BY PublishForward DEF ScanInv, EngineOK, Versions
<1>4. EngineOK'
  BY <1>1, <1>3 DEF ScanInv, EngineOK
<1>5. Behind'
  <2> SUFFICES ASSUME NEW f \in Files
               PROVE  best'[f] <= disk[f] /\ lastSnaps[f] <= disk[f] /\ Shows(lastSnaps[f], f)'
    BY <1>1 DEF Behind, Shows
  <2>1. /\ Shows(snaps[f], f) /\ snaps[f] <= disk[f] /\ best[f] <= disk[f] /\ lastSnaps[f] = snaps[f]
        /\ snaps[f] \in Nat /\ best[f] \in Nat /\ disk[f] \in Nat
    <3>1. Shows(snaps[f], f) /\ snaps[f] <= disk[f] /\ best[f] <= disk[f] /\ lastSnaps[f] = snaps[f]
      BY <1>2, PublishForward DEF ScanInv, Behind
    <3>2. snaps[f] \in Nat /\ best[f] \in Nat /\ disk[f] \in Nat
      BY ObserverAssumption DEF ScanInv, EngineOK, Versions
    <3> QED
      BY <3>1, <3>2
  <2> QED
    BY <1>1, <1>3, <2>1 DEF Shows
<1> QED
  BY <1>1, <1>2, <1>4, <1>5 DEF ScanInv, ReadForward, BeenRead, GatheredIsCached, StoreMatches, InScan

LEMMA EngineExitKeeps == ScanInv /\ E!EngineExit => ScanInv'
<1> SUFFICES ASSUME ScanInv, E!EngineExit PROVE ScanInv'
  OBVIOUS
<1>1. /\ epc = "select" /\ epc' = "exit"
      /\ UNCHANGED <<next, toread, snaps, lastSnaps, cached, world, disk, missed, best>>
  BY DEF E!EngineExit, E!inputVars, E!history
<1>2. EngineOK'
  BY <1>1 DEF ScanInv, EngineOK
<1> QED
  BY <1>1, <1>2 DEF ScanInv, ReadForward, Behind, BeenRead, Shows, GatheredIsCached, StoreMatches, InScan

LEMMA ScanInvInit == Init => ScanInv
<1> SUFFICES ASSUME Init PROVE ScanInv
  OBVIOUS
<1>1. EngineOK
  BY ObserverAssumption DEF Init, E!EngineInit, EngineOK, Versions
<1>2. Gathered = {}
  BY DEF Init, E!EngineInit, Gathered
<1>3. Behind
  BY DEF Init, E!EngineInit, Behind, Shows
<1> QED
  BY <1>1, <1>2, <1>3 DEF Init, E!EngineInit, ScanInv, ReadForward, BeenRead, GatheredIsCached, StoreMatches, InScan

LEMMA ScanInvStep == ScanInv /\ [Next]_vars => ScanInv'
<1> SUFFICES ASSUME ScanInv, [Next]_vars PROVE ScanInv'
  OBVIOUS
<1>0. disk \in Versions /\ \A f \in Files : disk[f] <= disk[f]
  BY ObserverAssumption DEF ScanInv, EngineOK, Versions
<1>1. CASE Agents
  BY <1>1, ChangeStays, ScanInvStays DEF Agents, Touch, Remove
<1>2. CASE UNCHANGED <<epc, next, toread, snaps, lastSnaps, cached, world, disk, missed, best>>
  BY <1>0, <1>2, ScanInvStays DEF EngineStays
<1>3. CASE WatcherStep \/ Outside \/ NominateHot \/ UNCHANGED vars
  BY <1>2, <1>3 DEF WatcherStep, WatcherAlone, EngineIdle, Outside, EngineAlone, E!RequestRefresh,
     E!Ticks, E!Cancel, NominateHot, E!Nominate, E!engineVars, E!inputVars, E!history, vars
<1>4. CASE E!ScanStep
  BY <1>4, UseCachedKeeps, BeginSnapshotKeeps, ThroughKeeps, EndSnapshotKeeps, MarkedKeeps,
     PublishKeeps DEF E!ScanStep
<1>5. CASE E!TakeDirty \/ E!TakeTick \/ E!TakeRefresh \/ E!EngineExit
  BY <1>5, BeginKeeps, EngineExitKeeps DEF E!TakeDirty, E!TakeTick, E!TakeRefresh, InScan
<1> QED
  BY <1>1, <1>3, <1>4, <1>5 DEF Next, EngineStep, EngineAlone

LEMMA ScanInvariance == Spec => []ScanInv
BY ScanInvInit, ScanInvStep, PTL DEF Spec

\* Whatever providers a scan names, and whoever writes meanwhile: once it is over the store
\* holds what the cache holds, and both hold every provider.
THEOREM StoreIsCache == Spec => []StoreMatchesCache
<1>1. ScanInv => StoreMatchesCache
  BY DEF ScanInv, StoreMatches, InScan, StoreMatchesCache
<1> QED
  BY <1>1, ScanInvariance, PTL

-----------------------------------------------------------------------------
\* The refinement.  Of all steps only the publication changes what is shown; it shows
\* the cache, which is ahead of what was shown and behind the disk.
LEMMA MirrorInit == Init => M!Init
BY DEF Init, E!EngineInit, M!Init

LEMMA PublishIsShow == ScanInv /\ E!Publish => M!Show
<1> SUFFICES ASSUME ScanInv, E!Publish PROVE M!Show
  OBVIOUS
<1>1. done' = done
  BY DEF E!Publish
<1>2. snaps \in [Files -> 0 .. MaxVersion]
  BY DEF ScanInv, EngineOK, Versions
<1>3. \A f \in Files : \/ best[f] <= snaps[f] /\ snaps[f] <= disk[f]
                       \/ f \in {g \in Files : missed[g] # 0} /\ snaps[f] = 0
  BY PublishForward DEF Shows
<1> QED
  BY <1>1, <1>2, <1>3, PublishForward DEF M!Show

LEMMA MirrorStep == ScanInv /\ [Next]_vars => [M!Next]_(M!mirrorVars)
<1> SUFFICES ASSUME ScanInv, [Next]_vars PROVE [M!Next]_(M!mirrorVars)
  OBVIOUS
<1>1. CASE Agents
  <2>1. PICK f \in Files : \E exists \in BOOLEAN : E!Change(f, exists)
    BY <1>1 DEF Agents, Touch, Remove
  <2>2. M!Change(f)
    BY <2>1, ChangeStays DEF EngineStays, M!Change
  <2> QED
    BY <2>2 DEF M!Next
<1>2. CASE UNCHANGED <<disk, world, done, missed, best>>
  BY <1>2 DEF M!mirrorVars
<1>3. CASE WatcherStep
  <2>1. UNCHANGED <<disk, world, missed, best>>
    BY <1>3 DEF WatcherStep, WatcherAlone, EngineIdle
  <2>2. done' = done
    BY <1>3 DEF WatcherStep, WatcherAlone, W!WatchRun, W!HandleEvent, W!Elapse, W!TimerFires, W!Send,
       W!AbandonSend, W!Exit
  <2> QED
    BY <1>2, <2>1, <2>2
<1>4. CASE NominateHot \/ E!RequestRefresh \/ E!Ticks \/ E!TakeDirty \/ E!TakeTick \/ E!TakeRefresh
           \/ E!EngineExit \/ UNCHANGED vars
  BY <1>2, <1>4 DEF NominateHot, E!Nominate, E!RequestRefresh, E!Ticks, E!TakeDirty, E!TakeTick,
     E!TakeRefresh, E!Begin, E!EngineExit, E!engineVars, E!inputVars, E!history, vars
<1>8. CASE \E f \in toread : E!ReadFile(f) \/ E!MissFile(f)
  <2>1. UNCHANGED <<disk, world, best, done>>
    BY <1>8, ThroughReads
  <2> QED
    BY <2>1 DEF M!Next, M!Reading
<1>5. CASE E!UseCached \/ E!BeginSnapshot \/ E!EndSnapshot \/ E!Marked
  BY <1>2, <1>5 DEF E!UseCached, E!BeginSnapshot, E!EndSnapshot, E!Marked, E!inputVars, E!history
<1>6. CASE E!Publish
  BY <1>6, PublishIsShow DEF M!Next
<1>7. CASE E!Cancel
  BY <1>7 DEF E!Cancel, E!engineVars, E!inputVars, E!history, M!Next, M!Stop
<1> QED
  BY <1>1, <1>3, <1>4, <1>5, <1>6, <1>7, <1>8 DEF Next, EngineStep, EngineAlone, Outside, E!ScanStep

\* Engine and watcher together implement the mirror, for any files, providers and order of
\* the adapters, and whatever reads fail or are cut off: no file is ever shown in a version
\* it has not had, or in an older one than it ever was; it falls out of the picture only
\* when the last snapshot of its provider missed it.
THEOREM ObserverMirrors == Spec => IsMirror
<1>1. Spec => M!Init /\ [][M!Next]_(M!mirrorVars)
  BY MirrorInit, MirrorStep, ScanInvariance, PTL DEF Spec
<1> QED
  BY <1>1 DEF IsMirror, M!Spec

-----------------------------------------------------------------------------
\* The queue of events: what enqueueing does.
Queued(f) == \E i \in 1 .. Len(events) : events[i].name = f

LEMMA EnqueueKeeps ==
  ASSUME events \in Seq(Event), NEW e \in Event, NEW n \in {0, 1, 2}, W!Enqueue(e, n)
  PROVE  /\ events' \in Seq(Event)
         /\ \A f : Queued(f) => Queued(f)'
         /\ Len(events') > Len(events) => Queued(e.name)'
<1> DEFINE k == IF Len(events) + n <= MaxEvents THEN n ELSE 0
           more == [i \in 1 .. k |-> e]
<1>1. k \in Nat
  OBVIOUS
<1>2. more \in Seq(Event) /\ Len(more) = k /\ (\A i \in 1 .. k : more[i] = e)
  BY <1>1
<1>3. events' = events \o more
  BY DEF W!Enqueue
<1> HIDE DEF more, k
<1>4. /\ events' \in Seq(Event)
      /\ Len(events') = Len(events) + k
      /\ \A i \in 1 .. Len(events) : events'[i] = events[i]
      /\ \A i \in Len(events) + 1 .. Len(events) + k : events'[i] = more[i - Len(events)]
  BY <1>1, <1>2, <1>3, ConcatProperties
<1>5. ASSUME NEW f, Queued(f) PROVE Queued(f)'
  <2>1. PICK i \in 1 .. Len(events) : events[i].name = f
    BY <1>5 DEF Queued
  <2>2. i \in 1 .. Len(events') /\ events'[i].name = f
    BY <1>1, <1>4, <2>1
  <2> QED
    BY <2>2 DEF Queued
<1>6. ASSUME Len(events') > Len(events) PROVE Queued(e.name)'
  <2>1. Len(events) \in Nat /\ k >= 1
    BY <1>1, <1>4, <1>6
  <2>2. /\ Len(events) + 1 \in 1 .. Len(events')
        /\ Len(events) + 1 \in Len(events) + 1 .. Len(events) + k
        /\ (Len(events) + 1) - Len(events) = 1 /\ 1 \in 1 .. k
    BY <1>1, <1>4, <2>1
  <2>3. events'[Len(events) + 1] = e
    BY <1>2, <1>4, <2>2
  <2> QED
    BY <2>2, <2>3 DEF Queued
<1> QED
  BY <1>4, <1>5, <1>6

\* An agent's change is reported and queued, or neither.
LEMMA WrittenQueues ==
  ASSUME QueueOK, NEW f \in Files, NEW created \in BOOLEAN, W!Written(f, created)
  PROVE  /\ QueueOK'
         /\ UNCHANGED <<pending, timer, wpc, sending, out, done>>
         /\ \A g : Queued(g) => Queued(g)'
         /\ Len(events') > Len(events) => Queued(f)'
<1> DEFINE e == [name |-> f, gone |-> FALSE]
<1>1. e \in Event /\ e.name = f
  BY DEF Event
<1>2. PICK n \in {0, 1, 2} : W!Enqueue(e, n)
  BY DEF W!Written
<1>3. UNCHANGED <<pending, timer, wpc, sending, out, done>>
  BY DEF W!Written
<1> HIDE DEF e
<1>4. /\ events' \in Seq(Event) /\ (\A g : Queued(g) => Queued(g)')
      /\ Len(events') > Len(events) => Queued(f)'
  BY <1>1, <1>2, EnqueueKeeps DEF QueueOK
<1> QED
  BY <1>3, <1>4 DEF QueueOK

LEMMA VanishedQueues ==
  ASSUME QueueOK, NEW f \in Files, W!Vanished(f)
  PROVE  /\ QueueOK'
         /\ UNCHANGED <<pending, timer, wpc, sending, out, done>>
         /\ \A g : Queued(g) => Queued(g)'
         /\ Len(events') > Len(events) => Queued(f)'
<1> DEFINE e == [name |-> f, gone |-> TRUE]
<1>1. e \in Event /\ e.name = f
  BY DEF Event
<1>2. PICK n \in {0, 1, 2} : W!Enqueue(e, n)
  BY DEF W!Vanished
<1>3. UNCHANGED <<pending, timer, wpc, sending, out, done>>
  BY DEF W!Vanished
<1> HIDE DEF e
<1>4. /\ events' \in Seq(Event) /\ (\A g : Queued(g) => Queued(g)')
      /\ Len(events') > Len(events) => Queued(f)'
  BY <1>1, <1>2, EnqueueKeeps DEF QueueOK
<1> QED
  BY <1>3, <1>4 DEF QueueOK

\* A trace of f in the watcher's hands: OnItsWay without the scan.
InWatcher(f) ==
  \/ Queued(f)
  \/ ProviderOf[f] \in pending /\ timer # W!Off
  \/ ProviderOf[f] \in sending
  \/ \E i \in 1 .. Len(out) : ProviderOf[f] \in out[i]

LEMMA TraceParts == \A f : OnItsWay(f) <=> InWatcher(f) \/ ScanCovers(f)
BY DEF OnItsWay, InWatcher, Queued

\* The watcher passes on what it has, unless the program ends.
LEMMA WatcherPasses ==
  ASSUME QueueOK, W!WatchRun
  PROVE  /\ QueueOK' /\ done' = done
         /\ ~done /\ W!WatcherOn' =>
              W!WatcherOn /\ \A f \in InWatchedDir : InWatcher(f) => InWatcher(f)'
<1> USE DEF W!WatcherOn
<1>1. CASE W!HandleEvent
  <2> DEFINE e == Head(events)
  <2>1. /\ wpc = "select" /\ events # << >> /\ events' = Tail(events)
        /\ UNCHANGED <<wpc, sending, out, done>>
    BY <1>1 DEF W!HandleEvent
  <2>2. events \in Seq(Event) /\ e \in Event /\ events' \in Seq(Event)
        /\ Len(events') = Len(events) - 1 /\ (\A i \in 1 .. Len(events') : events'[i] = events[i + 1])
    BY <2>1, HeadTailProperties DEF QueueOK
  <2>3. ASSUME NEW f, Queued(f) PROVE f = e.name \/ Queued(f)'
    <3>1. PICK i \in 1 .. Len(events) : events[i].name = f
      BY <2>3 DEF Queued
    <3>2. CASE i = 1
      BY <2>2, <3>1, <3>2
    <3>3. CASE i # 1
      <4>1. i - 1 \in 1 .. Len(events') /\ events'[i - 1] = events[(i - 1) + 1] /\ (i - 1) + 1 = i
        BY <2>2, <3>1, <3>3
      <4> QED
        BY <3>1, <4>1 DEF Queued
    <3> QED
      BY <3>2, <3>3
  <2>4. CASE ~W!Attributed(e.name) /\ UNCHANGED <<hot, live, pending, timer>>
    <3>1. QueueOK'
      BY <2>1, <2>2, <2>4 DEF QueueOK
    <3>2. \A f \in InWatchedDir : f # e.name
      BY <2>4 DEF W!Attributed
    <3> QED
      BY <2>1, <2>3, <2>4, <3>1, <3>2 DEF InWatcher
  <2>5. CASE W!NotedPending(e) /\ timer' = Debounce
    <3>1. pending' = pending \cup {ProviderOf[e.name]} /\ ProviderOf[e.name] \in Providers
      BY <2>2, <2>5, ObserverAssumption DEF W!NotedPending, Event
    <3>2. timer' \in Int /\ timer' # W!Off
      BY <2>5, ObserverAssumption DEF W!Off
    <3>3. QueueOK'
      BY <2>1, <2>2, <3>1, <3>2 DEF QueueOK
    <3> QED
      BY <2>1, <2>3, <3>1, <3>2, <3>3 DEF InWatcher
  <2> QED
    BY <1>1, <2>4, <2>5 DEF W!HandleEvent
<1>2. CASE W!Elapse
  <2>1. UNCHANGED <<events, pending, wpc, sending, out, done>> /\ timer > 0 /\ timer' = timer - 1
    BY <1>2 DEF W!Elapse
  <2>2. timer' \in Int /\ timer' # W!Off
    BY <2>1 DEF QueueOK, W!Off
  <2> QED
    BY <2>1, <2>2 DEF QueueOK, InWatcher, Queued
<1>3. CASE W!TimerFires
  <2>1. /\ wpc = "select" /\ timer' = W!Off /\ sending' = pending /\ pending' = {}
        /\ wpc' = IF pending = {} THEN "select" ELSE "flush"
        /\ UNCHANGED <<events, out, done>>
    BY <1>3 DEF W!TimerFires
  <2>2. sending = {} /\ QueueOK'
    BY <2>1 DEF QueueOK, W!Off
  <2> QED
    BY <2>1, <2>2 DEF InWatcher, Queued
<1>4. CASE W!Send
  <2>1. /\ wpc = "flush" /\ wpc' = "select" /\ sending' = {} /\ out' = Append(out, sending)
        /\ UNCHANGED <<events, pending, timer, done>>
    BY <1>4 DEF W!Send
  <2>2. /\ out' \in Seq(SUBSET Providers) /\ Len(out') = Len(out) + 1
        /\ out'[Len(out) + 1] = sending
        /\ \A i \in 1 .. Len(out) : out'[i] = out[i]
    BY <2>1 DEF QueueOK
  <2>3. QueueOK'
    BY <2>1, <2>2 DEF QueueOK
  <2>4. Len(out) \in Nat
    BY DEF QueueOK
  <2>5. ASSUME NEW i \in 1 .. Len(out), NEW x \in out[i]
        PROVE  \E j \in 1 .. Len(out') : x \in out'[j]
    BY <2>2, <2>4, <2>5
  <2>6. \A x \in sending : \E j \in 1 .. Len(out') : x \in out'[j]
    BY <2>2, <2>4
  <2> QED
    BY <2>1, <2>3, <2>5, <2>6 DEF InWatcher, Queued
<1>5. CASE W!AbandonSend \/ W!Exit
  BY <1>5 DEF W!AbandonSend, W!Exit, QueueOK
<1> QED
  BY <1>1, <1>2, <1>3, <1>4, <1>5 DEF W!WatchRun

-----------------------------------------------------------------------------
\* No signal is lost.
LEMMA SignalKept ==
  ASSUME IInv, W!WatcherOn' /\ ~done' => W!WatcherOn /\ ~done,
         \A f \in Files : Unseen(f)' => Unseen(f) \/ OnItsWay(f)',
         W!WatcherOn' /\ ~done' =>
           \A f \in InWatchedDir : Unseen(f)' /\ OnItsWay(f) => OnItsWay(f)'
  PROVE  NoLostSignal'
<1> SUFFICES ASSUME W!WatcherOn', ~done', NEW f \in InWatchedDir, Unseen(f)'
             PROVE  OnItsWay(f)'
  BY DEF NoLostSignal, WatcherOn, W!WatcherOn, Unseen
<1>1. CASE Unseen(f)
  BY <1>1 DEF IInv, NoLostSignal, WatcherOn, W!WatcherOn
<1>2. f \in Files
  BY ObserverAssumption
<1> QED
  BY <1>1, <1>2

\* What the scan is bound to read it goes on to read: a provider it names is never passed
\* over, and once a file has been read the cache is as new as its last signal.
ScanInputs == UNCHANGED <<only, disk, out, done>>

LEMMA ScanGoesOn ==
  ASSUME ScanInv, E!ScanStep, NotifiedOK, notified' = notified
  PROVE  /\ ScanInputs /\ \A f \in Files : Unseen(f)' => Unseen(f) \/ ScanCovers(f)'
         /\ \A f \in Files : Unseen(f)' /\ ScanCovers(f) => ScanCovers(f)'
<1>0. /\ EngineOK /\ Len(Adapters) \in Nat
      /\ \A f \in Files : /\ lastSnaps[f] \in Int /\ snaps[f] \in Int /\ disk[f] \in Int /\ notified[f] \in Int
                          /\ missed[f] \in Int
  BY ObserverAssumption DEF ScanInv, EngineOK, Versions, NotifiedOK
<1>1. CASE E!UseCached
  <2>1. /\ epc = "scan" /\ next <= Len(Adapters) /\ Adapters[next] \notin only
        /\ next' = next + 1 /\ UNCHANGED <<epc, only, toread, lastSnaps, disk, missed, out, done>>
    BY <1>1 DEF E!UseCached, E!Scanning, E!Clean, E!Adapter, E!inputVars, E!history
  <2>2. ASSUME NEW i \in next .. Len(Adapters), Adapters[i] \in only
        PROVE  i \in next + 1 .. Len(Adapters)
    BY <1>0, <2>1, <2>2 DEF EngineOK
  <2>3. ASSUME NEW f \in Files, ScanCovers(f)
        PROVE  ScanCovers(f)'
    <3>1. ProviderOf[f] \in only /\ \E i \in next .. Len(Adapters) : Adapters[i] = ProviderOf[f]
      BY <1>0, <2>1, <2>3 DEF ScanCovers, EngineOK
    <3>2. PICK i \in next + 1 .. Len(Adapters) : Adapters[i] = ProviderOf[f]
      BY <2>2, <3>1
    <3>3. i \in next' + 0 .. Len(Adapters)
      BY <1>0, <2>1, <3>2 DEF EngineOK
    <3> QED
      BY <2>1, <3>1, <3>2, <3>3 DEF ScanCovers
  <2> QED
    BY <1>0, <2>1, <2>3 DEF ScanInputs, Unseen
<1>2. CASE E!BeginSnapshot
  <2>1. /\ epc = "scan" /\ epc' = "read" /\ next <= Len(Adapters)
        /\ toread' = {f \in Files : ProviderOf[f] = Adapters[next]}
        /\ UNCHANGED <<only, next, snaps, lastSnaps, disk, missed, out, done>>
    BY <1>2 DEF E!BeginSnapshot, E!Scanning, E!Adapter, E!FilesOf, E!inputVars, E!history
  <2>2. ASSUME NEW i \in next .. Len(Adapters)
        PROVE  i = next \/ i \in next + 1 .. Len(Adapters)
    BY <1>0, <2>1 DEF EngineOK
  <2>3. ASSUME NEW f \in Files, ScanCovers(f)
        PROVE  ScanCovers(f)'
    <3>1. ProviderOf[f] \in only /\ \E i \in next .. Len(Adapters) : Adapters[i] = ProviderOf[f]
      BY <1>0, <2>1, <2>3 DEF ScanCovers, EngineOK
    <3>2. CASE ProviderOf[f] = Adapters[next]
      BY <2>1, <3>2 DEF ScanCovers
    <3>3. CASE ProviderOf[f] # Adapters[next]
      <4>1. \E i \in next' + 1 .. Len(Adapters) : Adapters[i] = ProviderOf[f]
        BY <2>1, <2>2, <3>1, <3>3
      <4> QED
        BY <2>1, <3>1, <4>1 DEF ScanCovers
    <3> QED
      BY <3>2, <3>3
  <2> QED
    BY <1>0, <2>1, <2>3 DEF ScanInputs, Unseen
<1>3. ASSUME NEW g \in toread, E!ReadFile(g) \/ E!MissFile(g)
      PROVE  /\ ScanInputs /\ \A f \in Files : Unseen(f)' => Unseen(f) \/ ScanCovers(f)'
             /\ \A f \in Files : Unseen(f)' /\ ScanCovers(f) => ScanCovers(f)'
  <2>1. /\ epc = "read" /\ g \in toread /\ g \in Files /\ ProviderOf[g] = Adapters[next]
        /\ UNCHANGED <<epc, only, next, lastSnaps, disk, out, done>> /\ toread' = toread \ {g}
        /\ \A f \in Files : f # g => snaps'[f] = snaps[f] /\ missed'[f] = missed[f]
        /\ snaps'[g] = disk[g] \/ missed'[g] = disk[g]
    BY <1>3, ThroughReads
  <2>2. disk[g] >= notified[g] /\ disk[g] \in Int /\ notified[g] \in Int
    BY <1>0, <2>1 DEF NotifiedOK
  <2>3. Unseen(g)' => ScanCovers(g)'
    BY <2>1, <2>2 DEF Unseen, ScanCovers
  <2>4. ASSUME NEW f \in Files, f # g
        PROVE  (Unseen(f)' => Unseen(f)) /\ (ScanCovers(f) => ScanCovers(f)')
    BY <2>1, <2>4 DEF Unseen, ScanCovers
  <2>5. ScanInputs
    BY <2>1 DEF ScanInputs
  <2> QED
    BY <2>3, <2>4, <2>5
<1>4. CASE E!EndSnapshot
  <2>1. /\ epc = "read" /\ epc' = "mark" /\ toread = {}
        /\ UNCHANGED <<only, next, snaps, disk, missed, out, done>>
    BY <1>4 DEF E!EndSnapshot, E!inputVars, E!history
  <2>2. \A f \in Files : lastSnaps'[f] = IF ProviderOf[f] = Adapters[next] THEN snaps[f] ELSE lastSnaps[f]
    BY <1>4, EndSnapshotMoves
  <2>3. ASSUME NEW f \in Files, Unseen(f)'
        PROVE  Unseen(f) /\ (ScanCovers(f) => ScanCovers(f)')
    <3>1. notified[f] > lastSnaps'[f] /\ notified[f] > missed[f]
      BY <2>1, <2>3 DEF Unseen
    <3>2. CASE ProviderOf[f] = Adapters[next]
      <4>1. lastSnaps[f] <= snaps[f] \/ lastSnaps[f] <= missed[f]
        BY <2>1, <3>2 DEF ScanInv, ReadForward, BeenRead
      <4>2. notified[f] > snaps[f]
        BY <2>2, <3>1, <3>2
      <4> QED
        BY <1>0, <2>1, <3>1, <4>1, <4>2 DEF Unseen, ScanCovers
    <3>3. CASE ProviderOf[f] # Adapters[next]
      BY <1>0, <2>1, <2>2, <3>1, <3>3 DEF Unseen, ScanCovers
    <3> QED
      BY <3>2, <3>3
  <2> QED
    BY <2>1, <2>3 DEF ScanInputs
<1>5. CASE E!Marked
  <2>1. /\ epc = "mark" /\ epc' = "scan" /\ next' = next + 1
        /\ UNCHANGED <<only, toread, snaps, lastSnaps, disk, missed, out, done>>
    BY <1>5 DEF E!Marked, E!inputVars, E!history
  <2>2. next' + 0 = next + 1
    BY <1>0, <2>1 DEF EngineOK
  <2> QED
    BY <1>0, <2>1, <2>2 DEF ScanCovers, ScanInputs, Unseen
<1>6. CASE E!Publish
  <2>1. /\ epc = "scan" /\ next > Len(Adapters) /\ UNCHANGED <<only, lastSnaps, disk, missed, out, done>>
    BY <1>6 DEF E!Publish, E!inputVars, E!history
  <2>2. \A f \in Files : ~ScanCovers(f)
    BY <1>0, <2>1 DEF ScanCovers, EngineOK
  <2> QED
    BY <1>0, <2>1, <2>2 DEF ScanInputs, Unseen
<1> QED
  BY <1>1, <1>2, <1>3, <1>4, <1>5, <1>6 DEF E!ScanStep

\* A scan begun on a message reads what the message names; one of everything, everything.
LEMMA BegunCovers ==
  ASSUME NEW names, NEW f \in Files, E!Begin(names), ProviderOf[f] \in names
  PROVE  ScanCovers(f)'
<1>1. epc' = "scan" /\ only' = names /\ next' = 1
  BY DEF E!Begin
<1>2. PICK i \in 1 .. Len(Adapters) : Adapters[i] = ProviderOf[f]
  BY ObserverAssumption
<1>3. i \in next' + 0 .. Len(Adapters)
  BY <1>1, <1>2
<1> QED
  BY <1>1, <1>2, <1>3 DEF ScanCovers

LEMMA IInvInit == Init => IInv
<1> SUFFICES ASSUME Init PROVE IInv
  OBVIOUS
<1>1. QueueOK
  <2>1. events \in Seq(Event) /\ out \in Seq(SUBSET Providers)
    BY DEF Init, W!WatchInit
  <2>2. pending = {} /\ sending = {} /\ timer = -1
    BY DEF Init, W!WatchInit, W!Off
  <2> QED
    BY <2>1, <2>2 DEF QueueOK
<1>2. NotifiedOK
  BY ObserverAssumption DEF Init, E!EngineInit, NotifiedOK, Versions
<1>3. NoLostSignal
  BY ObserverAssumption DEF Init, E!EngineInit, NoLostSignal, Unseen
<1> QED
  BY <1>1, <1>2, <1>3, ScanInvInit DEF IInv

\* An agent's change is on its way if it was reported, and disturbs no other signal.
LEMMA ChangeSignals ==
  ASSUME IInv, NEW f \in Files, NEW exists \in BOOLEAN, E!Change(f, exists), Reported(f),
         \/ W!WatcherOn /\ W!Written(f, f \notin present)
         \/ W!WatcherOn /\ W!Vanished(f)
         \/ ~W!WatcherOn /\ WatcherIdle
  PROVE  QueueOK' /\ NotifiedOK' /\ NoLostSignal'
<1>1. /\ EngineStays /\ disk' = [disk EXCEPT ![f] = @ + 1] /\ disk[f] < MaxVersion
      /\ UNCHANGED <<only, out, done>>
  BY ChangeStays DEF IInv
<1>2. /\ UNCHANGED <<epc, next, toread, snaps, lastSnaps, missed>> /\ disk' \in Versions
      /\ \A g \in Files : disk[g] <= disk'[g]
  BY <1>1 DEF EngineStays
<1>3. QueueOK /\ notified \in Versions /\ disk \in Versions /\ \A g \in Files : notified[g] <= disk[g]
  BY DEF IInv, NotifiedOK, ScanInv, EngineOK
<1>4. notified' = IF Len(events') > Len(events) THEN [notified EXCEPT ![f] = disk'[f]] ELSE notified
  BY DEF Reported
<1>5. NotifiedOK'
  <2>1. notified' \in Versions
    BY <1>2, <1>3, <1>4 DEF Versions
  <2>2. ASSUME NEW g \in Files PROVE notified'[g] <= disk'[g]
    <3>1. notified[g] \in Int /\ disk[g] \in Int /\ disk'[g] \in Int
      BY <1>2, <1>3, ObserverAssumption DEF Versions
    <3> QED
      BY <1>2, <1>3, <1>4, <3>1 DEF Versions
  <2> QED
    BY <2>1, <2>2 DEF NotifiedOK
<1>6. CASE ~W!WatcherOn /\ WatcherIdle
  <2>1. UNCHANGED <<events, pending, timer, wpc, sending>>
    BY <1>6 DEF WatcherIdle
  <2> QED
    BY <1>1, <1>3, <1>5, <1>6, <2>1 DEF QueueOK, NoLostSignal, WatcherOn, W!WatcherOn, Unseen
<1>7. CASE W!WatcherOn /\ (W!Written(f, f \notin present) \/ W!Vanished(f))
  <2>1. /\ QueueOK' /\ UNCHANGED <<pending, timer, wpc, sending, out, done>>
        /\ \A g : Queued(g) => Queued(g)'
        /\ Len(events') > Len(events) => Queued(f)'
    <3>1. CASE W!Written(f, f \notin present)
      <4>1. \E created \in BOOLEAN : W!Written(f, created)
        BY <3>1
      <4> QED
        BY <1>3, <4>1, WrittenQueues
    <3> QED
      BY <1>3, <1>7, <3>1, VanishedQueues
  <2>2. ASSUME NEW g \in InWatchedDir, WatcherOn, ~done, notified'[g] > lastSnaps[g],
               notified'[g] > missed[g]
        PROVE  OnItsWay(g)'
    <3>1. CASE g = f /\ Len(events') > Len(events)
      BY <2>1, <3>1, TraceParts DEF OnItsWay, Queued
    <3>2. CASE ~(g = f /\ Len(events') > Len(events))
      <4>1. notified'[g] = notified[g]
        BY <1>3, <1>4, <3>2, ObserverAssumption DEF Versions
      <4>2. OnItsWay(g)
        BY <2>2, <4>1 DEF IInv, NoLostSignal, Unseen
      <4>3. InWatcher(g) => InWatcher(g)'
        BY <2>1 DEF InWatcher
      <4>4. ScanCovers(g) => ScanCovers(g)'
        BY <1>1, <1>2, <4>1 DEF ScanCovers
      <4> QED
        BY <4>2, <4>3, <4>4, TraceParts DEF OnItsWay, InWatcher, Queued
    <3> QED
      BY <3>1, <3>2
  <2> QED
    BY <1>2, <1>5, <2>1, <2>2 DEF NoLostSignal, WatcherOn, W!WatcherOn, Unseen
<1> QED
  BY <1>6, <1>7

LEMMA TracePartsPrime == \A f : OnItsWay(f)' <=> InWatcher(f)' \/ ScanCovers(f)'
BY DEF OnItsWay, InWatcher, Queued

LEMMA SignalStep == IInv /\ [Next]_vars => QueueOK' /\ NotifiedOK' /\ NoLostSignal'
<1> SUFFICES ASSUME IInv, [Next]_vars PROVE QueueOK' /\ NotifiedOK' /\ NoLostSignal'
  OBVIOUS
<1>0. ScanInv /\ QueueOK /\ NotifiedOK /\ NoLostSignal /\ EngineOK'
  BY ScanInvStep DEF IInv, ScanInv
<1>n. ASSUME notified' = notified, disk' = disk PROVE NotifiedOK'
  BY <1>0, <1>n DEF NotifiedOK
<1>1. CASE Agents
  <2>1. PICK f \in Files : Touch(f) \/ Remove(f)
    BY <1>1 DEF Agents
  <2> QED
    BY <2>1, ChangeSignals DEF Touch, Remove, WatcherOn
<1>2. CASE WatcherStep
  <2>1. W!WatchRun /\ UNCHANGED <<notified, epc, only, next, toread, snaps, lastSnaps, disk, missed>>
    BY <1>2 DEF WatcherStep, WatcherAlone, EngineIdle
  <2>2. QueueOK' /\ done' = done
        /\ (~done /\ W!WatcherOn' =>
              W!WatcherOn /\ \A f \in InWatchedDir : InWatcher(f) => InWatcher(f)')
    BY <1>0, <2>1, WatcherPasses
  <2>3. \A f : ScanCovers(f) => ScanCovers(f)'
    BY <2>1 DEF ScanCovers
  <2>4. NoLostSignal'
    BY <2>1, <2>2, <2>3, TraceParts, TracePartsPrime, SignalKept DEF Unseen
  <2> QED
    BY <1>n, <2>1, <2>2, <2>4
<1>3. CASE UNCHANGED <<events, pending, timer, wpc, sending, out, done, notified,
                       epc, only, next, toread, snaps, lastSnaps, disk, missed>>
  <2>1. QueueOK' /\ NotifiedOK'
    BY <1>0, <1>3 DEF QueueOK, NotifiedOK
  <2> QED
    BY <1>0, <1>3, <2>1 DEF NoLostSignal, WatcherOn, W!WatcherOn, OnItsWay, ScanCovers, Unseen
<1>4. CASE NominateHot
  <2>1. PICK f \in tomark : /\ E!Nominate(f) /\ UNCHANGED notified
                            /\ W!MarkHot(f, f \in present) \/ (wpc = "off" /\ WatcherIdle)
    BY <1>4 DEF NominateHot
  <2>2. UNCHANGED <<out, done, epc, only, next, toread, snaps, lastSnaps, disk, missed>>
    BY <2>1 DEF E!Nominate, E!inputVars, E!history
  <2>3. UNCHANGED <<events, pending, timer, wpc, sending>>
    BY <2>1 DEF W!MarkHot, W!MarkHotAgain, W!MarkHotAnew, WatcherIdle
  <2> QED
    BY <1>3, <2>1, <2>2, <2>3
<1>5. CASE EngineAlone(E!ScanStep)
  <2>1. /\ E!ScanStep /\ UNCHANGED <<events, pending, timer, wpc, sending, notified>>
    BY <1>5 DEF EngineAlone, WatcherIdle
  <2>2. /\ UNCHANGED <<only, disk, out, done>>
        /\ \A f \in Files : Unseen(f)' => Unseen(f) \/ ScanCovers(f)'
        /\ \A f \in Files : Unseen(f)' /\ ScanCovers(f) => ScanCovers(f)'
    BY <1>0, <2>1, ScanGoesOn DEF ScanInputs
  <2>3. \A f : InWatcher(f) => InWatcher(f)'
    BY <2>1, <2>2 DEF InWatcher, Queued
  <2>4. W!WatcherOn' /\ ~done' => W!WatcherOn /\ ~done
    BY <2>1, <2>2 DEF W!WatcherOn
  <2>5. \A f \in InWatchedDir : Unseen(f)' /\ OnItsWay(f) => OnItsWay(f)'
    BY <2>2, <2>3, TraceParts, TracePartsPrime, ObserverAssumption
  <2>6. NoLostSignal'
    BY <2>2, <2>4, <2>5, TracePartsPrime, SignalKept
  <2>7. QueueOK'
    BY <1>0, <2>1, <2>2 DEF QueueOK
  <2> QED
    BY <1>n, <2>1, <2>2, <2>6, <2>7
<1>6. ASSUME NEW names, EngineAlone(E!Begin(names)), epc = "select",
             \A i \in 1 .. Len(out) : out[i] \subseteq names \/ \E j \in 1 .. Len(out') : out'[j] = out[i],
             out' \in Seq(SUBSET Providers)
      PROVE  QueueOK' /\ NotifiedOK' /\ NoLostSignal'
  <2>1. /\ E!Begin(names) /\ UNCHANGED <<events, pending, timer, wpc, sending, notified>>
    BY <1>6 DEF EngineAlone, WatcherIdle
  <2>2. UNCHANGED <<lastSnaps, disk, missed, done>>
    BY <2>1 DEF E!Begin, E!history
  <2>3. \A f : ~ScanCovers(f)
    BY <1>6 DEF ScanCovers
  <2>4. ASSUME NEW f \in InWatchedDir, InWatcher(f) PROVE InWatcher(f)' \/ ScanCovers(f)'
    <3>1. CASE \E i \in 1 .. Len(out) : ProviderOf[f] \in out[i]
      <4>1. PICK i \in 1 .. Len(out) : ProviderOf[f] \in out[i]
        BY <3>1
      <4>2. CASE out[i] \subseteq names
        BY <2>1, <4>1, <4>2, BegunCovers, ObserverAssumption
      <4>3. CASE \E j \in 1 .. Len(out') : out'[j] = out[i]
        BY <4>1, <4>3 DEF InWatcher
      <4> QED
        BY <1>6, <4>2, <4>3
    <3>2. CASE ~\E i \in 1 .. Len(out) : ProviderOf[f] \in out[i]
      BY <2>1, <2>4, <3>2 DEF InWatcher, Queued
    <3> QED
      BY <3>1, <3>2
  <2>5. W!WatcherOn' /\ ~done' => W!WatcherOn /\ ~done
    BY <2>1, <2>2 DEF W!WatcherOn
  <2>6. \A f \in InWatchedDir : OnItsWay(f) => OnItsWay(f)'
    BY <2>3, <2>4, TraceParts, TracePartsPrime
  <2>7. NoLostSignal'
    BY <2>1, <2>2, <2>5, <2>6, SignalKept DEF Unseen
  <2>8. QueueOK'
    BY <1>0, <1>6, <2>1 DEF QueueOK
  <2> QED
    BY <1>n, <2>1, <2>2, <2>7, <2>8
<1>7. CASE EngineAlone(E!TakeDirty)
  <2>1. epc = "select" /\ out # << >> /\ out' = Tail(out) /\ E!Begin(Head(out))
    BY <1>7 DEF EngineAlone, E!TakeDirty
  <2>2. /\ out' \in Seq(SUBSET Providers) /\ Len(out') = Len(out) - 1 /\ Head(out) = out[1]
        /\ \A i \in 1 .. Len(out') : out'[i] = out[i + 1]
    BY <1>0, <2>1, HeadTailProperties DEF QueueOK
  <2>3. ASSUME NEW i \in 1 .. Len(out)
        PROVE  out[i] \subseteq Head(out) \/ \E j \in 1 .. Len(out') : out'[j] = out[i]
    <3>1. CASE i = 1
      BY <2>2, <3>1
    <3>2. CASE i # 1
      <4>1. i - 1 \in 1 .. Len(out') /\ (i - 1) + 1 = i
        BY <1>0, <2>2, <3>2 DEF QueueOK
      <4> QED
        BY <2>2, <4>1
    <3> QED
      BY <3>1, <3>2
  <2>4. EngineAlone(E!Begin(Head(out)))
    BY <1>7, <2>1 DEF EngineAlone
  <2> QED
    BY <1>6, <2>1, <2>2, <2>3, <2>4
<1>8. CASE EngineAlone(E!TakeTick) \/ EngineAlone(E!TakeRefresh)
  <2>1. epc = "select" /\ out' = out /\ EngineAlone(E!Begin(E!All))
    BY <1>8 DEF EngineAlone, E!TakeTick, E!TakeRefresh
  <2>2. out' \in Seq(SUBSET Providers)
        /\ \A i \in 1 .. Len(out) : \E j \in 1 .. Len(out') : out'[j] = out[i]
    BY <1>0, <2>1 DEF QueueOK
  <2> QED
    BY <1>6, <2>1, <2>2
<1>9. CASE EngineAlone(E!EngineExit)
  <2>1. /\ done /\ UNCHANGED <<events, pending, timer, wpc, sending, notified, out, done, disk>>
    BY <1>9 DEF EngineAlone, WatcherIdle, E!EngineExit, E!inputVars, E!history
  <2> QED
    BY <1>0, <1>n, <2>1 DEF QueueOK, NoLostSignal
<1>10. CASE EngineAlone(E!Cancel)
  <2>1. /\ done' = TRUE /\ UNCHANGED <<events, pending, timer, wpc, sending, notified, out, disk>>
    BY <1>10 DEF EngineAlone, WatcherIdle, E!Cancel, E!inputVars, E!history
  <2> QED
    BY <1>0, <1>n, <2>1 DEF QueueOK, NoLostSignal
<1>11. CASE EngineAlone(E!RequestRefresh) \/ EngineAlone(E!Ticks) \/ UNCHANGED vars
  BY <1>3, <1>11 DEF EngineAlone, WatcherIdle, E!RequestRefresh, E!Ticks, E!engineVars, E!history, vars
<1> QED
  BY <1>1, <1>2, <1>4, <1>5, <1>7, <1>8, <1>9, <1>10, <1>11 DEF Next, EngineStep, Outside, EngineAlone

LEMMA Invariance == Spec => []IInv
<1>1. IInv /\ [Next]_vars => IInv'
  BY ScanInvStep, SignalStep DEF IInv
<1> QED
  BY <1>1, IInvInit, PTL DEF Spec

\* From the event queue through the debounce, the channel and the scan: as long as the
\* program runs, a reported change that no snapshot has read is held by one of them, for
\* any number of files and providers, and also when fsnotify drops events (then nothing
\* was reported).
THEOREM SignalsKept == Spec => []NoLostSignal
<1>1. IInv => NoLostSignal
  BY DEF IInv
<1> QED
  BY <1>1, Invariance, PTL
=============================================================================
