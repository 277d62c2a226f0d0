--------------------------- MODULE TaskScannerProofs ---------------------------
(***************************************************************************)
(* Proofs about TaskScanner, for any files in any batches, any payloads    *)
(* and any number of changes, made between any two steps of a scan.        *)
(*                                                                         *)
(* The argument: a new stamp was never given before, so a file that has    *)
(* the stamp it had earlier has not been written in between, unless it was *)
(* rewritten under that stamp; and blurred remembers where it was.         *)
(***************************************************************************)
EXTENDS TaskScanner, TLAPS

Regular == {"plain", "unreadable"}
Stamped == [stamp : Nat, payload : Payloads]

FilesOK ==
  /\ file \in [Paths -> [form : {"gone", "plain", "unreadable", "symlink", "oversized"},
                         stamp : Nat, payload : Payloads]]
  /\ clock \in Nat
  /\ \A p \in Paths : file[p].stamp <= clock

ReadingRecord == pc \in {"ReadFile", "LstatAgain"}

ScannerOK ==
  /\ pc \in {"idle", "listing", "ReadFile", "LstatAgain", "normalizing"}
  /\ todo \subseteq Paths
  /\ ReadingRecord => at.path \in Paths
  /\ at \in [path : Paths \cup {NotCached}, stamp : Nat, payload : Payloads]
  /\ at.stamp <= clock
  /\ cache \in [Paths -> Stamped \cup {NotCached}]
  /\ \A p \in Paths : cache[p] # NotCached => cache[p].stamp <= clock
  /\ records \in [Paths -> Payloads \cup {NotCached}]

\* A cached payload is the file's for as long as the file has the stamp cached with it.
CachedAsStamped ==
  \A p \in Paths :
    cache[p] # NotCached /\ file[p].stamp = cache[p].stamp =>
      file[p].payload = cache[p].payload \/ Blurred(p, cache[p].stamp)

\* Between the two looks at a file nothing has happened to it unless its stamp is another.
LookIsTrue ==
  ReadingRecord /\ file[at.path].stamp = at.stamp =>
    /\ file[at.path].form \in Regular
    /\ pc = "LstatAgain" => file[at.path].payload = at.payload \/ Blurred(at.path, at.stamp)

\* Until the end of the scan, what a record says is what the cache says; after it, a file
\* has a record if and only if it is cached.
RecordsAreCached ==
  \A p \in Paths :
    /\ pc # "idle" /\ records[p] # NotCached => cache[p].payload = records[p]
    /\ pc = "normalizing" /\ records[p] = NotCached => cache[p] = NotCached

SinceHasNow == pc # "idle" => \A p \in Paths : Has(file[p]) \subseteq since[p]

IInv ==
  /\ FilesOK /\ ScannerOK /\ since \in [Paths -> SUBSET Payloads]
  /\ CachedAsStamped /\ LookIsTrue /\ RecordsAreCached
  /\ SinceHasNow /\ RecordsAreOfThisScan

FileRecord == [form : {"gone", "plain", "unreadable", "symlink", "oversized"},
               stamp : Nat, payload : Payloads]

USE DEF Blurred

-----------------------------------------------------------------------------
LEMMA InitIInv == Init => IInv
<1> SUFFICES ASSUME Init PROVE IInv
  OBVIOUS
<1>1. FilesOK
  BY DEF Init, FilesOK
<1>2. ScannerOK
  BY ScannerAssumption DEF Init, ScannerOK, Nothing, Nowhere, ReadingRecord
<1>3. CachedAsStamped /\ LookIsTrue /\ RecordsAreCached /\ SinceHasNow /\ RecordsAreOfThisScan
  BY DEF Init, CachedAsStamped, LookIsTrue, ReadingRecord, RecordsAreCached, SinceHasNow,
         RecordsAreOfThisScan, Nothing
<1> QED
  BY <1>1, <1>2, <1>3 DEF Init, IInv

-----------------------------------------------------------------------------
\* The agents.  A file may become anything under a new stamp, and under the stamp it has
\* unreadable, or another that is remembered: the scan under way loses no ground.
LEMMA BecomesKeeps ==
  ASSUME IInv, UNCHANGED scan, clock' = clock + 1,
         NEW q \in Paths, NEW f \in FileRecord, Becomes(q, f),
         blurred \subseteq blurred',
         \/ f.stamp = clock'
         \/ /\ f.stamp = file[q].stamp /\ f.form \in Regular
            /\ f.payload = file[q].payload \/ <<q, f.stamp>> \in blurred'
  PROVE  IInv'
<1>1. /\ file' = [file EXCEPT ![q] = f]
      /\ since' = [since EXCEPT ![q] = @ \cup Has(f)]
      /\ UNCHANGED <<cache, pc, todo, at, records>>
  BY DEF Becomes, scan
<1>2. /\ FilesOK /\ ScannerOK /\ since \in [Paths -> SUBSET Payloads]
      /\ CachedAsStamped /\ LookIsTrue /\ RecordsAreCached /\ SinceHasNow /\ RecordsAreOfThisScan
  BY DEF IInv
<1>3. FilesOK'
  BY <1>1, <1>2 DEF FilesOK, FileRecord
<1>4. ScannerOK'
  BY <1>1, <1>2 DEF ScannerOK, FilesOK, ReadingRecord, Stamped
<1>5. Has(f) \subseteq Payloads
  BY DEF Has, FileRecord
<1>6. since' \in [Paths -> SUBSET Payloads] /\ (\A p \in Paths : since[p] \subseteq since'[p])
  BY <1>1, <1>2, <1>5
<1>7. CachedAsStamped'
  <2> SUFFICES ASSUME NEW p \in Paths, cache[p] # NotCached, file'[p].stamp = cache[p].stamp
               PROVE  file'[p].payload = cache[p].payload \/ <<p, cache[p].stamp>> \in blurred'
    BY <1>1 DEF CachedAsStamped
  <2>1. cache[p].stamp <= clock /\ cache[p].stamp \in Nat /\ clock \in Nat
    BY <1>2 DEF ScannerOK, FilesOK, Stamped
  <2> QED
    BY <1>1, <1>2, <2>1 DEF CachedAsStamped, FilesOK
<1>8. LookIsTrue'
  <2>1. at.stamp <= clock /\ at.stamp \in Nat /\ clock \in Nat /\ (ReadingRecord => at.path \in Paths)
    BY <1>2 DEF ScannerOK, FilesOK
  <2> QED
    BY <1>1, <1>2, <2>1 DEF LookIsTrue, ReadingRecord, FilesOK
<1>9. RecordsAreCached'
  BY <1>1, <1>2 DEF RecordsAreCached
<1>10. SinceHasNow'
  BY <1>1, <1>2, <1>6 DEF SinceHasNow, FilesOK
<1>11. RecordsAreOfThisScan'
  BY <1>1, <1>2, <1>6 DEF RecordsAreOfThisScan
<1> QED
  BY <1>3, <1>4, <1>6, <1>7, <1>8, <1>9, <1>10, <1>11 DEF IInv

LEMMA FilesAloneKeep ==
  ASSUME IInv, UNCHANGED <<file, since, blurred>>, UNCHANGED scan, clock' \in {clock, clock + 1}
  PROVE  IInv'
<1>1. UNCHANGED <<cache, pc, todo, at, records>> /\ clock \in Nat
  BY DEF scan, IInv, FilesOK
<1>2. FilesOK'
  BY <1>1 DEF IInv, FilesOK
<1>3. ScannerOK'
  BY <1>1 DEF IInv, ScannerOK, ReadingRecord, Stamped
<1> QED
  BY <1>1, <1>2, <1>3 DEF IInv, CachedAsStamped, LookIsTrue, ReadingRecord, RecordsAreCached,
                          SinceHasNow, RecordsAreOfThisScan

LEMMA AgentsKeep == IInv /\ (Write \/ Rewrite \/ ChangeMode \/ Cancel) => IInv'
<1> SUFFICES ASSUME IInv, Write \/ Rewrite \/ ChangeMode \/ Cancel PROVE IInv'
  OBVIOUS
<1>1. FilesOK
  BY DEF IInv
<1>2. CASE Write
  <2>0. clock' = clock + 1 /\ UNCHANGED scan /\ blurred' = blurred
    BY <1>2 DEF Write
  <2>1. clock' = clock + 1 /\ clock' \in Nat /\ UNCHANGED scan /\ blurred \subseteq blurred'
    <3>1. clock \in Nat
      BY <1>1 DEF FilesOK
    <3>2. clock' \in Nat
      BY <2>0, <3>1
    <3> QED
      BY <2>0, <3>2
  <2>2. PICK q \in Paths :
          \/ \E payload \in Payloads :
               Becomes(q, [form |-> "plain", stamp |-> clock', payload |-> payload])
          \/ \E form \in {"gone", "symlink", "oversized"} :
               Becomes(q, [file[q] EXCEPT !.form = form, !.stamp = clock'])
    BY <1>2 DEF Write
  <2>3. ASSUME NEW payload \in Payloads,
               Becomes(q, [form |-> "plain", stamp |-> clock', payload |-> payload])
        PROVE  IInv'
    <3> DEFINE f == [form |-> "plain", stamp |-> clock', payload |-> payload]
    <3>1. f \in FileRecord /\ f.stamp = clock' /\ Becomes(q, f)
      BY <2>1, <2>3 DEF FileRecord
    <3> HIDE DEF f
    <3> QED
      BY <2>1, <3>1, BecomesKeeps
  <2>4. ASSUME NEW form \in {"gone", "symlink", "oversized"},
               Becomes(q, [file[q] EXCEPT !.form = form, !.stamp = clock'])
        PROVE  IInv'
    <3> DEFINE f == [file[q] EXCEPT !.form = form, !.stamp = clock']
    <3>1. f \in FileRecord /\ f.stamp = clock'
      BY <1>1, <2>1 DEF FileRecord, FilesOK
    <3>2. Becomes(q, f)
      BY <2>4
    <3> HIDE DEF f
    <3> QED
      BY <2>1, <3>1, <3>2, BecomesKeeps
  <2> QED
    BY <2>2, <2>3, <2>4
<1>3. ASSUME ChangeMode, NEW q \in Paths, file[q].form = "plain",
             Becomes(q, [file[q] EXCEPT !.form = "unreadable"])
      PROVE  IInv'
  <2> DEFINE f == [file[q] EXCEPT !.form = "unreadable"]
  <2>1. clock' = clock + 1 /\ UNCHANGED scan /\ Becomes(q, f) /\ blurred \subseteq blurred'
    BY <1>3 DEF ChangeMode
  <2>2. f \in FileRecord /\ f.stamp = file[q].stamp /\ f.payload = file[q].payload
        /\ f.form \in Regular
    BY <1>1 DEF FileRecord, FilesOK, Regular
  <2> HIDE DEF f
  <2> QED
    BY <2>1, <2>2, BecomesKeeps
<1>4. CASE Cancel \/ (ChangeMode /\ UNCHANGED <<file, since>>)
  BY <1>4, FilesAloneKeep DEF Cancel, ChangeMode
<1>5. CASE Rewrite
  <2>1. PICK q \in Paths, payload \in Payloads :
          /\ file[q].form = "plain" /\ Becomes(q, [file[q] EXCEPT !.payload = payload])
          /\ blurred' = blurred \cup {<<q, file[q].stamp>>}
    BY <1>5 DEF Rewrite
  <2> DEFINE f == [file[q] EXCEPT !.payload = payload]
  <2>2. clock' = clock + 1 /\ UNCHANGED scan /\ Becomes(q, f) /\ blurred \subseteq blurred'
    BY <1>5, <2>1 DEF Rewrite
  <2>3. f \in FileRecord /\ f.stamp = file[q].stamp /\ f.form \in Regular
    BY <1>1, <2>1 DEF FileRecord, FilesOK, Regular
  <2>4. <<q, f.stamp>> \in blurred'
    BY <2>1, <2>3
  <2> HIDE DEF f
  <2> QED
    BY <2>2, <2>3, <2>4, BecomesKeeps
<1> QED
  BY <1>2, <1>3, <1>4, <1>5 DEF ChangeMode

-----------------------------------------------------------------------------
\* The scan.
LEMMA BeginKeeps == IInv /\ Begin => IInv'
<1> SUFFICES ASSUME IInv, Begin PROVE IInv'
  OBVIOUS
<1>1. /\ pc' = "listing" /\ records' = Nothing /\ since' = [p \in Paths |-> Has(file[p])]
      /\ UNCHANGED <<cache, todo, at, world, file, clock, blurred>>
  BY DEF Begin, environment
<1>2. FilesOK'
  BY <1>1 DEF IInv, FilesOK
<1>3. ScannerOK'
  BY <1>1 DEF IInv, ScannerOK, ReadingRecord, Nothing, Stamped
<1>4. since' \in [Paths -> SUBSET Payloads]
  BY <1>1 DEF IInv, FilesOK, Has
<1>5. CachedAsStamped'
  BY <1>1 DEF IInv, CachedAsStamped
<1>6. LookIsTrue' /\ RecordsAreCached' /\ SinceHasNow' /\ RecordsAreOfThisScan'
  BY <1>1 DEF LookIsTrue, ReadingRecord, RecordsAreCached, SinceHasNow, RecordsAreOfThisScan, Nothing
<1> QED
  BY <1>2, <1>3, <1>4, <1>5, <1>6 DEF IInv

\* A step between two others that takes no record and caches none.
LEMMA MovesOnKeeps ==
  ASSUME IInv, UNCHANGED <<file, clock, since, blurred, cache, records>>,
         pc' \in {"idle", "listing"} \/ (pc' = pc /\ at' = at), pc' # "idle" => pc # "idle",
         todo' \subseteq Paths, at' \in {at, Nowhere}
  PROVE  IInv'
<1>1. FilesOK'
  BY DEF IInv, FilesOK
<1>2. ScannerOK'
  <2>1. Nowhere \in [path : Paths \cup {NotCached}, stamp : Nat, payload : Payloads] /\ Nowhere.stamp = 0
    BY ScannerAssumption DEF Nowhere
  <2>2. at \in [path : Paths \cup {NotCached}, stamp : Nat, payload : Payloads] /\ clock \in Nat
    BY DEF IInv, ScannerOK, FilesOK
  <2> QED
    BY <2>1, <2>2 DEF IInv, ScannerOK, ReadingRecord, Stamped
<1>3. LookIsTrue'
  BY DEF IInv, LookIsTrue, ReadingRecord
<1>4. RecordsAreCached'
  BY DEF IInv, RecordsAreCached
<1> QED
  BY <1>1, <1>2, <1>3, <1>4 DEF IInv, CachedAsStamped, SinceHasNow, RecordsAreOfThisScan

LEMMA ListBatchKeeps == IInv /\ ListBatch => IInv'
<1> SUFFICES ASSUME IInv, ListBatch PROVE IInv'
  OBVIOUS
<1>1. todo' \subseteq Paths
  BY DEF ListBatch, Listed
<1> QED
  BY <1>1, MovesOnKeeps DEF ListBatch, environment

\* A file whose stamp is cached holds what is cached now, and so within this scan.
LEMMA LstatBeforeKeeps == IInv /\ LstatBefore => IInv'
<1> SUFFICES ASSUME IInv, LstatBefore PROVE IInv'
  OBVIOUS
<1>1. pc = "listing" /\ UNCHANGED <<file, clock, since, blurred>>
  BY DEF LstatBefore, environment
<1>2. FilesOK /\ ScannerOK
  BY DEF IInv
<1>3. PICK p \in todo :
        /\ todo' = todo \ {p}
        /\ IF TooLate(p) THEN Skips
           ELSE IF Hit(p) THEN Took(p, cache[p].payload) /\ UNCHANGED <<cache, pc, at>>
           ELSE /\ at' = [path |-> p, stamp |-> file[p].stamp, payload |-> Torn]
                /\ pc' = "ReadFile"
                /\ UNCHANGED <<cache, records>>
  BY DEF LstatBefore
<1>4. p \in Paths /\ todo' \subseteq Paths
  BY <1>2, <1>3 DEF ScannerOK
<1>5. CASE TooLate(p)
  BY <1>1, <1>3, <1>4, <1>5, MovesOnKeeps DEF Skips
<1> USE <1>1, <1>2, <1>3, <1>4
<1>6. ~TooLate(p) => file[p].form \in Regular /\ file[p].payload \in since[p]
  BY DEF TooLate, Regular, IInv, SinceHasNow, Has, FilesOK
<1>f. FilesOK'
  BY DEF FilesOK
<1>7. CASE ~TooLate(p) /\ Hit(p)
  <2>1. records' = [records EXCEPT ![p] = cache[p].payload] /\ UNCHANGED <<cache, pc, at>>
    BY <1>7 DEF Took
  <2>2. /\ cache[p] \in Stamped
        /\ cache[p].payload = file[p].payload \/ Blurred(p, cache[p].stamp)
    BY <1>7 DEF Hit, IInv, CachedAsStamped, ScannerOK
  <2>3. /\ cache[p].payload \in Payloads
        /\ cache[p].payload \in since[p] \/ Blurred(p, cache[p].stamp)
    BY <1>6, <1>7, <2>2 DEF Stamped
  <2>4. ScannerOK'
    BY <2>1, <2>3 DEF ScannerOK, ReadingRecord, Stamped
  <2>5. RecordsAreCached' /\ RecordsAreOfThisScan'
    BY <2>1, <2>3 DEF IInv, RecordsAreCached, RecordsAreOfThisScan, ScannerOK
  <2>6. CachedAsStamped' /\ LookIsTrue' /\ SinceHasNow'
    BY <2>1 DEF IInv, CachedAsStamped, LookIsTrue, ReadingRecord, SinceHasNow
  <2> QED
    BY <1>f, <2>4, <2>5, <2>6 DEF IInv
<1>8. CASE ~TooLate(p) /\ ~Hit(p)
  <2>1. /\ at' = [path |-> p, stamp |-> file[p].stamp, payload |-> Torn] /\ pc' = "ReadFile"
        /\ UNCHANGED <<cache, records>>
    BY <1>8
  <2>2. ScannerOK'
    BY <2>1, ScannerAssumption DEF ScannerOK, ReadingRecord, FilesOK, Stamped
  <2>3. LookIsTrue'
    BY <1>6, <1>8, <2>1 DEF LookIsTrue, ReadingRecord
  <2>4. CachedAsStamped' /\ RecordsAreCached' /\ SinceHasNow' /\ RecordsAreOfThisScan'
    BY <2>1 DEF IInv, CachedAsStamped, RecordsAreCached, SinceHasNow, RecordsAreOfThisScan
  <2> QED
    BY <1>f, <2>2, <2>3, <2>4 DEF IInv
<1> QED
  BY <1>5, <1>7, <1>8

LEMMA ReadFileKeeps == IInv /\ ReadFile => IInv'
<1> SUFFICES ASSUME IInv, ReadFile PROVE IInv'
  OBVIOUS
<1>1. pc = "ReadFile" /\ UNCHANGED <<file, clock, since, todo, blurred>>
  BY DEF ReadFile, environment
<1>2. FilesOK /\ ScannerOK
  BY DEF IInv
<1>3. CASE Skips
  BY <1>1, <1>2, <1>3, MovesOnKeeps DEF Skips, ScannerOK
<1>4. CASE /\ at' = [at EXCEPT !.payload = file[at.path].payload] /\ pc' = "LstatAgain"
           /\ UNCHANGED <<cache, records>>
  <2>1. at.path \in Paths /\ file[at.path].payload \in Payloads
    BY <1>1, <1>2 DEF ScannerOK, ReadingRecord, FilesOK
  <2>2. at' \in [path : Paths \cup {NotCached}, stamp : Nat, payload : Payloads]
        /\ at'.path = at.path /\ at'.stamp = at.stamp /\ at'.payload = file[at.path].payload
    BY <1>2, <1>4, <2>1 DEF ScannerOK
  <2>3. ScannerOK'
    BY <1>1, <1>2, <1>4, <2>1, <2>2 DEF ScannerOK, ReadingRecord, Stamped
  <2>4. LookIsTrue'
    BY <1>1, <1>4, <2>2 DEF IInv, LookIsTrue, ReadingRecord
  <2>5. FilesOK'
    BY <1>1, <1>2 DEF FilesOK
  <2> QED
    BY <1>1, <1>4, <2>3, <2>4, <2>5
       DEF IInv, CachedAsStamped, RecordsAreCached, SinceHasNow, RecordsAreOfThisScan
<1> QED
  BY <1>3, <1>4 DEF ReadFile

\* What was read is stored only if nothing was written between the looks.
LEMMA LstatAfterKeeps == IInv /\ LstatAfter => IInv'
<1> SUFFICES ASSUME IInv, LstatAfter PROVE IInv'
  OBVIOUS
<1>1. pc = "LstatAgain" /\ UNCHANGED <<file, clock, since, todo, blurred>>
  BY DEF LstatAfter, environment
<1>2. FilesOK /\ ScannerOK
  BY DEF IInv
<1>3. CASE Skips
  BY <1>1, <1>2, <1>3, MovesOnKeeps DEF Skips, ScannerOK
<1>4. CASE ~Skips
  <2> DEFINE p == at.path
             entry == [stamp |-> at.stamp, payload |-> at.payload]
  <2>1. /\ file[p].stamp = at.stamp /\ pc' = "listing" /\ at' = Nowhere
        /\ records' = [records EXCEPT ![p] = at.payload]
        /\ cache' = [cache EXCEPT ![p] = entry]
    BY <1>4 DEF LstatAfter, SameAgain, Took
  <2>2. p \in Paths /\ at.payload \in Payloads /\ at.stamp \in Nat /\ at.stamp <= clock
    BY <1>1, <1>2 DEF ScannerOK, ReadingRecord
  <2>3. file[p].form \in Regular /\ (file[p].payload = at.payload \/ Blurred(p, at.stamp))
    BY <1>1, <2>1 DEF IInv, LookIsTrue, ReadingRecord
  <2>4. at.payload \in since[p] \/ Blurred(p, at.stamp)
    BY <1>1, <2>2, <2>3 DEF IInv, SinceHasNow, Has, Regular
  <2>5. entry \in Stamped /\ entry.stamp = at.stamp /\ entry.payload = at.payload
    BY <2>2 DEF Stamped
  <2> HIDE DEF entry, p
  <2>6. ScannerOK'
    <3>1. Nowhere \in [path : Paths \cup {NotCached}, stamp : Nat, payload : Payloads]
          /\ Nowhere.stamp = 0 /\ clock \in Nat
      BY <1>2, ScannerAssumption DEF Nowhere, FilesOK
    <3> QED
      BY <1>1, <1>2, <2>1, <2>2, <2>5, <3>1 DEF ScannerOK, ReadingRecord
  <2>7. CachedAsStamped'
    BY <1>1, <1>2, <2>1, <2>2, <2>3, <2>5 DEF IInv, CachedAsStamped, ScannerOK
  <2>8. RecordsAreCached' /\ RecordsAreOfThisScan'
    BY <1>1, <1>2, <2>1, <2>2, <2>4, <2>5
       DEF IInv, RecordsAreCached, RecordsAreOfThisScan, ScannerOK
  <2>9. LookIsTrue' /\ SinceHasNow' /\ FilesOK'
    BY <1>1, <1>2, <2>1 DEF IInv, LookIsTrue, ReadingRecord, SinceHasNow, FilesOK
  <2> QED
    BY <1>1, <2>6, <2>7, <2>8, <2>9 DEF IInv
<1> QED
  BY <1>3, <1>4

LEMMA EndRecordsKeeps == IInv /\ EndRecords => IInv'
<1> SUFFICES ASSUME IInv, EndRecords PROVE IInv'
  OBVIOUS
<1>1. /\ pc = "listing" /\ pc' = "normalizing"
      /\ cache' = [p \in Paths |-> IF records[p] = NotCached THEN NotCached ELSE cache[p]]
      /\ UNCHANGED <<todo, at, records, since, file, clock, blurred>>
  BY DEF EndRecords, Pruned, environment
<1>2. FilesOK'
  BY <1>1 DEF IInv, FilesOK
<1>3. ScannerOK'
  BY <1>1 DEF IInv, ScannerOK, ReadingRecord, Stamped
<1>4. CachedAsStamped'
  BY <1>1 DEF IInv, CachedAsStamped
<1>5. LookIsTrue' /\ RecordsAreCached' /\ SinceHasNow' /\ RecordsAreOfThisScan'
  BY <1>1 DEF IInv, LookIsTrue, ReadingRecord, RecordsAreCached, SinceHasNow, RecordsAreOfThisScan
<1> QED
  BY <1>1, <1>2, <1>3, <1>4, <1>5 DEF IInv

LEMMA PublishKeeps == IInv /\ Publish => IInv'
<1> SUFFICES ASSUME IInv, Publish PROVE IInv'
  OBVIOUS
<1>1. todo \subseteq Paths
  BY DEF IInv, ScannerOK
<1> QED
  BY <1>1, MovesOnKeeps DEF Publish, environment

LEMMA NextIInv == IInv /\ [Next]_vars => IInv'
<1> SUFFICES ASSUME IInv, [Next]_vars PROVE IInv'
  OBVIOUS
<1>1. CASE UNCHANGED vars
  <2>1. UNCHANGED <<file, since, clock, blurred>> /\ UNCHANGED scan
    BY <1>1 DEF vars, scan
  <2> QED
    BY <2>1, FilesAloneKeep
<1> QED
  BY <1>1, AgentsKeep, BeginKeeps, ListBatchKeeps, LstatBeforeKeeps, ReadFileKeeps, LstatAfterKeeps,
     EndRecordsKeeps, PublishKeeps DEF Next, Scan

LEMMA Invariance == Spec => []IInv
BY InitIInv, NextIInv, PTL DEF Spec

-----------------------------------------------------------------------------
\* readRecord looks before and after it reads: for any files and whatever is written
\* between any two of its steps, a payload is never cached under the stamp of another, if
\* no file is rewritten with the size and mtime it has; and pruneCache leaves the records
\* just returned and no others.
THEOREM CacheTrue == Spec => []CacheIsTrue
<1>1. IInv => CacheIsTrue
  BY DEF IInv, CachedAsStamped, RecordsAreCached, CacheIsTrue
<1> QED
  BY <1>1, Invariance, PTL

\* No scan returns a record that its file did not hold during that scan, from the cache
\* or read while it was written, or through a link that took its place; with the same
\* exception.
THEOREM RecordsOfThisScan == Spec => []RecordsAreOfThisScan
<1>1. IInv => RecordsAreOfThisScan
  BY DEF IInv
<1> QED
  BY <1>1, Invariance, PTL
=============================================================================
