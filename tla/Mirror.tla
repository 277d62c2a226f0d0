-------------------------------- MODULE Mirror --------------------------------
(***************************************************************************)
(* What the observer promises of the session files, whatever the watcher,  *)
(* the cache and the poll do: a mirror that shows for each file a version  *)
(* there has been, never an older one than it ever showed, and does not    *)
(* stay behind for ever while the program runs.  The one exception: of a   *)
(* file that could not be read the last time, it may show nothing.         *)
(***************************************************************************)
EXTENDS Naturals

CONSTANTS Files, MaxVersion

VARIABLES
  real,     \* version of each file on disk
  shown,    \* version of each file in the mirror, 0 for nothing
  best,     \* the highest version of each file shown so far
  unread,   \* files whose last reading failed
  stopped   \* the program was told to end

mirrorVars == <<real, shown, best, unread, stopped>>

Init ==
  /\ real = [f \in Files |-> 0]
  /\ shown = [f \in Files |-> 0] /\ best = [f \in Files |-> 0]
  /\ unread = {}
  /\ stopped = FALSE

Change(f) ==
  /\ real[f] < MaxVersion
  /\ real' = [real EXCEPT ![f] = @ + 1]
  /\ UNCHANGED <<shown, best, unread, stopped>>

\* Readings fail and succeed; nothing that is shown changes with that alone.
Reading ==
  /\ unread' \in SUBSET Files
  /\ UNCHANGED <<real, shown, best, stopped>>

\* Any number of files changes at once; a last picture may come after the end.
Show ==
  /\ \E new \in [Files -> 0 .. MaxVersion] :
       /\ \A f \in Files : \/ best[f] <= new[f] /\ new[f] <= real[f]
                           \/ f \in unread /\ new[f] = 0
       /\ shown' = new
       /\ best' = [f \in Files |-> IF new[f] > best[f] THEN new[f] ELSE best[f]]
  /\ UNCHANGED <<real, unread, stopped>>

Stop ==
  /\ stopped' = TRUE
  /\ UNCHANGED <<real, shown, best, unread>>

Next == (\E f \in Files : Change(f)) \/ Reading \/ Show \/ Stop

Spec == Init /\ [][Next]_mirrorVars

CatchUp(f) == ~stopped /\ Show /\ shown'[f] > shown[f]

CatchesUp == \A f \in Files : WF_mirrorVars(CatchUp(f))

FairSpec == Spec /\ CatchesUp
=============================================================================
