---------------------------- MODULE MCDashboard ----------------------------
(* Snapshots of two sessions, two batches and the tasks of one; in Even the batches are tied. *)
EXTENDS Dashboard
Row(id, rank, updated) == [id |-> id, rank |-> rank, updated |-> updated]
TaskOf(batch, id, rank) == [id |-> id, rank |-> rank, updated |-> 1, batch |-> batch]
Busy == [sessions |-> {Row(1, 0, 1), Row(2, 1, 1)}, batches |-> {Row(11, 0, 1), Row(12, 9, 1)},
         tasks |-> {TaskOf(11, 21, 0), TaskOf(11, 22, 1), TaskOf(11, 23, 4)}, warnings |-> {Row(31, 0, 1), Row(32, 0, 1)}]
Later == [sessions |-> {Row(1, 9, 2), Row(2, 1, 2)}, batches |-> {Row(11, 1, 2), Row(12, 0, 3)},
          tasks |-> {TaskOf(11, 22, 0)}, warnings |-> {Row(31, 0, 1)}]
Even == [sessions |-> {Row(2, 9, 2)}, batches |-> {Row(11, 1, 3), Row(12, 1, 3)},
         tasks |-> {TaskOf(11, 21, 0), TaskOf(11, 22, 1), TaskOf(12, 23, 0)}, warnings |-> {}]
MCWorlds == {Busy, Later, Even}
MCFilters == {{11, 21, 22}, {2, 23, 32}}
MCHeights == {20, 26}
=============================================================================
