------------------------------- MODULE MarkLog -------------------------------
(***************************************************************************)
(* What the store promises about notify_log, whatever becomes of the       *)
(* process and of the tables behind it: a set of marks that only           *)
(* MarkNotifiedBatch adds to and only PruneNotifyLog takes from, the dated *)
(* ones before a cutoff.                                                   *)
(***************************************************************************)
EXTENDS Integers

CONSTANTS
    Ids, Levels, Ends, NoEnd,
    Cutoffs   \* the dates before which marks may be pruned

VARIABLE log

Marks == [id : Ids, level : Levels, end : Ends \cup {NoEnd}]

\* Older versions left marks without dates.
Init == log \subseteq {m \in Marks : m.end = NoEnd}

\* The marks of a batch are written in one transaction.
Mark(batch) == log' = log \cup batch

Prune(cutoff) == log' = {m \in log : m.end = NoEnd \/ m.end >= cutoff}

Next ==
    \/ \E batch \in SUBSET Marks : Mark(batch)
    \/ \E cutoff \in Cutoffs : Prune(cutoff)

Spec == Init /\ [][Next]_log
=============================================================================
