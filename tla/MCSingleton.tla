---------------------------- MODULE MCSingleton ----------------------------
(* Instances of Singleton for TLC. *)
EXTENDS Singleton

CONSTANTS o1, o2, c1, c2, h1

MCRank == [o \in Objects |-> IF o = o1 THEN 1 ELSE 2]

\* Each resource has a connection object of its own.
MCConnOf == [o \in Objects |-> IF o = o1 \/ c2 \notin Conns THEN c1 ELSE c2]

\* All connections lead to one instance.
MCOneUrl == [c \in Conns |-> {h1}]

MCNoEdit == [k \in AllKinds |-> 1]

\* Two edits, so that the first can be put back, one where a reconcile takes more
\* steps.
MCEdits ==
  [k \in AllKinds |-> IF k \in {"GCSchedule", "ScanAllSchedule"} THEN 3 ELSE 2]

MCNoDisturbance == [k \in AllKinds |-> 0]

\* Two disturbances where the hash decides, one where a reconcile takes more steps.
MCDisturbances == [k \in AllKinds |-> IF k = "GCSchedule" THEN 2 ELSE 1]

=============================================================================
