------------------------------- MODULE MCNbio -------------------------------
(* Instances of Nbio: two jobs on one or two namespaces, every kind of     *)
(* journal and every SPOR level.                                           *)
EXTENDS Nbio

Job(n, e) == [ns |-> n, engine |-> e]
Setup(jobs, kinds, nhist, level, logs) ==
  [jobs |-> jobs, kinds |-> kinds, nhist |-> nhist, level |-> level, logs |-> logs, skip |-> FALSE]

OneNamespace ==
  {Setup(<<Job(1, "spdk"), Job(1, "spdk")>>, <<k>>, 2, l, {"iolog", "iotrace"}) :
     k \in Kinds, l \in 0 .. 3}
TwoNamespaces ==
  {Setup(<<Job(1, e), Job(2, "spdk")>>, <<"file", "shm">>, 2, l, {"iolog", "smartlog", "iotrace"}) :
     e \in {"spdk", "libaio"}, l \in {0, 2}}
OtherHistory ==
  {[Setup(<<Job(1, "null")>>, <<k>>, 3, 0, {}) EXCEPT !.skip = s] : k \in Kinds, s \in BOOLEAN}

AllSetups == OneNamespace \cup TwoNamespaces \cup OtherHistory
=============================================================================
