----------------------- MODULE MCNetworkSocketListener ----------------------
(* Instances of NetworkSocketListener for TLC.                              *)
EXTENDS NetworkSocketListener, TLC

CONSTANTS w1, w2, a1, a2

OneWorker == {w1}
TwoWorkers == {w1, w2}
OneApp == {a1}
TwoApps == {a1, a2}
Nobody == {}
WorkerAndApp == {w1, a1}
AllCalls == {"query", "send"}

\* Workers are interchangeable where all or none of them send.
Symmetry == Permutations(Workers)
=============================================================================
