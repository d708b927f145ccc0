---------------------------- MODULE MCEventLoop -----------------------------
(* Instances of EventLoop for TLC.                                          *)
EXTENDS EventLoop, TLC

CONSTANTS w1, w2, c1, c2, l1, l2, f1, f2

TwoWorkers == {w1, w2}
OneCaller == {c1}
TwoCallers == {c1, c2}
OneListener == {l1}
TwoListeners == {l1, l2}
OneFd == {f1}
TwoFds == {f1, f2}
NoListeners == {}
AllCalls == {"close", "mode", "send", "release", "wait"}
DestroyTwice == {"wait", "redestroy"}

\* Threads of one kind and descriptors are interchangeable.
Symmetry == Permutations(Workers) \cup Permutations(Callers)
             \cup Permutations(Fds)
=============================================================================
