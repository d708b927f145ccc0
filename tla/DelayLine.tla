------------------------------ MODULE DelayLine ------------------------------
(***************************************************************************)
(* What DelayedNetworkSocketListener promises: messages leave in the order *)
(* of send(), and the n-th one no sooner than the delays of n messages     *)
(* have passed.  (The timer event that fires and the message it releases   *)
(* are not paired, so that with a delay that was lowered a message may     *)
(* leave on the event of a later one.)                                     *)
(***************************************************************************)
EXTENDS Naturals, Sequences, FiniteSets

CONSTANT Delays   \* in milliseconds

VARIABLES
    due,          \* per accepted message, the milliseconds it has to wait
    gone          \* the numbers of the messages that left

Overdue == {i \in 1 .. Len(due) : due[i] = 0}

Init == due = << >> /\ gone = << >>

Accept ==
    /\ \E delay \in Delays : due' = Append(due, delay)
    /\ UNCHANGED gone

\* A millisecond passes.
Pass ==
    /\ due' = [i \in 1 .. Len(due) |-> IF due[i] = 0 THEN 0 ELSE due[i] - 1]
    /\ UNCHANGED gone

Leave ==
    /\ Len(gone) < Cardinality(Overdue)
    /\ gone' = Append(gone, Len(gone) + 1)
    /\ UNCHANGED due

Spec == Init /\ [][Accept \/ Pass \/ Leave]_<< due, gone >>
=============================================================================
