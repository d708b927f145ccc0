---------------------------- MODULE MCTlsSocket -----------------------------
(* An instance of TlsSocket for TLC.                                        *)
EXTENDS TlsSocket

\* Two threads send at the client, one at the server.
TwoAndOne == [e \in Ends |-> IF e = "client" THEN {"s1", "s2"} ELSE {"s1"}]
Messages == [e \in Ends |-> IF e = "client" THEN 2 ELSE 1]
Server == {"server"}
Client == {"client"}
EmptyOrNot == {0, 1}
=============================================================================
