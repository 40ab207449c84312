------------------------ MODULE MCPersistentMachine -------------------------
(* Instances of PersistentMachine for TLC: how backends lie in processes.  *)
EXTENDS PersistentMachine

CONSTANTS p1, p2, b1, b2, b3, b4

TwoProcesses == [b \in Backends |-> IF b \in {b3, b4} THEN p2 ELSE p1]
=============================================================================
