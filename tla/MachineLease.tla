---------------------------- MODULE MachineLease ----------------------------
(***************************************************************************)
(* What a persistent machine promises the suites that name it (F2): one    *)
(* guest session at a time.  A session opens on a machine nobody uses and  *)
(* ends before the next one opens, a takeover included.                    *)
(***************************************************************************)
CONSTANTS Backends, NoOne
VARIABLE user     \* the backend whose guest is up, or NoOne

Init == user = NoOne

Open(b) == user = NoOne /\ user' = b
Close == user' = NoOne

Next == Close \/ \E b \in Backends : Open(b)

Spec == Init /\ [][Next]_user
=============================================================================
