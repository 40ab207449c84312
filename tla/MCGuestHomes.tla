---------------------------- MODULE MCGuestHomes ----------------------------
(* Instances of GuestHomes for TLC: the processes its sessions live in.    *)
EXTENDS GuestHomes

CONSTANTS p1, p2, s1, s2, s3

FirstProcess == [s \in Sessions |-> p1]
=============================================================================
