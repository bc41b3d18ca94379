---------------------------- MODULE MCHostAccess ----------------------------
(* Two connections for each of two starts of the host, two users, and a key set
   that changes once while they are checked.  Users are alike, and so are keys:
   the initial file and key set stand for the ones with other names. *)
EXTENDS HostAccess

CONSTANTS u1, u2, c1, c2, k1, k2

MCInit == AccessInit /\ file # Listing({u2}) /\ published # {k2}
MCSpec == MCInit /\ [][AccessNext]_allVars /\ AccessFairness
=============================================================================
