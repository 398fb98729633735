---------------------------- MODULE MCRendezvous ----------------------------
EXTENDS Rendezvous, TLC

CONSTANTS v1, v2

\* One viewer may ask again, the other one asks once.
MCAttempts == v1 :> 2 @@ v2 :> 1
=============================================================================
