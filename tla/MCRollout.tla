------------------------------ MODULE MCRollout ------------------------------
(* Small instances of Rollout: two writers that contend for one session.   *)
EXTENDS Rollout

CONSTANTS w1, w2

MCWriters == {w1, w2}
=============================================================================
