--------------------------- MODULE MCRemoteBuilders ---------------------------
(* Two workers; one tick stands for ten minutes (1800 s of hold, 40 and 45 *)
(* minutes of job time), rounded so that the order of the limits is kept.  *)
EXTENDS RemoteBuilders
=============================================================================
