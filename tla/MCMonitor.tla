----------------------------- MODULE MCMonitor -----------------------------
(* Two workers, one replacing the other; three levels of CPU usage with    *)
(* steps of two, two rates; an archive every second round.                 *)
EXTENDS Monitor, TLC

MCRates == {0, 1}
=============================================================================
