----------------------------- MODULE MCMonitor -----------------------------
(* A small instance of Monitor for TLC. *)
EXTENDS Monitor

\* Equal, older and newer time stamps.
SmallTimes == {0, 1}

\* The six buttons of the GUI.
AllClicks == {0, 1, 2} \X {0, 1}
===========================================================================
