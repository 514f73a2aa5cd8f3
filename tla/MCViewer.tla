------------------------------ MODULE MCViewer ------------------------------
(* A small instance of Viewer for TLC. *)
EXTENDS Viewer

\* Equal, older and newer time stamps.
SmallTimes == {0, 1}

\* Automatic viewing, which changes between both branches of display() with
\* the arrivals, until the user chooses the asynchronous one.
OneClick == {<<1, 0>>}
===========================================================================
