--------------------------- MODULE MCCameraSystem ---------------------------
(* A small instance of CameraSystem for TLC. *)
EXTENDS CameraSystem

\* Equal time stamps: pairs are shown without a pause.
SmallTimes == {0}

\* Automatic viewing, which changes between both branches of display() with
\* the arrivals; the user chooses the camera mode Movie.
OneClick == {<<1, 1>>}
=============================================================================
