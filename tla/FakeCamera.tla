----------------------------- MODULE FakeCamera -----------------------------
(***************************************************************************)
(* fakecapture.c and camera.c: a film of numbered files in place of a      *)
(* camera, and, in builds without NO_FAKE_MOTION, notifications to the     *)
(* motion server when the film reaches certain frames.  The source defines *)
(* NO_FAKE_MOTION (fakecapture.c:22), so that a build of it as it stands   *)
(* is the one with fakeMotion FALSE.                                       *)
(*                                                                         *)
(* The caller uses what it gets without a test: without memory, without    *)
(* localhost, or without a frame the process dies of a null pointer.       *)
(***************************************************************************)
EXTENDS ServerSockets, CameraModes, FiniteSets

CONSTANTS
  StartFrame,    \* START_FRAME (6): first film frame shown
  NumFrames,     \* NUM_FRAMES (247): last one
  NotifyEvery,   \* one in this many frames of the motion part is notified (5)
  Sizes          \* sizes of the films' files, at most FRAME_BUF_SZ

ASSUME FilmAssumption ==
  StartFrame \in Nat /\ NumFrames \in Nat /\ StartFrame <= NumFrames
ASSUME NotifyAssumption == NotifyEvery \in Nat \ {0}
ASSUME SizesAssumption == Sizes \subseteq Nat

NoFrame == [nr |-> 0, sz |-> 0]

VARIABLES
  fakeMotion,   \* the build has fake motion
  cam,          \* the camera and its stream: "none", "open" or "closed"
  frame_nr,     \* the stream's next film frame
  frame,        \* what camera_get_frame returned
  motionfd,
  captures,     \* history: calls of capture_get_frame
  failures      \* history: notifications whose connect failed

motionVars == <<fakeMotion, motionfd, failures>>
filmVars   == <<cam, frame_nr, frame, captures>>
cameraVars == <<step, socketVars, motionVars, filmVars>>

CameraInit ==
  /\ SocketsInit
  /\ fakeMotion \in BOOLEAN
  /\ cam = "none"
  /\ frame_nr = StartFrame
  /\ frame = NoFrame
  /\ motionfd = 0
  /\ captures = 0
  /\ failures = 0

\* The socket made in fake_motion_init, or -1, which is not looked at.
MotionSocket(n) == n \in Numbers \cup {-1} /\ Allocates(open, n)

Opened(n) == open \cup ({n} \ {-1})

\* camera_open, capture_open_stream; malloc or gethostbyname may fail.
OpenCamera ==
  /\ \/ Goes("openCamera", "capture") \/ Goes("openCamera", "gone")
  /\ cam' = "open"
  /\ IF fakeMotion
     THEN \E n \in Numbers \cup {-1} :
             MotionSocket(n) /\ motionfd' = n /\ open' = Opened(n)
     ELSE UNCHANGED <<motionfd, open>>
  /\ UNCHANGED <<fd, clientfd, fakeMotion, failures, frame_nr, frame, captures>>

\* Mutants: the film starts over one frame early, or never.
NextFilmFrameEarly(n) == IF n + 1 >= NumFrames THEN StartFrame ELSE n + 1
NextFilmFrameOn(n) == n + 1

NextFilmFrame(n) == IF n + 1 > NumFrames THEN StartFrame ELSE n + 1

\* fake_motion_detect, given the number of the frame that comes next.
Notifies(n) == fakeMotion /\ InMotion(n) /\ n % NotifyEvery = 0

\* Mutant: the socket stays open after the message was written, too.
NotifyKeepingSocket ==
  \E n \in Numbers \cup {-1}, connects \in BOOLEAN :
     /\ MotionSocket(n)
     /\ motionfd' = n
     /\ connects => n # -1
     /\ open' = Opened(n)
     /\ failures' = IF connects THEN failures ELSE failures + 1

\* fake_motion_notify makes a new socket each time, and closes it after the
\* message was written, but not when connect failed.
Notify ==
  \E n \in Numbers \cup {-1}, connects \in BOOLEAN :
     /\ MotionSocket(n)
     /\ motionfd' = n
     /\ connects => n # -1
     /\ open' = IF connects THEN open ELSE Opened(n)
     /\ failures' = IF connects THEN failures ELSE failures + 1

\* camera_get_frame, capture_get_frame: the file's descriptor is closed before
\* the notification, which is made though read failed, but not if open did.
CaptureFrame ==
  /\ Goes("capture", "send")
  /\ frame_nr' = NextFilmFrame(frame_nr)
  /\ captures' = captures + 1
  /\ \/ /\ ~ Numbers \subseteq open
        /\ \/ \E sz \in Sizes : frame' = [nr |-> frame_nr, sz |-> sz]
           \/ frame' = NoFrame
        /\ IF Notifies(frame_nr') THEN Notify ELSE UNCHANGED <<open, motionfd, failures>>
     \/ frame' = NoFrame /\ UNCHANGED <<open, motionfd, failures>>
  /\ UNCHANGED <<fd, clientfd, fakeMotion, cam>>

\* camera_close, capture_close_stream, fake_motion_free: closes motionfd
\* whether or not it was closed before.
CloseCamera ==
  /\ cam = "open"
  /\ cam' = "closed"
  /\ IF fakeMotion
     THEN motionfd' = -1 /\ open' = open \ {motionfd}
     ELSE UNCHANGED <<motionfd, open>>
  /\ UNCHANGED <<step, fd, clientfd, fakeMotion, failures, frame_nr, frame, captures>>
---------------------------------------------------------------------------
(* Properties *)

\* Turn after turn the camera shows the film's frames in their order, from
\* START_FRAME to NUM_FRAMES and again, none skipped where it starts over.
FilmInOrder ==
  frame # NoFrame =>
    frame.nr = StartFrame + ((captures - 1) % (NumFrames - StartFrame + 1))

\* Apart from the first socket, which the first notification replaces, only a
\* notification whose connect failed leaves a descriptor behind: beside the
\* standard streams, the listening and the client socket.
OnlyFailuresLeak == Cardinality(open) <= 6 + failures

\* From accept until closeConnection the client's socket stays open and its
\* own, whatever numbers fake motion opens and closes meanwhile.
ClientSocketKept ==
  clientfd # -1 /\ step # "ended" =>
    {fd, clientfd} \subseteq open /\ fd # clientfd /\ motionfd # clientfd
=============================================================================
