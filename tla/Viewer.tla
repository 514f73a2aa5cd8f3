------------------------------- MODULE Viewer -------------------------------
(***************************************************************************)
(* The Java client from socket to screen: the two ClientThreads with their *)
(* frame buffers, the monitor (module Monitor), and the SwingWorkers that  *)
(* prepare and paint the images display() hands to viewImage.              *)
(*                                                                         *)
(* A ClientThread reads every frame into the same array, imageBytes, and   *)
(* gives that array to addImage, which queues it without a copy.  What a   *)
(* SwingWorker finds in it is what the ClientThread has read by then.      *)
(***************************************************************************)
EXTENDS Monitor

VARIABLES
  client,      \* where each ClientThread is in its loop
  imageBytes,  \* the frame number whose bytes fill the array; Torn in between
  asked,       \* the mode letter last sent to each camera
  jobs,        \* SwingWorkers executed and not yet painted
  shown,       \* frame number last painted on each panel
  painted,     \* history: frame numbers painted on it
  overlapped   \* history: it has had two workers at one time

clientVars == <<client, imageBytes, asked>>
paintVars  == <<jobs, shown, painted, overlapped>>
viewerVars == <<monitorVars, clientVars, paintVars>>

Torn   == -1
Unread == -2

\* A worker's camera, the frame meant for it and the one it found.
Jobs == [camera : Cameras, nr : 1..FrameLimit, content : Unread..FrameLimit]

ViewerInit ==
  /\ MonitorInit
  /\ client = [c \in Cameras |-> "frame"]
  /\ imageBytes = [c \in Cameras |-> 0]
  /\ asked = [c \in Cameras |-> "A"]
  /\ jobs = {}
  /\ shown = [c \in Cameras |-> 0]
  /\ painted = [c \in Cameras |-> {}]
  /\ overlapped = [c \in Cameras |-> FALSE]
---------------------------------------------------------------------------
(* ClientThread.run *)

\* The next frame's bytes begin to arrive, and are stored over the last one's.
BeginFrame(c) ==
  /\ client[c] = "frame"
  /\ added[c] < FrameLimit
  /\ client' = [client EXCEPT ![c] = "bytes"]
  /\ imageBytes' = [imageBytes EXCEPT ![c] = Torn]
  /\ UNCHANGED <<monitorVars, asked, paintVars>>

EndFrame(c) ==
  /\ client[c] = "bytes"
  /\ client' = [client EXCEPT ![c] = "add"]
  /\ imageBytes' = [imageBytes EXCEPT ![c] = added[c] + 1]
  /\ UNCHANGED <<monitorVars, asked, paintVars>>

\* addImage, with the motion word that came before the frame.
AddFrame(c, motion) ==
  /\ client[c] = "add"
  /\ \E ts \in Times, recent \in BOOLEAN : AddImage(c, ts, recent, motion)
  /\ client' = [client EXCEPT ![c] = "reply"]
  /\ UNCHANGED <<imageBytes, asked, paintVars>>

\* framesRate() reads the mode the user wants, println sends it.
Reply(c) ==
  /\ client[c] = "reply"
  /\ asked' = [asked EXCEPT ![c] = FramesRate]
  /\ client' = [client EXCEPT ![c] = "frame"]
  /\ UNCHANGED <<monitorVars, imageBytes, paintVars>>

ClientThread(c) ==
  \/ BeginFrame(c) \/ EndFrame(c) \/ Reply(c)
  \/ \E motion \in BOOLEAN : AddFrame(c, motion)
---------------------------------------------------------------------------
(* viewImage *)

\* Mutant: whatever is taken, both first images are given to workers.
ExecutedForBoth ==
  {[camera |-> c, nr |-> Head(imageList[c]).nr, content |-> Unread] :
     c \in {d \in Cameras : HasImage(d)}}

\* sw.execute() for each image that leaves its list in this step.
Executed ==
  {[camera |-> c, nr |-> Head(imageList[c]).nr, content |-> Unread] :
     c \in {d \in Cameras : taken'[d] # taken[d]}}

DisplayThread ==
  /\ Display
  /\ jobs' = jobs \cup Executed
  /\ overlapped' = [c \in Cameras |->
       overlapped[c] \/ \E j, k \in jobs' : j # k /\ j.camera = c /\ k.camera = c]
  /\ UNCHANGED <<clientVars, shown, painted>>

\* Mutant: the worker of one camera reads the array of the other.
PrepareOther(j) ==
  /\ j \in jobs /\ j.content = Unread
  /\ jobs' = (jobs \ {j}) \cup {[j EXCEPT !.content = imageBytes[Other(j.camera)]]}
  /\ UNCHANGED <<monitorVars, clientVars, shown, painted, overlapped>>

\* doInBackground on a worker thread: the array as it now is becomes an image.
\* The toolkit may decode it later (ImagePanel.java:28): if it does, it finds
\* these bytes or newer ones, as if the worker had come to it later.
Prepare(j) ==
  /\ j \in jobs /\ j.content = Unread
  /\ jobs' = (jobs \ {j}) \cup {[j EXCEPT !.content = imageBytes[j.camera]]}
  /\ UNCHANGED <<monitorVars, clientVars, shown, painted, overlapped>>

\* done() on the event thread, in whatever order the workers finished.
Paint(j) ==
  /\ j \in jobs /\ j.content # Unread
  /\ shown' = [shown EXCEPT ![j.camera] = j.nr]
  /\ painted' = [painted EXCEPT ![j.camera] = @ \cup {j.nr}]
  /\ jobs' = jobs \ {j}
  /\ UNCHANGED <<monitorVars, clientVars, overlapped>>

Environment ==
  /\ ButtonClick \/ TimePasses \/ SpuriousWakeup
  /\ UNCHANGED <<clientVars, paintVars>>

ViewerNext ==
  \/ \E c \in Cameras : ClientThread(c)
  \/ DisplayThread
  \/ \E j \in jobs : Prepare(j) \/ Paint(j)
  \/ Environment

ViewerSpec == ViewerInit /\ [][ViewerNext]_viewerVars
---------------------------------------------------------------------------
(* Properties *)

\* Type invariant.
ViewerTypeOK ==
  /\ MonitorTypeOK
  /\ client \in [Cameras -> {"frame", "bytes", "add", "reply"}]
  /\ imageBytes \in [Cameras -> Torn..FrameLimit]
  /\ asked \in [Cameras -> {"I", "A", "M"}]
  /\ jobs \subseteq Jobs
  /\ shown \in [Cameras -> 0..FrameLimit]
  /\ painted \in [Cameras -> SUBSET (1..FrameLimit)]
  /\ overlapped \in [Cameras -> BOOLEAN]

\* Though queued images share one array that is overwritten, a worker finds the
\* frame it was meant to paint, a later one of that camera, or a mixture while
\* one arrives: never a frame older than the one it was made for.
NeverOlderThanMeant ==
  \A j \in jobs : j.content \notin {Unread, Torn} =>
     /\ j.content >= j.nr
     /\ j.content <= added[j.camera] + 1

\* Every frame a list gave up is with exactly one worker or was painted:
\* display starts one worker for each, whichever of its branches took it.
TakenFramesHaveWorkers ==
  \A c \in Cameras :
     LET pending == {j.nr : j \in {k \in jobs : k.camera = c}}
     IN  /\ painted[c] \cup pending = 1..taken[c]
         /\ painted[c] \cap pending = {}
         /\ \A j, k \in jobs : j.camera = c /\ k.camera = c /\ j.nr = k.nr => j = k

\* "images from the same camera displayed in order" (monitor.java:158), as far
\* as it goes: a panel goes back to an older frame only if a worker was still
\* at work on that frame when display started one on the next.
InOrderUnlessOverlapped ==
  \A c \in Cameras : ~ overlapped[c] => \A n \in painted[c] : n <= shown[c]

\* The comment in addImage: "store the image into the list".  A queued image
\* still has the bytes of the frame that was stored.
StoredImageKept ==
  \A c \in Cameras : \A i \in DOMAIN imageList[c] :
     imageBytes[c] = imageList[c][i].nr
===========================================================================
