----------------------------- MODULE FrameWire -----------------------------
(***************************************************************************)
(* How a frame crosses the socket, byte by byte: task_send's four writes   *)
(* (size in digits, motion word, image, time) and the four reads of        *)
(* ClientThread.run.  Nothing on the wire marks where a frame begins: the  *)
(* reader finds it only by having counted the bytes of the one before.     *)
(*                                                                         *)
(* A blocking write to a socket takes all bytes or fails; a read returns   *)
(* any part of what has arrived.  The client stays connected, and the      *)
(* turns (module CameraServer) are reduced to their order.  What the       *)
(* motion word says is left to CameraServer, too.                          *)
(***************************************************************************)
EXTENDS FakeCamera, SizeDigits, Sequences

CONSTANTS
  MotionLen, TimeLen,            \* bytes of the other fields: 5, 20
  MaxBytes,                      \* numBytes, the room for an image (33278)
  DefaultSize,                   \* taken for a size that makes no sense (24400)
  Leftovers                      \* what sizeBuffer may hold before its first use

NoTime == 0   \* a number that is no frame's time

ASSUME FieldAssumption == {MotionLen, TimeLen} \subseteq Nat \ {0}
ASSUME RoomAssumption == MaxBytes \in Nat /\ DefaultSize \in 0..MaxBytes
ASSUME LeftoversAssumption == Leftovers \subseteq Buffers

VARIABLES
  sizeBuffer,   \* task_send's
  junk,         \* digits lie behind the time's terminator in timeBuffer
  stream,       \* sent and not yet read: parts of fields, with their lengths
  up,           \* replies sent and not yet read
  field, need,  \* what ClientThread reads, and bytes it waits for
  seen,         \* the number shown by the size bytes it read last
  size,
  timestamp,    \* the frame, counted, whose time was read, or NoTime
  added,        \* images given to the monitor
  own,          \* history: all bytes of the field were sent as that field
  exact,        \* history: so far the image being read is one frame's, whole
  readable      \* history: each size sent could be read back

sendVars == <<sizeBuffer, junk, readable>>
readVars == <<field, need, seen, size, timestamp, added, own, exact>>
wireVars == <<cameraVars, sendVars, stream, up, readVars>>

WireInit ==
  /\ CameraInit
  /\ sizeBuffer \in Leftovers
  /\ junk \in BOOLEAN          \* uninitialised stack bytes
  /\ stream = <<>>
  /\ up = 0
  /\ field = "size" /\ need = SizeLen
  /\ seen = 0 /\ size = 0 /\ timestamp = 0
  /\ added = 0
  /\ own = TRUE /\ exact = TRUE
  /\ readable = TRUE
---------------------------------------------------------------------------
\* "Check size to make sure it's resonable"
Accepted(n) == IF n > MaxBytes THEN DefaultSize ELSE n
---------------------------------------------------------------------------
(* The sending side *)

Part(name, len, shows) == [part |-> name, len |-> len, shows |-> shows]

\* Mutant: only the digits of the size are written.
MessageOfDigits(buffer, sz, time) ==
  <<Part("size", NumDigits(sz), Parsed(buffer)), Part("motion", MotionLen, 0)>>
    \o (IF sz = 0 THEN <<>> ELSE <<Part("image", sz, 0)>>)
    \o <<Part("time", TimeLen, time)>>

\* The four calls of do_serve.
Message(buffer, sz, time) ==
  <<Part("size", SizeLen, Parsed(buffer)), Part("motion", MotionLen, 0)>>
    \o (IF sz = 0 THEN <<>> ELSE <<Part("image", sz, 0)>>)
    \o <<Part("time", TimeLen, time)>>

\* Writes to descriptor -1 fail and are not noticed.
SendFrame ==
  /\ Goes("send", "recv")
  /\ frame # NoFrame
  /\ sizeBuffer' = Printed(sizeBuffer, frame.sz)
  /\ readable' = (readable /\ Parsed(sizeBuffer') = frame.sz /\ frame.sz <= MaxBytes)
  /\ stream' = IF clientfd = -1 THEN stream ELSE stream \o Message(sizeBuffer', frame.sz, captures)
  /\ UNCHANGED <<socketVars, motionVars, filmVars, junk, up, readVars>>

\* get_frame_size reads through the null pointer.
SendDies ==
  /\ Goes("send", "gone")
  /\ frame = NoFrame
  /\ UNCHANGED <<socketVars, motionVars, filmVars, sendVars, stream, up, readVars>>

\* The receive and motion turns; read() fails on descriptor -1.
TakeReply ==
  /\ \/ captures < Count /\ Goes("recv", "capture")
     \/ captures >= Count /\ Goes("recv", "join")
  /\ \/ clientfd = -1 /\ UNCHANGED up
     \/ clientfd # -1 /\ up > 0 /\ up' = up - 1
  /\ UNCHANGED <<socketVars, motionVars, filmVars, sendVars, stream, readVars>>

\* The sending thread leaves its loop after its last frame.
CameraCloses ==
  /\ captures = Count /\ step \in {"recv", "join"}
  /\ CloseCamera

\* main joins the threads and closes the connection.
Finishes ==
  /\ cam = "closed"
  /\ CloseConnection
  /\ UNCHANGED <<motionVars, filmVars>>

CameraStep ==
  /\ \/ GetConnection1 /\ UNCHANGED <<motionVars, filmVars>>
     \/ OpenCamera \/ CaptureFrame \/ CameraCloses \/ Finishes
  /\ UNCHANGED <<sendVars, stream, up, readVars>>

Server == CameraStep \/ SendFrame \/ SendDies \/ TakeReply

\* accept returns when a client connects.
ClientConnects ==
  /\ GetConnection2
  /\ UNCHANGED <<motionVars, filmVars, sendVars, stream, up, readVars>>
---------------------------------------------------------------------------
(* The receiving side *)

ReadsNext(name, len) == field' = name /\ need' = len /\ own' = TRUE

\* One call of read: some of the bytes that have arrived.
ReadBytes ==
  /\ need > 0 /\ stream # <<>> /\ field # "broken"
  /\ LET head == Head(stream)
     IN  \E k \in 1..(IF need < head.len THEN need ELSE head.len) :
           /\ stream' = IF k = head.len THEN Tail(stream)
                        ELSE <<[head EXCEPT !.len = @ - k]>> \o Tail(stream)
           /\ need' = need - k
           /\ own' = (own /\ head.part = field)
           /\ seen' = head.shows
  /\ UNCHANGED <<cameraVars, sendVars, up, field, size, timestamp, added, exact>>

\* Bytes that were not sent as a size may read as any number, or as none.
EndSize ==
  /\ field = "size" /\ need = 0
  /\ size' \in IF own THEN {Accepted(seen)} ELSE 0..MaxBytes
  /\ exact' = own
  /\ ReadsNext("motion", MotionLen)
  /\ UNCHANGED <<cameraVars, sendVars, stream, up, seen, timestamp, added>>

EndMotion ==
  /\ field = "motion" /\ need = 0
  /\ exact' = (exact /\ own)
  /\ ReadsNext("image", size)
  /\ UNCHANGED <<cameraVars, sendVars, stream, up, seen, size, timestamp, added>>

EndImage ==
  /\ field = "image" /\ need = 0
  /\ exact' = (exact /\ own /\ (stream = <<>> \/ Head(stream).part # "image"))
  /\ ReadsNext("time", TimeLen)
  /\ UNCHANGED <<cameraVars, sendVars, stream, up, seen, size, timestamp, added>>

\* The time as parsed.  Digits behind the terminator spoil it; bytes that were
\* not sent as a time are another number or none, and without one the last
\* time is divided by a million once more.
EndTime ==
  /\ field = "time" /\ need = 0
  /\ timestamp' = IF own /\ ~ junk THEN seen ELSE NoTime
  /\ exact' = (exact /\ own)
  /\ ReadsNext("reply", 0)
  /\ UNCHANGED <<cameraVars, sendVars, stream, up, seen, size, added>>

\* Mutant: the reply stays in the writer's buffer.
AddWithoutReply ==
  /\ field = "reply"
  /\ added' = added + 1
  /\ ReadsNext("size", SizeLen)
  /\ UNCHANGED <<cameraVars, sendVars, stream, up, seen, size, timestamp, exact>>

\* addImage, framesRate and println.
AddAndReply ==
  /\ field = "reply"
  /\ added' = added + 1
  /\ up' = up + 1
  /\ ReadsNext("size", SizeLen)
  /\ UNCHANGED <<cameraVars, sendVars, stream, seen, size, timestamp, exact>>

\* read returns -1.  The image's loop ends there; the others count the -1 as
\* progress until they read at a negative index: the exception is printed, and
\* each further round of run ends in the same way.  This is a Java from version
\* 13 on; before, a socket at end of file returns -1 whatever the index.
AtEndOfFile ==
  /\ step \in {"ended", "gone"} /\ stream = <<>>
  /\ need > 0
  /\ IF field = "image"
     THEN ReadsNext("time", TimeLen) /\ exact' = FALSE
     ELSE ReadsNext("broken", 0) /\ UNCHANGED exact
  /\ UNCHANGED <<cameraVars, sendVars, stream, up, seen, size, timestamp, added>>

Reader ==
  \/ ReadBytes \/ EndSize \/ EndMotion \/ EndImage \/ EndTime
  \/ AddAndReply \/ AtEndOfFile
---------------------------------------------------------------------------
WireNext == Server \/ ClientConnects \/ Reader

WireSpec == WireInit /\ [][WireNext]_wireVars

\* Both programs go on while they can.  No client need ever connect.
WireFairSpec == WireSpec /\ WF_wireVars(Server) /\ WF_wireVars(Reader)
---------------------------------------------------------------------------
(* Properties *)

\* Type invariant.
WireTypeOK ==
  /\ step \in {"create", "accept", "openCamera", "capture", "send", "recv", "join",
               "ended", "gone"}
  /\ open \subseteq Numbers
  /\ {fd, clientfd, motionfd} \subseteq Numbers \cup {-1}
  /\ fakeMotion \in BOOLEAN
  /\ cam \in {"none", "open", "closed"}
  /\ frame_nr \in StartFrame..NumFrames
  /\ frame = NoFrame \/ frame \in [nr : StartFrame..NumFrames, sz : Sizes]
  /\ captures \in 0..Count
  /\ failures \in 0..Count
  /\ sizeBuffer \in Buffers
  /\ stream \in Seq([part : {"size", "motion", "image", "time"}, len : Nat \ {0}, shows : Nat])
  /\ up \in Nat
  /\ field \in {"size", "motion", "image", "time", "reply", "broken"}
  /\ need \in Nat
  /\ seen \in Nat /\ size \in 0..MaxBytes /\ timestamp \in 0..Count
  /\ added \in Nat
  /\ {junk, own, exact, readable} \subseteq BOOLEAN

\* As long as every size could be read back, the two sides agree, byte by byte,
\* on where a frame begins, however the reads cut up the stream: what reaches
\* the monitor is one frame, whole, the one sent last, with its own time (unless
\* timeBuffer held digits); and when the camera goes on to the next, nothing of
\* it is left in the socket.
InStepWhileReadable ==
  readable =>
    /\ field = "reply" => /\ exact /\ stream = <<>> /\ added + 1 = captures
                          /\ junk \/ timestamp = captures
    /\ step = "capture" /\ clientfd # -1 =>
         stream = <<>> /\ field = "size" /\ need = SizeLen /\ added = captures

\* Once sizeBuffer's last byte is no digit (after any size of SizeLen - 1
\* digits it never is), sizes of SizeLen - 2 or SizeLen - 1 digits, those of the
\* film's files, are read back as sent, whatever was printed before.
FilmSizesReadBack ==
  sizeBuffer[SizeLen] = NUL =>
    \A sz \in Sizes : NumDigits(sz) \in {SizeLen - 2, SizeLen - 1} =>
      Parsed(Printed(sizeBuffer, sz)) = sz

\* The connection when the pieces are taken together: a frame is under way from
\* its first write until it is added.
UnderWay == IF clientfd # -1 /\ step = "recv" /\ up = 0 THEN <<captures>> ELSE <<>>

Whole == INSTANCE WholeFrames WITH
  sent <- added + Len(UnderWay), down <- UnderWay

\* As long as every size can be read back, the bytes carry whole frames, each
\* added and answered once, in order, before the next is sent.
FramesCrossWhole == [][readable' => [Whole!WholeNext]_(Whole!wholeVars)]_wireVars

\* With sizes that can be read back, a camera that has a client shows its film
\* to the end or dies without a frame: neither side waits for the other.  The
\* turns are as if none got lost, and that main's joins return is not claimed:
\* what may keep either from it is in module CameraServer.
EndsWhileReadable == []<>(step \in {"accept", "join", "ended", "gone"} \/ ~ readable)
============================================================================
