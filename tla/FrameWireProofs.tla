--------------------------- MODULE FrameWireProofs ---------------------------
(***************************************************************************)
(* The way of a frame from file to monitor, proved for any film, any field *)
(* lengths, radix and sizes, and any number of descriptors.                *)
(***************************************************************************)
EXTENDS FrameWire, SizeDigitsProofs, FiniteSetTheorems, SequenceTheorems, TLAPS

USE LimitAssumption DEF Numbers, Streams

\* What each part of the process may hold, and where it holds nothing yet.
SocketInv ==
  /\ Streams \subseteq open /\ open \subseteq Numbers
  /\ fd \in open \cup {-1} /\ clientfd \in Numbers \cup {-1}
  /\ fd # 0 /\ (step # "create" => fd \in open)
  /\ step \in {"create", "accept"} => clientfd = -1
  /\ step \in {"create", "accept", "openCamera"} => cam = "none"
  /\ cam = "none" => step \in {"create", "accept", "openCamera"} /\ motionfd = 0
  /\ cam # "none" /\ fakeMotion => motionfd \in (Numbers \ Streams) \cup {-1}
  /\ ~ fakeMotion => motionfd = 0
  /\ cam # "none" => motionfd # fd
  /\ clientfd # -1 /\ step # "ended" => clientfd \in open \ (Streams \cup {fd, motionfd})

\* The sockets a process holds when all goes well: the listening one, the
\* client's, and the first of fake motion.
Held == CASE step = "create" -> 0
          [] step = "accept" -> 1
          [] step = "openCamera" -> 2
          [] OTHER -> 3

LeakInv ==
  /\ failures \in Nat
  /\ Cardinality(open) <= 3 + Held + failures

CountInv ==
  /\ captures \in Nat
  /\ frame_nr = StartFrame + (captures % (NumFrames - StartFrame + 1))
  /\ FilmInOrder
---------------------------------------------------------------------------
(* Sockets *)

LEMMA SocketsInitially == WireInit => SocketInv
BY DEF WireInit, CameraInit, SocketsInit, SocketInv

\* A descriptor just given out was not in use.
LEMMA AllocatesNew ==
  ASSUME NEW n, Allocates(open, n)
  PROVE  n = -1 \/ n \in Numbers \ open
BY DEF Allocates

LEMMA SocketsKept == SocketInv /\ [WireNext]_wireVars => SocketInv'
<1> SUFFICES ASSUME SocketInv, [WireNext]_wireVars PROVE SocketInv'
  OBVIOUS
<1>1. CASE GetConnection1 /\ UNCHANGED <<motionVars, filmVars>>
  <2>1. CASE fd' = 1 /\ UNCHANGED open
    BY <1>1, <2>1 DEF SocketInv, GetConnection1, Goes, motionVars, filmVars
  <2>2. CASE \E n \in Numbers :
                Allocates(open, n) /\ open' = open \cup {n} /\ fd' \in {n, 1}
    <3>1. PICK n \in Numbers :
            Allocates(open, n) /\ open' = open \cup {n} /\ fd' \in {n, 1}
      BY <2>2
    <3>2. n \in Numbers \ open
      BY <3>1, AllocatesNew
    <3> QED
      BY <1>1, <3>1, <3>2 DEF SocketInv, GetConnection1, Goes, motionVars, filmVars
  <2> QED
    BY <1>1, <2>1, <2>2 DEF GetConnection1
<1>2. CASE GetConnection2 /\ UNCHANGED <<motionVars, filmVars>>
  BY <1>2 DEF SocketInv, GetConnection2, Goes, Allocates, motionVars, filmVars
<1>3. CASE OpenCamera
  <2>1. CASE fakeMotion
    <3>1. PICK n \in Numbers \cup {-1} :
            MotionSocket(n) /\ motionfd' = n /\ open' = Opened(n)
      BY <1>3, <2>1 DEF OpenCamera
    <3> QED
      BY <1>3, <2>1, <3>1, AllocatesNew
      DEF OpenCamera, MotionSocket, Opened, SocketInv, Goes
  <2>2. CASE ~ fakeMotion
    BY <1>3, <2>2 DEF OpenCamera, SocketInv, Goes
  <2> QED BY <2>1, <2>2
<1>4. CASE CaptureFrame
  <2>1. CASE UNCHANGED <<open, motionfd, failures>>
    BY <1>4, <2>1 DEF CaptureFrame, SocketInv, Goes
  <2>2. CASE fakeMotion /\ Notify
    <3>1. PICK n \in Numbers \cup {-1}, connects \in BOOLEAN :
            /\ MotionSocket(n) /\ motionfd' = n
            /\ open' = IF connects THEN open ELSE Opened(n)
      BY <2>2 DEF Notify
    <3>2. open \subseteq open' /\ open' \subseteq Numbers
      BY <3>1 DEF SocketInv, Opened
    <3>3. motionfd' \in {-1} \cup (Numbers \ open)
      BY <3>1, AllocatesNew DEF MotionSocket
    <3> QED
      BY <1>4, <2>2, <3>2, <3>3 DEF CaptureFrame, SocketInv, Goes
  <2> QED
    BY <1>4, <2>1, <2>2 DEF CaptureFrame, Notifies
<1>5. CASE CameraCloses
  <2>1. CASE fakeMotion
    <3>1. fd \in Numbers /\ fd \in open /\ motionfd # fd /\ motionfd \notin Streams
      BY <1>5, <2>1 DEF CameraCloses, CloseCamera, SocketInv
    <3>2. /\ motionfd' = -1 /\ open' = open \ {motionfd} /\ cam' = "closed"
          /\ UNCHANGED <<step, fd, clientfd, fakeMotion>>
          /\ step \in {"recv", "join"}
      BY <1>5, <2>1 DEF CameraCloses, CloseCamera
    <3>3. Streams \subseteq open' /\ open' \subseteq Numbers /\ fd \in open'
      BY <3>1, <3>2 DEF SocketInv
    <3>4. clientfd # -1 => clientfd \in open' \ (Streams \cup {fd, -1})
      BY <3>2 DEF SocketInv
    <3>5. fd' # motionfd' /\ fd' # 0
      BY <3>1, <3>2 DEF SocketInv
    <3> QED
      BY <2>1, <3>2, <3>3, <3>4, <3>5 DEF SocketInv
  <2>2. CASE ~ fakeMotion
    BY <1>5, <2>2 DEF CameraCloses, CloseCamera, SocketInv
  <2> QED BY <2>1, <2>2
<1>6. CASE Finishes
  BY <1>6 DEF Finishes, CloseConnection, Goes, SocketInv, motionVars, filmVars
<1>7. CASE SendFrame \/ SendDies \/ TakeReply
  <2>1. UNCHANGED <<open, fd, clientfd, motionfd, fakeMotion, cam>>
    BY <1>7 DEF SendFrame, SendDies, TakeReply, socketVars, motionVars, filmVars
  <2>2. /\ step \in {"send", "recv"}
        /\ step' \in {"recv", "gone", "capture", "join"}
    BY <1>7 DEF SendFrame, SendDies, TakeReply, Goes
  <2> QED
    BY <2>1, <2>2 DEF SocketInv
<1>8. CASE Reader \/ UNCHANGED wireVars
  <2>1. UNCHANGED cameraVars
    BY <1>8 DEF Reader, ReadBytes, EndSize, EndMotion, EndImage, EndTime, AddAndReply,
       AtEndOfFile, wireVars
  <2> QED
    BY <2>1 DEF SocketInv, cameraVars, socketVars, motionVars, filmVars
<1> QED
  BY <1>1, <1>2, <1>3, <1>4, <1>5, <1>6, <1>7, <1>8
  DEF WireNext, Server, CameraStep, ClientConnects
---------------------------------------------------------------------------
(* Leaks *)

LEMMA SetsOfNumbers ==
  ASSUME NEW S, S \subseteq Numbers
  PROVE  IsFiniteSet(S) /\ Cardinality(S) \in Nat
<1>1. IsFiniteSet(0..(Limit - 1))
  BY FS_Interval
<1>2. IsFiniteSet(S)
  BY <1>1, FS_Subset, S \in SUBSET (0..(Limit - 1))
<1> QED
  BY <1>2, FS_CardinalityType

LEMMA OneMore ==
  ASSUME NEW S, S \subseteq Numbers, NEW T, T = S \/ \E n : T = S \cup {n}
  PROVE  Cardinality(T) \in Nat /\ Cardinality(T) <= Cardinality(S) + 1
<1>1. IsFiniteSet(S) /\ Cardinality(S) \in Nat
  BY SetsOfNumbers
<1>2. CASE T = S
  BY <1>1, <1>2
<1>3. ASSUME NEW n, T = S \cup {n}
      PROVE  Cardinality(T) \in Nat /\ Cardinality(T) <= Cardinality(S) + 1
  BY <1>1, <1>3, FS_AddElement
<1> QED BY <1>2, <1>3

LEMMA OneLess ==
  ASSUME NEW S, S \subseteq Numbers, NEW T, T = S \/ \E n : T = S \ {n}
  PROVE  Cardinality(T) \in Nat /\ Cardinality(T) <= Cardinality(S)
<1>1. T \in SUBSET S /\ IsFiniteSet(S)
  BY SetsOfNumbers
<1>2. T \subseteq Numbers
  BY <1>1
<1> QED
  BY <1>1, <1>2, FS_Subset, SetsOfNumbers

LEMMA LeakInitially == WireInit => LeakInv
<1>1. Cardinality({0, 1, 2}) <= 3
  <2>1. Cardinality({}) = 0 /\ IsFiniteSet({})
    BY FS_EmptySet
  <2>2. IsFiniteSet({0}) /\ Cardinality({0}) = 1
    BY FS_Singleton
  <2>3. IsFiniteSet({0} \cup {1}) /\ Cardinality({0} \cup {1}) = 2
    BY <2>2, FS_AddElement
  <2>4. Cardinality(({0} \cup {1}) \cup {2}) = 3
    BY <2>3, FS_AddElement
  <2>5. ({0} \cup {1}) \cup {2} = {0, 1, 2}
    OBVIOUS
  <2> QED BY <2>4, <2>5
<1>2. Cardinality({0, 1, 2}) \in Nat
  BY SetsOfNumbers, {0, 1, 2} \subseteq Numbers
<1> QED
  BY <1>1, <1>2 DEF WireInit, CameraInit, SocketsInit, LeakInv, Held

LEMMA LeaksKept == SocketInv /\ LeakInv /\ [WireNext]_wireVars => LeakInv'
<1> SUFFICES ASSUME SocketInv, LeakInv, [WireNext]_wireVars PROVE LeakInv'
  OBVIOUS
<1>0. open \subseteq Numbers /\ Cardinality(open) \in Nat
  BY SetsOfNumbers DEF SocketInv
<1>1. CASE GetConnection1 /\ UNCHANGED <<motionVars, filmVars>>
  <2>1. \/ open' = open
        \/ \E n : open' = open \cup {n}
    BY <1>1 DEF GetConnection1
  <2>2. Cardinality(open') \in Nat /\ Cardinality(open') <= Cardinality(open) + 1
    BY <1>0, <2>1, OneMore
  <2> QED
    BY <1>0, <1>1, <2>2 DEF GetConnection1, Goes, LeakInv, Held, motionVars
<1>2. CASE GetConnection2 /\ UNCHANGED <<motionVars, filmVars>>
  <2>1. \/ open' = open
        \/ \E n : open' = open \cup {n}
    BY <1>2 DEF GetConnection2
  <2>2. Cardinality(open') \in Nat /\ Cardinality(open') <= Cardinality(open) + 1
    BY <1>0, <2>1, OneMore
  <2> QED
    BY <1>0, <1>2, <2>2 DEF GetConnection2, Goes, LeakInv, Held, motionVars
<1>3. CASE OpenCamera
  <2>1. open' = open \/ \E n : open' = open \cup {n}
    <3>1. \A n \in Numbers \cup {-1} : Opened(n) = open \/ Opened(n) = open \cup {n}
      BY DEF Opened
    <3> QED BY <1>3, <3>1 DEF OpenCamera
  <2>2. Cardinality(open') \in Nat /\ Cardinality(open') <= Cardinality(open) + 1
    BY <1>0, <2>1, OneMore
  <2>3. failures' = failures /\ step = "openCamera" /\ step' \in {"capture", "gone"}
    BY <1>3 DEF OpenCamera, Goes
  <2> QED
    BY <1>0, <2>2, <2>3 DEF LeakInv, Held
<1>4. CASE CaptureFrame
  <2>1. step = "capture" /\ step' = "send"
    BY <1>4 DEF CaptureFrame, Goes
  <2>2. CASE UNCHANGED <<open, failures>>
    BY <2>1, <2>2 DEF LeakInv, Held
  <2>3. CASE Notify
    <3>1. PICK n \in Numbers \cup {-1}, connects \in BOOLEAN :
            /\ open' = IF connects THEN open ELSE Opened(n)
            /\ failures' = IF connects THEN failures ELSE failures + 1
      BY <2>3 DEF Notify
    <3>2. CASE connects
      BY <2>1, <3>1, <3>2 DEF LeakInv, Held
    <3>3. CASE ~ connects
      <4>1. open' = open \/ open' = open \cup {n}
        BY <3>1, <3>3 DEF Opened
      <4>2. Cardinality(open') \in Nat /\ Cardinality(open') <= Cardinality(open) + 1
        BY <1>0, <4>1, OneMore
      <4> QED
        BY <1>0, <2>1, <3>1, <3>3, <4>2 DEF LeakInv, Held
    <3> QED BY <3>2, <3>3
  <2> QED
    BY <1>4, <2>2, <2>3 DEF CaptureFrame
<1>5. CASE CameraCloses \/ (Finishes /\ UNCHANGED sendVars)
  <2>1. \/ open' = open
        \/ \E n : open' = open \ {n}
    BY <1>5 DEF CameraCloses, CloseCamera, Finishes, CloseConnection
  <2>2. Cardinality(open') \in Nat /\ Cardinality(open') <= Cardinality(open)
    BY <1>0, <2>1, OneLess
  <2>3. /\ failures' = failures
        /\ step \in {"recv", "join"} /\ step' \in {"recv", "join", "ended"}
    BY <1>5 DEF CameraCloses, CloseCamera, Finishes, CloseConnection, Goes, motionVars
  <2> QED
    BY <1>0, <2>2, <2>3 DEF LeakInv, Held
<1>6. CASE SendFrame \/ SendDies \/ TakeReply
  <2>1. open' = open /\ failures' = failures
    BY <1>6 DEF SendFrame, SendDies, TakeReply, socketVars, motionVars
  <2>2. step \in {"send", "recv"} /\ step' \in {"recv", "gone", "capture", "join"}
    BY <1>6 DEF SendFrame, SendDies, TakeReply, Goes
  <2> QED
    BY <2>1, <2>2 DEF LeakInv, Held
<1>7. CASE Reader \/ UNCHANGED wireVars
  <2>1. UNCHANGED <<step, open, failures>>
    BY <1>7 DEF Reader, ReadBytes, EndSize, EndMotion, EndImage, EndTime, AddAndReply,
       AtEndOfFile, wireVars, cameraVars, socketVars, motionVars
  <2> QED
    BY <2>1 DEF LeakInv, Held
<1> QED
  BY <1>1, <1>2, <1>3, <1>4, <1>5, <1>6, <1>7
  DEF WireNext, Server, CameraStep, ClientConnects
---------------------------------------------------------------------------
(* The film *)

LEMMA RemainderUnique ==
  ASSUME NEW p \in Nat \ {0}, NEW a \in Int, NEW b \in Int,
         NEW r \in 0..(p - 1), NEW s \in 0..(p - 1), p * a + r = p * b + s
  PROVE  r = s
<1>1. CASE a = b
  BY <1>1
<1>2. CASE a > b
  <2>1. p * (a - b) >= p /\ p * (a - b) = s - r
    BY <1>2
  <2> QED BY <2>1
<1>3. CASE b > a
  <2>1. p * (b - a) >= p /\ p * (b - a) = r - s
    BY <1>3
  <2> QED BY <2>1
<1> QED BY <1>1, <1>2, <1>3

\* Counting on, a remainder goes up by one or starts over.
LEMMA NextRemainder ==
  ASSUME NEW n \in Nat, NEW p \in Nat \ {0}
  PROVE  /\ n % p \in 0..(p - 1)
         /\ (n + 1) % p = IF (n % p) + 1 = p THEN 0 ELSE (n % p) + 1
<1> DEFINE q == n \div p
           r == n % p
           q1 == (n + 1) \div p
           r1 == (n + 1) % p
           next == IF r + 1 = p THEN 0 ELSE r + 1
<1>1. /\ q \in Nat /\ r \in 0..(p - 1) /\ n = p * q + r
      /\ q1 \in Nat /\ r1 \in 0..(p - 1) /\ n + 1 = p * q1 + r1
  OBVIOUS
<1>2. next \in 0..(p - 1)
  BY <1>1
<1> HIDE DEF q, q1, r1, next
<1>3. q \in Int /\ q1 \in Int /\ p \in Nat \ {0}
  BY <1>1
<1>4. CASE r + 1 = p
  <2>1. PICK b \in Int : b = q + 1
    BY <1>1
  <2>2. p * b = p * q + p
    BY <1>1, <2>1
  <2>3. p * q1 + r1 = p * b + next
    BY <1>1, <1>4, <2>2 DEF next
  <2>4. r1 = next
    BY <1>1, <1>2, <1>3, <2>1, <2>3, RemainderUnique, Zenon
  <2> QED
    BY <1>1, <2>4 DEF r1, next
<1>5. CASE r + 1 # p
  <2>1. p * q1 + r1 = p * q + next
    BY <1>1, <1>5 DEF next
  <2>2. r1 = next
    BY <1>1, <1>2, <1>3, <2>1, RemainderUnique, Zenon
  <2> QED
    BY <1>1, <2>2 DEF r1, next
<1> QED BY <1>4, <1>5

LEMMA CountInitially == WireInit => CountInv
BY FilmAssumption
DEF WireInit, CameraInit, CountInv, FilmInOrder

LEMMA CountKept == CountInv /\ [WireNext]_wireVars => CountInv'
<1> SUFFICES ASSUME CountInv, [WireNext]_wireVars PROVE CountInv'
  OBVIOUS
<1>1. CASE CaptureFrame
  <2> DEFINE p == NumFrames - StartFrame + 1
  <2>1. p \in Nat \ {0} /\ captures \in Nat
    BY FilmAssumption DEF CountInv
  <2>2. /\ captures' = captures + 1
        /\ frame_nr' = NextFilmFrame(frame_nr)
        /\ frame' = NoFrame \/ frame'.nr = frame_nr
    BY <1>1 DEF CaptureFrame
  <2>3. frame_nr = StartFrame + (captures % p)
    BY DEF CountInv
  <2>4. /\ captures % p \in 0..(p - 1)
        /\ (captures + 1) % p = IF (captures % p) + 1 = p THEN 0 ELSE (captures % p) + 1
    BY <2>1, NextRemainder
  <2>5. frame_nr' = StartFrame + ((captures + 1) % p)
    BY <2>2, <2>3, <2>4, FilmAssumption DEF NextFilmFrame
  <2>6. captures' - 1 = captures
    BY <2>1, <2>2
  <2> QED
    BY <2>1, <2>2, <2>3, <2>5, <2>6 DEF CountInv, FilmInOrder
<1>2. CASE ~ CaptureFrame
  <2>1. UNCHANGED <<captures, frame_nr, frame>>
    BY <1>2 DEF WireNext, Server, CameraStep, OpenCamera, CameraCloses, CloseCamera, Finishes,
       SendFrame, SendDies, TakeReply, ClientConnects, Reader, ReadBytes, EndSize, EndMotion,
       EndImage, EndTime, AddAndReply, AtEndOfFile, wireVars, cameraVars, filmVars
  <2> QED
    BY <2>1 DEF CountInv, FilmInOrder
<1> QED BY <1>1, <1>2
---------------------------------------------------------------------------
(* The two sides in step *)

\* What is still to come of the frame sent last when the reader is in a field.
Shown(f) == CASE f = "size" -> frame.sz [] f = "time" -> captures [] OTHER -> 0
Length(f) == CASE f = "size" -> SizeLen [] f = "motion" -> MotionLen
               [] f = "image" -> frame.sz [] OTHER -> TimeLen
Time == <<Part("time", TimeLen, captures)>>
FromImage == (IF frame.sz = 0 THEN <<>> ELSE <<Part("image", frame.sz, 0)>>) \o Time
FromMotion == <<Part("motion", MotionLen, 0)>> \o FromImage
Behind(f) == CASE f = "size" -> FromMotion [] f = "motion" -> FromImage
               [] f = "image" -> Time [] OTHER -> <<>>
Left == IF need = 0 THEN Behind(field)
        ELSE <<Part(field, need, Shown(field))>> \o Behind(field)

Fields == {"size", "motion", "image", "time"}
Parts == [part : Fields, len : Int, shows : Nat]

\* The reader is in the middle of the frame, or about to add it.
Busy ==
  /\ step = "recv" /\ up = 0 /\ added + 1 = captures
  /\ own /\ frame.sz <= MaxBytes
  /\ \/ field \in Fields /\ need \in 0..Length(field) /\ stream = Left
     \/ field = "reply" /\ stream = <<>>
  /\ field # "size" => exact
  /\ field = "size" /\ need < SizeLen => seen = frame.sz
  /\ field \in {"motion", "image"} => size = frame.sz
  /\ field = "time" /\ need < TimeLen => seen = captures
  /\ field = "reply" => junk \/ timestamp = captures

\* It waits for a frame of which nothing has been sent.
Idle == field = "size" /\ need = SizeLen /\ stream = <<>> /\ own

Connected ==
  \/ Idle /\ up = 0 /\ added = captures /\ step \in {"openCamera", "capture", "join", "ended"}
  \/ Idle /\ up = 0 /\ added + 1 = captures /\ step = "send"
  \/ Idle /\ up = 1 /\ added = captures /\ step = "recv"
  \/ Busy
  \/ /\ step \in {"ended", "gone"} /\ stream = <<>>
     /\ (field = "broken" /\ need = 0) \/ (field = "size" /\ need = SizeLen)

Silent ==
  /\ stream = <<>> /\ up = 0 /\ added = 0
  /\ \/ field = "size" /\ need = SizeLen /\ own
     \/ field = "broken" /\ need = 0 /\ step \in {"ended", "gone"}

StepInv ==
  /\ captures \in Nat /\ added \in Nat /\ frame.sz \in Nat
  /\ step \in {"create", "accept", "openCamera"} => captures = 0
  /\ step \in {"create", "accept"} => clientfd = -1
  /\ clientfd = -1 => Silent
  /\ readable /\ clientfd # -1 => Connected

LEMMA StepInitially == WireInit => StepInv
BY DEF WireInit, CameraInit, SocketsInit, StepInv, Silent, NoFrame

LEMMA InStep == StepInv => InStepWhileReadable
BY FieldAssumption, SizeLenAssumption
DEF StepInv, Silent, Connected, Idle, Busy, InStepWhileReadable, Fields

\* Reading the front of a sequence of parts.
LEMMA FirstPart ==
  ASSUME NEW f \in Fields, NEW n \in Nat, NEW s \in Nat, NEW rest \in Seq(Parts),
         NEW all, all = <<Part(f, n, s)>> \o rest
  PROVE  all # <<>> /\ Head(all) = Part(f, n, s) /\ Tail(all) = rest
<1>1. Part(f, n, s) \in Parts
  BY DEF Part, Parts
<1>2. all \in Seq(Parts) /\ Len(all) = 1 + Len(rest) /\ all[1] = Part(f, n, s)
  BY <1>1
<1>3. \A i \in 2..(1 + Len(rest)) : all[i] = rest[i - 1]
  BY <1>1
<1>4. all # <<>> /\ Head(all) = Part(f, n, s)
  BY <1>2
<1>5. Tail(all) = rest
  BY <1>2, <1>3
<1> QED BY <1>4, <1>5

LEMMA BehindIsParts ==
  ASSUME frame.sz \in Nat, captures \in Nat, NEW f \in Fields
  PROVE  Behind(f) \in Seq(Parts)
<1>1. Time \in Seq(Parts)
  BY FieldAssumption, SizeLenAssumption DEF Time, Part, Parts, Fields
<1>2. FromImage \in Seq(Parts)
  <2>1. (IF frame.sz = 0 THEN <<>> ELSE <<Part("image", frame.sz, 0)>>) \in Seq(Parts)
    <3>1. Part("image", frame.sz, 0) \in Parts
      BY DEF Part, Parts, Fields
    <3> QED BY <3>1
  <2> QED BY <1>1, <2>1 DEF FromImage
<1>3. FromMotion \in Seq(Parts)
  <2>1. <<Part("motion", MotionLen, 0)>> \in Seq(Parts)
    BY FieldAssumption, SizeLenAssumption DEF Part, Parts, Fields
  <2> QED BY <1>2, <2>1 DEF FromMotion
<1> QED BY <1>1, <1>2, <1>3 DEF Behind, Fields

LEMMA LeftFront ==
  ASSUME frame.sz \in Nat, captures \in Nat, field \in Fields, need \in Nat
  PROVE  /\ need = 0 => Left = Behind(field)
         /\ need > 0 => /\ Left # <<>> /\ Head(Left) = Part(field, need, Shown(field))
                        /\ Tail(Left) = Behind(field)
<1>1. Shown(field) \in Nat /\ Behind(field) \in Seq(Parts)
  BY BehindIsParts DEF Shown
<1>2. CASE need = 0
  BY <1>2 DEF Left
<1>3. CASE need > 0
  <2>1. Left = <<Part(field, need, Shown(field))>> \o Behind(field)
    BY <1>3 DEF Left
  <2> QED
    BY <1>1, <1>3, <2>1, FirstPart
<1> QED BY <1>2, <1>3

\* The whole message is what is left at its start.
LEMMA WholeMessage ==
  ASSUME frame.sz \in Nat, captures \in Nat, NEW buffer, Parsed(buffer) = frame.sz
  PROVE  Message(buffer, frame.sz, captures)
           = <<Part("size", SizeLen, frame.sz)>> \o FromMotion
<1> DEFINE s == Part("size", SizeLen, frame.sz)
           m == Part("motion", MotionLen, 0)
           i == IF frame.sz = 0 THEN <<>> ELSE <<Part("image", frame.sz, 0)>>
           t == <<Part("time", TimeLen, captures)>>
<1>1. s \in Parts /\ m \in Parts /\ i \in Seq(Parts) /\ t \in Seq(Parts)
  <2>1. Part("image", frame.sz, 0) \in Parts /\ Part("time", TimeLen, captures) \in Parts
    BY FieldAssumption, SizeLenAssumption DEF Part, Parts, Fields
  <2>2. s \in Parts /\ m \in Parts
    BY FieldAssumption, SizeLenAssumption DEF Part, Parts, Fields
  <2>3. i \in Seq(Parts)
    <3>1. CASE frame.sz = 0
      BY <3>1
    <3>2. CASE frame.sz # 0
      BY <2>1, <3>2
    <3> QED BY <3>1, <3>2
  <2> QED
    BY <2>1, <2>2, <2>3
<1>2. Message(buffer, frame.sz, captures) = (<<s, m>> \o i) \o t
  BY DEF Message
<1>3. <<s>> \o FromMotion = <<s>> \o (<<m>> \o (i \o t))
  BY DEF FromMotion, FromImage, Time
<1> HIDE DEF s, m, i, t
<1>4. (<<s, m>> \o i) \o t = <<s, m>> \o (i \o t)
  BY <1>1, ConcatAssociative
<1>5. <<s, m>> = <<s>> \o <<m>>
  <2>1. /\ <<s, m>> \in Seq(Parts) /\ <<s>> \o <<m>> \in Seq(Parts)
        /\ Len(<<s, m>>) = 2 /\ Len(<<s>> \o <<m>>) = 2
    BY <1>1
  <2>2. \A k \in 1..2 : <<s, m>>[k] = (<<s>> \o <<m>>)[k]
    BY <1>1
  <2> QED
    BY <2>1, <2>2, SeqEqual
<1>6. (<<s>> \o <<m>>) \o (i \o t) = <<s>> \o (<<m>> \o (i \o t))
  BY <1>1, ConcatAssociative
<1> QED
  BY <1>2, <1>3, <1>4, <1>5, <1>6 DEF s

LEMMA ServerInStep == StepInv /\ (Server \/ ClientConnects) => StepInv'
<1> SUFFICES ASSUME StepInv, Server \/ ClientConnects PROVE StepInv'
  OBVIOUS
<1> USE FieldAssumption, SizeLenAssumption
<1>1. CASE CameraStep \/ ClientConnects
  <2>1. UNCHANGED <<sizeBuffer, junk, readable, stream, up, readVars>>
    BY <1>1 DEF CameraStep, ClientConnects, sendVars
  <2>2. UNCHANGED <<field, need, seen, size, timestamp, added, own, exact>>
    BY <2>1 DEF readVars
  <2>3. CASE GetConnection1 /\ UNCHANGED filmVars
    BY <2>1, <2>2, <2>3 DEF GetConnection1, Goes, StepInv, Silent, filmVars
  <2>4. CASE ClientConnects
    BY <2>1, <2>2, <2>4
    DEF ClientConnects, GetConnection2, Goes, StepInv, Silent, filmVars, Connected, Idle
  <2>5. CASE OpenCamera
    <3>1. /\ step = "openCamera" /\ step' \in {"capture", "gone"}
          /\ UNCHANGED <<clientfd, frame, captures>>
      BY <2>5 DEF OpenCamera, Goes
    <3>2. clientfd = -1 => Silent'
      BY <2>1, <2>2, <3>1 DEF StepInv, Silent
    <3>3. readable /\ clientfd # -1 => Connected'
      BY <2>1, <2>2, <3>1 DEF StepInv, Connected, Idle, Busy
    <3> QED
      BY <2>1, <2>2, <3>1, <3>2, <3>3 DEF StepInv
  <2>6. CASE CaptureFrame
    <3>1. /\ step = "capture" /\ step' = "send" /\ captures' = captures + 1
          /\ UNCHANGED clientfd
      BY <2>6 DEF CaptureFrame, Goes
    <3>2. frame'.sz \in Nat
      <4>1. frame' = NoFrame \/ \E sz \in Sizes : frame' = [nr |-> frame_nr, sz |-> sz]
        BY <2>6 DEF CaptureFrame
      <4>2. CASE frame' = NoFrame
        BY <4>2 DEF NoFrame
      <4>3. ASSUME NEW sz \in Sizes, frame' = [nr |-> frame_nr, sz |-> sz]
            PROVE  frame'.sz \in Nat
        BY <4>3, SizesAssumption
      <4> QED
        BY <4>1, <4>2, <4>3
    <3>3. clientfd = -1 => Silent'
      BY <2>1, <2>2, <3>1 DEF StepInv, Silent
    <3>4. readable /\ clientfd # -1 => Connected'
      BY <2>1, <2>2, <3>1 DEF StepInv, Connected, Idle, Busy
    <3> QED
      BY <2>1, <2>2, <3>1, <3>2, <3>3, <3>4 DEF StepInv
  <2>7. CASE CameraCloses
    <3>1. UNCHANGED <<step, clientfd, frame, captures>>
      BY <2>7 DEF CameraCloses, CloseCamera
    <3> QED
      BY <2>1, <2>2, <3>1
      DEF StepInv, Silent, Connected, Idle, Busy, Left, Behind, Shown, Length, Time,
          FromImage, FromMotion
  <2>8. CASE Finishes
    <3>1. step = "join" /\ step' = "ended" /\ UNCHANGED <<clientfd, frame, captures>>
      BY <2>8 DEF Finishes, CloseConnection, Goes, filmVars
    <3>2. clientfd = -1 => Silent'
      BY <2>1, <2>2, <3>1 DEF StepInv, Silent
    <3>3. readable /\ clientfd # -1 => Connected'
      BY <2>1, <2>2, <3>1 DEF StepInv, Connected, Idle, Busy
    <3> QED
      BY <2>1, <2>2, <3>1, <3>2, <3>3 DEF StepInv
  <2> QED
    BY <1>1, <2>3, <2>4, <2>5, <2>6, <2>7, <2>8 DEF CameraStep
<1>2. CASE SendFrame
  <2>1. /\ step = "send" /\ step' = "recv"
        /\ UNCHANGED <<clientfd, frame, captures, junk, up>>
        /\ UNCHANGED <<field, need, seen, size, timestamp, added, own, exact>>
    BY <1>2 DEF SendFrame, Goes, socketVars, filmVars, readVars
  <2>2. clientfd = -1 => Silent'
    <3>1. clientfd = -1 => stream' = stream
      BY <1>2 DEF SendFrame
    <3> QED BY <2>1, <3>1 DEF StepInv, Silent
  <2>3. ASSUME readable', clientfd # -1
        PROVE  Busy'
    <3>1. Parsed(sizeBuffer') = frame.sz /\ frame.sz <= MaxBytes /\ readable
      BY <1>2, <2>3 DEF SendFrame
    <3>2. Idle /\ up = 0 /\ added + 1 = captures
      BY <2>1, <2>3, <3>1 DEF StepInv, Connected, Busy
    <3>3. stream' = <<>> \o Message(sizeBuffer', frame.sz, captures)
      BY <1>2, <2>3, <3>2 DEF SendFrame, Idle
    <3>4. Message(sizeBuffer', frame.sz, captures)
            = <<Part("size", SizeLen, frame.sz)>> \o FromMotion
      BY <3>1, WholeMessage DEF StepInv
    <3>5. <<Part("size", SizeLen, frame.sz)>> \o FromMotion \in Seq(Parts)
      <4>1. FromMotion \in Seq(Parts)
        BY BehindIsParts DEF StepInv, Behind, Fields
      <4>2. Part("size", SizeLen, frame.sz) \in Parts
        BY DEF StepInv, Part, Parts, Fields
      <4> QED BY <4>1, <4>2
    <3>6. stream' = <<Part("size", SizeLen, frame.sz)>> \o FromMotion
      BY <3>3, <3>4, <3>5, ConcatEmptySeq
    <3>7. stream' = Left'
      BY <2>1, <3>2, <3>6
      DEF Idle, Left, Behind, Shown, FromMotion, FromImage, Time
    <3> QED
      BY <2>1, <3>1, <3>2, <3>7 DEF Busy, Idle, Fields, Length
  <2>4. readable' /\ clientfd' # -1 => Connected'
    BY <2>1, <2>3 DEF Connected
  <2> QED
    BY <2>1, <2>2, <2>4 DEF StepInv
<1>3. CASE SendDies
  <2>1. /\ step = "send" /\ step' = "gone"
        /\ UNCHANGED <<clientfd, frame, captures, readable, stream, up>>
        /\ UNCHANGED <<field, need, added, own>>
    BY <1>3 DEF SendDies, Goes, socketVars, filmVars, sendVars, readVars
  <2>2. clientfd = -1 => Silent'
    BY <2>1 DEF StepInv, Silent
  <2>3. readable /\ clientfd # -1 => Connected'
    BY <2>1 DEF StepInv, Connected, Idle, Busy
  <2> QED
    BY <2>1, <2>2, <2>3 DEF StepInv
<1>4. CASE TakeReply
  <2>1. /\ step = "recv" /\ step' \in {"capture", "join"}
        /\ UNCHANGED <<clientfd, frame, captures, readable, stream>>
        /\ UNCHANGED <<field, need, added, own>>
        /\ clientfd = -1 => up' = up
        /\ clientfd # -1 => up > 0 /\ up' = up - 1
    BY <1>4 DEF TakeReply, Goes, socketVars, filmVars, sendVars, readVars
  <2>2. clientfd = -1 => Silent'
    BY <2>1 DEF StepInv, Silent
  <2>3. readable /\ clientfd # -1 => Connected'
    BY <2>1 DEF StepInv, Connected, Idle, Busy
  <2> QED
    BY <2>1, <2>2, <2>3 DEF StepInv
<1> QED
  BY <1>1, <1>2, <1>3, <1>4 DEF Server

LEMMA ReaderInStep == StepInv /\ Reader => StepInv'
<1> SUFFICES ASSUME StepInv, Reader PROVE StepInv'
  OBVIOUS
<1> USE FieldAssumption, SizeLenAssumption
<1>1. UNCHANGED <<step, clientfd, frame, captures, junk, readable>>
  BY DEF Reader, ReadBytes, EndSize, EndMotion, EndImage, EndTime, AddAndReply, AtEndOfFile,
     cameraVars, socketVars, filmVars, sendVars
<1>2. added' \in Nat
  BY DEF StepInv, Reader, ReadBytes, EndSize, EndMotion, EndImage, EndTime, AddAndReply,
     AtEndOfFile
<1>3. ASSUME clientfd = -1 PROVE Silent'
  <2>1. AtEndOfFile
    BY <1>3 DEF StepInv, Silent, Reader, ReadBytes, EndSize, EndMotion, EndImage, EndTime,
       AddAndReply
  <2> QED
    BY <1>1, <1>3, <2>1 DEF AtEndOfFile, ReadsNext, StepInv, Silent
<1>4. ASSUME readable, clientfd # -1, ~ Busy PROVE Connected'
  <2>1. stream = <<>> /\ ((field = "size" /\ need = SizeLen) \/ field = "broken")
    BY <1>4 DEF StepInv, Connected, Idle
  <2>2. AtEndOfFile
    BY <2>1 DEF Reader, ReadBytes, EndSize, EndMotion, EndImage, EndTime, AddAndReply
  <2> QED
    BY <1>1, <2>1, <2>2 DEF AtEndOfFile, ReadsNext, Connected
<1>5. ASSUME readable, clientfd # -1, Busy PROVE Connected'
  <2>1. /\ captures \in Nat /\ frame.sz \in Nat /\ added \in Nat
        /\ step = "recv" /\ up = 0 /\ added + 1 = captures /\ own /\ frame.sz <= MaxBytes
    BY <1>5 DEF StepInv, Busy
  <2>2. UNCHANGED <<Behind("size"), Behind("motion"), Behind("image"), Behind("time")>>
    BY <1>1 DEF Behind, FromMotion, FromImage, Time
  <2>3. \A f \in Fields : UNCHANGED <<Shown(f), Length(f), Behind(f)>>
    BY <1>1, <2>2 DEF Shown, Length, Fields
  <2>4. \A f \in Fields : Shown(f) \in Nat /\ Length(f) \in Nat
    BY <2>1 DEF Shown, Length
  <2>5. CASE ReadBytes
    <3> DEFINE head == Head(stream)
    <3>1. need > 0 /\ stream # <<>>
      BY <2>5 DEF ReadBytes
    <3>2. field \in Fields /\ need \in 1..Length(field) /\ stream = Left
      BY <1>5, <2>4, <3>1 DEF Busy
    <3>3. head = Part(field, need, Shown(field)) /\ Tail(stream) = Behind(field)
      BY <2>1, <2>4, <3>1, <3>2, LeftFront
    <3>4. head.len = need /\ head.part = field /\ head.shows = Shown(field)
      BY <3>3 DEF Part
    <3>5. PICK k \in 1..need :
            /\ stream' = IF k = need THEN Tail(stream)
                         ELSE <<[head EXCEPT !.len = @ - k]>> \o Tail(stream)
            /\ need' = need - k
            /\ own' = (own /\ head.part = field)
            /\ seen' = head.shows
      BY <2>4, <2>5, <3>2, <3>4 DEF ReadBytes
    <3>6. UNCHANGED <<up, field, size, timestamp, added, exact>>
      BY <2>5 DEF ReadBytes
    <3>7. [head EXCEPT !.len = @ - k] = Part(field, need - k, Shown(field))
      BY <3>3 DEF Part
    <3>8. need' \in 0..Length(field) /\ need' < Length(field)
      BY <2>4, <3>2, <3>5
    <3>9. stream' = Left'
      <4>1. CASE k = need
        BY <2>3, <2>4, <3>2, <3>3, <3>5, <3>6, <4>1 DEF Left
      <4>2. CASE k # need
        <5>1. need' # 0
          BY <2>4, <3>2, <3>5, <4>2
        <5>2. stream' = <<Part(field, need', Shown(field))>> \o Behind(field)
          BY <3>3, <3>5, <3>7, <4>2
        <5> QED
          BY <2>3, <3>2, <3>6, <5>1, <5>2 DEF Left
      <4> QED BY <4>1, <4>2
    <3>10. own' = TRUE /\ seen' = Shown(field)
      BY <2>1, <3>4, <3>5
    <3>11. Busy'
      <4>1. field' \in Fields /\ need' \in 0..Length(field)'
        BY <1>1, <3>2, <3>6, <3>8 DEF Length
      <4>2. field' = "size" => seen' = frame'.sz
        BY <1>1, <3>6, <3>10 DEF Shown
      <4>3. field' = "time" => seen' = captures'
        BY <1>1, <3>6, <3>10 DEF Shown
      <4>4. /\ field' # "size" => exact'
            /\ field' \in {"motion", "image"} => size' = frame'.sz
            /\ field' # "reply"
        BY <1>1, <1>5, <3>2, <3>6 DEF Busy, Fields
      <4> QED
        BY <1>1, <2>1, <3>6, <3>9, <3>10, <4>1, <4>2, <4>3, <4>4 DEF Busy
    <3> QED BY <3>11 DEF Connected
  <2>6. CASE EndSize
    <3>1. field = "size" /\ need = 0 /\ seen = frame.sz /\ stream = Behind("size")
      BY <1>5, <2>1, <2>6, LeftFront DEF EndSize, Busy, Fields
    <3>2. size' = frame.sz
      BY <2>1, <2>6, <3>1, RoomAssumption DEF EndSize, Accepted
    <3>3. /\ field' = "motion" /\ need' = MotionLen /\ own' = TRUE /\ exact' = TRUE
          /\ UNCHANGED <<stream, up, added>>
      BY <2>1, <2>6 DEF EndSize, ReadsNext
    <3>4. stream' = Left'
      <4>1. stream' = <<Part("motion", MotionLen, 0)>> \o FromImage
        BY <3>1, <3>3 DEF Behind, FromMotion
      <4> QED
        BY <1>1, <3>3, <4>1 DEF Left, Behind, Shown, FromImage, Time
    <3>5. Busy'
      BY <1>1, <2>1, <3>2, <3>3, <3>4 DEF Busy, Fields, Length
    <3> QED BY <3>5 DEF Connected
  <2>7. CASE EndMotion
    <3>1. field = "motion" /\ need = 0 /\ size = frame.sz /\ exact /\ stream = Behind("motion")
      BY <1>5, <2>1, <2>7, LeftFront DEF EndMotion, Busy, Fields
    <3>2. /\ field' = "image" /\ need' = frame.sz /\ own' = TRUE /\ exact' = TRUE
          /\ UNCHANGED <<stream, up, added, size>>
      BY <2>1, <2>7, <3>1 DEF EndMotion, ReadsNext
    <3>3. stream' = Left'
      <4>1. Time \in Seq(Parts)
        BY <2>1, BehindIsParts DEF Behind, Fields
      <4>2. stream' = IF frame.sz = 0 THEN Time ELSE <<Part("image", frame.sz, 0)>> \o Time
        BY <3>1, <3>2, <4>1, ConcatEmptySeq DEF Behind, FromImage
      <4> QED
        BY <1>1, <3>2, <4>2 DEF Left, Behind, Shown, Time
    <3>4. Busy'
      BY <1>1, <2>1, <3>1, <3>2, <3>3 DEF Busy, Fields, Length
    <3> QED BY <3>4 DEF Connected
  <2>8. CASE EndImage
    <3>1. field = "image" /\ need = 0 /\ exact /\ stream = Time
      BY <1>5, <2>1, <2>8, LeftFront DEF EndImage, Busy, Fields, Behind
    <3>2. Head(stream).part = "time"
      BY <3>1 DEF Time, Part
    <3>3. /\ field' = "time" /\ need' = TimeLen /\ own' = TRUE /\ exact' = TRUE
          /\ UNCHANGED <<stream, up, added>>
      BY <2>1, <2>8, <3>1, <3>2 DEF EndImage, ReadsNext
    <3>4. stream' = Left'
      <4>1. stream' = <<Part("time", TimeLen, captures)>> \o <<>>
        BY <3>1, <3>3 DEF Time
      <4> QED
        BY <1>1, <3>3, <4>1 DEF Left, Behind, Shown
    <3>5. Busy'
      BY <1>1, <2>1, <3>3, <3>4 DEF Busy, Fields, Length
    <3> QED BY <3>5 DEF Connected
  <2>9. CASE EndTime
    <3>1. field = "time" /\ need = 0 /\ exact /\ seen = captures /\ stream = <<>>
      BY <1>5, <2>1, <2>9, LeftFront DEF EndTime, Busy, Fields, Behind
    <3>2. /\ field' = "reply" /\ need' = 0 /\ own' = TRUE /\ exact' = TRUE
          /\ junk \/ timestamp' = captures
          /\ UNCHANGED <<stream, up, added>>
      BY <2>1, <2>9, <3>1 DEF EndTime, ReadsNext
    <3>3. Busy'
      BY <1>1, <2>1, <3>1, <3>2 DEF Busy, Fields
    <3> QED BY <3>3 DEF Connected
  <2>10. CASE AddAndReply
    <3>1. field = "reply" /\ stream = <<>>
      BY <1>5, <2>10 DEF AddAndReply, Busy, Fields
    <3>2. /\ field' = "size" /\ need' = SizeLen /\ own' = TRUE
          /\ added' = added + 1 /\ up' = up + 1 /\ stream' = stream
      BY <2>10 DEF AddAndReply, ReadsNext
    <3> QED
      BY <1>1, <2>1, <3>1, <3>2 DEF Connected, Idle
  <2>11. ~ AtEndOfFile
    BY <2>1 DEF AtEndOfFile
  <2> QED
    BY <2>5, <2>6, <2>7, <2>8, <2>9, <2>10, <2>11 DEF Reader
<1> QED
  BY <1>1, <1>2, <1>3, <1>4, <1>5 DEF StepInv
---------------------------------------------------------------------------
(* Types *)

Steps == {"create", "accept", "openCamera", "capture", "send", "recv", "join", "ended", "gone"}

PlaceInv ==
  /\ step \in Steps
  /\ cam \in {"none", "open", "closed"}
  /\ fakeMotion \in BOOLEAN
  /\ captures \in 0..Count
  /\ failures \in 0..captures
  /\ step = "capture" => captures < Count
  /\ step \in {"create", "accept", "openCamera"} => captures = 0

FilmInv ==
  /\ frame_nr \in StartFrame..NumFrames
  /\ frame = NoFrame \/ frame \in [nr : StartFrame..NumFrames, sz : Sizes]

\* Parts on the wire; one that is a time shows a frame's.
Sent == {p \in [part : Fields, len : Nat \ {0}, shows : Nat] :
           p.part = "time" => p.shows <= Count}

SentInv ==
  /\ sizeBuffer \in Buffers
  /\ {junk, readable} \subseteq BOOLEAN
  /\ stream \in Seq(Sent)
  /\ up \in Nat

\* A time of which some bytes were read, all sent as a time, is a frame's.
ReadInv ==
  /\ field \in Fields \cup {"reply", "broken"}
  /\ need \in Nat
  /\ seen \in Nat /\ size \in 0..MaxBytes /\ timestamp \in 0..Count
  /\ added \in Nat
  /\ {own, exact} \subseteq BOOLEAN
  /\ field = "time" /\ own /\ need < TimeLen => seen <= Count

TypeInv == PlaceInv /\ FilmInv /\ SentInv /\ ReadInv

LEMMA TypesInitially == WireInit => TypeInv
<1> SUFFICES ASSUME WireInit PROVE TypeInv
  OBVIOUS
<1>1. PlaceInv
  BY CountAssumption DEF WireInit, CameraInit, SocketsInit, PlaceInv, Steps
<1>2. FilmInv
  BY FilmAssumption DEF WireInit, CameraInit, FilmInv
<1>3. SentInv
  BY LeftoversAssumption DEF WireInit, SentInv
<1>4. ReadInv
  BY SizeLenAssumption, RoomAssumption, CountAssumption DEF WireInit, ReadInv, Fields
<1> QED BY <1>1, <1>2, <1>3, <1>4 DEF TypeInv

LEMMA PlacesKept == PlaceInv /\ [WireNext]_wireVars => PlaceInv'
<1> SUFFICES ASSUME PlaceInv, [WireNext]_wireVars PROVE PlaceInv'
  OBVIOUS
<1> USE CountAssumption DEF PlaceInv, Steps, Goes
<1>1. CASE (GetConnection1 \/ GetConnection2) /\ UNCHANGED <<motionVars, filmVars>>
  BY <1>1 DEF GetConnection1, GetConnection2, motionVars, filmVars
<1>2. CASE OpenCamera
  BY <1>2 DEF OpenCamera
<1>3. CASE CaptureFrame
  <2>1. failures' \in {failures, failures + 1}
    BY <1>3 DEF CaptureFrame, Notify
  <2> QED BY <1>3, <2>1 DEF CaptureFrame
<1>4. CASE CameraCloses \/ Finishes
  BY <1>4 DEF CameraCloses, CloseCamera, Finishes, CloseConnection, motionVars, filmVars
<1>5. CASE SendFrame \/ SendDies \/ TakeReply
  BY <1>5 DEF SendFrame, SendDies, TakeReply, motionVars, filmVars
<1>6. CASE Reader \/ UNCHANGED wireVars
  <2>1. UNCHANGED cameraVars
    BY <1>6 DEF Reader, ReadBytes, EndSize, EndMotion, EndImage, EndTime, AddAndReply,
       AtEndOfFile, wireVars
  <2> QED BY <2>1 DEF cameraVars, motionVars, filmVars
<1> QED
  BY <1>1, <1>2, <1>3, <1>4, <1>5, <1>6 DEF WireNext, Server, CameraStep, ClientConnects

LEMMA FilmKept == FilmInv /\ [WireNext]_wireVars => FilmInv'
<1> SUFFICES ASSUME FilmInv, [WireNext]_wireVars PROVE FilmInv'
  OBVIOUS
<1>1. CASE CaptureFrame
  <2>1. frame_nr' \in StartFrame..NumFrames
    BY <1>1, FilmAssumption DEF CaptureFrame, NextFilmFrame, FilmInv
  <2>2. frame' = NoFrame \/ \E sz \in Sizes : frame' = [nr |-> frame_nr, sz |-> sz]
    BY <1>1 DEF CaptureFrame
  <2> QED BY <2>1, <2>2 DEF FilmInv
<1>2. CASE ~ CaptureFrame
  <2>1. UNCHANGED <<frame_nr, frame>>
    BY <1>2 DEF WireNext, Server, CameraStep, ClientConnects, OpenCamera, CameraCloses,
       CloseCamera, Finishes, SendFrame, SendDies, TakeReply, Reader, ReadBytes, EndSize,
       EndMotion, EndImage, EndTime, AddAndReply, AtEndOfFile, wireVars, cameraVars, filmVars
  <2> QED BY <2>1 DEF FilmInv
<1> QED BY <1>1, <1>2

LEMMA LargerSeq ==
  ASSUME NEW S, NEW T, S \subseteq T, NEW s \in Seq(S)
  PROVE  s \in Seq(T)
OBVIOUS

LEMMA MessageIsSent ==
  ASSUME NEW buffer \in Buffers, NEW sz \in Nat, NEW time \in 0..Count
  PROVE  Message(buffer, sz, time) \in Seq(Sent)
<1> USE FieldAssumption, SizeLenAssumption DEF Part, Sent, Fields
<1>1. Part("size", SizeLen, Parsed(buffer)) \in Sent
  <2>1. Parsed(buffer) \in Nat
    BY ParsedType
  <2> QED BY <2>1
<1>2. Part("motion", MotionLen, 0) \in Sent
  OBVIOUS
<1>3. sz # 0 => Part("image", sz, 0) \in Sent
  OBVIOUS
<1>4. Part("time", TimeLen, time) \in Sent
  BY CountAssumption
<1> HIDE DEF Part, Sent
<1>5. (IF sz = 0 THEN <<>> ELSE <<Part("image", sz, 0)>>) \in Seq(Sent)
  BY <1>3
<1> QED BY <1>1, <1>2, <1>4, <1>5 DEF Message

LEMMA SentKept == TypeInv /\ [WireNext]_wireVars => SentInv'
<1> SUFFICES ASSUME TypeInv, [WireNext]_wireVars PROVE SentInv'
  OBVIOUS
<1> USE DEF TypeInv, SentInv
<1>1. CASE CameraStep \/ ClientConnects \/ SendDies \/ UNCHANGED wireVars
  BY <1>1 DEF CameraStep, ClientConnects, SendDies, sendVars, wireVars
<1>2. CASE SendFrame
  <2>1. frame.sz \in Nat /\ captures \in 0..Count
    BY <1>2, SizesAssumption DEF SendFrame, FilmInv, PlaceInv
  <2>2. sizeBuffer' \in Buffers
    <3>1. Printed(sizeBuffer, frame.sz) \in Buffers
      BY <2>1, PrintedIs
    <3> QED BY <1>2, <3>1 DEF SendFrame
  <2>3. Message(sizeBuffer', frame.sz, captures) \in Seq(Sent)
    BY <2>1, <2>2, MessageIsSent
  <2>4. stream' \in Seq(Sent)
    BY <1>2, <2>3 DEF SendFrame
  <2>5. readable' \in BOOLEAN /\ UNCHANGED <<junk, up>>
    BY <1>2 DEF SendFrame
  <2> QED BY <2>2, <2>4, <2>5
<1>3. CASE TakeReply
  BY <1>3 DEF TakeReply, sendVars
<1>4. CASE ReadBytes
  <2> DEFINE head == Head(stream)
  <2>1. head \in Sent /\ Tail(stream) \in Seq(Sent)
    BY <1>4 DEF ReadBytes
  <2>2. PICK k \in 1..head.len :
          stream' = IF k = head.len THEN Tail(stream)
                    ELSE <<[head EXCEPT !.len = @ - k]>> \o Tail(stream)
    <3>1. head.len \in Nat /\ need \in Nat
      BY <2>1 DEF Sent, ReadInv
    <3>2. PICK k \in 1..(IF need < head.len THEN need ELSE head.len) :
            stream' = IF k = head.len THEN Tail(stream)
                      ELSE <<[head EXCEPT !.len = @ - k]>> \o Tail(stream)
      BY <1>4 DEF ReadBytes
    <3>3. k \in 1..head.len
      BY <3>1
    <3> QED BY <3>2, <3>3
  <2>3. k # head.len => [head EXCEPT !.len = @ - k] \in Sent
    BY <2>1, <2>2 DEF Sent
  <2> HIDE DEF head
  <2>4. stream' \in Seq(Sent)
    BY <2>1, <2>2, <2>3
  <2> QED BY <1>4, <2>4 DEF ReadBytes, sendVars
<1>5. CASE AddAndReply
  BY <1>5 DEF AddAndReply, sendVars
<1>6. CASE EndSize \/ EndMotion \/ EndImage \/ EndTime \/ AtEndOfFile
  BY <1>6 DEF EndSize, EndMotion, EndImage, EndTime, AtEndOfFile, sendVars
<1> QED
  BY <1>1, <1>2, <1>3, <1>4, <1>5, <1>6 DEF WireNext, Server, Reader

LEMMA ReadKept == TypeInv /\ [WireNext]_wireVars => ReadInv'
<1> SUFFICES ASSUME TypeInv, [WireNext]_wireVars PROVE ReadInv'
  OBVIOUS
<1> USE FieldAssumption, SizeLenAssumption, RoomAssumption, CountAssumption
    DEF TypeInv, ReadInv, Fields
<1>1. CASE Server \/ ClientConnects \/ UNCHANGED wireVars
  BY <1>1 DEF Server, CameraStep, ClientConnects, SendFrame, SendDies, TakeReply, readVars,
     wireVars
<1>2. CASE ReadBytes
  <2> DEFINE head == Head(stream)
  <2>1. head \in Sent
    BY <1>2 DEF ReadBytes, SentInv
  <2>2. /\ head.shows \in Nat /\ head.len \in Nat
        /\ head.part = "time" => head.shows <= Count
    BY <2>1 DEF Sent
  <2>3. PICK k \in 1..need :
          need' = need - k /\ own' = (own /\ head.part = field) /\ seen' = head.shows
    BY <1>2, <2>2 DEF ReadBytes
  <2>4. need' \in Nat /\ own' \in BOOLEAN /\ seen' \in Nat
    BY <2>2, <2>3
  <2>5. field = "time" /\ own' => seen' <= Count
    BY <2>2, <2>3
  <2>6. UNCHANGED <<field, size, timestamp, added, exact>>
    BY <1>2 DEF ReadBytes
  <2> QED BY <2>4, <2>5, <2>6
<1>3. CASE EndSize
  <2>1. size' \in 0..MaxBytes
    BY <1>3 DEF EndSize, Accepted
  <2> QED BY <1>3, <2>1 DEF EndSize, ReadsNext
<1>4. CASE EndMotion
  BY <1>4 DEF EndMotion, ReadsNext
<1>5. CASE EndImage
  BY <1>5 DEF EndImage, ReadsNext
<1>6. CASE EndTime
  <2>1. timestamp' \in 0..Count
    BY <1>6 DEF EndTime, NoTime
  <2> QED BY <1>6, <2>1 DEF EndTime, ReadsNext
<1>7. CASE AddAndReply
  BY <1>7 DEF AddAndReply, ReadsNext
<1>8. CASE AtEndOfFile
  <2>1. UNCHANGED <<seen, size, timestamp, added>>
    BY <1>8 DEF AtEndOfFile
  <2>2. \/ field' = "time" /\ need' = TimeLen /\ own' = TRUE /\ exact' = FALSE
        \/ field' = "broken" /\ need' = 0 /\ own' = TRUE /\ exact' = exact
    BY <1>8 DEF AtEndOfFile, ReadsNext
  <2>3. field' \in Fields \cup {"reply", "broken"} /\ need' \in Nat
    BY <2>2
  <2>4. own' \in BOOLEAN /\ exact' \in BOOLEAN
    BY <2>2
  <2>5. ~ (field' = "time" /\ need' < TimeLen)
    BY <2>2
  <2> QED BY <2>1, <2>3, <2>4, <2>5
<1> QED
  BY <1>1, <1>2, <1>3, <1>4, <1>5, <1>6, <1>7, <1>8 DEF WireNext, Reader
---------------------------------------------------------------------------
(* Theorems *)

FrameInv == SocketInv /\ LeakInv /\ CountInv /\ StepInv

\* The inductive invariant: where each descriptor is, how many there can be at
\* each step of the server, how film and frames are counted, and what of the
\* last frame lies between the two sides for each place of the reader.
THEOREM FrameInvariance == WireSpec => []FrameInv
<1>1. WireInit => FrameInv
  BY SocketsInitially, LeakInitially, CountInitially, StepInitially DEF FrameInv
<1>2. FrameInv /\ [WireNext]_wireVars => FrameInv'
  <2> SUFFICES ASSUME FrameInv, [WireNext]_wireVars PROVE FrameInv'
    OBVIOUS
  <2>1. SocketInv' /\ LeakInv' /\ CountInv'
    BY SocketsKept, LeaksKept, CountKept DEF FrameInv
  <2>2. CASE UNCHANGED wireVars
    <3>1. /\ UNCHANGED <<step, clientfd, frame, captures, junk, readable, stream, up>>
          /\ UNCHANGED <<field, need, seen, size, timestamp, added, own, exact>>
      BY <2>2 DEF wireVars, cameraVars, socketVars, filmVars, sendVars, readVars
    <3>2. Left' = Left /\ Length(field)' = Length(field)
      BY <3>1 DEF Left, Behind, Shown, Length, Time, FromImage, FromMotion
    <3>3. Busy' = Busy /\ Idle' = Idle
      BY <3>1, <3>2 DEF Busy, Idle
    <3>4. StepInv'
      BY <3>1, <3>3 DEF FrameInv, StepInv, Silent, Connected
    <3> QED
      BY <2>1, <3>4 DEF FrameInv
  <2>3. CASE WireNext
    BY <2>1, <2>3, ServerInStep, ReaderInStep DEF FrameInv, WireNext
  <2> QED BY <2>2, <2>3
<1> QED BY <1>1, <1>2, PTL DEF WireSpec

\* Whatever numbers fake motion opens and closes and whichever call fails, the
\* client's socket stays open and nobody else's until the connection is closed.
THEOREM SocketOfItsOwn == WireSpec => []ClientSocketKept
<1>1. FrameInv => ClientSocketKept
  BY DEF FrameInv, SocketInv, ClientSocketKept
<1> QED BY <1>1, FrameInvariance, PTL

\* Descriptors are lost only where a notification does not connect, for any
\* length of the film.
THEOREM LeaksOnlyFailures == WireSpec => []OnlyFailuresLeak
<1>1. FrameInv => OnlyFailuresLeak
  <2> SUFFICES ASSUME FrameInv PROVE OnlyFailuresLeak
    OBVIOUS
  <2>1. Cardinality(open) \in Nat
    BY SetsOfNumbers DEF FrameInv, SocketInv
  <2> QED
    BY <2>1 DEF FrameInv, LeakInv, Held, OnlyFailuresLeak
<1> QED BY <1>1, FrameInvariance, PTL

\* The film's frames come in their order, whatever its first and last number.
THEOREM FilmOrder == WireSpec => []FilmInOrder
<1>1. FrameInv => FilmInOrder
  BY DEF FrameInv, CountInv
<1> QED BY <1>1, FrameInvariance, PTL

\* While sizes can be read back, reader and writer agree on where each frame
\* begins and ends, for any lengths of the fields and however reads are cut.
THEOREM SidesInStep == WireSpec => []InStepWhileReadable
<1>1. FrameInv => InStepWhileReadable
  BY InStep DEF FrameInv
<1> QED BY <1>1, FrameInvariance, PTL

\* The types of server, stream and reader, for any film and any field lengths.
THEOREM WireTypeInvariance == WireSpec => []TypeInv
<1>1. TypeInv /\ [WireNext]_wireVars => TypeInv'
  BY PlacesKept, FilmKept, SentKept, ReadKept DEF TypeInv
<1> QED BY <1>1, TypesInitially, PTL DEF WireSpec

\* The variables keep their types, whatever the digits of a size are read as.
THEOREM WireTypes == WireSpec => []WireTypeOK
<1>1. FrameInv /\ TypeInv => WireTypeOK
  <2> SUFFICES ASSUME FrameInv, TypeInv PROVE WireTypeOK
    OBVIOUS
  <2>1. open \subseteq Numbers /\ {fd, clientfd, motionfd} \subseteq Numbers \cup {-1}
    BY DEF FrameInv, SocketInv
  <2>2. stream \in Seq([part : Fields, len : Nat \ {0}, shows : Nat])
    <3>1. stream \in Seq(Sent)
      BY DEF TypeInv, SentInv
    <3>2. Sent \subseteq [part : Fields, len : Nat \ {0}, shows : Nat]
      BY DEF Sent
    <3> HIDE DEF Sent
    <3> QED BY <3>1, <3>2, LargerSeq
  <2> QED
    BY <2>1, <2>2, CountAssumption
    DEF TypeInv, PlaceInv, FilmInv, SentInv, ReadInv, WireTypeOK, Steps, Fields
<1> QED BY <1>1, FrameInvariance, WireTypeInvariance, PTL

\* Sizes of as many digits as the film's files have are read back as sent, in
\* any radix, once the buffer's last byte is no digit.
THEOREM FilmSizes == WireSpec => []FilmSizesReadBack
<1>1. TypeInv => FilmSizesReadBack
  <2> SUFFICES ASSUME TypeInv, sizeBuffer[SizeLen] = NUL,
                      NEW sz \in Sizes, NumDigits(sz) \in {SizeLen - 2, SizeLen - 1}
               PROVE  Parsed(Printed(sizeBuffer, sz)) = sz
    BY DEF FilmSizesReadBack
  <2>1. sz \in Nat /\ sizeBuffer \in Buffers
    BY SizesAssumption DEF TypeInv, SentInv
  <2>2. NumDigits(sz) < SizeLen /\ \A i \in (NumDigits(sz) + 2)..SizeLen : i = SizeLen
    BY SizeLenAssumption
  <2> QED BY <2>1, <2>2, SizesReadBack
<1> QED BY <1>1, WireTypeInvariance, PTL

\* With the film there is, whose sizes fill the buffer but for the terminator
\* and fit the array, no size is ever misread, whatever the buffer held before;
\* so the two sides stay in step for good.  Files with one digit less need a
\* buffer whose last byte was no digit to begin with.
THEOREM FilmStaysInStep ==
  ASSUME \A sz \in Sizes :
           /\ sz <= MaxBytes
           /\ \/ NumDigits(sz) = SizeLen - 1
              \/ /\ NumDigits(sz) = SizeLen - 2
                 /\ \A buffer \in Leftovers : buffer[SizeLen] = NUL
  PROVE  WireSpec => [](readable /\ InStepWhileReadable)
<1> DEFINE Clean == \A buffer \in Leftovers : buffer[SizeLen] = NUL
           Readable == readable /\ (Clean => sizeBuffer[SizeLen] = NUL)
<1>1. WireInit => Readable
  BY DEF WireInit
<1>2. TypeInv /\ Readable /\ [WireNext]_wireVars => Readable'
  <2> SUFFICES ASSUME TypeInv, Readable, [WireNext]_wireVars PROVE Readable'
    OBVIOUS
  <2>1. CASE SendFrame
    <3> DEFINE sz == frame.sz
    <3>1. sz \in Sizes /\ sz \in Nat /\ sizeBuffer \in Buffers
      BY <2>1, SizesAssumption DEF SendFrame, TypeInv, FilmInv, SentInv
    <3>2. sz <= MaxBytes /\ (NumDigits(sz) = SizeLen - 1 \/ (NumDigits(sz) = SizeLen - 2 /\ Clean))
      BY <3>1
    <3> HIDE DEF sz, Clean
    <3>3. /\ NumDigits(sz) < SizeLen
          /\ \A i \in (NumDigits(sz) + 2)..SizeLen : i = SizeLen /\ Clean
      BY <3>2, SizeLenAssumption
    <3>4. Parsed(Printed(sizeBuffer, sz)) = sz
      BY <3>1, <3>3, SizesReadBack
    <3>5. Clean => Printed(sizeBuffer, sz)[SizeLen] = NUL
      <4>1. NumDigits(sz) + 1 = SizeLen \/ SizeLen \in (NumDigits(sz) + 2)..SizeLen
        BY <3>2, SizeLenAssumption
      <4>2. /\ Printed(sizeBuffer, sz)[NumDigits(sz) + 1] = NUL
            /\ \A i \in (NumDigits(sz) + 2)..SizeLen :
                 Printed(sizeBuffer, sz)[i] = sizeBuffer[i]
        BY <3>1, <3>3, PrintedIs
      <4> QED BY <4>1, <4>2
    <3> QED BY <2>1, <3>2, <3>4, <3>5 DEF SendFrame, sz
  <2>2. CASE ~ SendFrame
    <3>1. UNCHANGED <<sizeBuffer, readable>>
      BY <2>2 DEF WireNext, Server, CameraStep, ClientConnects, SendDies, TakeReply, Reader,
         ReadBytes, EndSize, EndMotion, EndImage, EndTime, AddAndReply, AtEndOfFile,
         wireVars, sendVars
    <3> QED BY <3>1
  <2> QED BY <2>1, <2>2
<1>3. WireSpec => []Readable
  BY <1>1, <1>2, WireTypeInvariance, PTL DEF WireSpec
<1>4. Readable => readable
  OBVIOUS
<1> QED BY <1>3, <1>4, SidesInStep, PTL

\* A step that leaves the client's count, the replies and what is under way
\* alone is none of the exchange's.
LEMMA NoWholeStep ==
  ASSUME UNCHANGED <<up, added, UnderWay>> PROVE UNCHANGED Whole!wholeVars
BY DEF Whole!wholeVars

\* Each step of the bytes is one step of the exchange or none.
LEMMA WholeSteps ==
  StepInv /\ [WireNext]_wireVars /\ readable' => [Whole!WholeNext]_(Whole!wholeVars)
<1> SUFFICES ASSUME StepInv, [WireNext]_wireVars, readable'
             PROVE  Whole!WholeNext \/ UNCHANGED Whole!wholeVars
  OBVIOUS
<1>0. captures \in Nat /\ added \in Nat /\ Len(<<captures>>) = 1 /\ Len(<<>>) = 0
  BY DEF StepInv
<1>1. CASE UNCHANGED wireVars
  <2>1. UNCHANGED <<step, clientfd, captures, up, added>>
    BY <1>1 DEF wireVars, cameraVars, socketVars, filmVars, readVars
  <2> QED BY <2>1, NoWholeStep DEF UnderWay
<1>2. CASE CameraStep \/ ClientConnects \/ SendDies
  <2>1. UNCHANGED <<up, added>>
    BY <1>2 DEF CameraStep, ClientConnects, SendDies, readVars
  <2>2. \/ step # "recv" /\ step' # "recv"
        \/ UNCHANGED <<step, clientfd, captures>>
    BY <1>2
    DEF CameraStep, ClientConnects, SendDies, GetConnection1, GetConnection2, OpenCamera,
        CaptureFrame, CameraCloses, CloseCamera, Finishes, CloseConnection, Goes
  <2> QED BY <2>1, <2>2, NoWholeStep DEF UnderWay
<1>3. CASE SendFrame
  <2>1. /\ step = "send" /\ step' = "recv" /\ readable
        /\ UNCHANGED <<clientfd, captures, up, added>>
    BY <1>3 DEF SendFrame, Goes, socketVars, filmVars, readVars
  <2>2. CASE clientfd = -1
    BY <2>1, <2>2, NoWholeStep DEF UnderWay
  <2>3. CASE clientfd # -1
    <3>1. up = 0 /\ added + 1 = captures
      BY <2>1, <2>3 DEF StepInv, Connected, Busy
    <3>2. UnderWay = <<>> /\ UnderWay' = <<captures>>
      BY <2>1, <2>3, <3>1 DEF UnderWay
    <3>3. added + Len(UnderWay) = added /\ (added + Len(UnderWay))' = captures
      BY <1>0, <2>1, <3>1, <3>2
    <3>4. Whole!SendWhole
      BY <1>0, <2>1, <3>1, <3>2, <3>3 DEF Whole!SendWhole
    <3> QED BY <3>4 DEF Whole!WholeNext
  <2> QED BY <2>2, <2>3
<1>4. CASE TakeReply
  <2>1. /\ step = "recv" /\ step' # "recv" /\ readable
        /\ UNCHANGED <<clientfd, captures, added>>
        /\ IF clientfd = -1 THEN up' = up ELSE up > 0 /\ up' = up - 1
    BY <1>4 DEF TakeReply, Goes, socketVars, filmVars, sendVars, readVars
  <2>2. CASE clientfd = -1
    BY <2>1, <2>2, NoWholeStep DEF UnderWay
  <2>3. CASE clientfd # -1
    <3>1. up = 1 /\ up' = 0
      BY <2>1, <2>3 DEF StepInv, Connected, Busy
    <3>2. UnderWay = <<>> /\ UnderWay' = <<>>
      BY <2>1, <3>1 DEF UnderWay
    <3>3. Whole!TakeWhole
      BY <2>1, <3>1, <3>2 DEF Whole!TakeWhole
    <3> QED BY <3>3 DEF Whole!WholeNext
  <2> QED BY <2>2, <2>3
<1>5. CASE AddAndReply
  <2>1. /\ field = "reply" /\ added' = added + 1 /\ up' = up + 1
        /\ UNCHANGED <<step, clientfd, captures, readable>>
    BY <1>5 DEF AddAndReply, cameraVars, socketVars, filmVars, sendVars
  <2>2. clientfd # -1 /\ Busy
    BY <2>1 DEF StepInv, Silent, Connected, Idle
  <2>3. step = "recv" /\ up = 0 /\ up' = 1 /\ added + 1 = captures
    BY <2>1, <2>2 DEF Busy
  <2>4. UnderWay = <<captures>> /\ UnderWay' = <<>>
    BY <2>1, <2>2, <2>3 DEF UnderWay
  <2>5. UNCHANGED (added + Len(UnderWay)) /\ Head(UnderWay) = captures /\ UnderWay # <<>>
    BY <1>0, <2>1, <2>3, <2>4
  <2>6. Whole!AddWhole
    BY <2>1, <2>3, <2>4, <2>5 DEF Whole!AddWhole
  <2> QED BY <2>6 DEF Whole!WholeNext
<1>6. CASE ReadBytes \/ EndSize \/ EndMotion \/ EndImage \/ EndTime \/ AtEndOfFile
  <2>1. UNCHANGED <<step, clientfd, captures, up, added>>
    BY <1>6
    DEF ReadBytes, EndSize, EndMotion, EndImage, EndTime, AtEndOfFile, cameraVars, socketVars,
        filmVars
  <2> QED BY <2>1, NoWholeStep DEF UnderWay
<1> QED
  BY <1>1, <1>2, <1>3, <1>4, <1>5, <1>6 DEF WireNext, Server, Reader

\* While sizes can be read back, the four writes and the loops of reads carry
\* whole frames, each answered once and before the next, for any film, any
\* lengths of the fields and however the reads are cut.
THEOREM BytesCarryFrames == WireSpec => FramesCrossWhole
<1>1. FrameInv => StepInv
  BY DEF FrameInv
<1>2. StepInv /\ [WireNext]_wireVars =>
        [readable' => [Whole!WholeNext]_(Whole!wholeVars)]_wireVars
  BY WholeSteps
<1> QED BY <1>1, <1>2, FrameInvariance, PTL DEF WireSpec, FramesCrossWhole

\* With the film there is, the bytes implement the exchange of whole frames.
THEOREM FilmCrossesWhole ==
  ASSUME \A sz \in Sizes :
           /\ sz <= MaxBytes
           /\ \/ NumDigits(sz) = SizeLen - 1
              \/ /\ NumDigits(sz) = SizeLen - 2
                 /\ \A buffer \in Leftovers : buffer[SizeLen] = NUL
  PROVE  WireSpec => Whole!WholeSpec
<1>1. WireInit => Whole!WholeInit
  BY DEF WireInit, CameraInit, SocketsInit, Whole!WholeInit, UnderWay
<1>2. WireSpec => [](readable /\ InStepWhileReadable)
  BY FilmStaysInStep
<1>3. FrameInv => StepInv
  BY DEF FrameInv
<1>4. StepInv /\ (readable /\ InStepWhileReadable)' /\ [WireNext]_wireVars
        => [Whole!WholeNext]_(Whole!wholeVars)
  BY WholeSteps
<1> QED BY <1>1, <1>2, <1>3, <1>4, FrameInvariance, PTL DEF WireSpec, Whole!WholeSpec
---------------------------------------------------------------------------
(* Going on *)

\* The loops end after the last frame.
LastInv == step = "join" => captures = Count

\* The guards of Server and of Reader.  accept is left to ClientConnects, and
\* the joins to module CameraServer.
ServerCanGo ==
  \/ step \in {"create", "openCamera", "capture", "send"}
  \/ step = "recv" /\ (clientfd = -1 \/ up > 0)
ReaderCanGo ==
  \/ need > 0 /\ stream # <<>>
  \/ need = 0 /\ field \in Fields
  \/ field = "reply"

LEMMA LastTurns == WireSpec => []LastInv
<1>1. WireInit => LastInv
  BY DEF WireInit, CameraInit, SocketsInit, LastInv
<1>2. PlaceInv /\ LastInv /\ [WireNext]_wireVars => LastInv'
  <2> SUFFICES ASSUME PlaceInv, LastInv, [WireNext]_wireVars PROVE LastInv'
    OBVIOUS
  <2>1. CASE TakeReply
    BY <2>1, CountAssumption DEF TakeReply, Goes, filmVars, PlaceInv, LastInv
  <2>2. CASE CameraStep \/ ClientConnects \/ SendFrame \/ SendDies
    BY <2>2
    DEF CameraStep, GetConnection1, OpenCamera, CaptureFrame, CameraCloses, CloseCamera,
        Finishes, CloseConnection, ClientConnects, GetConnection2, SendFrame, SendDies, Goes,
        filmVars, LastInv
  <2>3. CASE Reader \/ UNCHANGED wireVars
    <3>1. UNCHANGED <<step, captures>>
      BY <2>3
      DEF Reader, ReadBytes, EndSize, EndMotion, EndImage, EndTime, AddAndReply, AtEndOfFile,
          wireVars, cameraVars, filmVars
    <3> QED BY <3>1 DEF LastInv
  <2> QED BY <2>1, <2>2, <2>3 DEF WireNext, Server
<1>3. TypeInv => PlaceInv
  BY DEF TypeInv
<1> QED BY <1>1, <1>2, <1>3, WireTypeInvariance, PTL DEF WireSpec

\* While sizes can be read back, server and client never both wait: from the
\* client's connecting to the end of the loops, a turn can be taken or a read
\* returns; and the loops end after the last frame.
THEOREM NeitherWaits ==
  WireSpec => [](/\ readable /\ step \notin {"accept", "join", "ended", "gone"}
                      => ServerCanGo \/ ReaderCanGo
                 /\ step = "join" => captures = Count)
<1>1. ASSUME FrameInv, TypeInv, readable, step \notin {"accept", "join", "ended", "gone"}
      PROVE  ServerCanGo \/ ReaderCanGo
  <2>0. step \in Steps /\ up \in Nat /\ need \in Nat
    BY <1>1 DEF TypeInv, PlaceInv, SentInv, ReadInv
  <2>1. CASE step = "recv" /\ clientfd # -1 /\ up = 0
    <3>1. Busy /\ frame.sz \in Nat /\ captures \in Nat
      BY <1>1, <2>1 DEF FrameInv, StepInv, Connected
    <3>2. CASE field \in Fields /\ need > 0
      <4>1. stream = Left /\ Left # <<>>
        BY <2>0, <3>1, <3>2, LeftFront DEF Busy, Fields
      <4> QED BY <3>2, <4>1 DEF ReaderCanGo
    <3> QED BY <2>0, <3>1, <3>2 DEF Busy, ReaderCanGo
  <2> QED
    BY <1>1, <2>0, <2>1 DEF ServerCanGo, Steps
<1>2. LastInv => (step = "join" => captures = Count)
  BY DEF LastInv
<1> QED BY <1>1, <1>2, FrameInvariance, WireTypeInvariance, LastTurns, PTL

\* How far the server is from its end, and the client from its reply.
StepRank ==
  [create |-> 5, accept |-> 4, openCamera |-> 3, capture |-> 2, send |-> 4, recv |-> 3,
   join |-> 1, ended |-> 0, gone |-> 0]
ServerLeft == 3 * (Count - captures) + StepRank[step] + (IF cam = "closed" THEN 0 ELSE 1)
ToRead ==
  CASE field = "size" -> need + MotionLen + frame.sz + TimeLen + 6
    [] field = "motion" -> need + frame.sz + TimeLen + 5
    [] field = "image" -> need + TimeLen + 4
    [] field = "time" -> need + 3
    [] OTHER -> 2
ReaderLeft == IF field = "broken" THEN 0 ELSE IF UnderWay = <<>> THEN 1 ELSE ToRead

LEMMA ServerLess ==
  SocketInv /\ PlaceInv /\ PlaceInv' /\ (Server \/ ClientConnects)
    => ServerLeft \in Nat /\ ServerLeft' \in Nat /\ ServerLeft' < ServerLeft
<1> SUFFICES ASSUME SocketInv, PlaceInv, PlaceInv', Server \/ ClientConnects
             PROVE  ServerLeft \in Nat /\ ServerLeft' \in Nat /\ ServerLeft' < ServerLeft
  OBVIOUS
<1> DEFINE Before == {<<"create", "accept">>, <<"accept", "openCamera">>,
                      <<"openCamera", "capture">>, <<"openCamera", "gone">>,
                      <<"send", "recv">>, <<"send", "gone">>, <<"recv", "capture">>,
                      <<"recv", "join">>, <<"join", "ended">>}
           Moves == /\ <<step, step'>> \in Before /\ captures' = captures
                    /\ cam' = "closed" <=> cam = "closed"
<1>0. /\ captures \in 0..Count /\ captures' \in 0..Count /\ Count \in Nat
      /\ StepRank[step] \in Nat /\ StepRank[step'] \in Nat
  BY CountAssumption DEF PlaceInv, StepRank, Steps
<1>1. CASE Moves
  <2>1. StepRank[step'] < StepRank[step]
    BY <1>1 DEF StepRank
  <2> QED BY <1>0, <1>1, <2>1 DEF ServerLeft
<1>2. CASE CaptureFrame
  <2>1. step = "capture" /\ step' = "send" /\ captures' = captures + 1 /\ cam' = cam
    BY <1>2 DEF CaptureFrame, Goes
  <2>2. StepRank["capture"] = 2 /\ StepRank["send"] = 4
    BY DEF StepRank
  <2> QED BY <1>0, <2>1, <2>2 DEF ServerLeft
<1>3. CASE CameraCloses
  <2>1. step' = step /\ captures' = captures /\ cam # "closed" /\ cam' = "closed"
    BY <1>3 DEF CameraCloses, CloseCamera
  <2> QED BY <1>0, <2>1 DEF ServerLeft
<1>4. CASE ClientConnects \/ (GetConnection1 /\ UNCHANGED <<motionVars, filmVars>>)
  BY <1>1, <1>4 DEF ClientConnects, GetConnection1, GetConnection2, Goes, filmVars
<1>5. CASE OpenCamera
  <2>1. cam = "none"
    BY <1>5 DEF OpenCamera, Goes, SocketInv
  <2> QED BY <1>1, <1>5, <2>1 DEF OpenCamera, Goes
<1>6. CASE SendFrame \/ SendDies \/ TakeReply \/ Finishes
  BY <1>1, <1>6 DEF SendFrame, SendDies, TakeReply, Finishes, CloseConnection, Goes, filmVars
<1> QED
  BY <1>2, <1>3, <1>4, <1>5, <1>6 DEF Server, CameraStep

LEMMA ReaderLess ==
  StepInv /\ TypeInv /\ TypeInv' /\ Reader /\ readable
    => ReaderLeft \in Nat /\ ReaderLeft' \in Nat /\ ReaderLeft' < ReaderLeft
<1> SUFFICES ASSUME StepInv, TypeInv, TypeInv', Reader, readable
             PROVE  ReaderLeft \in Nat /\ ReaderLeft' \in Nat /\ ReaderLeft' < ReaderLeft
  OBVIOUS
<1>0. /\ need \in Nat /\ need' \in Nat /\ frame.sz \in Nat
      /\ MotionLen \in Nat /\ TimeLen \in Nat
      /\ UNCHANGED <<step, clientfd, captures, frame>>
  BY FieldAssumption
  DEF TypeInv, ReadInv, StepInv, Reader, ReadBytes, EndSize, EndMotion, EndImage, EndTime,
      AddAndReply, AtEndOfFile, cameraVars, socketVars, filmVars
<1>1. CASE clientfd # -1 /\ Busy
  <2>1. UnderWay # <<>> /\ field \in Fields \cup {"reply"} /\ step = "recv"
    BY <1>1 DEF Busy, UnderWay
  <2>2. CASE ReadBytes
    <3>1. field \in Fields /\ need > 0 /\ stream = Left
      BY <1>0, <1>1, <2>2 DEF ReadBytes, Busy
    <3>2. Head(stream).len = need
      BY <1>0, <1>1, <3>1, LeftFront DEF StepInv, Part
    <3>3. need' < need /\ UNCHANGED <<field, up>>
      BY <1>0, <2>2, <3>2 DEF ReadBytes
    <3>4. UnderWay' # <<>>
      BY <1>0, <2>1, <3>3 DEF UnderWay
    <3>5. ReaderLeft = ToRead /\ ReaderLeft' = ToRead'
      BY <2>1, <3>1, <3>3, <3>4 DEF ReaderLeft, Fields
    <3>6. ToRead \in Nat /\ ToRead' \in Nat /\ ToRead' < ToRead
      <4>1. CASE field = "size"
        BY <1>0, <3>3, <4>1 DEF ToRead
      <4>2. CASE field = "motion"
        BY <1>0, <3>3, <4>2 DEF ToRead
      <4>3. CASE field = "image"
        BY <1>0, <3>3, <4>3 DEF ToRead
      <4>4. CASE field = "time"
        BY <1>0, <3>3, <4>4 DEF ToRead
      <4> QED BY <3>1, <4>1, <4>2, <4>3, <4>4 DEF Fields
    <3> QED BY <3>5, <3>6
  <2>3. CASE EndSize
    <3>1. /\ field = "size" /\ need = 0 /\ field' = "motion" /\ need' = MotionLen
          /\ UNCHANGED up
      BY <2>3 DEF EndSize, ReadsNext
    <3>2. UnderWay' # <<>>
      BY <1>0, <2>1, <3>1 DEF UnderWay
    <3> QED BY <1>0, <2>1, <3>1, <3>2 DEF ReaderLeft, ToRead
  <2>4. CASE EndMotion
    <3>1. /\ field = "motion" /\ need = 0 /\ field' = "image" /\ need' = frame.sz
          /\ UNCHANGED up
      BY <1>1, <2>4 DEF EndMotion, ReadsNext, Busy
    <3>2. UnderWay' # <<>>
      BY <1>0, <2>1, <3>1 DEF UnderWay
    <3> QED BY <1>0, <2>1, <3>1, <3>2 DEF ReaderLeft, ToRead
  <2>5. CASE EndImage
    <3>1. /\ field = "image" /\ need = 0 /\ field' = "time" /\ need' = TimeLen
          /\ UNCHANGED up
      BY <2>5 DEF EndImage, ReadsNext
    <3>2. UnderWay' # <<>>
      BY <1>0, <2>1, <3>1 DEF UnderWay
    <3> QED BY <1>0, <2>1, <3>1, <3>2 DEF ReaderLeft, ToRead
  <2>6. CASE EndTime
    <3>1. /\ field = "time" /\ need = 0 /\ field' = "reply" /\ need' = 0
          /\ UNCHANGED up
      BY <2>6 DEF EndTime, ReadsNext
    <3>2. UnderWay' # <<>>
      BY <1>0, <2>1, <3>1 DEF UnderWay
    <3> QED BY <1>0, <2>1, <3>1, <3>2 DEF ReaderLeft, ToRead
  <2>7. CASE AddAndReply
    <3>1. field = "reply" /\ field' = "size" /\ up' = 1
      BY <1>1, <2>7 DEF AddAndReply, ReadsNext, Busy
    <3>2. UnderWay' = <<>>
      BY <3>1 DEF UnderWay
    <3> QED BY <1>0, <2>1, <3>1, <3>2 DEF ReaderLeft, ToRead
  <2>8. ~ AtEndOfFile
    BY <2>1 DEF AtEndOfFile
  <2> QED BY <2>2, <2>3, <2>4, <2>5, <2>6, <2>7, <2>8 DEF Reader
<1>2. CASE clientfd = -1 \/ ~ Busy
  <2>0. stream = <<>> /\ ((field = "size" /\ need # 0) \/ (field = "broken" /\ need = 0))
    <3>1. Silent \/ (Connected /\ ~ Busy)
      BY <1>2 DEF StepInv
    <3> QED
      BY <3>1, SizeLenAssumption DEF Silent, Connected, Idle
  <2>1. ~ ReadBytes /\ ~ EndSize
    BY <2>0 DEF ReadBytes, EndSize
  <2>2. ~ EndMotion /\ ~ EndImage /\ ~ EndTime /\ ~ AddAndReply
    BY <2>0 DEF EndMotion, EndImage, EndTime, AddAndReply
  <2>3. AtEndOfFile /\ field = "size"
    BY <2>0, <2>1, <2>2 DEF Reader, AtEndOfFile
  <2>4. UnderWay = <<>> /\ field' = "broken"
    BY <2>3 DEF AtEndOfFile, ReadsNext, UnderWay
  <2> QED BY <2>3, <2>4 DEF ReaderLeft
<1> QED BY <1>1, <1>2

\* Each step of the server brings its end nearer and each step of the client
\* its reply, so neither can keep the other waiting by steps of its own, and
\* there are Count turns at most.  No bound on the sizes is assumed.
THEOREM BothGetOn ==
  WireSpec => [][/\ Server \/ ClientConnects => ServerLeft \in Nat /\ ServerLeft' < ServerLeft
                 /\ Reader => ServerLeft' = ServerLeft
                 /\ Reader /\ readable => ReaderLeft \in Nat /\ ReaderLeft' < ReaderLeft]_wireVars
<1>1. Reader => ServerLeft' = ServerLeft
  <2> SUFFICES ASSUME Reader PROVE ServerLeft' = ServerLeft
    OBVIOUS
  <2>1. UNCHANGED <<step, cam, captures>>
    BY DEF Reader, ReadBytes, EndSize, EndMotion, EndImage, EndTime, AddAndReply, AtEndOfFile,
       cameraVars, filmVars
  <2> QED BY <2>1 DEF ServerLeft
<1>2. SocketInv /\ StepInv /\ TypeInv /\ TypeInv' /\ [WireNext]_wireVars =>
        [/\ Server \/ ClientConnects => ServerLeft \in Nat /\ ServerLeft' < ServerLeft
         /\ Reader => ServerLeft' = ServerLeft
         /\ Reader /\ readable => ReaderLeft \in Nat /\ ReaderLeft' < ReaderLeft]_wireVars
  BY <1>1, ServerLess, ReaderLess DEF TypeInv
<1>3. FrameInv => SocketInv /\ StepInv
  BY DEF FrameInv
<1> QED BY <1>2, <1>3, FrameInvariance, WireTypeInvariance, PTL DEF WireSpec
=============================================================================
