# A TLA+ verification of Camera-Project

Camera-Project shows the pictures of two cameras on one screen. Each camera is
served by a C program; a Java program connects to both, reads their frames, and
shows them either as soon as they arrive or in pairs that keep the time between
their captures. A separate C program collects motion events.

The sources are in `src/Project_Code_Final/`. This directory holds TLA+ models of
the parts with concurrency and failure in them, TLC configurations that check
them on small instances, and proofs, checked by TLAPS, that hold for every value
of the constants.

## Inventory

| Component | State | Operations | What is hard about it |
|---|---|---|---|
| Camera server (`CameraServerMain.c`) | mutex, condition variable, turn letter `task`, `userMode`, `motion`, `frameCount`, three loop counters | `task_send`, `task_recieve`, `task_motion`, `main` | one condition variable and one signal for three predicates; the first letter written without the mutex; a blocking read under the mutex |
| Sockets of the server (`server.c`) | file descriptors | `getConnection1`, `getConnection2`, `do_serve`, `get_javamsg`, `closeConnection` | lost writes, SIGPIPE, end of file and failed reads that nobody looks at, a terminator one past the buffer |
| Fake camera (`fakecapture.c`, `camera.c`) | film position, `motionfd` | `camera_open`, `camera_get_frame`, `camera_close`, `fake_motion_notify` | wrap around of frame numbers, missing file returned as NULL, a socket per notification in the process that holds the client's |
| Write helpers (`server_common.c`) | none | `write_string`, `write_n` | partial writes |
| Motion server (`motion_server.c`) | `global_state` (`running`, `quit`, `t_local`, `t_remote`), mutex and condition | `main`/`serve_clients`, `bg_task`, `ui_task`, `motion_task`, `handle_sigint` | unlocked reads, lost wakeup, a mutex locked in a signal handler, threads that fail to start |
| Motion client (`motion_client.c`) | `running`, a socket | `init`, `poll_motion`, `motion_get`, `cleanup` | default port that registers events, leaked sockets, cleanup in a signal handler, 0 used for "no socket" |
| Monitor (`monitor.java`) | two lists, viewing and camera modes, fields of `display` | `addImage`, `changeMode`, `display`, `viewImage`, `framesRate` | waits in the middle of `display`, mode changes while it waits, no timed wait |
| Client threads (`ClientThread.java`) | the arrays a frame is read into, the socket | `run` | one array for all frames; framing and parsing of the header |
| Painting (`DisplayThread.java`, `ImagePanel.java`, `Data.java`) | SwingWorkers, the image of each panel | `prepare`, `refresh` | workers that run and finish in any order |
| GUI and main (`GUI.java`, `CameraClientMain.java`) | labels, buttons | the buttons' listener, start-up, window closing | clicks at any moment |
| Test helpers (`FakeCameraThread.java`, `FileImage.java`) | a file's bytes | `run` | not started by `main` |
| Build files | | | `Makefile` and `Makefile.fake` build the camera server only |

How they interact:

```
 capture --frames--> task_send ==size, motion word, bytes, time==> ClientThread --addImage--> monitor
                        ^                                              |                     |  ^
                        | task letter, mutex, cond                     |<---framesRate-------|  | changeMode
 task_motion <----> task_recieve <============= mode ==================|                     v  |
                                                            DisplayThread: display     GUI listener
                                                                    | viewImage
                                                                    v
                                                        SwingWorkers: prepare, done/refresh

 a camera --notify :9090--> motion_server (motion_task) ; clients --GET :9091--> motion_server (main)
```

What makes each component correct:

* Camera server: the tasks take turns send, receive, motion, whatever the wakeups;
  each frame carries the motion word the last request and the motion found call
  for; at most one message is in the connection; main closes after the last turn;
  the server comes to an end.
* Monitor: no frame is lost or reordered between `addImage` and `viewImage`; the
  second image of a pair is still there when its time has come; the user's choice
  holds whatever arrives; no missed notification; the lists drain.
* Client threads and painting: each frame taken gets one worker; what the worker
  finds is never older than what was meant; a panel goes back in time only where
  two of its workers overlapped.
* Fake camera and sockets: the film is shown in order and from the start again;
  the client's socket stays its own; descriptors are lost only where a
  notification cannot connect.
* The wire: reader and writer agree where each frame begins, though nothing on the
  wire says so, and neither waits for the other.
* Motion client and write helpers: a poll gives its socket back, whenever Ctrl-C
  comes; `write_n` counts what was taken.
* All together: no camera runs ahead of the client, a mode the user chooses is
  in force one frame later, and cameras, client and painting never all wait for each
  other while there is something left to send or to show.
* Motion server: an answer is as recent as its request; the sockets are not closed
  under the thread that uses them; once told to quit it ends.

`PROJECT.json` lists the hazards at their lines, with the properties that watch
each of them. Only one has none: a poll sent to the motion server's notification port,
the polling client's default (`motion_client.c:14`), is registered as an event. The step
that does it is in `MotionClient`, but it is one test of the port in the server, and a
property of it would only repeat that test.

## The modules

| Module | Models | Built on |
|---|---|---|
| `CameraModes` | constants of the server, motion window, pace and motion word | |
| `TurnCycle` | abstract specification: one frame, one request, one motion check, and again | `CameraModes` |
| `WholeFrames` | abstract specification: a whole frame one way, one reply the other, one of them at a time | |
| `CameraServer` | the server with its threads, and the client as it sees it | `CameraModes`; implements `TurnCycle` and, while the client is connected, `WholeFrames` |
| `Monitor` | the monitor's methods, the buttons and the display thread | |
| `Viewer` | two ClientThreads, the monitor, the workers that paint | composes with `Monitor` |
| `CameraSystem` | two cameras, two connections, the client and its user | composes `Viewer` with two servers, each its turn cycle; implements `Viewer`, and `WholeFrames` for each camera |
| `Descriptors` | how a process is given file descriptors | |
| `ServerSockets` | set-up and end of the server's sockets | `Descriptors` |
| `FakeCamera` | the film and its notifications | `ServerSockets`, `CameraModes` |
| `SizeDigits` | the digits of a size, printed into a buffer and parsed from it | |
| `FrameWire` | the way of a frame from the file to the monitor, byte by byte | `FakeCamera`, `SizeDigits`; implements `WholeFrames` while sizes are read back |
| `WriteAll` | `write_n` | |
| `MotionClient` | the polling client, Ctrl-C, and the server it polls | `Descriptors`, `WriteAll` |
| `MotionServer` | the motion server with its four threads and its signal handler | |
| `CameraServerProofs`, `MonitorProofs`, `ViewerProofs`, `SystemProofs`, `SizeDigitsProofs`, `FrameWireProofs`, `MotionClientProofs`, `MotionServerProofs` | the theorems | the module they are named after; `ViewerProofs` uses those of `MonitorProofs`, `SystemProofs` those of `ViewerProofs`, `FrameWireProofs` those of `SizeDigitsProofs` |
| `MC...` | constants' values for TLC | the module they are named after |

### CameraServer

`pc` says where each task is: `lock` before `pthread_mutex_lock`, `wait` in
`pthread_cond_wait`, `woken` when it has left the wait set and wants the mutex
again, `work` and `pass` inside its turn, `done` after its loop. `Enter` takes the
mutex and tests the letter, as the `while` loop does, in one step: between the two
nothing another thread does can matter. `PassTurn` is the end of each loop body:
letter, signal, unlock, and the `for` test. `SignalOne` wakes any one waiter, or
nobody if none waits. `SpuriousWakeup` is the one POSIX permits.

A frame is a record of its number and its motion word, a reply is its letter. The
other end, `ClientReplies`, reads a frame and answers it, which is what
`ClientThread.run` does. `conn` tells the three states of the connection apart
that `read` and `write` do: open, closed by the client, unusable.

The terminator that `get_javamsg` stores one byte past `msg[4]` is undefined
behaviour, and what it does is decided by the build's stack layout. `Overruns` are the
layouts considered, `overrun` is the one of the build at hand, and `Terminate` what a
full reply then does to the thread:

| `overrun` | One past `msg[4]` lies | Each full reply | Seen in |
|---|---|---|---|
| `"counter"` | the low byte of the loop counter `i` | sets `i` back (`LowByteCleared`) | the executable kept with the sources (`CameraServerMain`, Mach-O x86-64: `msg` at -24, `i` at -20, `d` at -16 from `%rbp`) |
| `"pointer"` | the pointer `d` to the shared data | the thread writes elsewhere and has no turn again (`GoAstray`) | gcc -O0, as in `Makefile.fake` (`msg` at -20, `d` at -16) |
| `"caller"` | a register saved for the thread's caller | goes on; when the task returns, its caller may end the process (`ReturnDies`) | gcc -O3 |
| `"padding"` | nothing that is used | goes on | |
| `"fatal"` | what ends the process when it is changed | ends the process | a build that checks its stores (`-fsanitize=address`) |

These are the locals of `task_recieve` and what surrounds its frame; a layout with something
else there would be another value. The passing run allows all of them, the runs that look for something
else only `"padding"`.

In the `"counter"` build every reply starts the receiver's count again. It then waits for
turns after the other two have taken their last, and main waits for it in `pthread_join`
for ever: the socket is never closed, and no turn went to the wrong thread. Only a client
that goes away helps, since end of file and failed reads write no terminator past `msg`.
`StaysWhileConnected` states it, and the third case of `LostTurn` is the state the server
then rests in. What `TurnsInOrder` says of the counter in such a build is that it is never
ahead; the order of the turns themselves does not depend on it.

`TurnCycle` has no threads. `ImplementsCycle` maps it to the server by the letter,
advanced as soon as the owner of the mutex has done its work, and by taking the
time before main writes the first letter as the first sender's turn.

`WholeFrames` has neither threads nor bytes, and is why the other modules may be
checked apart. `CameraServer` takes frames to arrive whole, `FrameWire` has them go
byte by byte, `CameraSystem` has a queue in each direction; each has the mapping to
`WholeFrames` at its end (`FramesCrossWhole`). In `FrameWire` and `CameraServer` a
frame is under way from the send until the client has added it. In `CameraSystem`
adding and replying are two steps of the client, so a reply counts from when it is
owed (`Owed`): to count it from when it is in `up` is not a refinement, as TLC
showed.

### Monitor and Viewer

All methods of the monitor are `synchronized`, so each stretch between two waits
is one action. `display` names the place in `display()`: at its top, in the wait
of the synchronous branch, in the wait between the two images of a pair, in the
wait of the asynchronous branch. `waiting` is membership in the wait set. The
clock is the step `TimePasses`, which makes the second image due and notifies
nobody. Whether two arrivals are less than 200 ms apart (`recent`) is a free
choice, except that the first arrival never is. `first`, `diff` and `due` stand for
`display1`, `diff` and `dispTime`; the case that `dispTime` has come by the time it
is first compared is a choice inside `SyncShows`.

`Viewer` adds the threads on both sides. `imageBytes[c]` is the frame whose bytes
fill the array of camera `c`; `Torn` while one is being read. A job is a SwingWorker
with the frame meant and the content it found; `Prepare` reads the array as it is
by then, `Paint` is `done()`. Jobs are a set because nothing orders them. `prepare` hands
the array to the toolkit, which may decode it after `doInBackground` has returned
(`ImagePanel.java:26-28`). `Prepare` has it read at one moment. A later decode finds
the same bytes or those of a newer frame, so what is said of the frames found being no
older holds all the same; that a painted image stays as it was found is not claimed.

### CameraSystem

Each server is its `TurnCycle`, which `CameraServer` implements, so that its three
threads need not be taken along; `down` and `up` are what is on the way in the two
directions. `FrameArrives` needs a frame in `down`, `FrameAdded` takes it out with
its motion word, `Replies` puts into `up` the letter `framesRate` returned. The
client's steps are those of `Viewer`. Both ends stay up: what a lost client does to
a server is in `CameraServer`, and what end of file does to a reader in `FrameWire`. Nor
does a turn get lost here, as it may in `CameraServer`: what is said of the composed
system's going on is said of cameras whose turns go round.

### FrameWire, SizeDigits, FakeCamera, ServerSockets

The server's process, with its turns reduced to their order (`step`), so that its
descriptors can be followed: `Allocates` gives the lowest free number, as POSIX
does. `main` does not look at the results of `getConnection1` and
`getConnection2`; after a failure it goes on with 1 and -1, and so does the model.
`Notify` is the tail of `capture_get_frame` in builds with fake motion: a new
socket, closed if `connect` succeeded. The source turns fake motion off itself
(`fakecapture.c:22`), so a build of it as it stands is one with `fakeMotion` `FALSE`; the
other value is the same file without that line, and `OnlyFailuresLeak` and the part of
`ClientSocketKept` about `motionfd` say something only there. `cam` may be opened after a set-up failure,
too. `OpenCamera` and `CaptureFrame` have the outcomes in which `malloc`,
`gethostbyname`, `open` or `read` fail; without a frame `SendDies` is the null pointer
that `get_frame_size` reads through.

A message is four parts with their lengths (`Message`); `ReadBytes` takes any number
of bytes of the first part that is there, which is what one call of `read` may
return, and the reader goes to its next field when it has counted enough
(`EndSize` ... `EndTime`). Whether all those bytes were sent as that field (`own`) is
history, as the reader cannot know; where they were not, what is parsed from them
is any number. Sizes are digits for real (`SizeDigits`): `Printed` is `snprintf` into a buffer that
keeps what lies behind the terminator, `Parsed` is `parseInt` of the digits anywhere
in it, `Accepted` the replacement of a size above `numBytes`. End of file is
`AtEndOfFile`: the loop of the image ends, the others count the -1 (`ClientThread.java:73`)
and go on to an exception. That takes a Java that checks the index before it looks for
end of file, as sockets do from version 13 on. Up to version 12 `read` goes on returning -1
whatever the index, and `totalRead` counts down until it overflows, after which the frame
read last would be added again. What the properties say of the time after the server's
end is for the newer ones.

`SendFrame` is one step although `do_serve` is called four times, since the reader takes
the parts one by one in any case and the server does nothing else in between. The turns
go round as if none got lost, and `EndsWhileReadable` stops at main's joins: whether they
return is a question for `CameraServer`, which may lose a turn or, in the `"counter"`
build, wait in a join for ever.

### MotionClient and WriteAll

`pc` goes through `poll_motion` and `motion_get` one access of `motionfd` at a time,
because `Cleanup`, the Ctrl-C handler, may run between any two and closes and
resets it. `fdArg` is the copy of the descriptor that a call in progress was given.
`socket_close` mentions the variable twice; whether the compiler reads it twice is
open, so `CloseSocket` closes either. The server is what a poll can do to it:
`Answered` registers a request that came to the cameras' port, with the prefix of
the request it has read by then, and answers on either. It may go and come back at
any time. `WriteAll` is `write_n`, with `sent` the history of what the socket took; it
is composed as the call inside `motion_get`.

### MotionServer

`pc` is per thread. `running`, `t_local` and `t_remote` are read by single steps
without the mutex, as in the code; the arguments of `snprintf` are read in either
order. Events change `t_remote` and `t_local` in two steps. Local time is the number
of connections accepted. Ctrl-C interrupts any live thread (`handler`), which then
makes no step until the handler has locked the mutex and done `do_quit`; if the
thread holds the mutex, that is never. A connection that sends nothing leaves the
previous request in the buffer, which is then parsed again. `poll`, `read`,
`pthread_create` and the socket calls may fail where the code handles it.

## What the runs check

| Run | Expect | Question |
|---|---|---|
| `server` | pass | Do the tasks keep their order, and the frames and modes their meaning, under all wakeups, failures and stack layouts? Does the server implement the cycle? Does it end unless a turn is lost? Can it end while its client stays, where the terminator hits the loop counter? No. |
| `server_turn` | violation | Does the task that "has permission to run" get to run? No: the signal may wake another, and all three sleep. |
| `server_mode` | violation | Is the mode changed only by a request? No: end of file and failed reads change it too. |
| `monitor` | pass | Are frames, pairs, the user's choice and notifications safe with the waits in the middle of `display`? Do the lists drain unless the synchronous branch is stuck? |
| `monitor_async` | violation | Are images shown "as soon as available" in asynchronous mode? No: `display` may be waiting in its synchronous branch. |
| `system` | pass | With both cameras, the client and the user together: does no camera run ahead, is a choice in force one frame later, has every taken frame one worker that finds nothing older, are panels in order unless workers overlap? When nobody can go on, has everything been sent, answered and painted? |
| `viewer_stored` | violation | Is an image kept as it was stored? No: the next frame is read into its array. |
| `frames` | pass | Do the two sides of the wire agree on where a frame begins, however reads cut it and whatever was in the buffers? Is the film shown in order and to its end? Which descriptors are lost? |
| `polling` | pass | With Ctrl-C between any two steps and a server that comes and goes: does every poll give its socket back, does no poll run without descriptor 0, does the client end unless it reads? |
| `write_n` | violation | Does `write_n` write the buffer? No: after a partial send it starts at the front again. |
| `motion` | pass | Are answers recent, the mutex where the code says, and the sockets open while they are used? Does quitting end the server unless bg missed the broadcast, the handler waits for its own thread, or a client is silent? |
| `motion_quit` | violation | Does Ctrl-C shut a running server down? Not always: the handler may lock a mutex that the interrupted thread holds, or bg may miss the broadcast. |

`CHECK_DEADLOCK FALSE` is in every configuration because each program really stops or
waits: the servers and the polling client end, the monitor waits for images and
clicks.

### Bounds

* `server`: `Count` 4 instead of 247, motion window 2 (above 1 and below 3). Four
  rounds give a frame before the window, one that reports it, one after it, and one
  more, and a first, a middle and a last turn of each task. Nothing in the code
  depends on `Count` or the window but the two comparisons, and the theorems hold
  for every value.
* `server_turn`, `server_mode`: 2 and 3 rounds, enough for the counterexamples,
  with padding behind `msg`, so that the overrun is not what breaks the property.
* `monitor`: 3 frames of each camera with two time stamps (equal, older, newer),
  and all six buttons. Three frames let a list grow while a pair is shown and
  another pair follow. `monitor_async` needs 2.
* `system`: 2 frames of each camera, motion reported for the first, one time
  stamp, and the button Movie. Two frames are what it takes to overwrite the array
  under a queued image, to have two workers of a camera, and to send one frame before
  and one after a choice. Pairs with different time stamps, and clicks that change the
  viewing mode, are in `monitor`; the theorems cover them in the composition too.
* `viewer_stored`: the client alone with 2 frames and two time stamps.
* `frames`: binary digits and fields of 4, 1 and 2 bytes; room for 5 bytes and 3 by
  default; sizes of one digit, of two and three (what five- and four-digit sizes are
  to the program's buffer of six), one above the room and one too long for the
  buffer; three contents of an uninitialised buffer. A film of two frames, three
  turns, so that it starts over; each turn notifies. Seven descriptors, so that
  they run out after one lost socket.
* `polling`, `write_n`: five descriptors, two beyond the streams, so that they run
  out after two failed polls; a request in three pieces, so that a send can take
  one, two or all; two events (one in `write_n`), so that one can follow another.
* `motion`: two motion connections, so that one registers an event while another
  is answered, and an empty one repeats it; one Ctrl-C. `motion_quit` needs one
  connection.

### Fairness

* `CameraServer`: weak fairness of each task and of main: a thread that can go on
  does. The client answers while it is connected; it need not close, and no
  wakeup need be spurious. Weak fairness of `Enter` is enough because the holder
  of a turn keeps the mutex until it has passed the letter on, and whoever takes
  the mutex out of turn goes to sleep.
* `Monitor`: weak fairness of the display thread and of the clock. Cameras and
  user may stop at any time.
* `FrameWire`: weak fairness of the server and of the reading thread. No client
  need ever connect.
* `MotionClient`: weak fairness of the program's own steps. Nobody has to type at
  the terminal it may come to read from, and a server that accepted the connection
  need not answer, so both are exceptions in the property.
* `MotionServer`: weak fairness of the threads, except of reading: nobody has to press
  a key, and a connection need not send anything, so the property excepts a
  server that reads. Strong fairness of the handler while the process lives, since
  others may take the mutex in between; once `main` has returned nothing is left
  to run it.

## What is proved

TLAPS checks the theorems for every value of the constants, from the named
assumptions in the modules: `Count` is a positive number and the window's ends are
numbers, there is some stack layout, of those named, the numbers of frames, connections and
events are numbers, time stamps are integers and there is one, clicks are pairs of a mode and a
type, a process may hold more descriptors than the standard streams, the film has a
first frame no later than its last, fields have at least a byte, the radix is at least
two, the default size fits the room for an image. TLC evaluates the assumptions in every passing run.

* `CameraServerProofs`. None of the invariants is inductive alone. The invariant
  joins them with what links the letter, the counters and the connection: how far
  the loop counters of the tasks are apart for each letter and place, what main has
  done so far, which side a message is on during whose turn, and that `userMode`,
  the last request and the motion flag agree from turn to turn. The receiver's counter
  is tied to the others (`RoundInv`) except where the terminator hits it, and there it is
  at most one while the client is connected (`CounterInv`), from which
  `NeverClosesOnClient`. The proof has one step per action. `Implementation` shows with its help that every step of the
  threads is a step of `TurnCycle` or none, `TurnsCarryFrames` that it is one of
  `WholeFrames` or none until the client is lost.
* `MonitorProofs`. The conjunction of the properties is inductive once it is known
  that the display thread waits only where `display` calls `wait`. The lemmas say
  what `add` and `removeFirst` do to a list, that `Take` keeps the backlog, and that
  a step of `display` ends in a wait or takes the next image of at least one list.
* `ViewerProofs`. On top of the monitor's invariant: what each array holds follows
  from where its ClientThread is (`ArrayOf`), each frame taken is painted or has
  one worker (`WorkersOf`), and while workers of a camera did not overlap the only
  one there can be is at the frame taken last (`OrderOf`). Without the first a worker
  might find anything, without the last `InOrderUnlessOverlapped` is not inductive.
  The lemmas at the end say what each step of display thread and workers leaves of
  the way from list to panel, three steps for each frame of it; they need that there
  are finitely many workers, which the type alone does not give.
* `SystemProofs`. `LockOf` lists the four things that can be under way between a
  camera and the client; `ChoiceOf` says that a frame sent since the user's choice is
  answered with it. `SystemsClient` shows that every step of the system is a step of
  `Viewer` or leaves it alone, so that its theorems hold of the system. `ClientsPromises`
  draws the conclusion: what the `system` run checks of the client
  holds for any film length and any user. `ConnectionsCarryFrames`: each
  connection is a `WholeFrames`.
* `FrameWireProofs`. `SocketInv`: the numbers in `open`, `fd`, `clientfd` and
  `motionfd` are different and known at each place. `LeakInv`: the descriptors are
  counted against those the place accounts for (`Held`) and the failed
  notifications. `CountInv`: the film frame is the remainder of the captures.
  `StepInv`: while sizes are readable, what is in the stream is exactly what the
  reader has not yet counted of the last message; this is what makes the
  agreement inductive, since the reader's own fields say nothing about the stream.
  `TypeInv`: the types, with the fact that every time on the wire is a frame's, from
  which `WireTypes` and `FilmSizes`: what `FilmSizesReadBack` needs is what is left
  behind the terminator in `sizeBuffer`, from frame to frame.
  `FilmStaysInStep` says when sizes are readable for good: if every file has
  `SizeLen - 1` digits and fits the room, whatever the buffer held; or one digit
  less, if the buffer's last byte was no digit to begin with. The film's files have
  five digits, 23,282 to 27,593 of at most 33,278, so it is safe in any build; the
  short sequence's have four, 4,956 to 5,620, so it is only if the uninitialised
  last byte of `sizeBuffer` is no digit. `BytesCarryFrames`: while sizes are read
  back, every step on the wire is a step of `WholeFrames` or none;
  `FilmCrossesWhole`: for films as above it implements `WholeFrames` throughout.
* `SizeDigitsProofs`. `SizesReadBack`: any number with fewer digits than the buffer
  has bytes is read back, if no digit lies behind the terminator; `TruncatedSize`:
  one with more is read as its leading digits. Both need induction over the digits.
  The library's induction theorem takes an operator, which the provers cannot
  instantiate, so `Induction` states it for a set, from the well-foundedness of the
  numbers, and `Recursion` what a recursive function is equal to. Then `DigitsReadAs`:
  the first i of d digits read as the number divided by `Power[d - i]`.
* `MotionClientProofs`. `DescriptorInv` says what `motionfd` and a call's copy can be
  at each place, before and after the handler; `LeakInv` counts the sockets with
  the one the place holds. Once the handler has run, the count may be off by
  two, which is why the exact count is claimed only while `running` is set.
* `MotionServerProofs`. The invariant has a control and a data part. Control: who
  holds the mutex is decided by where the threads are, which is inductive with the
  fact that a thread exists only after main has created it. Data: each event's
  local time is later than the one before it, and outside the two steps that
  register an event `t_remote` belongs to `t_local`; so whatever main has read for
  an answer is of an event no older than the last one when the request arrived.

### How far liveness is proved

Each of the four programs that come to an end has a liveness property in its run, and so
has the monitor, which does not. What such a property says of the code is in two facts,
and both are safety, so that they are proved for every value of the constants:

| Property | Nobody waits in a circle | Every step leads on |
|---|---|---|
| `EndsUnlessTurnLost` | `OnlyLostTurnsStop`: until main has returned, some thread, main or the client can go on, unless the turn is for a thread that is astray, or that sleeps when main has given its only signal, or that is done while the receiver, its counter set back, waits for one turn more | `EachStepLeadsOn`: the turns the sender and the motion task have left (the receiver's follow theirs, whatever its counter says), loop bodies and the message under way add up to a measure that each step of thread, main or client lowers; spurious wakeups, which nothing bounds, are left to TLC |
| `EndsWhileReadable` | `NeitherWaits`: from connecting to the end of the loops, which is after the last frame, a turn can be taken or a read returns, while sizes are read back | `BothGetOn`: the server's steps lower what it has left, the reader's what it has left to read; what the server has left the reader does not change |
| `EndsUnlessReading` | `WaitsOnlyToRead`: the polling client waits only in `read`, for a server that took its connection or the terminal | `EachPollEnds`: each step of a poll lowers a measure that the handler does not change, and once `running` is reset no other poll begins |
| `EndsUnlessMissed` | `OnlyHitchesStop`: once `running` is reset, some thread or the handler can go on, unless one reads, bg has missed the broadcast, or the handler waits for the thread it interrupted | `ShutdownLeadsOn`: each step of anybody lowers a measure, failures, spurious wakeups and further interruptions included |
| `DrainsUnlessStuck` | `DisplayRunsOn`: the display thread can go on unless a `wait` holds it, and none does while there is an image to show, but for the synchronous branch's | `EachDisplayDrains`: nothing raises the number of images still to take, and each step of `display` lowers it or ends where the property holds |

"Can go on" is stated by the guards of the actions, since the prover knows no
`ENABLED`. What is left to TLC is the last step of the argument: that fairness takes a
step whose guard holds.

The composed system states no fairness and no run asks liveness of it; the same two facts
are proved of it as a whole, and there they are about cameras, connections, client and
painting together. `NothingLeftUndone`, which the `system` run checks too
(`NobodyWaitsInCircle` proves it): when nobody but the user and the clock can go on,
each camera has sent all its frames and had each of them answered, every frame taken
from a list is on its panel, and frames are left in a list only where the synchronous
branch waits for the other camera or was not notified of the time. So no
camera and its client ever both wait for each other. `EachStepGetsOn`: the rounds left, the way from list to
panel and whether the display thread is awake add up to a measure (`ToDo`) that each step
of a camera, a ClientThread, the display thread or a worker lowers; a click, the clock or
a spurious wakeup raises it by one at most. So only user, clock or spurious
wakeups without end could keep it going for ever; it never turns in a circle by itself.

Only model-checked:

* liveness itself (`EndsUnlessTurnLost`, `EndsWhileReadable`, `EndsUnlessReading`,
  `EndsUnlessMissed`, `DrainsUnlessStuck`), to the extent just said: the prover does not
  reason about `ENABLED` or fairness.

The refinements of `WholeFrames` are theorems and not properties of the runs.

## What is not modelled

* Formatting, logging, layout, the delay label, and closing the window, which ends
  the client's process.
* Real time: pauses, the 200 ms test and `dispTime` are choices or single steps.
* The content of the motion word on the wire in `FrameWire`; `CameraServer` has it.
  There, and not in `FrameWire`, is also what a client that goes away does (SIGPIPE,
  end of file at the server).
* A read of the server that returns part of a reply: the client writes each one whole,
  three letters and the line's end, and they arrive together.
* The film's short sequence (`START_FRAME` 0) notifies on every frame; it is
  another value of the constants but for that. The constant height and width of
  the camera have no state. The real camera's calls are commented out in the source.
* `set_socket_sigpipe_option`, which does nothing where the Makefiles build.
* The prompts for ports and the polling client's look-up of the host's name, which
  come before the loops; the order in which `CameraClientMain`
  starts its threads.
* `MULTI_CLIENT_THREADS` and `WRITE_LOOP` code, which no build defines.
* `FakeCameraThread`, `FileImage`: nothing starts them. The build files.
* Java's `interrupt()`: nobody calls it.

## Plan

All parts of the plan are done:

1. `CameraModes`, `TurnCycle`, `CameraServer` and its proofs.
2. `Monitor` and its proofs.
3. `Viewer`, composed with the monitor, and its proofs from the monitor's.
4. `MotionServer` and its theorems, liveness without assuming that clients speak.
5. `Descriptors`, `ServerSockets`, `FakeCamera`: the server's sockets and the film.
6. `FrameWire` and its proofs.
7. `WriteAll` and `MotionClient`, and its proofs.
8. `CameraSystem`, end to end, and its proofs.
9. `WholeFrames`, which ties server, wire and system together, and the proofs that
   they implement it.
10. The proved part of liveness: nobody waits in a circle, every step leads on, of
   each program and of the composed system.

What would come next is the motion server and the polling client in one module: the
client's view of the server is a single step now.
