---------------------------- MODULE ChatRecorder ----------------------------
(***************************************************************************)
(* The team chat's button: a tap starts a recording, another tap or the    *)
(* time limit ends it and sends the voice.  The limit's timer thread takes *)
(* its task, which no cancel stops from then on, and posts to the main     *)
(* thread, where taps may be queued before it; each recorder is prepared   *)
(* and started by a thread of its own.                                     *)
(***************************************************************************)
EXTENDS Integers, Sequences, SequencesExt

CONSTANTS
    MaxRecordings,  \* bound: recordings
    MaxQueue,       \* bound: tasks of the main thread when somebody taps
    Rounds          \* the progress display's updates of a recording

BoundsAssumption == {MaxRecordings, MaxQueue} \subseteq Nat /\ Rounds \in Nat \ {0}

VARIABLES
    queue,      \* tasks of the main thread: taps, and the time limits of recordings
    recording,
    recorders,  \* what has become of each RecordService; the last is recordService
    armed,      \* the recordings whose timer is set
    fired,      \* those whose timer has taken its task, and has not posted it yet
    updates,    \* the progress display's postponed updates
    progress,   \* updates made of the last recording
    crashed,    \* an exception has ended the app
    late        \* history: a tap has stopped a recording whose limit had fired

vars == <<queue, recording, recorders, armed, fired, updates, progress, crashed, late>>

Recorders == 1..Len(recorders)
Current == Len(recorders)

(* What is queued: a tap, or the number of the recording whose time is over. *)
TapTask == 0
QueuedLimits(tasks) == ToSet(tasks) \ {TapTask}

(* MediaRecorder's states, as the recording thread leads through them. *)
Stages == <<"created", "streaming", "prepared", "started", "fed">>
Stage == {Stages[i] : i \in 1..5}

Init ==
    /\ queue = <<>> /\ recording = FALSE /\ recorders = <<>> /\ armed = {}
    /\ fired = {} /\ updates = 0 /\ progress = 0 /\ crashed = FALSE /\ late = FALSE

Tap ==
    /\ Len(queue) < MaxQueue /\ queue' = Append(queue, TapTask)
    /\ UNCHANGED <<recording, recorders, armed, fired, updates, progress, crashed, late>>

(* RECORDING_TIME is over: the timer's thread takes its only task from its queue ... *)
TimeOver(r) ==
    /\ r \in armed /\ armed' = armed \ {r} /\ fired' = fired \union {r}
    /\ UNCHANGED <<queue, recording, recorders, updates, progress, crashed, late>>

(* ... and runs it: runOnUiThread posts to the main thread. *)
PostLimit(r) ==
    /\ r \in fired /\ fired' = fired \ {r}
    /\ queue' = Append(queue, r)
    /\ UNCHANGED <<recording, recorders, armed, updates, progress, crashed, late>>

----------------------------------------------------------------------------
(* Tasks of the main thread *)

(* Variant: the timer of the last recording is used again, which is cancelled. *)
ArmedNone(r) == {}

Armed(r) == {r}

Start ==
    /\ ~recording /\ Current < MaxRecordings
    /\ recorders' = Append(recorders, Stages[1])
    /\ recording' = TRUE /\ armed' = armed \union Armed(Current + 1)
    /\ updates' = updates + 1 /\ progress' = 1
    /\ UNCHANGED <<crashed, late>>

(* Variant: the timer goes on. *)
CancelledNot(timers) == timers

(* Timer.cancel: a task that the timer's thread has taken runs all the same. *)
Cancelled(timers) == timers \ {Current}

(* Variant: the recorder is stopped but not released. *)
StoppedOnly == "fed"

Stopped == "released"

(* Variant: the display goes on. *)
UpdatesKept == updates

UpdatesRemoved == 0

(* A recorder that does not run throws, and so may one that has run for an instant. *)
Stop ==
    /\ armed' = Cancelled(armed)
    /\ late' = (late \/ (Head(queue) = TapTask /\ Current \in fired \union QueuedLimits(queue)))
    /\ \/ /\ recorders[Current] \in {"started", "fed"}
          /\ recorders' = [recorders EXCEPT ![Current] = Stopped]
          /\ recording' = FALSE /\ updates' = UpdatesRemoved
          /\ UNCHANGED <<progress, crashed>>
       \/ /\ recorders[Current] # "fed" /\ crashed' = TRUE
          /\ UNCHANGED <<recording, recorders, updates, progress>>

Task ==
    /\ queue # <<>> /\ queue' = Tail(queue)
    /\ \/ Head(queue) = TapTask /\ ~recording /\ Start
       \/ Head(queue) = TapTask /\ ~recording /\ Current = MaxRecordings
              /\ UNCHANGED <<recording, recorders, armed, updates, progress, crashed, late>>
       \/ (Head(queue) = TapTask => recording) /\ Stop
    /\ UNCHANGED fired

(* ButtonProgressDisplayService's runnable: it postpones itself until it is full. *)
Update ==
    /\ updates > 0
    /\ progress' = progress + 1
    /\ updates' = IF progress' <= Rounds THEN updates ELSE updates - 1
    /\ UNCHANGED <<queue, recording, recorders, armed, fired, crashed, late>>

(* The recording thread: a stream, prepare, start, and what it reads first. *)
Thread(r) ==
    /\ \E i \in 1..4 : recorders[r] = Stages[i] /\ recorders' = [recorders EXCEPT ![r] = Stages[i + 1]]
    /\ UNCHANGED <<queue, recording, armed, fired, updates, progress, crashed, late>>

Next ==
    /\ ~crashed
    /\ \/ Tap \/ Task \/ Update
       \/ \E r \in Recorders : TimeOver(r) \/ PostLimit(r) \/ Thread(r)

(* Timers go off and their threads run on, and the main thread runs its tasks; nobody *)
(* has to tap.                                                                       *)
Spec ==
    /\ Init /\ [][Next]_vars /\ WF_vars(~crashed /\ Task)
    /\ WF_vars(~crashed /\ \E r \in Recorders : TimeOver(r))
    /\ WF_vars(~crashed /\ \E r \in Recorders : PostLimit(r))

----------------------------------------------------------------------------
(* Properties *)

(* Every variable keeps its type; the display has one chain of updates at most. *)
TypeOK ==
    /\ queue \in Seq(Nat) /\ {recording, crashed, late} \subseteq BOOLEAN
    /\ recorders \in Seq(Stage \union {"released"}) /\ Current <= MaxRecordings
    /\ armed \subseteq Recorders /\ fired \subseteq Recorders
    /\ updates \in 0..1 /\ progress \in 0..(Rounds + 1)

(* No timer outlives its recording: a tap that stops it cancels its timer.  What the  *)
(* timer's thread has taken by then is posted all the same: it is the only way in     *)
(* which the limit of a recording that is over is still under way, to end the next    *)
(* one early or to stop the released recorder.                                        *)
LimitsAreCurrent ==
    LET current == IF recording THEN {Current} ELSE {}
    IN  ~crashed => /\ armed \subseteq current
                    /\ late \/ fired \union QueuedLimits(queue) \subseteq current

(* The microphone is used while the button shows it, by one recorder; what was     *)
(* stopped has let it go.                                                          *)
MicrophoneShown ==
    ~crashed => {r \in Recorders : recorders[r] # "released"} = (IF recording THEN {Current} ELSE {})

(* A recorder is stopped twice, which ends the app, only if a tap stopped a recording *)
(* after its timer's thread had taken the task: until then the cancel of the stop is  *)
(* in time, from then on nothing is.                                                  *)
StoppedTwiceOnlyIfLate == crashed /\ recorders[Current] = "released" => late

(* Each recording ends, whatever is tapped, unless an exception ends the app.       *)
RecordingEnds == recording ~> ~recording \/ crashed
=============================================================================
