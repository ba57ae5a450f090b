---------------------------- MODULE CameraTunnel ----------------------------
(***************************************************************************)
(* A tunnel of libBambuSource (cpp/tunnel_bridge.cpp) with its camera      *)
(* streams (bambu-farm-client/src/api.rs): the CompatTunnel and its mutex, *)
(* the CAMERA_STREAMS map, one worker thread per stream with its stop      *)
(* flag, its state and its bounded frame channel, and Studio's threads     *)
(* that start, read, ask and close.  Flags that the code only writes       *)
(* (opened, control_stream_started) and the bytes are left out; a tunnel   *)
(* that was closed is as one just created.                                 *)
(***************************************************************************)
EXTENDS Naturals, Sequences, TunnelFrames

CONSTANTS
    Callers,        \* Studio's threads that use the tunnel
    MaxStream,      \* bound: streams started in a behaviour
    Depth,          \* CAMERA_QUEUE_DEPTH: 8 in the source
    MaxRequest,     \* bound: control requests sent in a behaviour
    MaxSize         \* bound: payload of an answer

NoStream == 0
Stream == 1 .. MaxStream
Request == 1 .. MaxRequest
Size == 0 .. MaxSize

ASSUME CameraAssumption ==
    MaxStream \in Nat /\ Depth \in Nat /\ MaxRequest \in Nat /\ MaxSize \in Nat

VARIABLES
    sid,        \* video_stream_id of the tunnel
    started,    \* video_stream_started
    responses,  \* queued_responses
    last,       \* the response Studio took last in this session, if any
    asked,      \* the requests sent so far
    nextId,     \* next_video_stream_id
    handles,    \* the streams in CAMERA_STREAMS
    stop,       \* the stop flag of a stream
    state,      \* its state
    frames,     \* frames in its channel
    worker,     \* its thread
    call,       \* where each caller is, and for which stream
    told        \* what ReadSample last told a caller, about which stream

control == <<responses, last, asked>>
tunnel == <<sid, started, responses, last, asked, nextId>>
streams == <<handles, stop, state, frames, worker>>
vars == <<sid, started, responses, last, asked, nextId, handles, stop, state,
          frames, worker, call, told>>

States == {"active", "ended", "error"}
CallPC == {"idle", "register", "undo", "state", "request"}
Idle == [pc |-> "idle", id |-> NoStream]

TypeOK ==
    /\ sid \in Stream \cup {NoStream} /\ started \in BOOLEAN
    /\ responses \in Seq(Frames(Request, Size))
    /\ last \in Seq(Frames(Request, Size))
    /\ asked \in 0 .. MaxRequest
    /\ nextId \in 1 .. MaxStream + 1
    /\ handles \subseteq Stream
    /\ stop \in [Stream -> BOOLEAN]
    /\ state \in [Stream -> States]
    /\ frames \in [Stream -> 0 .. Depth]
    /\ worker \in [Stream -> {"none", "connect", "run", "done"}]
    /\ call \in [Callers -> [pc : CallPC, id : Stream \cup Request \cup {NoStream}]]
    /\ told \in [Callers -> [res : States \cup {"frame", "none"},
                             id : Stream \cup {NoStream}]]

Init ==
    /\ sid = NoStream /\ started = FALSE
    /\ responses = <<>> /\ last = <<>> /\ asked = 0
    /\ nextId = 1
    /\ handles = {}
    /\ stop = [i \in Stream |-> FALSE]
    /\ state = [i \in Stream |-> "active"]
    /\ frames = [i \in Stream |-> 0]
    /\ worker = [i \in Stream |-> "none"]
    /\ call = [c \in Callers |-> Idle]
    /\ told = [c \in Callers |-> [res |-> "none", id |-> NoStream]]

-----------------------------------------------------------------------------
(* read_tunnel_sample keeps the tunnel's mutex between its two looks at    *)
(* the stream; every other holder is one step.                             *)
TunnelFree == \A c \in Callers : call[c].pc # "state"

Goto(c, pc, id) == call' = [call EXCEPT ![c] = [pc |-> pc, id |-> id]]

(* start_tunnel_stream(video): claim an id; a started tunnel has one.      *)
StartVideo(c) ==
    /\ call[c] = Idle
    /\ TunnelFree
    /\ ~started
    /\ nextId <= MaxStream
    /\ sid' = nextId /\ started' = TRUE
    /\ nextId' = nextId + 1
    /\ Goto(c, "register", nextId)
    /\ UNCHANGED <<control, streams, told>>

(* bambu_network_rs_start_camera_stream, outside the tunnel's mutex: the   *)
(* fresh id has no stream to stop, the worker is spawned ...               *)
Register(c) ==
    LET i == call[c].id IN
    /\ call[c].pc = "register"
    /\ handles' = handles \cup {i}
    /\ stop' = [stop EXCEPT ![i] = FALSE]
    /\ state' = [state EXCEPT ![i] = "active"]
    /\ worker' = [worker EXCEPT ![i] = "connect"]
    /\ Goto(c, "idle", NoStream)
    /\ UNCHANGED <<tunnel, frames, told>>

(* ... or the URL has no host or no password, and the claim is undone.     *)
RegisterFails(c) ==
    /\ call[c].pc = "register"
    /\ Goto(c, "undo", call[c].id)
    /\ UNCHANGED <<tunnel, streams, told>>

UndoStart(c) ==
    /\ call[c].pc = "undo"
    /\ TunnelFree
    /\ sid' = NoStream /\ started' = FALSE
    /\ Goto(c, "idle", NoStream)
    /\ UNCHANGED <<control, nextId, streams, told>>

(* Mutant: the handle is dropped and its flag forgotten.                   *)
StopStreamSilently(i) ==
    /\ handles' = handles \ {i}
    /\ frames' = [j \in Stream |-> IF j = i THEN 0 ELSE frames[j]]
    /\ UNCHANGED stop

(* bambu_network_rs_stop_camera_stream: the handle goes, with the          *)
(* receiving end of the channel, and the flag is raised if there was one.  *)
StopStream(i) ==
    /\ handles' = handles \ {i}
    /\ stop' = [j \in Stream |-> stop[j] \/ (j = i /\ i \in handles)]
    /\ frames' = [j \in Stream |-> IF j = i THEN 0 ELSE frames[j]]

(* Mutant: the camera stream is left to itself.                            *)
CloseKeepingStream(c) ==
    /\ call[c] = Idle
    /\ TunnelFree
    /\ sid' = NoStream /\ started' = FALSE
    /\ responses' = <<>> /\ last' = <<>>
    /\ UNCHANGED <<asked, nextId, streams, call, told>>

(* Mutant: the answers of the old session stay queued.                     *)
CloseKeepingResponses(c) ==
    /\ call[c] = Idle
    /\ TunnelFree
    /\ sid' = NoStream /\ started' = FALSE
    /\ StopStream(sid)
    /\ UNCHANGED <<control, nextId, state, worker, call, told>>

(* close_tunnel, and destroy_tunnel, which begins with it.                 *)
Close(c) ==
    /\ call[c] = Idle
    /\ TunnelFree
    /\ sid' = NoStream /\ started' = FALSE
    /\ responses' = <<>> /\ last' = <<>>
    /\ StopStream(sid)
    /\ UNCHANGED <<asked, nextId, state, worker, call, told>>

Tell(c, res, i) == told' = [told EXCEPT ![c] = [res |-> res, id |-> i]]

(* read_tunnel_sample with a video stream: a frame, if there is one ...    *)
ReadFrame(c) ==
    /\ call[c] = Idle
    /\ TunnelFree
    /\ started /\ sid # NoStream
    /\ IF sid \in handles /\ frames[sid] > 0
         THEN /\ frames' = [frames EXCEPT ![sid] = @ - 1]
              /\ Tell(c, "frame", sid)
              /\ UNCHANGED call
         ELSE /\ Goto(c, "state", sid)
              /\ UNCHANGED <<frames, told>>
    /\ UNCHANGED <<tunnel, handles, stop, state, worker>>

(* Mutant: an empty channel is taken for the end.                          *)
StreamStateIfFrames(i) ==
    IF i \in handles /\ frames[i] > 0 THEN state[i] ELSE "ended"

(* bambu_network_rs_camera_stream_state.                                   *)
StreamState(i) == IF i \in handles THEN state[i] ELSE "ended"

(* ... or what the state of the stream says: would block, end or error.    *)
ReadState(c) ==
    /\ call[c].pc = "state"
    /\ Tell(c, StreamState(call[c].id), call[c].id)
    /\ Goto(c, "idle", NoStream)
    /\ UNCHANGED <<tunnel, streams>>

(* send_tunnel_message: the request is made without the mutex ...          *)
Ask(c) ==
    /\ call[c] = Idle
    /\ asked < MaxRequest
    /\ asked' = asked + 1
    /\ Goto(c, "request", asked + 1)
    /\ UNCHANGED <<sid, started, responses, last, nextId, streams, told>>

(* ... no answer is an error ...                                           *)
RequestFails(c) ==
    /\ call[c].pc = "request"
    /\ Goto(c, "idle", NoStream)
    /\ UNCHANGED <<tunnel, streams, told>>

(* What bambu_network_rs_tunnel_request can answer: the farm's text, an    *)
(* error without a payload, or a file.                                     *)
AnswersTo(r) ==
    {a \in Answers({r}, Size) : a.result = 10 => a.framed /\ a.size = 0}

(* ... and an answer is queued under the mutex, a download as its frames,  *)
(* anything else as it is.                                                 *)
Answered(c, a, download) ==
    /\ call[c].pc = "request"
    /\ TunnelFree
    /\ responses' = responses \o (IF download THEN Split(a) ELSE <<Whole(a)>>)
    /\ Goto(c, "idle", NoStream)
    /\ UNCHANGED <<sid, started, last, asked, nextId, streams, told>>

(* recv_tunnel_message, or read_tunnel_sample without video, in order.  A  *)
(* buffer that is too small leaves the response where it is.               *)
TakeResponse(c) ==
    /\ call[c] = Idle
    /\ TunnelFree
    /\ responses # <<>>
    /\ responses' = Tail(responses) /\ last' = <<Head(responses)>>
    /\ UNCHANGED <<sid, started, asked, nextId, streams, call, told>>

-----------------------------------------------------------------------------
(* camera_stream_worker.                                                   *)

WorkerExits(i, s) ==
    /\ worker' = [worker EXCEPT ![i] = "done"]
    /\ state' = [state EXCEPT ![i] = s]

(* TCP, TLS and the auth packet, each with a timeout.                      *)
WorkerConnects(i) ==
    /\ worker[i] = "connect"
    /\ worker' = [worker EXCEPT ![i] = "run"]
    /\ UNCHANGED <<tunnel, handles, stop, state, frames, call, told>>

WorkerFails(i) ==
    /\ worker[i] \in {"connect", "run"}
    /\ WorkerExits(i, "error")
    /\ UNCHANGED <<tunnel, handles, stop, frames, call, told>>

(* Mutant: a channel without a bound.                                      *)
WorkerFrameUnbounded(i) ==
    /\ worker[i] = "run" /\ i \in handles
    /\ frames' = [frames EXCEPT ![i] = @ + 1]
    /\ UNCHANGED <<tunnel, handles, stop, state, worker, call, told>>

(* A whole picture: queued, dropped when the channel is full, or refused   *)
(* because the receiver is gone.  A packet that is no picture is skipped.  *)
WorkerFrame(i) ==
    /\ worker[i] = "run"
    /\ \/ /\ i \in handles /\ frames[i] < Depth
          /\ frames' = [frames EXCEPT ![i] = @ + 1]
          /\ UNCHANGED <<state, worker>>
       \/ /\ i \notin handles
          /\ WorkerExits(i, "ended")
          /\ UNCHANGED frames
    /\ UNCHANGED <<tunnel, handles, stop, call, told>>

(* Mutant: only a loop that has produced a picture looks at the flag.      *)
WorkerStopsAfterFrame(i) ==
    /\ worker[i] = "run"
    /\ stop[i] /\ frames[i] > 0
    /\ WorkerExits(i, "ended")
    /\ UNCHANGED <<tunnel, handles, stop, frames, call, told>>

(* The flag is looked at before every read, and reads time out.            *)
WorkerStops(i) ==
    /\ worker[i] = "run"
    /\ stop[i]
    /\ WorkerExits(i, "ended")
    /\ UNCHANGED <<tunnel, handles, stop, frames, call, told>>

(* The printer closes the connection.                                      *)
WorkerEof(i) ==
    /\ worker[i] = "run"
    /\ WorkerExits(i, "ended")
    /\ UNCHANGED <<tunnel, handles, stop, frames, call, told>>

-----------------------------------------------------------------------------
CallStep(c) ==
    \/ StartVideo(c) \/ Register(c) \/ RegisterFails(c) \/ UndoStart(c)
    \/ Close(c) \/ ReadFrame(c) \/ ReadState(c)
    \/ Ask(c) \/ RequestFails(c) \/ TakeResponse(c)
    \/ \E a \in AnswersTo(call[c].id), download \in BOOLEAN : Answered(c, a, download)

WorkerStep(i) ==
    \/ WorkerConnects(i) \/ WorkerFails(i) \/ WorkerFrame(i)
    \/ WorkerStops(i) \/ WorkerEof(i)

Next ==
    \/ \E c \in Callers : CallStep(c)
    \/ \E i \in Stream : WorkerStep(i)

Spec == Init /\ [][Next]_vars

(* The worker's thread runs, and its connect and its reads time out.       *)
WorkersRun ==
    \A i \in Stream :
        /\ WF_vars(worker[i] = "connect" /\ (WorkerConnects(i) \/ WorkerFails(i)))
        /\ WF_vars(WorkerStops(i))

-----------------------------------------------------------------------------
(* A worker whose stream has left CAMERA_STREAMS has been told to stop,    *)
(* however starts, closes and reads interleave.                            *)
ReleasedIsStopped ==
    \A i \in Stream :
        worker[i] \in {"connect", "run"} /\ i \notin handles => stop[i]

(* ... and it does stop, even when the printer sends nothing any more.     *)
StoppedWorkerEnds == \A i \in Stream : stop[i] ~> worker[i] = "done"

(* However threads send, receive and close, Studio receives every download *)
(* from its first byte to its last, in order and undisturbed by other      *)
(* answers, and exactly the frame that completes it says so.               *)
DownloadUnbroken ==
    LET s == last \o responses IN
    \A i \in DOMAIN s :
        /\ s[i].result = 1 =>
             /\ i < Len(s)
             /\ s[i + 1].req = s[i].req
             /\ s[i + 1].offset = s[i].offset + s[i].size
        /\ i > Len(last) /\ s[i].offset > 0 => i > 1 /\ s[i - 1].result = 1
        /\ s[i].result # 1 => s[i].offset + s[i].size = s[i].total
=============================================================================
