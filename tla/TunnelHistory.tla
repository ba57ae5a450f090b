--------------------------- MODULE TunnelHistory ---------------------------
(* A tunnel with what its users cannot see but its guarantees depend on:   *)
(* the requests of this session, and whether a call came while another     *)
(* thread was in the middle of a start or of a request.                    *)
EXTENDS CameraTunnel

VARIABLES
    session,    \* the requests sent since the tunnel was last closed
    crossed     \* "start", "request": a call crossed one of another thread

history == <<session, crossed>>
hvars == <<vars, history>>

Starting(c) == call[c].pc \in {"register", "undo"}
Asking(c) == call[c].pc = "request"

(* A thread other than c is in the middle of a start, or of a request.     *)
CrossesStart(c) == \E o \in Callers \ {c} : Starting(o)
CrossesRequest(c) == \E o \in Callers \ {c} : Asking(o)

HInit == Init /\ session = {} /\ crossed = {}

(* Starting and reading do not concern the requests.                       *)
CameraCall(c) ==
    /\ \/ StartVideo(c) \/ Register(c) \/ RegisterFails(c) \/ UndoStart(c)
       \/ ReadFrame(c) \/ ReadState(c)
    /\ crossed' = crossed \cup {x \in {"start"} : CrossesStart(c)}
    /\ UNCHANGED session

AskCall(c) == Ask(c) /\ session' = session \cup {asked + 1} /\ UNCHANGED crossed

AnswerCall(c) ==
    /\ \/ RequestFails(c)
       \/ \E a \in AnswersTo(call[c].id), download \in BOOLEAN : Answered(c, a, download)
       \/ TakeResponse(c)
    /\ UNCHANGED history

(* A close ends the session, for the camera and for the files.             *)
CloseCall(c) ==
    /\ Close(c)
    /\ session' = {}
    /\ crossed' = crossed \cup {x \in {"start"} : CrossesStart(c)}
                          \cup {x \in {"request"} : CrossesRequest(c)}

HNext ==
    \/ \E c \in Callers :
         CameraCall(c) \/ AskCall(c) \/ AnswerCall(c) \/ CloseCall(c)
    \/ (\E i \in Stream : WorkerStep(i)) /\ UNCHANGED history

HSpec == HInit /\ [][HNext]_hvars

(* As long as no call crosses a start, a camera stream in CAMERA_STREAMS   *)
(* is the one its tunnel will stop: none is left running, and registered,  *)
(* after the tunnel has lost its id.                                       *)
NoOrphanCamera == "start" \notin crossed => \A i \in handles : sid = i

(* Under the same condition ReadSample reports the end of a stream only    *)
(* when its worker has ended: no other reason looks like an end.           *)
EndIsTrue ==
    "start" \notin crossed =>
        \A c \in Callers :
            told[c].res = "ended" => worker[told[c].id] = "done"

(* A session receives answers to its own requests, unless a tunnel was     *)
(* closed while a request was under way: that answer is queued for the     *)
(* next session.                                                           *)
AnswersAreOurs ==
    "request" \notin crossed =>
        \A i \in DOMAIN responses : responses[i].req \in session
=============================================================================
