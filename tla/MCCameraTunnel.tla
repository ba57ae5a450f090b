--------------------------- MODULE MCCameraTunnel ---------------------------
(* The tunnel for TLC, behind the shim that Studio calls: tunnels are used *)
(* when the shim's constructor has loaded the library.  A behaviour is     *)
(* about the camera or about the file browser.                             *)
EXTENDS TunnelHistory, SourceShim, TLC

VARIABLE subject    \* "camera" or "files"

mcvars == <<hvars, shim, subject>>

(* The constructor has loaded the library; no call had to.                 *)
Loaded == pointers = Symbols /\ \A t \in Loaders : phase[t] = "idle" /\ want[t] = 0

MCInit == HInit /\ ShimInit /\ subject \in {"camera", "files"}

MCNext ==
    \/ ~Loaded /\ ShimNext /\ UNCHANGED <<hvars, subject>>
    \/ /\ Loaded
       /\ \/ \E c \in Callers :
               \/ subject = "camera" /\ CameraCall(c)
               \/ subject = "files" /\ (AskCall(c) \/ AnswerCall(c))
               \/ CloseCall(c)
          \/ (\E i \in Stream : WorkerStep(i)) /\ UNCHANGED history
       /\ UNCHANGED <<shim, subject>>

MCSpec == MCInit /\ [][MCNext]_mcvars /\ WorkersRun
=============================================================================
