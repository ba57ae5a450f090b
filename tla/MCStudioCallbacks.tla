------------------------- MODULE MCStudioCallbacks -------------------------
(* StudioCallbacks for TLC.  What Studio is told of printers, of the login *)
(* and of the connection has little in common, so a behaviour is about one *)
(* subject: the entry points of the others are not called in it.           *)
EXTENDS StudioCallbacks, TLC

VARIABLE subject

mcvars == <<vars, subject>>

(* In a behaviour about printers only one of them is ever listed.          *)
Only == CHOOSE d \in Devices : TRUE

MCInit ==
    /\ Init
    /\ subject \in {"printers", "login", "link", "selection"}
    /\ \A d \in Devices : real[d] # 0 => subject = "printers" /\ d = Only
    /\ subject = "login" => selected = NoDevice
    /\ subject = "printers" => selected \in {Only, NoDevice}

Printers ==
    \/ \E t \in Callers : SetSsdpCallback(t) \/ Unset(t, "ssdp")
    \/ \E r \in Reporters : Report(r)
    \/ PrinterChanges(Only)

Login ==
    \E t \in Callers :
        \/ ReadCurrent(t, "login") \/ Unset(t, "login")
        \/ ChangeUser(t) \/ LogoutUnconnected(t)

(* One of Studio's threads against a connection task ...                   *)
Link ==
    \/ LET t == CHOOSE c \in Callers : TRUE IN
         \/ ReadCurrent(t, "local") \/ Unset(t, "local")
         \/ DisconnectPrinter(t) \/ LogoutConnected(t)
         \/ \E d \in Devices \cup {NoDevice} : SelectMachine(t, d)
         \/ \E d \in Devices : ConnectPrinter(t, d)
    \/ \E t \in Tasks : TaskStarts(t)

(* ... and all of them changing the selection.                             *)
Selection ==
    \/ \E t \in Callers :
         \/ LogoutConnected(t)
         \/ \E d \in Devices \cup {NoDevice} : SelectMachine(t, d)
         \/ \E d \in Devices : ConnectPrinter(t, d)
    \/ \E t \in Tasks, d \in Devices : CbConnected(t, d)

MCNext ==
    /\ \/ subject = "printers" /\ Printers
       \/ subject = "login" /\ Login
       \/ subject = "link" /\ Link
       \/ subject = "selection" /\ Selection
       \/ \E t \in Threads : Step(t)
    /\ UNCHANGED subject

MCSpec == MCInit /\ [][MCNext]_mcvars /\ Fairness
=============================================================================
