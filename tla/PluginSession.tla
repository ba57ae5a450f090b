---------------------------- MODULE PluginSession ----------------------------
(***************************************************************************)
(* The plugin as Studio sees it: SessionState (cpp/session_state.cpp), the *)
(* entry points and callbacks of cpp/api.cpp that use it, and the status   *)
(* that cpp/callback_registry.cpp passes to Studio, on top of the          *)
(* connection manager of ClientConnection, which api.cpp calls and which   *)
(* calls back.  Studio's callbacks are registered before any connection;   *)
(* how they are, and the file of the selection, is StudioCallbacks.        *)
(***************************************************************************)
EXTENDS ClientConnection

VARIABLES
    selected,       \* SessionState::selected_device_
    autoPending,    \* auto_connect_pending_
    connected,      \* printer_connected_
    inProgress,     \* connect_in_progress_
    studio,         \* last connection status Studio was given
    leaving         \* threads inside bambu_network_user_logout

INSTANCE SessionState

session == <<selected, autoPending, connected, inProgress>>
pvars == <<vars, session, studio, leaving>>

Status == {"none", "ok", "failed", "lost"}

PTypeOK ==
    /\ TypeOK
    /\ SessionTypeOK(Devices)
    /\ studio \in Status
    /\ leaving \subseteq Callers

(* bambu_network_set_config_dir has loaded the selection of the last run.  *)
SessionInit ==
    /\ selected \in Devices \cup {NoDevice}
    /\ autoPending = (selected # NoDevice)
    /\ connected = FALSE /\ inProgress = FALSE
    /\ studio = "none"
    /\ leaving = {}

PInit == Init /\ SessionInit

-----------------------------------------------------------------------------
(* bambu_network_connect_printer; when begin_connect answers otherwise the *)
(* call returns at once.                                                   *)
ConnectPrinter(t, d) ==
    /\ t \notin leaving
    /\ MayBegin(d)
    /\ BeginConnect(d)
    /\ Connect(t, d)
    /\ UNCHANGED <<studio, leaving>>

(* bambu_network_disconnect_printer.                                       *)
DisconnectPrinter(t) ==
    /\ t \notin leaving
    /\ DisconnectHeeded
    /\ selected # NoDevice
    /\ Disconnect(t, selected)
    /\ UNCHANGED <<session, studio, leaving>>

(* bambu_network_user_logout: disconnect first ...                         *)
Logout(t) ==
    /\ t \notin leaving
    /\ call[t] = Idle
    /\ leaving' = leaving \cup {t}
    /\ IF selected # NoDevice
         THEN Disconnect(t, selected)
         ELSE UNCHANGED vars
    /\ UNCHANGED <<session, studio>>

(* ... then clear_after_logout.                                            *)
LogoutEnds(t) ==
    /\ t \in leaving
    /\ call[t] = Idle
    /\ leaving' = leaving \ {t}
    /\ ClearAfterLogout
    /\ UNCHANGED <<vars, studio>>

(* bambu_network_set_user_selected_machine.                                *)
SelectMachine(d) ==
    /\ SetSelectedDevice(d)
    /\ UNCHANGED <<vars, studio, leaving>>

(* bambu_network_cb_printer_available for the selected printer:            *)
(* connect_selected_device_if_pending tells Studio it is connected, then   *)
(* asks for the connection, without begin_connect.                         *)
Autoconnect(d) ==
    /\ MayClaim(d)
    /\ ClaimAutoconnect
    /\ studio' = "ok"
    /\ Connect(InitTask, d)
    /\ UNCHANGED leaving

(* bambu_network_cb_connected: mark_connected, dispatch_connected.         *)
CbConnected(d) ==
    /\ MarkConnected(d)
    /\ studio' = "ok"

(* bambu_network_cb_disconnected: mark_disconnected, dispatch_disconnected *)
(* when the session was connected or the attempt failed.                   *)
CbDisconnected(status) ==
    /\ MarkDisconnected
    /\ studio' = IF DisconnectIsNews(status = "failed") THEN status ELSE studio

TaskConnected(g) ==
    /\ Announce(g)
    /\ CbConnected(devOf[g])
    /\ UNCHANGED leaving

TaskDisconnected(g) ==
    /\ EmitEvent(g)
    /\ CbDisconnected(IF task[g] = "emitFailed" THEN "failed" ELSE "lost")
    /\ UNCHANGED leaving

CallDisconnected(t) ==
    /\ EmitDisconnected(t)
    /\ CbDisconnected("lost")
    /\ UNCHANGED leaving

(* The steps of the connection manager that call nobody back.              *)
SilentStep ==
    /\ \/ \E t \in Threads : \/ Peek(t) \/ Take(t) \/ DropSender(t)
                             \/ Uncurrent(t) \/ Insert(t) \/ Activate(t)
       \/ \E g \in Gen : \/ DialOk(g) \/ DialFailed(g) \/ Publish(g)
                         \/ RecvItem(g) \/ RecvFailed(g) \/ RecvNotConnected(g)
                         \/ RecvCancelled(g) \/ CheckActive(g)
                         \/ ClearActive(g) \/ ClearCurrent(g)
                         \/ SendStep(g)
       \/ \E d \in Devices : Send(d)
       \/ LoopStep
    /\ UNCHANGED <<session, studio, leaving>>

PNext ==
    \/ \E t \in Callers, d \in Devices : ConnectPrinter(t, d)
    \/ \E t \in Callers : DisconnectPrinter(t) \/ Logout(t) \/ LogoutEnds(t)
    \/ \E d \in Devices \cup {NoDevice} : SelectMachine(d)
    \/ \E d \in Devices : Autoconnect(d)
    \/ \E g \in Gen : TaskConnected(g) \/ TaskDisconnected(g)
    \/ \E t \in Threads : CallDisconnected(t)
    \/ SilentStep

PSpec == PInit /\ [][PNext]_pvars

-----------------------------------------------------------------------------
(* Steps that still lead to a callback which ends a connect attempt.       *)
Answering(g) ==
    \/ task[g] \in {"dial", "publish", "announce", "emitFailed"}
    \/ task[g] = "checkFailed" /\ active = g

(* A connect attempt that Studio waits for always has an answer coming:    *)
(* whoever replaces or tears down the connection that connect_in_progress_ *)
(* is about brings a callback, or a logout, of its own.                    *)
AttemptHasAnswer ==
    inProgress =>
        \/ \E t \in Threads : call[t].op \in {"connect", "disconnect"}
        \/ \E g \in Gen : Answering(g)
        \/ leaving # {}

(* The session never takes a printer for connected that nobody has tried   *)
(* to connect: selecting another machine leaves printer_connected_ as it   *)
(* is, so connect_printer then answers "already connected", and it is the  *)
(* pending autoconnect that still makes the connection.                    *)
ClaimedWasTried ==
    connected /\ selected # NoDevice /\ ~autoPending =>
        \E g \in Gen : devOf[g] = selected

Quiet ==
    /\ \A t \in Threads : call[t] = Idle
    /\ \A g \in Gen : task[g] \in {"new", "done"}

(* What Studio is told about the connection follows its loss: when nothing *)
(* is running any more, neither the session nor Studio thinks otherwise.   *)
LossIsNoticed == Quiet /\ leaving = {} => ~(connected /\ studio = "ok")
=============================================================================
