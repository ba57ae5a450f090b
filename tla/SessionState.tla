---------------------------- MODULE SessionState ----------------------------
(***************************************************************************)
(* SessionState (cpp/session_state.cpp): what the plugin remembers of the  *)
(* printer Studio works with.  Each method is one critical section of the  *)
(* object's mutex, so each is one operator; the modules that use the       *)
(* object instantiate this one with its four fields.                       *)
(***************************************************************************)
CONSTANT NoDevice       \* the empty device id

VARIABLES
    selected,       \* selected_device_
    autoPending,    \* auto_connect_pending_
    connected,      \* printer_connected_
    inProgress      \* connect_in_progress_

SessionTypeOK(Devices) ==
    /\ selected \in Devices \cup {NoDevice}
    /\ autoPending \in BOOLEAN
    /\ connected \in BOOLEAN
    /\ inProgress \in BOOLEAN

(* Mutant: a new selection is not noted for autoconnect.                   *)
SetSelectedDeviceQuietly(d) ==
    /\ selected' = d
    /\ UNCHANGED <<autoPending, connected, inProgress>>

(* set_user_selected_device and load_selected_device: whether a printer is *)
(* connected is left as it was.                                            *)
SetSelectedDevice(d) ==
    /\ selected' = d
    /\ autoPending' = (d # NoDevice)
    /\ UNCHANGED <<connected, inProgress>>

(* has_connected_selected_device and connected_selected_device.            *)
ConnectedSelectedDevice ==
    IF selected # NoDevice /\ connected THEN selected ELSE NoDevice

(* begin_connect answers Start ...                                         *)
MayBegin(d) == ~(selected = d /\ (connected \/ inProgress))

(* ... and then these are its effects.                                     *)
BeginConnect(d) ==
    /\ selected' = d
    /\ autoPending' = FALSE
    /\ inProgress' = TRUE
    /\ connected' = FALSE

(* ~should_ignore_disconnect.                                              *)
DisconnectHeeded == ~(inProgress /\ ~connected)

MarkConnected(d) ==
    /\ selected' = d
    /\ inProgress' = FALSE
    /\ connected' = TRUE
    /\ UNCHANGED autoPending

(* Mutant: a failed attempt does not clear connect_in_progress_.           *)
MarkDisconnectedKeepingProgress ==
    /\ connected' = FALSE
    /\ UNCHANGED <<selected, autoPending, inProgress>>

MarkDisconnected ==
    /\ inProgress' = FALSE
    /\ connected' = FALSE
    /\ UNCHANGED <<selected, autoPending>>

(* What mark_disconnected returns: whether Studio is to hear of it.        *)
DisconnectIsNews(failed) == connected \/ failed

(* claim_autoconnect_target returns a target ...                           *)
MayClaim(d) == autoPending /\ selected = d

(* ... once.                                                               *)
ClaimAutoconnect ==
    /\ autoPending' = FALSE
    /\ UNCHANGED <<selected, connected, inProgress>>

ClearAfterLogout ==
    /\ selected' = NoDevice
    /\ autoPending' = FALSE
    /\ connected' = FALSE
    /\ inProgress' = FALSE
=============================================================================
