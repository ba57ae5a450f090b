-------------------------- MODULE StudioCallbacks --------------------------
(***************************************************************************)
(* How Studio comes to know what the plugin knows: CallbackRegistry        *)
(* (cpp/callback_registry.cpp), the entry points of cpp/api.cpp that       *)
(* register callbacks, change the login or the selection, and the          *)
(* callbacks the Rust half makes on its own threads.  A step is one        *)
(* critical section, one call of a Studio callback or one file access.     *)
(*                                                                         *)
(* A printer's JSON is its version; a connection task announces what it    *)
(* likes (ClientConnection says what that can be).                         *)
(***************************************************************************)
EXTENDS Naturals

CONSTANTS
    Devices,        \* printers, by dev_id
    NoDevice,
    Callers,        \* Studio's threads
    Tasks,          \* connection tasks of the Rust half
    Loop,           \* the discovery loop of bambu_network_rs_init
    Refresher,      \* the task bambu_network_rs_refresh_available_printers spawns
    MaxVersion      \* bound: versions of a printer's JSON

Reporters == {Loop, Refresher}
Threads == Callers \cup Tasks \cup Reporters

ASSUME CallbacksAssumption ==
    /\ NoDevice \notin Devices
    /\ Callers \cap (Tasks \cup Reporters) = {}
    /\ Tasks \cap Reporters = {}
    /\ Loop # Refresher
    /\ MaxVersion \in Nat

VARIABLES
    fn,             \* the callbacks that are registered
    cache,          \* last_printer_json_by_id_; 0: none
    login,          \* lan_user_logged_in, as the event that tells it
    selected, autoPending, connected, inProgress,   \* SessionState
    saved,          \* oss-last-device.txt
    real,           \* the printer as the farm lists it; 0: not listed
    refresh,        \* whether a refresh was asked for
    at,             \* what each thread is doing
    batch,          \* JSONs a thread still has to replay or to report
    shown,          \* the JSON Studio was last given of each printer
    told,           \* what each other callback was last given
    crossed         \* history: topics that changed under a thread's hands,
                    \* or whose file could not be written

INSTANCE SessionState

session == <<selected, autoPending, connected, inProgress>>
world == <<real, refresh>>
vars == <<fn, cache, login, selected, autoPending, connected, inProgress,
          saved, real, refresh, at, batch, shown, told, crossed>>

Versions == 0 .. MaxVersion
LoginEvents == {"in", "out"}
LinkEvents == {"connected", "lost", "failed", "unlinked"}
Topics == {"login", "link", "save"}
Replayed == {"login", "printer", "local"}   \* callbacks told on registration

(* Mutant: a connection is not announced to on_local_connect_.             *)
TargetsNotLocal(ev) ==
    CASE ev = "available" -> {"ssdp"}
      [] ev = "connected" -> {"printer"}
      [] ev \in {"lost", "failed"} -> {"local"}
      [] ev \in LoginEvents -> {"login"}
      [] OTHER -> {}

(* The callbacks an event goes to.                                         *)
Targets(ev) ==
    CASE ev = "available" -> {"ssdp"}
      [] ev = "connected" -> {"printer", "local"}
      [] ev \in {"lost", "failed"} -> {"local"}
      [] ev \in LoginEvents -> {"login"}
      [] OTHER -> {}

Event == {"none", "available"} \cup LoginEvents \cup LinkEvents
Call == [pc : {"idle", "set", "reply", "replay", "remember", "copy", "tell",
               "match", "claim", "save", "write", "clear", "logout"},
         ev : Event, dev : Devices \cup {NoDevice}, ver : Versions,
         to : SUBSET ({"ssdp"} \cup Replayed),
         then : {"idle", "match", "clear", "logout"}]

Idle == [pc |-> "idle", ev |-> "none", dev |-> NoDevice, ver |-> 0,
         to |-> {}, then |-> "idle"]
Empty == [d \in Devices |-> 0]

TypeOK ==
    /\ fn \subseteq {"ssdp"} \cup Replayed
    /\ cache \in [Devices -> Versions]
    /\ login \in LoginEvents
    /\ SessionTypeOK(Devices)
    /\ saved \in Devices \cup {NoDevice}
    /\ real \in [Devices -> Versions] /\ refresh \in BOOLEAN
    /\ at \in [Threads -> Call]
    /\ batch \in [Threads -> [Devices -> Versions]]
    /\ shown \in [Devices -> Versions]
    /\ told \in [Replayed -> [ev : Event, dev : Devices \cup {NoDevice}]]
    /\ crossed \subseteq Topics

(* bambu_network_create_agent has started the discovery loop, and          *)
(* bambu_network_set_config_dir has loaded the selection.                  *)
Init ==
    /\ fn = {}
    /\ cache = Empty
    /\ login = "in"
    /\ selected \in Devices \cup {NoDevice}
    /\ autoPending = (selected # NoDevice)
    /\ connected = FALSE /\ inProgress = FALSE
    /\ saved = selected
    /\ real \in [Devices -> {0, 1} \cap Versions] /\ refresh = FALSE
    /\ at = [t \in Threads |-> Idle]
    /\ batch = [t \in Threads |-> Empty]
    /\ shown = Empty
    /\ told = [f \in Replayed |-> [ev |-> "none", dev |-> NoDevice]]
    /\ crossed = {}

-----------------------------------------------------------------------------
Do(t, call) == at' = [at EXCEPT ![t] = call]
Goto(t, pc) == at' = [at EXCEPT ![t].pc = pc]

(* A thread has a value of a topic in hand from the moment it has read or  *)
(* changed it until it has passed it on.                                   *)
InHand(t, topic) ==
    CASE topic = "login" -> at[t].ev \in LoginEvents
      [] topic = "link" -> at[t].ev \in LinkEvents
      [] topic = "save" -> at[t].pc = "write"

(* Thread t changes some topics: a change is crossed if another thread has *)
(* the topic in hand, or if nobody passes it on (silent); one that runs    *)
(* alone puts an earlier crossing right.                                   *)
Change(t, topics, silent) ==
    crossed' = (crossed \ topics) \cup silent \cup
        {p \in topics : \E o \in Threads \ {t} : InHand(o, p)}

-----------------------------------------------------------------------------
(* Registration.                                                           *)

(* Mutant: what is remembered is not replayed.                             *)
SetSsdpCallbackNoCopy(t) ==
    /\ at[t] = Idle
    /\ fn' = fn \cup {"ssdp"}
    /\ Goto(t, "replay")
    /\ UNCHANGED <<cache, login, session, saved, world, batch, shown, told,
                   crossed>>

(* set_ssdp_callback: the callback is set and the cache copied under one   *)
(* lock ...                                                                *)
SetSsdpCallback(t) ==
    /\ at[t] = Idle
    /\ fn' = fn \cup {"ssdp"}
    /\ batch' = [batch EXCEPT ![t] = cache]
    /\ Goto(t, "replay")
    /\ UNCHANGED <<cache, login, session, saved, world, shown, told, crossed>>

(* ... the copy is replayed without it ...                                 *)
Replay(t, d) ==
    /\ at[t].pc = "replay"
    /\ batch[t][d] # 0
    /\ shown' = [shown EXCEPT ![d] = batch[t][d]]
    /\ batch' = [batch EXCEPT ![t][d] = 0]
    /\ UNCHANGED <<fn, cache, login, session, saved, world, at, told, crossed>>

(* ... and a refresh of the printer list is asked for.                     *)
RequestRefresh(t) ==
    /\ at[t].pc = "replay"
    /\ batch[t] = Empty
    /\ refresh' = TRUE
    /\ Do(t, Idle)
    /\ UNCHANGED <<fn, cache, login, session, saved, real, batch, shown, told,
                   crossed>>

(* What the other setters tell a callback they register: api.cpp reads it  *)
(* before it calls the registry.                                           *)
Current(f) ==
    IF f = "login" THEN [ev |-> login, dev |-> NoDevice]
    ELSE [ev |-> IF ConnectedSelectedDevice # NoDevice THEN "connected"
                                                       ELSE "unlinked",
          dev |-> ConnectedSelectedDevice]

ReadCurrent(t, f) ==
    /\ at[t] = Idle
    /\ Do(t, [Idle EXCEPT !.pc = "set", !.ev = Current(f).ev,
                          !.dev = Current(f).dev, !.to = {f}])
    /\ UNCHANGED <<fn, cache, login, session, saved, world, batch, shown, told,
                   crossed>>

(* set_user_login_callback, set_printer_connected_callback and             *)
(* set_local_connect_callback: the callback is stored ...                  *)
SetCallback(t) ==
    /\ at[t].pc = "set"
    /\ fn' = fn \cup at[t].to
    /\ Goto(t, "reply")
    /\ UNCHANGED <<cache, login, session, saved, world, batch, shown, told,
                   crossed>>

(* Mutant: nobody is told on registration.                                 *)
ReplySilently(t) ==
    /\ at[t].pc = "reply"
    /\ Do(t, Idle)
    /\ UNCHANGED <<fn, cache, login, session, saved, world, batch, shown, told,
                   crossed>>

(* ... and called with what was read, if there is something to tell.       *)
Reply(t) ==
    /\ at[t].pc = "reply"
    /\ told' = [f \in Replayed |->
                   IF f \in at[t].to /\ at[t].ev # "unlinked"
                     THEN [ev |-> at[t].ev, dev |-> at[t].dev] ELSE told[f]]
    /\ Do(t, Idle)
    /\ UNCHANGED <<fn, cache, login, session, saved, world, batch, shown,
                   crossed>>

(* Registering null takes the callback away.                               *)
Unset(t, f) ==
    /\ at[t] = Idle
    /\ fn' = fn \ {f}
    /\ UNCHANGED <<cache, login, session, saved, world, at, batch, shown, told,
                   crossed>>

-----------------------------------------------------------------------------
(* The dispatch_* methods and notify_user_login: the callbacks are copied  *)
(* under the lock ...                                                      *)
Copy(t) ==
    /\ at[t].pc = "copy"
    /\ Do(t, [at[t] EXCEPT !.pc = "tell", !.to = Targets(at[t].ev) \cap fn])
    /\ UNCHANGED <<fn, cache, login, session, saved, world, batch, shown, told,
                   crossed>>

(* ... and called without it, on_printer_connected_ before                 *)
(* on_local_connect_.                                                      *)
Tell(t, f) ==
    /\ at[t].pc = "tell" /\ f \in at[t].to
    /\ f = "local" => "printer" \notin at[t].to
    /\ IF f = "ssdp"
         THEN shown' = [shown EXCEPT ![at[t].dev] = at[t].ver] /\ UNCHANGED told
         ELSE told' = [told EXCEPT ![f] = [ev |-> at[t].ev, dev |-> at[t].dev]]
              /\ UNCHANGED shown
    /\ Do(t, [at[t] EXCEPT !.to = @ \ {f}])
    /\ UNCHANGED <<fn, cache, login, session, saved, world, batch, crossed>>

(* What the caller of the dispatch does next.                              *)
Dispatched(t) ==
    /\ at[t].pc = "tell" /\ at[t].to = {}
    /\ Do(t, IF at[t].then = "idle" THEN Idle
             ELSE [Idle EXCEPT !.pc = at[t].then, !.dev = at[t].dev])
    /\ UNCHANGED <<fn, cache, login, session, saved, world, batch, shown, told,
                   crossed>>

-----------------------------------------------------------------------------
(* Discovery.  The farm lists a printer, or lists it differently.          *)
PrinterChanges(d) ==
    /\ real[d] < MaxVersion
    /\ real' = [real EXCEPT ![d] = @ + 1]
    /\ UNCHANGED <<fn, cache, login, session, saved, refresh, at, batch, shown,
                   told, crossed>>

(* A reporter receives a list; the refresher once for each request.        *)
ListReceived(r) ==
    /\ at[r] = Idle /\ batch[r] = Empty
    /\ r = Refresher => refresh
    /\ refresh' = (refresh /\ r # Refresher)
    /\ batch' = [batch EXCEPT ![r] = real]
    /\ UNCHANGED <<fn, cache, login, session, saved, real, at, shown, told,
                   crossed>>

(* bambu_network_cb_printer_available begins; LocalStores has its name     *)
(* override.                                                               *)
CbPrinterAvailable(r, d) ==
    /\ at[r] = Idle
    /\ batch[r][d] # 0
    /\ Do(r, [Idle EXCEPT !.pc = "remember", !.ev = "available", !.dev = d,
                          !.ver = batch[r][d], !.then = "match"])
    /\ batch' = [batch EXCEPT ![r][d] = 0]
    /\ UNCHANGED <<fn, cache, login, session, saved, world, shown, told,
                   crossed>>

(* Mutant: the JSON is not remembered once Studio listens.                 *)
RememberUnlessHeard(r) ==
    /\ at[r].pc = "remember"
    /\ cache' = IF "ssdp" \in fn THEN cache
                ELSE [cache EXCEPT ![at[r].dev] = at[r].ver]
    /\ Goto(r, "copy")
    /\ UNCHANGED <<fn, login, session, saved, world, batch, shown, told,
                   crossed>>

(* Mutant: the JSON is appended to the one that is there.                  *)
RememberAppending(r) ==
    /\ at[r].pc = "remember"
    /\ cache' = [cache EXCEPT ![at[r].dev] = @ + at[r].ver]
    /\ Goto(r, "copy")
    /\ UNCHANGED <<fn, login, session, saved, world, batch, shown, told,
                   crossed>>

(* remember_printer_json.                                                  *)
Remember(r) ==
    /\ at[r].pc = "remember"
    /\ cache' = [cache EXCEPT ![at[r].dev] = at[r].ver]
    /\ Goto(r, "copy")
    /\ UNCHANGED <<fn, login, session, saved, world, batch, shown, told,
                   crossed>>

(* connect_selected_device_if_pending: the selection is read ...           *)
MatchSelected(r) ==
    /\ at[r].pc = "match"
    /\ IF at[r].dev = selected THEN Goto(r, "claim") ELSE Do(r, Idle)
    /\ UNCHANGED <<fn, cache, login, session, saved, world, batch, shown, told,
                   crossed>>

(* ... and claimed in another critical section; Studio is told that it is  *)
(* connected before the connection is asked for.                           *)
Claim(r) ==
    /\ at[r].pc = "claim"
    /\ IF MayClaim(at[r].dev)
         THEN /\ ClaimAutoconnect
              /\ Do(r, [Idle EXCEPT !.pc = "copy", !.ev = "connected",
                                    !.dev = at[r].dev])
         ELSE /\ Do(r, Idle)
              /\ UNCHANGED session
    /\ UNCHANGED <<fn, cache, login, saved, world, batch, shown, told, crossed>>

-----------------------------------------------------------------------------
(* Connection.                                                             *)

(* bambu_network_cb_connected.  What it selects is not saved.              *)
CbConnected(t, d) ==
    /\ at[t] = Idle
    /\ MarkConnected(d)
    /\ Do(t, [Idle EXCEPT !.pc = "copy", !.ev = "connected", !.dev = d])
    /\ Change(t, {"link"}, IF d # selected THEN {"save"} ELSE {})
    /\ UNCHANGED <<fn, cache, login, saved, world, batch, shown, told>>

(* bambu_network_cb_disconnected, on a task or inside a call of Studio's.  *)
CbDisconnected(t, d, failed, then) ==
    /\ MarkDisconnected
    /\ Change(t, {"link"}, {})
    /\ Do(t, [Idle EXCEPT !.pc = IF DisconnectIsNews(failed) THEN "copy"
                                                             ELSE "tell",
                          !.ev = IF failed THEN "failed" ELSE "lost",
                          !.dev = d, !.then = then])
    /\ UNCHANGED <<fn, cache, login, saved, world, batch, shown, told>>

Disconnected(t, d, failed) ==
    at[t] = Idle /\ CbDisconnected(t, d, failed, "idle")

(* bambu_network_disconnect_printer of a connection that is up.            *)
DisconnectPrinter(t) ==
    DisconnectHeeded /\ selected # NoDevice /\ Disconnected(t, selected, FALSE)

-----------------------------------------------------------------------------
(* Selection and login.                                                    *)

(* bambu_network_set_user_selected_machine.                                *)
SelectMachine(t, d) ==
    /\ at[t] = Idle
    /\ SetSelectedDevice(d)
    /\ Change(t, {"save"}, IF connected /\ d # selected THEN {"link"} ELSE {})
    /\ Do(t, [Idle EXCEPT !.pc = "save"])
    /\ UNCHANGED <<fn, cache, login, saved, world, batch, shown, told>>

(* bambu_network_connect_printer up to bambu_network_rs_connect.           *)
ConnectPrinter(t, d) ==
    /\ at[t] = Idle
    /\ MayBegin(d)
    /\ BeginConnect(d)
    /\ Change(t, {"save", "link"}, {})
    /\ Do(t, [Idle EXCEPT !.pc = "save"])
    /\ UNCHANGED <<fn, cache, login, saved, world, batch, shown, told>>

(* bambu_network_user_logout: there is no connection to tear down, or its  *)
(* teardown calls back on this thread ...                                  *)
LogoutUnconnected(t) ==
    /\ at[t] = Idle
    /\ Do(t, [Idle EXCEPT !.pc = "clear"])
    /\ UNCHANGED <<fn, cache, login, session, saved, world, batch, shown, told,
                   crossed>>

LogoutConnected(t) ==
    /\ at[t] = Idle
    /\ selected # NoDevice
    /\ CbDisconnected(t, selected, FALSE, "clear")

(* Mutant: a logout leaves the saved selection as it is.                   *)
LogoutClearsUnsaved(t) ==
    /\ at[t].pc = "clear"
    /\ ClearAfterLogout
    /\ Change(t, {"save", "link"}, {})
    /\ Do(t, [Idle EXCEPT !.pc = "logout"])
    /\ UNCHANGED <<fn, cache, login, saved, world, batch, shown, told>>

(* ... then clear_after_logout, the empty selection is saved ...           *)
LogoutClears(t) ==
    /\ at[t].pc = "clear"
    /\ ClearAfterLogout
    /\ Change(t, {"save", "link"}, {})
    /\ Do(t, [Idle EXCEPT !.pc = "save", !.then = "logout"])
    /\ UNCHANGED <<fn, cache, login, saved, world, batch, shown, told>>

(* persist_selected_device: the selection is read again ...                *)
ReadSelected(t) ==
    /\ at[t].pc = "save"
    /\ Do(t, [at[t] EXCEPT !.pc = "write", !.dev = selected])
    /\ UNCHANGED <<fn, cache, login, session, saved, world, batch, shown, told,
                   crossed>>

(* ... and written, or the file removed when it is empty.  A file that     *)
(* cannot be opened or removed stays as it is, one that cannot be written  *)
(* to is left empty; either is at most logged.                             *)
WriteSelected(t) ==
    /\ at[t].pc = "write"
    /\ \/ saved' = at[t].dev /\ UNCHANGED crossed
       \/ /\ \/ saved' = saved
             \/ at[t].dev # NoDevice /\ saved' = NoDevice
          /\ crossed' = crossed \cup {"save"}
    /\ Do(t, [Idle EXCEPT !.pc = at[t].then])
    /\ UNCHANGED <<fn, cache, login, session, world, batch, shown, told>>

(* set_lan_login_state stores the login, then notifies Studio.             *)
SetLanLoginState(t, ev) ==
    /\ login' = ev
    /\ Change(t, {"login"}, {})
    /\ Do(t, [Idle EXCEPT !.pc = "copy", !.ev = ev])
    /\ UNCHANGED <<fn, cache, session, saved, world, batch, shown, told>>

LogoutEnds(t) == at[t].pc = "logout" /\ SetLanLoginState(t, "out")

(* bambu_network_change_user.                                              *)
ChangeUser(t) == at[t] = Idle /\ SetLanLoginState(t, "in")

-----------------------------------------------------------------------------
CallerStarts(t) ==
    \/ SetSsdpCallback(t)
    \/ \E f \in Replayed : ReadCurrent(t, f)
    \/ \E f \in {"ssdp"} \cup Replayed : Unset(t, f)
    \/ DisconnectPrinter(t)
    \/ \E d \in Devices \cup {NoDevice} : SelectMachine(t, d)
    \/ \E d \in Devices : ConnectPrinter(t, d)
    \/ LogoutUnconnected(t) \/ LogoutConnected(t)
    \/ ChangeUser(t)

TaskStarts(t) ==
    \E d \in Devices :
        CbConnected(t, d) \/ \E failed \in BOOLEAN : Disconnected(t, d, failed)

(* A call that has begun goes on.                                          *)
Step(t) ==
    \/ (\E d \in Devices : Replay(t, d)) \/ RequestRefresh(t)
    \/ SetCallback(t) \/ Reply(t)
    \/ Copy(t) \/ Dispatched(t) \/ \E f \in Replayed \cup {"ssdp"} : Tell(t, f)
    \/ Remember(t) \/ MatchSelected(t) \/ Claim(t)
    \/ LogoutClears(t) \/ ReadSelected(t) \/ WriteSelected(t) \/ LogoutEnds(t)

Report(r) == ListReceived(r) \/ \E d \in Devices : CbPrinterAvailable(r, d)

Next ==
    \/ \E t \in Callers : CallerStarts(t)
    \/ \E t \in Tasks : TaskStarts(t)
    \/ \E r \in Reporters : Report(r)
    \/ \E t \in Threads : Step(t)
    \/ \E d \in Devices : PrinterChanges(d)

Spec == Init /\ [][Next]_vars

(* The threads run, and the server sends its list every second.            *)
Fairness ==
    /\ \A t \in Threads : WF_vars(Step(t))
    /\ WF_vars(Report(Loop))

-----------------------------------------------------------------------------
(* Thread t is about to give Studio a JSON of printer d.                   *)
Showing(t, d) ==
    \/ at[t].pc = "replay" /\ batch[t][d] # 0
    \/ at[t].pc = "copy" /\ at[t].ev = "available" /\ at[t].dev = d
    \/ at[t].pc = "tell" /\ "ssdp" \in at[t].to /\ at[t].dev = d

(* No printer falls between replay and dispatch: from the moment Studio's  *)
(* callback is registered, a printer whose JSON is remembered has been     *)
(* shown or is about to be, however reports cross the registration.        *)
NoPrinterMissed ==
    \A d \in Devices :
        "ssdp" \in fn /\ cache[d] # 0 /\ shown[d] = 0 =>
            \E t \in Threads : Showing(t, d)

(* A replay may show an older JSON after a newer one, and two reporters    *)
(* may store theirs in the other order; the recurring reports make Studio  *)
(* and the cache agree with the farm in the end.                           *)
StudioCatchesUp ==
    \A d \in Devices :
        <>[]("ssdp" \in fn) =>
            <>[](shown[d] = real[d] /\ cache[d] = real[d])

Quiet(topic) == topic \notin crossed /\ \A t \in Threads : ~InHand(t, topic)

(* bambu_network_set_on_user_login_fn reads the login before it stores the *)
(* callback, and set_lan_login_state stores it before it copies the        *)
(* callback: Studio ends up with the other login only if a change crosses  *)
(* another thread that has the old one in hand.                            *)
LoginIsTold == Quiet("login") /\ "login" \in fn => told["login"].ev = login

(* Likewise for the connection: a printer that the session takes for       *)
(* connected has been announced, by the task or on registration.           *)
ConnectionIsTold ==
    Quiet("link") /\ "local" \in fn /\ ConnectedSelectedDevice # NoDevice =>
        told["local"] = [ev |-> "connected", dev |-> selected]

(* The next start selects the printer that is selected now, whichever of   *)
(* the threads saved last, as each reads the selection again before it     *)
(* writes; unless one changed it between another's read and write, the     *)
(* last save failed, or a connection task made the selection.              *)
SelectionIsSaved ==
    Quiet("save") /\ (\A t \in Threads : at[t].pc # "save") => saved = selected
=============================================================================
