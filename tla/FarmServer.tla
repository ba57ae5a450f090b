----------------------------- MODULE FarmServer -----------------------------
(***************************************************************************)
(* The farm server (bambu-farm-server/src/main.rs): its printer list, the  *)
(* connect_printer RPC with password resolution and host rediscovery, the  *)
(* session an accepted RPC starts (an MQTT client, a forwarding task and a *)
(* publisher task) and the `connections` map that send_message uses.       *)
(*                                                                         *)
(* A printer is at one address at a time and answers MQTT there to its own *)
(* access code; it may move.  A step is one critical section or one await. *)
(***************************************************************************)
EXTENDS Naturals

CONSTANTS
    Devices,
    Hosts, NoHost,      \* addresses; an empty `ip`
    Codes, NoCode,      \* access codes; an empty `password`
    GoodCode,           \* the one the printers accept
    MaxRpc,             \* bound: connect_printer calls
    MaxMoves,           \* bound: address changes of printers
    QueueCap            \* mpsc channel(10): 10 in the source

Rpc == 1 .. MaxRpc
NoRpc == 0

ASSUME FarmAssumption ==
    /\ NoHost \notin Hosts
    /\ NoCode \notin Codes
    /\ GoodCode \in Codes
    /\ MaxRpc \in Nat /\ MaxMoves \in Nat /\ QueueCap \in Nat

VARIABLES
    printers,       \* Farm::printers: host, code, and whether name and model
                    \* are known
    connections,    \* Farm::connections: whose sender is registered
    rpc,            \* the connect_printer calls
    forwarder,      \* the task that forwards reports and cleans up
    publisher,      \* the task that drains the session's channel
    queue,          \* messages in that channel
    closed,         \* whether the client has dropped the response stream
    refresh,        \* where refresh_discovery_metadata is with a printer:
                    \* probing, or about to store the address it found
    where,          \* where each printer answers
    moves

registry == <<printers, refresh>>
sessions == <<connections, forwarder, publisher, queue, closed>>
network == <<where, moves>>
vars == <<printers, connections, rpc, forwarder, publisher, queue,
          closed, refresh, where, moves>>

Host == Hosts \cup {NoHost}
Code == Codes \cup {NoCode}
Printer == [host : Host, code : Code, meta : BOOLEAN]
RpcPC == {"new", "store", "resolve", "mqtt", "rediscover", "open", "failed",
          "unfound", "gone"}
Call == [pc : RpcPC, dev : Devices, host : Host, code : Code, again : BOOLEAN]

TypeOK ==
    /\ printers \in [Devices -> Printer]
    /\ connections \in [Devices -> Rpc \cup {NoRpc}]
    /\ rpc \in [Rpc -> Call]
    /\ forwarder \in [Rpc -> {"off", "run", "done"}]
    /\ publisher \in [Rpc -> {"off", "run", "done"}]
    /\ queue \in [Rpc -> 0 .. QueueCap]
    /\ closed \in [Rpc -> BOOLEAN]
    /\ refresh \in [Devices -> Host \cup {"probing"}]
    /\ where \in [Devices -> Host]
    /\ moves \in 0 .. MaxMoves

(* main() fills the list from the configuration, where host, password,     *)
(* name and model are all optional.                                        *)
Init ==
    /\ printers \in [Devices -> Printer]
    /\ connections = [d \in Devices |-> NoRpc]
    /\ \E d \in Devices :
         rpc = [s \in Rpc |-> [pc |-> "new", dev |-> d, host |-> NoHost,
                               code |-> NoCode, again |-> FALSE]]
    /\ forwarder = [s \in Rpc |-> "off"]
    /\ publisher = [s \in Rpc |-> "off"]
    /\ queue = [s \in Rpc |-> 0]
    /\ closed = [s \in Rpc |-> FALSE]
    /\ refresh = [d \in Devices |-> NoHost]
    /\ where \in [Devices -> Hosts]
    /\ moves = 0

-----------------------------------------------------------------------------
(* Where discover_printer may find a printer: it probes the hosts of its   *)
(* own networks with the printer's id and code, and only the printer       *)
(* answers.  Any scan may also find nothing: a host outside those networks *)
(* or too slow to accept, an MQTT step refused, no report in time.         *)
Discovered(d, code) == IF code = GoodCode THEN {where[d]} \ {NoHost} ELSE {}

(* AsyncClient::connect and subscribe.  (external: MQTT)                   *)
Reachable(d, host, code) == code = GoodCode /\ where[d] = host /\ host # NoHost

(* update_printer_discovery: the address always, name and model when the   *)
(* answer carried them and they were missing.                              *)
UpdateDiscovery(d, host, named) ==
    printers' = [printers EXCEPT ![d] =
                    [host |-> host, code |-> @.code,
                     meta |-> IF named THEN TRUE ELSE @.meta]]

(* resolve_connect_password.                                               *)
ConnectPassword(stored, asked) == IF asked = NoCode THEN stored ELSE asked

(* connect_printer looks the printer up and settles on a password, or      *)
(* answers "Missing printer password" and is over.                         *)
ConnectPrinter(s, d, asked) ==
    LET code == ConnectPassword(printers[d].code, asked) IN
    /\ rpc[s].pc = "new"
    /\ \A r \in Rpc : r < s => rpc[r].pc # "new"
    /\ rpc' = [rpc EXCEPT ![s] =
          [pc |-> IF code = NoCode THEN "failed" ELSE "store", dev |-> d,
           host |-> printers[d].host, code |-> code, again |-> FALSE]]
    /\ UNCHANGED <<registry, sessions, network>>

(* update_printer_password: before anything has been tried with it.        *)
StorePassword(s) ==
    /\ rpc[s].pc = "store"
    /\ printers' = [printers EXCEPT ![rpc[s].dev].code = rpc[s].code]
    /\ rpc' = [rpc EXCEPT ![s].pc = "resolve"]
    /\ UNCHANGED <<refresh, sessions, network>>

(* resolve_printer_for_connect: the host is there, or a scan misses it, or *)
(* finds it.                                                               *)
ResolveHost(s) ==
    LET d == rpc[s].dev IN
    /\ rpc[s].pc = "resolve"
    /\ \/ /\ rpc[s].host # NoHost
          /\ rpc' = [rpc EXCEPT ![s].pc = "mqtt"]
          /\ UNCHANGED printers
       \/ /\ rpc[s].host = NoHost
          /\ rpc' = [rpc EXCEPT ![s].pc = "unfound"]
          /\ UNCHANGED printers
       \/ /\ rpc[s].host = NoHost
          /\ \E h \in Discovered(d, rpc[s].code), named \in BOOLEAN :
               /\ rpc' = [rpc EXCEPT ![s] = [@ EXCEPT !.pc = "mqtt",
                                                      !.host = h]]
               /\ UpdateDiscovery(d, h, named)
    /\ UNCHANGED <<refresh, sessions, network>>

(* connect_printer_session succeeds.  The handler holds the response       *)
(* stream's receiver until it returns, so its own tasks cannot clean up    *)
(* before the sender is registered: one step.                              *)
OpenSession(s) ==
    LET d == rpc[s].dev IN
    /\ rpc[s].pc = "mqtt"
    /\ Reachable(d, rpc[s].host, rpc[s].code)
    /\ rpc' = [rpc EXCEPT ![s].pc = "open"]
    /\ connections' = [connections EXCEPT ![d] = s]
    /\ forwarder' = [forwarder EXCEPT ![s] = "run"]
    /\ publisher' = [publisher EXCEPT ![s] = "run"]
    /\ UNCHANGED <<registry, queue, closed, network>>

(* ... or fails, for whatever reason, the right host and code not excluded: *)
(* the first time the host is looked for again.                            *)
SessionFailed(s) ==
    /\ rpc[s].pc = "mqtt"
    /\ rpc' = [rpc EXCEPT ![s].pc = IF rpc[s].again THEN "failed"
                                    ELSE "rediscover"]
    /\ UNCHANGED <<registry, sessions, network>>

(* Mutant: the retry is not remembered and the same host is tried again.   *)
RediscoverForever(s) ==
    LET d == rpc[s].dev IN
    /\ rpc[s].pc = "rediscover"
    /\ rpc' = [rpc EXCEPT ![s].pc = "mqtt",
                           ![s].host = IF where[d] = NoHost THEN @ ELSE where[d]]
    /\ UNCHANGED <<registry, sessions, network>>

(* Mutant: only a printer without a configured host is looked for.         *)
RediscoverIfUnset(s) ==
    /\ rpc[s].pc = "rediscover"
    /\ rpc' = [rpc EXCEPT ![s].pc = "failed"]
    /\ UNCHANGED <<registry, sessions, network>>

(* The scan misses the printer, finds it where it was just refused, or     *)
(* finds it elsewhere, where it is tried once more.                        *)
Rediscover(s) ==
    LET d == rpc[s].dev IN
    /\ rpc[s].pc = "rediscover"
    /\ \/ /\ rpc' = [rpc EXCEPT ![s].pc = "unfound"]
          /\ UNCHANGED printers
       \/ /\ rpc[s].host \in Discovered(d, rpc[s].code)
          /\ rpc' = [rpc EXCEPT ![s].pc = "failed"]
          /\ UNCHANGED printers
       \/ \E h \in Discovered(d, rpc[s].code) \ {rpc[s].host},
             named \in BOOLEAN :
               /\ rpc' = [rpc EXCEPT ![s] = [@ EXCEPT !.pc = "mqtt",
                                        !.host = h, !.again = TRUE]]
               /\ UpdateDiscovery(d, h, named)
    /\ UNCHANGED <<refresh, sessions, network>>

(* A client that goes away: the handler is dropped at an await, or the     *)
(* response stream is.                                                     *)
DropCall(s) ==
    /\ rpc[s].pc \in {"resolve", "mqtt", "rediscover"}
    /\ rpc' = [rpc EXCEPT ![s].pc = "gone"]
    /\ UNCHANGED <<registry, sessions, network>>

CloseStream(s) ==
    /\ rpc[s].pc = "open"
    /\ ~closed[s]
    /\ closed' = [closed EXCEPT ![s] = TRUE]
    /\ UNCHANGED <<registry, rpc, connections, forwarder, publisher, queue,
                   network>>

-----------------------------------------------------------------------------
(* Mutant: the map entry outlives the session.                             *)
ForwarderEndsKeepingEntry(s) ==
    /\ forwarder[s] = "run"
    /\ closed[s]
    /\ forwarder' = [forwarder EXCEPT ![s] = "done"]
    /\ UNCHANGED <<registry, rpc, connections, publisher, queue, closed,
                   network>>

(* The forwarding task sees the closed stream, removes the device's entry  *)
(* from the map and disconnects its MQTT client.                           *)
ForwarderEnds(s) ==
    /\ forwarder[s] = "run"
    /\ closed[s]
    /\ connections' = [connections EXCEPT ![rpc[s].dev] = NoRpc]
    /\ forwarder' = [forwarder EXCEPT ![s] = "done"]
    /\ UNCHANGED <<registry, rpc, publisher, queue, closed, network>>

(* Mutant: an unbounded channel.                                           *)
SendMessageUnbounded(d) ==
    LET s == connections[d] IN
    /\ s # NoRpc
    /\ queue' = [queue EXCEPT ![s] = @ + 1]
    /\ UNCHANGED <<registry, rpc, connections, forwarder, publisher, closed,
                   network>>

(* send_message that is accepted; a refused one changes nothing.           *)
SendMessage(d) ==
    LET s == connections[d] IN
    /\ s # NoRpc
    /\ queue[s] < QueueCap
    /\ queue' = [queue EXCEPT ![s] = @ + 1]
    /\ UNCHANGED <<registry, rpc, connections, forwarder, publisher, closed,
                   network>>

(* The publisher hands a message to MQTT; an error is only logged.         *)
PublishMessage(s) ==
    /\ publisher[s] = "run"
    /\ queue[s] > 0
    /\ queue' = [queue EXCEPT ![s] = @ - 1]
    /\ UNCHANGED <<registry, rpc, connections, forwarder, publisher, closed,
                   network>>

(* It ends when the channel is empty and its only sender, the one in the   *)
(* map, is gone.                                                           *)
PublisherEnds(s) ==
    /\ publisher[s] = "run"
    /\ queue[s] = 0
    /\ connections[rpc[s].dev] # s
    /\ publisher' = [publisher EXCEPT ![s] = "done"]
    /\ UNCHANGED <<registry, rpc, connections, forwarder, queue, closed,
                   network>>

-----------------------------------------------------------------------------
(* refresh_discovery_metadata, started by every get_available_printers: a  *)
(* snapshot of the list picks the printers to probe (a code that is not    *)
(* theirs finds nothing) ...                                               *)
RefreshSnapshot(d) ==
    /\ refresh[d] = NoHost
    /\ printers[d].host = NoHost \/ ~printers[d].meta
    /\ printers[d].code = GoodCode
    /\ refresh' = [refresh EXCEPT ![d] = "probing"]
    /\ UNCHANGED <<printers, rpc, sessions, network>>

(* ... the scan finds the printer or nothing ...                           *)
RefreshProbe(d) ==
    /\ refresh[d] = "probing"
    /\ \E h \in Discovered(d, GoodCode) \cup {NoHost} :
         refresh' = [refresh EXCEPT ![d] = h]
    /\ UNCHANGED <<printers, rpc, sessions, network>>

(* ... and its address is stored, whatever the list holds by then.         *)
RefreshStore(d) ==
    /\ refresh[d] \in Hosts
    /\ \E named \in BOOLEAN : UpdateDiscovery(d, refresh[d], named)
    /\ refresh' = [refresh EXCEPT ![d] = NoHost]
    /\ UNCHANGED <<rpc, sessions, network>>

(* The network: a printer gets another address or is switched off.         *)
Move(d, h) ==
    /\ moves < MaxMoves
    /\ h # where[d]
    /\ where' = [where EXCEPT ![d] = h]
    /\ moves' = moves + 1
    /\ UNCHANGED <<registry, rpc, sessions>>

-----------------------------------------------------------------------------
RpcStep(s) ==
    \/ StorePassword(s) \/ ResolveHost(s) \/ OpenSession(s)
    \/ SessionFailed(s) \/ Rediscover(s)

SessionStep(s) == ForwarderEnds(s) \/ PublishMessage(s) \/ PublisherEnds(s)

Next ==
    \/ \E s \in Rpc, d \in Devices, c \in Code : ConnectPrinter(s, d, c)
    \/ \E s \in Rpc : RpcStep(s) \/ SessionStep(s)
    \/ \E s \in Rpc : DropCall(s) \/ CloseStream(s)
    \/ \E d \in Devices : SendMessage(d)
    \/ \E d \in Devices :
         RefreshSnapshot(d) \/ RefreshProbe(d) \/ RefreshStore(d)
    \/ \E d \in Devices, h \in Host : Move(d, h)

(* The runtime polls every handler and task; MQTT connects or times out.   *)
Fairness ==
    \A s \in Rpc :
        /\ WF_vars(RpcStep(s))
        /\ WF_vars(ForwarderEnds(s))
        /\ WF_vars(PublishMessage(s))
        /\ WF_vars(PublisherEnds(s))

Spec == Init /\ [][Next]_vars
LiveSpec == Spec /\ Fairness

-----------------------------------------------------------------------------
(* The sender that send_message finds is drained into a live MQTT client   *)
(* of that printer: no session is torn down behind the map's back.         *)
RegisteredSessionIsLive ==
    \A d \in Devices : connections[d] # NoRpc =>
        LET s == connections[d] IN
        /\ rpc[s].dev = d /\ rpc[s].pc = "open"
        /\ forwarder[s] = "run" /\ publisher[s] = "run"

(* Every connect_printer call is answered: there is at most one retry.     *)
ConnectIsAnswered ==
    \A s \in Rpc :
        rpc[s].pc = "store" ~> rpc[s].pc \in {"open", "failed", "unfound",
                                               "gone"}

(* A session whose client left is torn down with both its tasks.           *)
SessionIsReclaimed ==
    \A s \in Rpc :
        closed[s] ~> forwarder[s] = "done" /\ publisher[s] = "done"

(* A printer that has settled at an address is tried there with its code,  *)
(* whatever host is configured, remembered or about to be stored: a call   *)
(* made since then opens a session, was refused at the right address, or   *)
(* looked for the printer and its own scan missed it.                      *)
SettledPrinterIsReached ==
    \A s \in Rpc :
        (/\ rpc[s].pc = "store" /\ rpc[s].code = GoodCode
         /\ moves = MaxMoves /\ where[rpc[s].dev] # NoHost)
            ~> \/ rpc[s].pc \in {"open", "gone", "unfound"}
               \/ rpc[s].pc = "failed" /\ rpc[s].host = where[rpc[s].dev]

(* A session whose client still listens can be sent to.                    *)
LiveSessionHasSender ==
    \A s \in Rpc : rpc[s].pc = "open" /\ ~closed[s]
                      => connections[rpc[s].dev] # NoRpc
=============================================================================
