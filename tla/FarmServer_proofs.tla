-------------------------- MODULE FarmServer_proofs --------------------------
(* Registered senders, lost senders and accepted messages of the farm      *)
(* server, for every number of printers, calls, addresses and codes.       *)
EXTENDS FarmServer, TLAPS

(* update_printer_discovery stores a printer.                              *)
LEMMA DiscoveryTyped ==
    ASSUME TypeOK, NEW d \in Devices, NEW h \in Host, NEW n \in BOOLEAN,
           UpdateDiscovery(d, h, n)
    PROVE  printers' \in [Devices -> Printer]
<1>1. [host |-> h, code |-> printers[d].code,
       meta |-> IF n THEN TRUE ELSE printers[d].meta] \in Printer
  BY DEF TypeOK, Printer
<1>2. QED
  BY <1>1 DEF UpdateDiscovery, TypeOK

(* Moving a connect_printer call to another point keeps it a call.         *)
LEMMA CallMoves ==
    ASSUME NEW c \in Call, NEW p \in RpcPC, NEW h \in Host
    PROVE  /\ [c EXCEPT !.pc = p] \in Call
           /\ [c EXCEPT !.pc = p, !.host = h] \in Call
           /\ [c EXCEPT !.pc = p, !.host = h, !.again = TRUE] \in Call
  BY DEF Call

(* Every step of the server, its clients or the network keeps the types.   *)
LEMMA TypeStep == TypeOK /\ [Next]_vars => TypeOK'
<1> SUFFICES ASSUME TypeOK, [Next]_vars PROVE TypeOK'
  OBVIOUS
<1> USE FarmAssumption DEF TypeOK, registry, sessions, network
<1>1. ASSUME NEW s \in Rpc, NEW d \in Devices, NEW c \in Code,
             ConnectPrinter(s, d, c)
      PROVE  TypeOK'
  <2> DEFINE code == ConnectPassword(printers[d].code, c)
  <2>1. code \in Code /\ printers[d].host \in Host
    BY DEF ConnectPassword, Printer
  <2>2. [pc |-> IF code = NoCode THEN "failed" ELSE "store", dev |-> d,
         host |-> printers[d].host, code |-> code, again |-> FALSE] \in Call
    BY <2>1 DEF Call, RpcPC
  <2>3. rpc' \in [Rpc -> Call]
    BY <1>1, <2>2 DEF ConnectPrinter
  <2>4. QED
    BY <1>1, <2>3 DEF ConnectPrinter
<1>2. ASSUME NEW s \in Rpc, StorePassword(s) PROVE TypeOK'
  <2>1. rpc[s].dev \in Devices /\ rpc[s].code \in Code
    BY DEF Call
  <2>2. printers' \in [Devices -> Printer]
    BY <1>2, <2>1 DEF StorePassword, Printer
  <2>3. rpc' \in [Rpc -> Call]
    BY <1>2 DEF StorePassword, Call, RpcPC
  <2>4. QED
    BY <1>2, <2>2, <2>3 DEF StorePassword
<1>3. ASSUME NEW s \in Rpc, ResolveHost(s) PROVE TypeOK'
  <2>1. rpc[s].dev \in Devices /\ Discovered(rpc[s].dev, rpc[s].code) \subseteq Host
    BY DEF Call, Discovered
  <2>2. printers' \in [Devices -> Printer]
    <3>1. \/ UNCHANGED printers
          \/ \E h \in Host, n \in BOOLEAN : UpdateDiscovery(rpc[s].dev, h, n)
      BY <1>3, <2>1 DEF ResolveHost
    <3>2. QED
      BY <2>1, <3>1, DiscoveryTyped
  <2>3. {"mqtt", "failed", "unfound"} \subseteq RpcPC
    BY DEF RpcPC
  <2>4. rpc' \in [Rpc -> Call]
    <3>1. ASSUME NEW h \in Host, NEW p \in {"mqtt", "failed", "unfound"}
          PROVE  /\ [rpc[s] EXCEPT !.pc = p] \in Call
                 /\ [rpc[s] EXCEPT !.pc = p, !.host = h] \in Call
                 /\ [rpc[s] EXCEPT !.pc = p, !.host = h, !.again = TRUE] \in Call
      BY <2>3, CallMoves
    <3>2. PICK h \in Host, p \in {"mqtt", "failed", "unfound"} :
             \/ rpc' = [rpc EXCEPT ![s].pc = p]
             \/ rpc' = [rpc EXCEPT ![s] = [rpc[s] EXCEPT !.pc = p,
                                               !.host = h]]
      <4>1. NoHost \in Host
        BY DEF Host
      <4>2. QED
        BY <1>3, <2>1, <4>1 DEF ResolveHost
    <3>3. QED
      BY <3>1, <3>2
  <2>5. QED
    BY <1>3, <2>2, <2>4 DEF ResolveHost
<1>4. ASSUME NEW s \in Rpc, OpenSession(s) PROVE TypeOK'
  BY <1>4 DEF OpenSession, Call, RpcPC
<1>5. ASSUME NEW s \in Rpc, SessionFailed(s) PROVE TypeOK'
  BY <1>5 DEF SessionFailed, Call, RpcPC
<1>6. ASSUME NEW s \in Rpc, Rediscover(s) PROVE TypeOK'
  <2>1. rpc[s].dev \in Devices /\ Discovered(rpc[s].dev, rpc[s].code) \subseteq Host
    BY DEF Call, Discovered
  <2>2. printers' \in [Devices -> Printer]
    <3>1. \/ UNCHANGED printers
          \/ \E h \in Host, n \in BOOLEAN : UpdateDiscovery(rpc[s].dev, h, n)
      BY <1>6, <2>1 DEF Rediscover
    <3>2. QED
      BY <2>1, <3>1, DiscoveryTyped
  <2>3. {"mqtt", "failed", "unfound"} \subseteq RpcPC
    BY DEF RpcPC
  <2>4. rpc' \in [Rpc -> Call]
    <3>1. ASSUME NEW h \in Host, NEW p \in {"mqtt", "failed", "unfound"}
          PROVE  /\ [rpc[s] EXCEPT !.pc = p] \in Call
                 /\ [rpc[s] EXCEPT !.pc = p, !.host = h] \in Call
                 /\ [rpc[s] EXCEPT !.pc = p, !.host = h, !.again = TRUE] \in Call
      BY <2>3, CallMoves
    <3>2. PICK h \in Host, p \in {"mqtt", "failed", "unfound"} :
             \/ rpc' = [rpc EXCEPT ![s].pc = p]
             \/ rpc' = [rpc EXCEPT ![s] = [rpc[s] EXCEPT !.pc = p,
                                               !.host = h, !.again = TRUE]]
      <4>1. NoHost \in Host
        BY DEF Host
      <4>2. QED
        BY <1>6, <2>1, <4>1 DEF Rediscover
    <3>3. QED
      BY <3>1, <3>2
  <2>5. QED
    BY <1>6, <2>2, <2>4 DEF Rediscover
<1>7. ASSUME NEW s \in Rpc, DropCall(s) PROVE TypeOK'
  BY <1>7 DEF DropCall, Call, RpcPC
<1>8. ASSUME NEW s \in Rpc, CloseStream(s) PROVE TypeOK'
  BY <1>8 DEF CloseStream
<1>9. ASSUME NEW s \in Rpc, ForwarderEnds(s) PROVE TypeOK'
  BY <1>9 DEF ForwarderEnds
<1>10. ASSUME NEW s \in Rpc, PublishMessage(s) PROVE TypeOK'
  BY <1>10 DEF PublishMessage
<1>11. ASSUME NEW s \in Rpc, PublisherEnds(s) PROVE TypeOK'
  BY <1>11 DEF PublisherEnds
<1>12. ASSUME NEW d \in Devices, SendMessage(d) PROVE TypeOK'
  BY <1>12 DEF SendMessage
<1>13. ASSUME NEW d \in Devices, RefreshSnapshot(d) \/ RefreshProbe(d)
       PROVE  TypeOK'
  BY <1>13 DEF RefreshSnapshot, RefreshProbe, Discovered, Host
<1>14. ASSUME NEW d \in Devices, RefreshStore(d) PROVE TypeOK'
  <2>1. printers' \in [Devices -> Printer]
    BY <1>14, DiscoveryTyped DEF RefreshStore, Host
  <2>2. NoHost \in Host
    BY DEF Host
  <2>3. QED
    BY <1>14, <2>1, <2>2 DEF RefreshStore
<1>15. ASSUME NEW d \in Devices, NEW h \in Host, Move(d, h) PROVE TypeOK'
  BY <1>15 DEF Move
<1>16. CASE UNCHANGED vars
  BY <1>16 DEF vars
<1>17. QED
  BY <1>1, <1>2, <1>3, <1>4, <1>5, <1>6, <1>7, <1>8, <1>9, <1>10, <1>11,
     <1>12, <1>13, <1>14, <1>15, <1>16 DEF Next, RpcStep, SessionStep

IndInv == TypeOK /\ RegisteredSessionIsLive

(* A step on call s that leaves sessions alone and does not start from an  *)
(* open call cannot touch a registered one.                                *)
LEMMA CallFrame ==
    ASSUME IndInv, NEW s \in Rpc, rpc[s].pc # "open",
           \A r \in Rpc : r # s => rpc'[r] = rpc[r],
           UNCHANGED <<connections, forwarder, publisher>>
    PROVE  RegisteredSessionIsLive'
  BY DEF IndInv, TypeOK, RegisteredSessionIsLive

(* Every step keeps the sessions behind the registered senders alive: an   *)
(* entry is made with its tasks and goes before, or with, any of them.     *)
LEMMA LiveStep ==
    ASSUME IndInv, [Next]_vars
    PROVE  RegisteredSessionIsLive'
<1> USE DEF IndInv
<1>1. ASSUME UNCHANGED <<rpc, connections, forwarder, publisher>>
      PROVE  RegisteredSessionIsLive'
  BY <1>1 DEF RegisteredSessionIsLive
<1>2. ASSUME NEW s \in Rpc, NEW d \in Devices, NEW c \in Code,
             ConnectPrinter(s, d, c)
      PROVE  RegisteredSessionIsLive'
  BY <1>2, CallFrame DEF ConnectPrinter, TypeOK, sessions
<1>3. ASSUME NEW s \in Rpc,
             \/ StorePassword(s) \/ ResolveHost(s) \/ SessionFailed(s)
             \/ Rediscover(s) \/ DropCall(s)
      PROVE  RegisteredSessionIsLive'
  <2>1. rpc[s].pc # "open"
    BY <1>3 DEF StorePassword, ResolveHost, SessionFailed, Rediscover, DropCall
  <2>2. \A r \in Rpc : r # s => rpc'[r] = rpc[r]
    BY <1>3 DEF StorePassword, ResolveHost, SessionFailed, Rediscover,
                DropCall, TypeOK
  <2>3. UNCHANGED <<connections, forwarder, publisher>>
    BY <1>3 DEF StorePassword, ResolveHost, SessionFailed, Rediscover,
                DropCall, sessions
  <2>4. QED
    BY <2>1, <2>2, <2>3, CallFrame
<1>4. ASSUME NEW s \in Rpc, OpenSession(s)
      PROVE  RegisteredSessionIsLive'
  BY <1>4, FarmAssumption
     DEF OpenSession, RegisteredSessionIsLive, TypeOK, Call
<1>5. ASSUME NEW s \in Rpc, ForwarderEnds(s)
      PROVE  RegisteredSessionIsLive'
  BY <1>5 DEF ForwarderEnds, RegisteredSessionIsLive, TypeOK, Call
<1>6. ASSUME NEW s \in Rpc, PublisherEnds(s)
      PROVE  RegisteredSessionIsLive'
  BY <1>6 DEF PublisherEnds, RegisteredSessionIsLive, TypeOK, Call
<1>7. ASSUME NEW s \in Rpc, CloseStream(s) \/ PublishMessage(s)
      PROVE  RegisteredSessionIsLive'
  BY <1>1, <1>7 DEF CloseStream, PublishMessage
<1>8. ASSUME NEW d \in Devices,
             \/ SendMessage(d) \/ RefreshSnapshot(d) \/ RefreshProbe(d)
             \/ RefreshStore(d)
      PROVE  RegisteredSessionIsLive'
  BY <1>1, <1>8 DEF SendMessage, RefreshSnapshot, RefreshProbe, RefreshStore,
                    sessions
<1>9. ASSUME NEW d \in Devices, NEW h \in Host, Move(d, h)
      PROVE  RegisteredSessionIsLive'
  BY <1>1, <1>9 DEF Move, sessions
<1>10. CASE UNCHANGED vars
  BY <1>1, <1>10 DEF vars
<1>11. QED
  BY <1>2, <1>3, <1>4, <1>5, <1>6, <1>7, <1>8, <1>9, <1>10
     DEF Next, RpcStep, SessionStep

(* The strengthening holds in every reachable state.                       *)
THEOREM IndInvHolds == Spec => []IndInv
<1>1. Init => IndInv
  <2> SUFFICES ASSUME Init PROVE IndInv
    OBVIOUS
  <2>1. rpc \in [Rpc -> Call]
    BY DEF Init, Call, RpcPC, Host, Code
  <2>2. queue \in [Rpc -> 0 .. QueueCap] /\ moves \in 0 .. MaxMoves
    BY FarmAssumption DEF Init
  <2>3. TypeOK
    BY <2>1, <2>2 DEF Init, TypeOK, Host
  <2>4. QED
    BY <2>3 DEF Init, IndInv, RegisteredSessionIsLive
<1>2. IndInv /\ [Next]_vars => IndInv'
  BY TypeStep, LiveStep DEF IndInv
<1>3. QED
  BY <1>1, <1>2, PTL DEF Spec

(* Every field of the farm has its type: the addresses, passwords and      *)
(* probes it stores, and a publisher's queue within its ten places.        *)
THEOREM TypeCorrect == Spec => []TypeOK
<1>1. IndInv => TypeOK
  BY DEF IndInv
<1>2. QED
  BY <1>1, IndInvHolds, PTL

(* Whatever sender send_message finds in the farm's connections map, its   *)
(* session's forwarding and publisher tasks are running.                   *)
THEOREM RegisteredIsLiveAlways == Spec => []RegisteredSessionIsLive
<1>1. IndInv => RegisteredSessionIsLive
  BY DEF IndInv
<1>2. QED
  BY <1>1, IndInvHolds, PTL
-----------------------------------------------------------------------------
(* Senders and messages.  A session that is open has its tasks and, until  *)
(* its client leaves, its forwarding task.                                 *)
SessionShape ==
    \A s \in Rpc :
        /\ forwarder[s] # "off" <=> rpc[s].pc = "open"
        /\ forwarder[s] = "done" => closed[s]

(* A session without a sender lost it to another session of its printer    *)
(* that has ended, and has its own while no other was opened.              *)
SenderLostToPeer ==
    \A s \in Rpc : forwarder[s] = "run" =>
        LET Peers == {r \in Rpc \ {s} : rpc[r].dev = rpc[s].dev}
        IN  /\ connections[rpc[s].dev] = NoRpc =>
                  \E r \in Peers : forwarder[r] = "done"
            /\ connections[rpc[s].dev] \notin {s, NoRpc} =>
                  \E r \in Peers : forwarder[r] # "off"

(* A message that send_message accepted has a publisher that will hand it  *)
(* on, also after its session was replaced or its sender removed.          *)
AcceptedIsDrained == \A s \in Rpc : queue[s] > 0 => publisher[s] = "run"

SendInv == SessionShape /\ SenderLostToPeer /\ AcceptedIsDrained

(* Where a call that was moved is.                                         *)
LEMMA CallMoved ==
    ASSUME NEW c \in Call, NEW p, NEW h
    PROVE  /\ [c EXCEPT !.pc = p].pc = p
           /\ [c EXCEPT !.pc = p, !.host = h].pc = p
           /\ [c EXCEPT !.pc = p, !.host = h, !.again = TRUE].pc = p
  BY DEF Call

(* A step on a call that has no session yet, and gets none.                *)
LEMMA SendCallFrame ==
    ASSUME IndInv, SendInv, NEW s \in Rpc, rpc[s].pc # "open",
           rpc'[s].pc # "open",
           \A r \in Rpc : r # s => rpc'[r] = rpc[r],
           UNCHANGED <<connections, forwarder, publisher, queue, closed>>
    PROVE  SendInv'
<1>1. forwarder[s] = "off"
  BY DEF SendInv, SessionShape
<1>2. SessionShape'
  BY <1>1 DEF SendInv, SessionShape
<1>3. SenderLostToPeer'
  <2> SUFFICES ASSUME NEW q \in Rpc, forwarder[q] = "run"
               PROVE  /\ connections[rpc[q].dev] = NoRpc =>
                            \E r \in Rpc \ {q} : /\ rpc'[r].dev = rpc[q].dev
                                                  /\ forwarder[r] = "done"
                      /\ connections[rpc[q].dev] \notin {q, NoRpc} =>
                            \E r \in Rpc \ {q} : /\ rpc'[r].dev = rpc[q].dev
                                                  /\ forwarder[r] # "off"
    BY <1>1 DEF SenderLostToPeer
  <2>1. \A r \in Rpc : forwarder[r] # "off" => rpc'[r] = rpc[r]
    BY <1>1
  <2>2. QED
    BY <2>1 DEF SendInv, SenderLostToPeer
<1>4. AcceptedIsDrained'
  BY DEF SendInv, AcceptedIsDrained
<1>5. QED
  BY <1>2, <1>3, <1>4 DEF SendInv

(* A step that leaves calls, map and tasks alone.                          *)
LEMMA SendFrame ==
    ASSUME SendInv, UNCHANGED <<rpc, connections, forwarder, publisher>>,
           \A s \in Rpc : closed[s] => closed'[s],
           AcceptedIsDrained'
    PROVE  SendInv'
<1>1. SessionShape'
  BY DEF SendInv, SessionShape
<1>2. SenderLostToPeer'
  BY DEF SendInv, SenderLostToPeer
<1>3. QED
  BY <1>1, <1>2 DEF SendInv

(* Every step keeps the senders and the messages of the sessions.          *)
LEMMA SendStep ==
    ASSUME IndInv, SendInv, [Next]_vars
    PROVE  SendInv'
<1>0. TypeOK /\ NoRpc \notin Rpc
  BY FarmAssumption DEF IndInv, Rpc, NoRpc
<1>1. ASSUME NEW s \in Rpc, NEW d \in Devices, NEW c \in Code,
             ConnectPrinter(s, d, c)
      PROVE  SendInv'
  <2>1. rpc[s].pc # "open" /\ rpc'[s].pc # "open"
    BY <1>0, <1>1 DEF ConnectPrinter, TypeOK
  <2>2. QED
    BY <1>0, <1>1, <2>1, SendCallFrame DEF ConnectPrinter, TypeOK, sessions
<1>2. ASSUME NEW s \in Rpc,
             \/ StorePassword(s) \/ ResolveHost(s) \/ SessionFailed(s)
             \/ Rediscover(s) \/ DropCall(s)
      PROVE  SendInv'
  <2>1. rpc[s].pc # "open" /\ rpc[s] \in Call
    BY <1>0, <1>2 DEF StorePassword, ResolveHost, SessionFailed, Rediscover,
                      DropCall, TypeOK
  <2>2. rpc'[s].pc # "open" /\ \A r \in Rpc : r # s => rpc'[r] = rpc[r]
    <3>1. CASE StorePassword(s) \/ SessionFailed(s) \/ DropCall(s)
      BY <1>0, <2>1, <3>1
         DEF StorePassword, SessionFailed, DropCall, TypeOK, Call
    <3>2. CASE ResolveHost(s)
      <4>1. PICK p \in {"mqtt", "failed", "unfound"}, h \in Host :
               \/ rpc' = [rpc EXCEPT ![s].pc = p]
               \/ rpc' = [rpc EXCEPT ![s] = [rpc[s] EXCEPT !.pc = p,
                                                 !.host = h]]
        BY <1>0, <3>2 DEF ResolveHost, Discovered, Host, TypeOK, Call, Printer
      <4> DEFINE kept == [rpc[s] EXCEPT !.pc = p]
                 found == [rpc[s] EXCEPT !.pc = p, !.host = h]
      <4>2. \E c \in {kept, found} : rpc' = [rpc EXCEPT ![s] = c]
        BY <4>1
      <4>3. kept.pc = p /\ found.pc = p
        BY <2>1, CallMoved
      <4> HIDE DEF kept, found
      <4>4. QED
        BY <1>0, <4>2, <4>3 DEF TypeOK
    <3>3. CASE Rediscover(s)
      <4>1. PICK p \in {"mqtt", "failed", "unfound"}, h \in Host :
               \/ rpc' = [rpc EXCEPT ![s].pc = p]
               \/ rpc' = [rpc EXCEPT ![s] = [rpc[s] EXCEPT !.pc = p,
                                                 !.host = h, !.again = TRUE]]
        BY <1>0, <3>3 DEF Rediscover, Discovered, Host, TypeOK, Call
      <4> DEFINE kept == [rpc[s] EXCEPT !.pc = p]
                 found == [rpc[s] EXCEPT !.pc = p, !.host = h, !.again = TRUE]
      <4>2. \E c \in {kept, found} : rpc' = [rpc EXCEPT ![s] = c]
        BY <4>1
      <4>3. kept.pc = p /\ found.pc = p
        BY <2>1, CallMoved
      <4> HIDE DEF kept, found
      <4>4. QED
        BY <1>0, <4>2, <4>3 DEF TypeOK
    <3>4. QED
      BY <1>2, <3>1, <3>2, <3>3
  <2>3. UNCHANGED <<connections, forwarder, publisher, queue, closed>>
    BY <1>2 DEF StorePassword, ResolveHost, SessionFailed, Rediscover,
                DropCall, sessions
  <2>4. QED
    BY <2>1, <2>2, <2>3, SendCallFrame
<1>3. ASSUME NEW s \in Rpc, OpenSession(s)
      PROVE  SendInv'
  <2>1. /\ rpc' = [rpc EXCEPT ![s].pc = "open"] /\ rpc[s].pc = "mqtt"
        /\ connections' = [connections EXCEPT ![rpc[s].dev] = s]
        /\ forwarder' = [forwarder EXCEPT ![s] = "run"]
        /\ publisher' = [publisher EXCEPT ![s] = "run"]
        /\ UNCHANGED <<queue, closed>>
    BY <1>3 DEF OpenSession
  <2>2. /\ rpc[s] \in Call /\ rpc[s].dev \in Devices
        /\ \A r \in Rpc : rpc'[r].dev = rpc[r].dev
        /\ \A r \in Rpc : rpc'[r].pc = IF r = s THEN "open" ELSE rpc[r].pc
    BY <1>0, <2>1 DEF TypeOK, Call
  <2>3. /\ forwarder'[s] = "run" /\ forwarder[s] = "off"
        /\ \A r \in Rpc : r # s => forwarder'[r] = forwarder[r]
    BY <1>0, <2>1 DEF TypeOK, SendInv, SessionShape
  <2>4. SessionShape'
    BY <2>1, <2>2, <2>3 DEF SendInv, SessionShape
  <2>5. SenderLostToPeer'
    <3> SUFFICES ASSUME NEW q \in Rpc, forwarder'[q] = "run"
                 PROVE  /\ connections'[rpc[q].dev] = NoRpc =>
                              \E r \in Rpc \ {q} : /\ rpc[r].dev = rpc[q].dev
                                                    /\ forwarder'[r] = "done"
                        /\ connections'[rpc[q].dev] \notin {q, NoRpc} =>
                              \E r \in Rpc \ {q} : /\ rpc[r].dev = rpc[q].dev
                                                    /\ forwarder'[r] # "off"
      BY <2>2 DEF SenderLostToPeer
    <3>1. CASE rpc[q].dev = rpc[s].dev
      <4>1. connections'[rpc[q].dev] = s /\ s # NoRpc
        BY <1>0, <2>1, <2>2, <3>1 DEF TypeOK
      <4>2. QED
        BY <2>3, <3>1, <4>1
    <3>2. CASE rpc[q].dev # rpc[s].dev
      <4>1. connections'[rpc[q].dev] = connections[rpc[q].dev] /\ q # s
        BY <1>0, <2>1, <3>2 DEF TypeOK, Call
      <4>2. QED
        BY <2>3, <4>1 DEF SendInv, SenderLostToPeer
    <3>3. QED
      BY <3>1, <3>2
  <2>6. AcceptedIsDrained'
    BY <1>0, <2>1 DEF TypeOK, SendInv, AcceptedIsDrained
  <2>7. QED
    BY <2>4, <2>5, <2>6 DEF SendInv
<1>4. ASSUME NEW s \in Rpc, ForwarderEnds(s)
      PROVE  SendInv'
  <2>1. /\ forwarder[s] = "run" /\ closed[s]
        /\ connections' = [connections EXCEPT ![rpc[s].dev] = NoRpc]
        /\ forwarder' = [forwarder EXCEPT ![s] = "done"]
        /\ UNCHANGED <<rpc, publisher, queue, closed>>
    BY <1>4 DEF ForwarderEnds
  <2>2. /\ forwarder'[s] = "done" /\ rpc[s].dev \in Devices
        /\ \A r \in Rpc : r # s => forwarder'[r] = forwarder[r]
    BY <1>0, <2>1 DEF TypeOK, Call
  <2>3. SessionShape'
    BY <2>1, <2>2 DEF SendInv, SessionShape
  <2>4. SenderLostToPeer'
    <3> SUFFICES ASSUME NEW q \in Rpc, forwarder'[q] = "run"
                 PROVE  /\ connections'[rpc[q].dev] = NoRpc =>
                              \E r \in Rpc \ {q} : /\ rpc[r].dev = rpc[q].dev
                                                    /\ forwarder'[r] = "done"
                        /\ connections'[rpc[q].dev] \notin {q, NoRpc} =>
                              \E r \in Rpc \ {q} : /\ rpc[r].dev = rpc[q].dev
                                                    /\ forwarder'[r] # "off"
      BY <2>1 DEF SenderLostToPeer
    <3>1. q # s /\ forwarder[q] = "run"
      BY <2>2
    <3>2. CASE rpc[q].dev = rpc[s].dev
      <4>1. connections'[rpc[q].dev] = NoRpc
        BY <1>0, <2>1, <2>2, <3>2 DEF TypeOK
      <4>2. QED
        BY <2>2, <3>1, <3>2, <4>1
    <3>3. CASE rpc[q].dev # rpc[s].dev
      <4>1. connections'[rpc[q].dev] = connections[rpc[q].dev]
        BY <1>0, <2>1, <3>3 DEF TypeOK, Call
      <4>2. QED
        BY <2>2, <3>1, <3>3, <4>1 DEF SendInv, SenderLostToPeer
    <3>4. QED
      BY <3>2, <3>3
  <2>5. AcceptedIsDrained'
    BY <2>1 DEF SendInv, AcceptedIsDrained
  <2>6. QED
    BY <2>3, <2>4, <2>5 DEF SendInv
<1>5. ASSUME NEW s \in Rpc, PublisherEnds(s)
      PROVE  SendInv'
  <2>1. /\ queue[s] = 0 /\ publisher' = [publisher EXCEPT ![s] = "done"]
        /\ UNCHANGED <<rpc, connections, forwarder, queue, closed>>
    BY <1>5 DEF PublisherEnds
  <2>2. AcceptedIsDrained'
    BY <1>0, <2>1 DEF TypeOK, SendInv, AcceptedIsDrained
  <2>3. SessionShape' /\ SenderLostToPeer'
    BY <2>1 DEF SendInv, SessionShape, SenderLostToPeer
  <2>4. QED
    BY <2>2, <2>3 DEF SendInv
<1>6. ASSUME NEW s \in Rpc, CloseStream(s)
      PROVE  SendInv'
  <2>1. /\ UNCHANGED <<rpc, connections, forwarder, publisher, queue>>
        /\ \A r \in Rpc : closed[r] => closed'[r]
    BY <1>0, <1>6 DEF CloseStream, TypeOK
  <2>2. AcceptedIsDrained'
    BY <2>1 DEF SendInv, AcceptedIsDrained
  <2>3. QED
    BY <2>1, <2>2, SendFrame
<1>7. ASSUME NEW s \in Rpc, PublishMessage(s)
      PROVE  SendInv'
  <2>1. AcceptedIsDrained'
    BY <1>0, <1>7 DEF PublishMessage, TypeOK, SendInv, AcceptedIsDrained
  <2>2. QED
    BY <1>7, <2>1, SendFrame DEF PublishMessage
<1>8. ASSUME NEW d \in Devices, SendMessage(d)
      PROVE  SendInv'
  <2>1. connections[d] \in Rpc /\ publisher[connections[d]] = "run"
    BY <1>0, <1>8 DEF SendMessage, TypeOK, IndInv, RegisteredSessionIsLive
  <2>2. AcceptedIsDrained'
    BY <1>0, <1>8, <2>1 DEF SendMessage, TypeOK, SendInv, AcceptedIsDrained
  <2>3. QED
    BY <1>8, <2>2, SendFrame DEF SendMessage
<1>9. ASSUME UNCHANGED <<rpc, sessions>>
      PROVE  SendInv'
  BY <1>9, SendFrame DEF sessions, SendInv, AcceptedIsDrained
<1>10. ASSUME NEW d \in Devices,
              RefreshSnapshot(d) \/ RefreshProbe(d) \/ RefreshStore(d)
       PROVE  SendInv'
  BY <1>9, <1>10 DEF RefreshSnapshot, RefreshProbe, RefreshStore
<1>11. ASSUME NEW d \in Devices, NEW h \in Host, Move(d, h)
       PROVE  SendInv'
  BY <1>9, <1>11 DEF Move
<1>12. CASE UNCHANGED vars
  BY <1>9, <1>12 DEF vars, sessions
<1>13. QED
  BY <1>1, <1>2, <1>3, <1>4, <1>5, <1>6, <1>7, <1>8, <1>10, <1>11, <1>12
     DEF Next, RpcStep, SessionStep

(* The senders and the messages of the sessions, in every reachable state. *)
LEMMA SendInvHolds == Spec => []SendInv
<1>1. Init => SendInv
  BY DEF Init, SendInv, SessionShape, SenderLostToPeer, AcceptedIsDrained
<1>2. IndInv /\ SendInv /\ [Next]_vars => SendInv'
  BY SendStep
<1>3. QED
  BY <1>1, <1>2, IndInvHolds, PTL DEF Spec

(* What farm_sender shows is the only way a live session loses its sender: *)
(* another session of its printer was opened and has ended.                *)
THEOREM SenderLostToPeerAlways == Spec => []SenderLostToPeer
<1>1. SendInv => SenderLostToPeer
  BY DEF SendInv
<1>2. QED
  BY <1>1, SendInvHolds, PTL

(* No message that send_message answered with success is left in a channel *)
(* that nobody reads.                                                      *)
THEOREM AcceptedIsDrainedAlways == Spec => []AcceptedIsDrained
<1>1. SendInv => AcceptedIsDrained
  BY DEF SendInv
<1>2. QED
  BY <1>1, SendInvHolds, PTL
=============================================================================
