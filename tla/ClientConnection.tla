-------------------------- MODULE ClientConnection --------------------------
(***************************************************************************)
(* The connection manager of the plugin's Rust half                        *)
(* (bambu-farm-client/src/api.rs): the three global mutexes                *)
(*                                                                         *)
(*   MSG_TX                     device -> sender of its send loop          *)
(*   CURRENT_CONNECTED_PRINTER  the printer to reconnect after an outage   *)
(*   ACTIVE_CONNECTION_STATE    (device, generation, cancel sender)        *)
(*                                                                         *)
(* the calls that Studio's threads and discovery make on them, the task    *)
(* each connect spawns, that task's send loop, and the loop of             *)
(* bambu_network_rs_init.  One action is one critical section, one await   *)
(* or one callback; a guard that the code keeps alive over several of      *)
(* these is a lock variable, and waiting for it is a disabled action.      *)
(***************************************************************************)
EXTENDS Naturals

CONSTANTS
    Devices,        \* printers, by dev_id
    NoDevice,
    Callers,        \* threads that call into the crate
    InitTask,       \* the task bambu_network_rs_init spawns; it calls too
    MaxGen,         \* bound: connections attempted in a behaviour
    FailureLimit,   \* `failures > 3`: 3 in the source
    QueueCap,       \* mpsc::channel(10): 10 in the source; 0: no sends
    ListMayFail     \* whether the farm's printer list stream may break

NoGen == 0
Gen == 1 .. MaxGen
Threads == Callers \cup {InitTask}

ASSUME ConnAssumption ==
    /\ NoDevice \notin Devices
    /\ InitTask \notin Callers
    /\ MaxGen \in Nat
    /\ FailureLimit \in Nat \ {0}
    /\ QueueCap \in Nat
    /\ ListMayFail \in BOOLEAN

VARIABLES
    active,     \* generation in ACTIVE_CONNECTION_STATE, or NoGen
    actLock,    \* generation whose clear_active_connection holds that mutex
    current,    \* CURRENT_CONNECTED_PRINTER
    curLock,    \* whether the init loop holds that mutex over its reconnect
    msgTx,      \* MSG_TX: generation of the registered sender, per device
    lastGen,    \* generations handed out
    devOf,      \* device of a generation
    cancel,     \* its watch channel: "open", "sent" (true), "dropped"
    task,       \* program counter of the task connect spawns
    recvFails,  \* failures of its receive loop
    sendLoop,   \* program counter of its send loop
    sendFails,  \* failures of its send loop
    queue,      \* messages waiting in its channel
    call,       \* the call each thread is executing
    loop,       \* program counter of the init loop
    listFails   \* failures of its printer list stream

globals == <<active, actLock, current, curLock, msgTx>>
sending == <<sendLoop, sendFails, queue>>
looping == <<loop, listFails>>
vars == <<active, actLock, current, curLock, msgTx, lastGen, devOf, cancel,
          task, recvFails, sendLoop, sendFails, queue, call, loop, listFails>>

TaskPC == {"new", "dial", "publish", "announce", "recv", "checkFailed",
           "emitFailed", "checkLost", "emitLost", "clear", "uncurrent", "done"}
CallPC == {"idle", "peek", "take", "drop", "uncurrent", "insert", "activate",
           "emit", "remove"}
CallOp == {"none", "connect", "disconnect", "forget"}
Call == [pc : CallPC, op : CallOp, dev : Devices \cup {NoDevice},
         victim : Devices \cup {NoDevice}, gen : Gen \cup {NoGen}]

Idle == [pc |-> "idle", op |-> "none", dev |-> NoDevice,
         victim |-> NoDevice, gen |-> NoGen]

TypeOK ==
    /\ active \in Gen \cup {NoGen}
    /\ actLock \in Gen \cup {NoGen}
    /\ current \in Devices \cup {NoDevice}
    /\ curLock \in BOOLEAN
    /\ msgTx \in [Devices -> Gen \cup {NoGen}]
    /\ lastGen \in 0 .. MaxGen
    /\ devOf \in [Gen -> Devices \cup {NoDevice}]
    /\ cancel \in [Gen -> {"open", "sent", "dropped"}]
    /\ task \in [Gen -> TaskPC]
    /\ recvFails \in [Gen -> 0 .. FailureLimit]
    /\ sendLoop \in [Gen -> {"off", "run", "done"}]
    /\ sendFails \in [Gen -> 0 .. FailureLimit]
    /\ queue \in [Gen -> 0 .. QueueCap]
    /\ call \in [Threads -> Call]
    /\ loop \in {"clear", "dial", "reconnect", "list"}
    /\ listFails \in 0 .. FailureLimit

(* The statics before any call; the init task has just been spawned.       *)
Init ==
    /\ active = NoGen /\ actLock = NoGen
    /\ current = NoDevice /\ curLock = FALSE
    /\ msgTx = [d \in Devices |-> NoGen]
    /\ lastGen = 0
    /\ devOf = [g \in Gen |-> NoDevice]
    /\ cancel = [g \in Gen |-> "open"]
    /\ task = [g \in Gen |-> "new"]
    /\ recvFails = [g \in Gen |-> 0]
    /\ sendLoop = [g \in Gen |-> "off"]
    /\ sendFails = [g \in Gen |-> 0]
    /\ queue = [g \in Gen |-> 0]
    /\ call = [t \in Threads |-> Idle]
    /\ loop = "clear" /\ listFails = 0

-----------------------------------------------------------------------------
(* Calls.  A call is a record; its victim is the device that               *)
(* disconnect_active_connection took out of ACTIVE_CONNECTION_STATE.       *)

(* bambu_network_rs_connect begins.  Generations are wall clock            *)
(* nanoseconds, compared only for equality: fresh names.                   *)
StartConnect(t, d) ==
    /\ call[t] = Idle
    /\ lastGen < MaxGen
    /\ lastGen' = lastGen + 1
    /\ devOf' = [devOf EXCEPT ![lastGen + 1] = d]
    /\ call' = [call EXCEPT ![t] = [pc |-> "take", op |-> "connect", dev |-> d,
                                    victim |-> NoDevice, gen |-> lastGen + 1]]

Connect(t, d) ==
    /\ t = InitTask => loop = "list"
    /\ StartConnect(t, d)
    /\ UNCHANGED <<globals, cancel, task, recvFails, sending, looping>>

(* bambu_network_rs_disconnect begins.                                     *)
Disconnect(t, d) ==
    /\ call[t] = Idle
    /\ call' = [call EXCEPT ![t] = [pc |-> "peek", op |-> "disconnect",
                    dev |-> d, victim |-> NoDevice, gen |-> NoGen]]
    /\ UNCHANGED <<globals, lastGen, devOf, cancel, task, recvFails, sending,
                   looping>>

(* Mutant: the guard outlives the comparison (an `if let` on the lock).    *)
PeekHoldingGuard(t) ==
    /\ call[t].pc = "peek"
    /\ actLock = NoGen
    /\ actLock' = active
    /\ call' = [call EXCEPT ![t] =
          IF active # NoGen /\ devOf[active] = call[t].dev
            THEN [@ EXCEPT !.pc = "take"]
            ELSE [@ EXCEPT !.pc = "remove", !.op = "forget"]]
    /\ UNCHANGED <<active, current, curLock, msgTx, lastGen, devOf, cancel,
                   task, recvFails, sending, looping>>

(* It reads the active device under the lock and decides after release.    *)
Peek(t) ==
    /\ call[t].pc = "peek"
    /\ actLock = NoGen
    /\ call' = [call EXCEPT ![t] =
          IF active # NoGen /\ devOf[active] = call[t].dev
            THEN [@ EXCEPT !.pc = "take"]
            ELSE [@ EXCEPT !.pc = "remove", !.op = "forget"]]
    /\ UNCHANGED <<globals, lastGen, devOf, cancel, task, recvFails, sending,
                   looping>>

AfterTeardown(op) == IF op = "connect" THEN "insert" ELSE "emit"

(* disconnect_active_connection: take the active connection, cancel it.    *)
Take(t) ==
    /\ call[t].pc = "take"
    /\ actLock = NoGen
    /\ IF active = NoGen
         THEN /\ call' = [call EXCEPT ![t].pc = AfterTeardown(call[t].op)]
              /\ UNCHANGED <<active, cancel>>
         ELSE /\ call' = [call EXCEPT ![t] = [@ EXCEPT !.pc = "drop",
                                              !.victim = devOf[active]]]
              /\ active' = NoGen
              /\ cancel' = [cancel EXCEPT ![active] = "sent"]
    /\ UNCHANGED <<actLock, current, curLock, msgTx, lastGen, devOf, task,
                   recvFails, sending, looping>>

(* ... MSG_TX.remove, in that helper and in the else branch of disconnect. *)
DropSender(t) ==
    /\ call[t].pc \in {"drop", "remove"}
    /\ LET d == IF call[t].pc = "drop" THEN call[t].victim ELSE call[t].dev
       IN  /\ msgTx' = [e \in Devices |-> IF e = d THEN NoGen ELSE msgTx[e]]
           /\ call' = [call EXCEPT ![t] = [@ EXCEPT !.pc = "uncurrent",
                                           !.victim = d]]
    /\ UNCHANGED <<active, actLock, current, curLock, lastGen, devOf, cancel,
                   task, recvFails, sending, looping>>

(* The init loop's `if let` keeps the CURRENT_CONNECTED_PRINTER guard      *)
(* until the connect it makes has returned.                                *)
ReleaseGuard(t) == curLock' = IF t = InitTask THEN FALSE ELSE curLock

(* ... and CURRENT_CONNECTED_PRINTER, when it names that device.           *)
Uncurrent(t) ==
    /\ call[t].pc = "uncurrent"
    /\ ~curLock
    /\ current' = IF current = call[t].victim THEN NoDevice ELSE current
    /\ IF call[t].op = "forget"
         THEN call' = [call EXCEPT ![t] = Idle]
         ELSE call' = [call EXCEPT ![t].pc = AfterTeardown(call[t].op)]
    /\ UNCHANGED <<active, actLock, curLock, msgTx, lastGen, devOf, cancel,
                   task, recvFails, sending, looping>>

(* disconnect reports the disconnection itself.                            *)
EmitDisconnected(t) ==
    /\ call[t].pc = "emit"
    /\ call' = [call EXCEPT ![t] = Idle]
    /\ UNCHANGED <<globals, lastGen, devOf, cancel, task, recvFails, sending,
                   looping>>

(* Mutant: the task is spawned before the connection is registered.        *)
InsertSpawning(t) ==
    /\ call[t].pc = "insert"
    /\ msgTx' = [msgTx EXCEPT ![call[t].dev] = call[t].gen]
    /\ task' = [task EXCEPT ![call[t].gen] = "dial"]
    /\ call' = [call EXCEPT ![t].pc = "activate"]
    /\ UNCHANGED <<active, actLock, current, curLock, lastGen, devOf, cancel,
                   recvFails, sending, looping>>

(* connect registers the new sender, then the new active connection.       *)
Insert(t) ==
    /\ call[t].pc = "insert"
    /\ msgTx' = [msgTx EXCEPT ![call[t].dev] = call[t].gen]
    /\ call' = [call EXCEPT ![t].pc = "activate"]
    /\ UNCHANGED <<active, actLock, current, curLock, lastGen, devOf, cancel,
                   task, recvFails, sending, looping>>

Activate(t) ==
    /\ call[t].pc = "activate"
    /\ actLock = NoGen
    /\ active' = call[t].gen
    /\ cancel' = [g \in Gen |-> IF g = active THEN "dropped" ELSE cancel[g]]
    /\ task' = [task EXCEPT ![call[t].gen] = "dial"]
    /\ call' = [call EXCEPT ![t] = Idle]
    /\ ReleaseGuard(t)
    /\ UNCHANGED <<actLock, current, msgTx, lastGen, devOf, recvFails, sending,
                   looping>>

(* The receiving half lives in the connect call, then in the task, then in *)
(* the send loop.                                                          *)
RxAlive(g) == \/ sendLoop[g] = "run"
              \/ sendLoop[g] = "off" /\ task[g] # "done"

(* bambu_network_rs_send that succeeds; one that fails changes nothing.    *)
Send(d) ==
    LET g == msgTx[d] IN
    /\ g # NoGen
    /\ RxAlive(g)
    /\ queue[g] < QueueCap
    /\ queue' = [queue EXCEPT ![g] = @ + 1]
    /\ UNCHANGED <<globals, lastGen, devOf, cancel, task, recvFails, sendLoop,
                   sendFails, call, looping>>

-----------------------------------------------------------------------------
(* The task of generation g.                                               *)

Goto(g, pc) == task' = [task EXCEPT ![g] = pc]

(* connect_client and connect_printer: either may fail, alike.             *)
DialOk(g) ==
    /\ task[g] = "dial"
    /\ Goto(g, "publish")
    /\ UNCHANGED <<globals, lastGen, devOf, cancel, recvFails, sending, call,
                   looping>>

(* Mutant: the error path returns without clear_active_connection.         *)
DialFailedNoClear(g) ==
    /\ task[g] = "dial"
    /\ Goto(g, "done")
    /\ UNCHANGED <<globals, lastGen, devOf, cancel, recvFails, sending, call,
                   looping>>

DialFailed(g) ==
    /\ task[g] = "dial"
    /\ Goto(g, "checkFailed")
    /\ UNCHANGED <<globals, lastGen, devOf, cancel, recvFails, sending, call,
                   looping>>

(* CURRENT_CONNECTED_PRINTER.replace, whatever the generation's standing.  *)
Publish(g) ==
    /\ task[g] = "publish"
    /\ ~curLock
    /\ current' = devOf[g]
    /\ Goto(g, "announce")
    /\ UNCHANGED <<active, actLock, curLock, msgTx, lastGen, devOf, cancel,
                   recvFails, sending, call, looping>>

(* bambu_network_cb_connected, then the send loop is spawned.              *)
Announce(g) ==
    /\ task[g] = "announce"
    /\ Goto(g, "recv")
    /\ sendLoop' = [sendLoop EXCEPT ![g] = "run"]
    /\ UNCHANGED <<globals, lastGen, devOf, cancel, recvFails, sendFails,
                   queue, call, looping>>

(* The counter is a local of the loop and dies with it.                    *)
LeaveRecv(g) == recvFails' = [recvFails EXCEPT ![g] = 0]

RecvItem(g) ==
    /\ task[g] = "recv"
    /\ recvFails' = [recvFails EXCEPT ![g] = 0]
    /\ UNCHANGED <<globals, lastGen, devOf, cancel, task, sending, call,
                   looping>>

(* Mutant: failures are counted but not limited.                           *)
RecvFailedUnlimited(g) ==
    /\ task[g] = "recv"
    /\ recvFails' = [recvFails EXCEPT ![g] = @ + 1]
    /\ UNCHANGED <<globals, lastGen, devOf, cancel, task, sending, call, looping>>

(* End or error of the stream; past the limit the loop just ends.          *)
RecvFailed(g) ==
    /\ task[g] = "recv"
    /\ IF recvFails[g] + 1 > FailureLimit
         THEN Goto(g, "clear") /\ LeaveRecv(g)
         ELSE /\ recvFails' = [recvFails EXCEPT ![g] = @ + 1]
              /\ UNCHANGED task
    /\ UNCHANGED <<globals, lastGen, devOf, cancel, sending, call, looping>>

(* A message with connected = false.                                       *)
RecvNotConnected(g) ==
    /\ task[g] = "recv"
    /\ Goto(g, "checkLost") /\ LeaveRecv(g)
    /\ UNCHANGED <<globals, lastGen, devOf, cancel, sending, call, looping>>

(* Mutant: the loop leaves when the cancel sender is gone, not when it     *)
(* sent.                                                                   *)
RecvCancelledIfDropped(g) ==
    /\ task[g] = "recv"
    /\ cancel[g] = "dropped"
    /\ Goto(g, "clear") /\ LeaveRecv(g)
    /\ UNCHANGED <<globals, lastGen, devOf, cancel, sending, call, looping>>

RecvCancelled(g) ==
    /\ task[g] = "recv"
    /\ cancel[g] # "open"
    /\ Goto(g, IF cancel[g] = "sent" THEN "checkLost" ELSE "clear")
    /\ LeaveRecv(g)
    /\ UNCHANGED <<globals, lastGen, devOf, cancel, sending, call, looping>>

(* Mutant: the generation is left out of the comparison.                   *)
IsActiveDevice(g) == active # NoGen /\ devOf[active] = devOf[g]

(* The active entry carries this device and this generation.               *)
IsActive(g) == active = g

(* emit_disconnect_event_if_active: the test is made under the lock ...    *)
CheckActive(g) ==
    /\ task[g] \in {"checkFailed", "checkLost"}
    /\ actLock = NoGen
    /\ Goto(g, CASE ~IsActive(g) -> "clear"
                 [] IsActive(g) /\ task[g] = "checkFailed" -> "emitFailed"
                 [] IsActive(g) /\ task[g] = "checkLost" -> "emitLost")
    /\ UNCHANGED <<globals, lastGen, devOf, cancel, recvFails, sending, call,
                   looping>>

(* ... and the event is emitted after it is released.                      *)
EmitEvent(g) ==
    /\ task[g] \in {"emitFailed", "emitLost"}
    /\ Goto(g, "clear")
    /\ UNCHANGED <<globals, lastGen, devOf, cancel, recvFails, sending, call,
                   looping>>

(* A task that returns drops the receiver if no send loop owns it.         *)
DropReceiver(g) ==
    queue' = [queue EXCEPT ![g] = IF sendLoop[g] = "off" THEN 0 ELSE @]

(* Mutants: the removal moved out of the test, and the removal forgotten.  *)
UnregisterAlways(g) == msgTx' = [msgTx EXCEPT ![devOf[g]] = NoGen]
UnregisterNever(g) == UNCHANGED msgTx

(* MSG_TX.remove of clear_active_connection.                               *)
Unregister(g) ==
    msgTx' = IF IsActive(g) THEN [msgTx EXCEPT ![devOf[g]] = NoGen] ELSE msgTx

(* clear_active_connection keeps its guard while it waits for the others;  *)
(* the cancel sender of the entry it takes is dropped.                     *)
ClearActive(g) ==
    /\ task[g] = "clear"
    /\ actLock = NoGen
    /\ Unregister(g)
    /\ IF IsActive(g)
         THEN /\ active' = NoGen
              /\ cancel' = [cancel EXCEPT ![active] = "dropped"]
              /\ actLock' = g
              /\ Goto(g, "uncurrent")
              /\ UNCHANGED queue
         ELSE /\ Goto(g, "done")
              /\ DropReceiver(g)
              /\ UNCHANGED <<active, cancel, actLock>>
    /\ UNCHANGED <<current, curLock, lastGen, devOf, recvFails, sendLoop,
                   sendFails, call, looping>>

(* Mutant: the printer to reconnect is not taken back.                     *)
ClearCurrentForgotten(g) ==
    /\ task[g] = "uncurrent"
    /\ ~curLock
    /\ actLock' = NoGen
    /\ Goto(g, "done")
    /\ DropReceiver(g)
    /\ UNCHANGED <<active, current, curLock, msgTx, lastGen, devOf, cancel,
                   recvFails, sendLoop, sendFails, call, looping>>

ClearCurrent(g) ==
    /\ task[g] = "uncurrent"
    /\ ~curLock
    /\ current' = IF current = devOf[g] THEN NoDevice ELSE current
    /\ actLock' = NoGen
    /\ Goto(g, "done")
    /\ DropReceiver(g)
    /\ UNCHANGED <<active, curLock, msgTx, lastGen, devOf, cancel, recvFails,
                   sendLoop, sendFails, call, looping>>

-----------------------------------------------------------------------------
(* The send loop of generation g.  A dropped cancel sender does not end    *)
(* it: it spins until its channel closes.                                  *)

StopSending(g) ==
    /\ sendLoop' = [sendLoop EXCEPT ![g] = "done"]
    /\ queue' = [queue EXCEPT ![g] = 0]
    /\ sendFails' = [sendFails EXCEPT ![g] = 0]

SendCancelled(g) ==
    /\ sendLoop[g] = "run"
    /\ cancel[g] = "sent"
    /\ StopSending(g)
    /\ UNCHANGED <<globals, lastGen, devOf, cancel, task, recvFails, call,
                   looping>>

SendClosed(g) ==
    /\ sendLoop[g] = "run"
    /\ queue[g] = 0
    /\ \A d \in Devices : msgTx[d] # g
    /\ StopSending(g)
    /\ UNCHANGED <<globals, lastGen, devOf, cancel, task, recvFails, call,
                   looping>>

(* The farm answered: the counter is reset, then a refusal is counted.     *)
FailuresAfter(n, accepted) == IF accepted THEN 0 ELSE 0 + 1

SendAnswered(g, accepted) ==
    /\ sendLoop[g] = "run"
    /\ queue[g] > 0
    /\ LET n == FailuresAfter(sendFails[g], accepted)
       IN  IF n > FailureLimit
             THEN StopSending(g)
             ELSE /\ sendFails' = [sendFails EXCEPT ![g] = n]
                  /\ queue' = [queue EXCEPT ![g] = @ - 1]
                  /\ UNCHANGED sendLoop
    /\ UNCHANGED <<globals, lastGen, devOf, cancel, task, recvFails, call,
                   looping>>

(* The RPC itself failed.                                                  *)
SendBroken(g) ==
    /\ sendLoop[g] = "run"
    /\ queue[g] > 0
    /\ StopSending(g)
    /\ UNCHANGED <<globals, lastGen, devOf, cancel, task, recvFails, call,
                   looping>>

-----------------------------------------------------------------------------
(* The loop of bambu_network_rs_init.                                      *)

LoopReady == call[InitTask] = Idle

LoopClear ==
    /\ loop = "clear"
    /\ msgTx' = [d \in Devices |-> NoGen]
    /\ loop' = "dial"
    /\ UNCHANGED <<active, actLock, current, curLock, lastGen, devOf, cancel,
                   task, recvFails, sending, call, listFails>>

(* connect_client and get_available_printers.                              *)
LoopDial(ok) ==
    /\ loop = "dial"
    /\ loop' = IF ok THEN "reconnect" ELSE "clear"
    /\ UNCHANGED <<globals, lastGen, devOf, cancel, task, recvFails, sending,
                   call, listFails>>

(* The reconnect runs inside the `if let` whose scrutinee is the guard.    *)
LoopReconnect ==
    /\ loop = "reconnect"
    /\ ~curLock
    /\ loop' = "list"
    /\ listFails' = 0
    /\ IF current = NoDevice
         THEN UNCHANGED <<curLock, lastGen, devOf, call>>
         ELSE /\ curLock' = TRUE
              /\ StartConnect(InitTask, current)
    /\ UNCHANGED <<active, actLock, current, msgTx, cancel, task, recvFails,
                   sending>>

LoopListed ==
    /\ loop = "list" /\ LoopReady
    /\ listFails' = 0
    /\ UNCHANGED <<globals, lastGen, devOf, cancel, task, recvFails, sending,
                   call, loop>>

LoopListFailed ==
    /\ ListMayFail
    /\ loop = "list" /\ LoopReady
    /\ IF listFails + 1 > FailureLimit
         THEN loop' = "clear" /\ listFails' = 0
         ELSE loop' = "list" /\ listFails' = listFails + 1
    /\ UNCHANGED <<globals, lastGen, devOf, cancel, task, recvFails, sending,
                   call>>

-----------------------------------------------------------------------------
CallStep(t) ==
    \/ Peek(t) \/ Take(t) \/ DropSender(t) \/ Uncurrent(t)
    \/ EmitDisconnected(t) \/ Insert(t) \/ Activate(t)

TaskStep(g) ==
    \/ DialOk(g) \/ DialFailed(g) \/ Publish(g) \/ Announce(g)
    \/ RecvItem(g) \/ RecvFailed(g) \/ RecvNotConnected(g) \/ RecvCancelled(g)
    \/ CheckActive(g) \/ EmitEvent(g) \/ ClearActive(g) \/ ClearCurrent(g)

SendStep(g) ==
    \/ SendCancelled(g) \/ SendClosed(g) \/ SendBroken(g)
    \/ \E accepted \in BOOLEAN : SendAnswered(g, accepted)

LoopStep ==
    \/ LoopClear \/ LoopReconnect \/ LoopListed \/ LoopListFailed
    \/ \E ok \in BOOLEAN : LoopDial(ok)

Next ==
    \/ \E t \in Threads, d \in Devices : Connect(t, d)
    \/ \E t \in Callers, d \in Devices : Disconnect(t, d)
    \/ \E d \in Devices : Send(d)
    \/ \E t \in Threads : CallStep(t)
    \/ \E g \in Gen : TaskStep(g) \/ SendStep(g)
    \/ LoopStep

Spec == Init /\ [][Next]_vars

(* The threads and the tokio runtime keep running: every call step and     *)
(* every step of a task that the code waits for is taken.  What Studio,    *)
(* the farm's list stream and a received message do is left free.          *)
TaskProgress(g) ==
    \/ DialOk(g) \/ DialFailed(g) \/ Publish(g) \/ Announce(g)
    \/ RecvCancelled(g) \/ CheckActive(g) \/ EmitEvent(g)
    \/ ClearActive(g) \/ ClearCurrent(g)

Fairness ==
    /\ \A t \in Threads : WF_vars(CallStep(t))
    /\ \A g \in Gen : WF_vars(TaskProgress(g))
    /\ \A g \in Gen : WF_vars(SendCancelled(g)) /\ WF_vars(SendClosed(g))
    /\ \A g \in Gen : WF_vars(\E a \in BOOLEAN : SendAnswered(g, a))

LiveSpec == Spec /\ Fairness

-----------------------------------------------------------------------------
Serving == TaskPC \ {"new", "uncurrent", "done"}

(* Whatever is in ACTIVE_CONNECTION_STATE has a task that will still look  *)
(* at it: no path out of the task leaves the entry behind.                 *)
ActiveIsServed == active # NoGen => task[active] \in Serving

(* Every running task is the active one or can see that it was replaced,   *)
(* however calls, stale tasks and the init loop interleave: no connection  *)
(* runs that nobody can cancel any more.                                   *)
NoOrphanTask ==
    \A g \in Gen : task[g] \in Serving /\ active # g => cancel[g] # "open"

(* What ACTIVE_CONNECTION_STATE says of a connection.  A running task that *)
(* is neither active nor told to stop would be an orphan, which the slot   *)
(* does not know.                                                          *)
PhaseOf(g) ==
    CASE task[g] = "new" -> "none"
      [] task[g] # "new" /\ active = g -> "owner"
      [] task[g] \in Serving /\ active # g ->
            IF cancel[g] = "open" THEN "orphan" ELSE "retired"
      [] OTHER -> "ended"

Slot == INSTANCE ConnectionSlot
            WITH Conn <- Gen, phase <- [g \in Gen |-> PhaseOf(g)]

(* ACTIVE_CONNECTION_STATE is such a slot, whatever calls, stale tasks and *)
(* the init loop do to it: each of their steps moves at most the           *)
(* connection it is about, and a replacement its predecessor.              *)
ImplementsSlot == Slot!Spec

(* Every call into the crate returns.                                      *)
CallsReturn == \A t \in Threads : call[t] # Idle ~> call[t] = Idle

(* The task of a connection that is no longer active ends.                 *)
ReplacedTaskEnds ==
    \A g \in Gen :
        task[g] \in Serving /\ active # g ~> task[g] = "done"

(* The init loop's reconnect waits neither for the mutex it holds nor for  *)
(* the one of a clearing task that waits for it.                           *)
ReconnectNotSelfBlocked ==
    curLock => /\ call[InitTask].pc # "uncurrent"
               /\ call[InitTask].pc \in {"take", "activate"} => actLock = NoGen
=============================================================================
