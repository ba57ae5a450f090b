------------------------ MODULE PluginSession_proofs ------------------------
(* The plugin drives the connection manager only through its actions, so   *)
(* what holds of every caller holds of the plugin.                         *)
EXTENDS PluginSession, ClientConnection_proofs

SessionTyped == TypeOK /\ selected \in Devices \cup {NoDevice}

(* One step of the plugin as a step of the manager.                        *)
LEMMA StepMapsToManager ==
    ASSUME SessionTyped, [PNext]_pvars
    PROVE  [Next]_vars
<1> USE DEF Next
<1>1. ASSUME NEW t \in Callers, NEW d \in Devices, ConnectPrinter(t, d)
      PROVE  [Next]_vars
  BY <1>1 DEF ConnectPrinter, Threads
<1>2. ASSUME NEW t \in Callers, DisconnectPrinter(t) PROVE [Next]_vars
  BY <1>2 DEF DisconnectPrinter, SessionTyped
<1>3. ASSUME NEW t \in Callers, Logout(t) PROVE [Next]_vars
  BY <1>3 DEF Logout, SessionTyped
<1>4. ASSUME NEW t \in Callers, LogoutEnds(t) PROVE [Next]_vars
  BY <1>4 DEF LogoutEnds
<1>5. ASSUME NEW d \in Devices \cup {NoDevice}, SelectMachine(d)
      PROVE  [Next]_vars
  BY <1>5 DEF SelectMachine
<1>6. ASSUME NEW d \in Devices, Autoconnect(d) PROVE [Next]_vars
  BY <1>6 DEF Autoconnect, Threads
<1>7. ASSUME NEW g \in Gen, TaskConnected(g) \/ TaskDisconnected(g)
      PROVE  [Next]_vars
  BY <1>7 DEF TaskConnected, TaskDisconnected, TaskStep
<1>8. ASSUME NEW t \in Threads, CallDisconnected(t) PROVE [Next]_vars
  BY <1>8 DEF CallDisconnected, CallStep
<1>9. CASE SilentStep
  BY <1>9 DEF SilentStep, CallStep, TaskStep
<1>10. CASE UNCHANGED pvars
  BY <1>10 DEF pvars
<1>11. QED
  BY <1>1, <1>2, <1>3, <1>4, <1>5, <1>6, <1>7, <1>8, <1>9, <1>10 DEF PNext

(* The selection stays a printer, whichever callback sets it.              *)
LEMMA SelectionStep ==
    ASSUME SessionTyped, [PNext]_pvars
    PROVE  selected' \in Devices \cup {NoDevice}
<1> USE DEF SessionTyped
<1>1. ASSUME NEW t \in Callers, NEW d \in Devices, ConnectPrinter(t, d)
      PROVE  selected' \in Devices \cup {NoDevice}
  BY <1>1 DEF ConnectPrinter, BeginConnect
<1>2. ASSUME NEW g \in Gen, TaskConnected(g)
      PROVE  selected' \in Devices \cup {NoDevice}
  BY <1>2 DEF TaskConnected, CbConnected, MarkConnected, TypeOK
<1>3. ASSUME NEW d \in Devices \cup {NoDevice}, SelectMachine(d)
      PROVE  selected' \in Devices \cup {NoDevice}
  BY <1>3 DEF SelectMachine, SetSelectedDevice
<1>4. ASSUME NEW t \in Callers,
             DisconnectPrinter(t) \/ Logout(t) \/ LogoutEnds(t)
      PROVE  selected' \in Devices \cup {NoDevice}
  BY <1>4 DEF DisconnectPrinter, Logout, LogoutEnds, ClearAfterLogout, session
<1>5. ASSUME NEW d \in Devices, Autoconnect(d)
      PROVE  selected' \in Devices \cup {NoDevice}
  BY <1>5 DEF Autoconnect, ClaimAutoconnect
<1>6. ASSUME NEW g \in Gen, TaskDisconnected(g)
      PROVE  selected' \in Devices \cup {NoDevice}
  BY <1>6 DEF TaskDisconnected, CbDisconnected, MarkDisconnected
<1>7. ASSUME NEW t \in Threads, CallDisconnected(t)
      PROVE  selected' \in Devices \cup {NoDevice}
  BY <1>7 DEF CallDisconnected, CbDisconnected, MarkDisconnected
<1>8. CASE SilentStep \/ UNCHANGED pvars
  BY <1>8 DEF SilentStep, session, pvars
<1>9. QED
  BY <1>1, <1>2, <1>3, <1>4, <1>5, <1>6, <1>7, <1>8 DEF PNext

(* Every behaviour of the plugin (Studio's calls, SessionState and the     *)
(* callbacks) is a behaviour of the connection manager it drives.          *)
THEOREM PluginUsesManager == PSpec => Spec
<1>1. PInit => Init /\ SessionTyped
  <2> SUFFICES ASSUME PInit PROVE Init /\ SessionTyped
    OBVIOUS
  <2>1. IndInv
    BY InitEstablishes DEF PInit
  <2>2. QED
    BY <2>1 DEF PInit, SessionInit, SessionTyped, IndInv
<1>2. SessionTyped /\ [PNext]_pvars => [Next]_vars
  BY StepMapsToManager
<1>3. SessionTyped /\ [PNext]_pvars => SessionTyped'
  BY StepMapsToManager, SelectionStep, TypeStep DEF SessionTyped
<1>4. QED
  BY <1>1, <1>2, <1>3, PTL DEF PSpec, Spec

(* In the plugin, too, no connection task runs that nobody can cancel.     *)
THEOREM PluginNoOrphan == PSpec => []NoOrphanTask
  BY PluginUsesManager, NoOrphanAlways, PTL

(* The connection manager's strengthening, and the selection's type.       *)
LEMMA ManagerHolds == PSpec => [](IndInv /\ SessionTyped)
<1>1. PInit => IndInv /\ SessionTyped
  BY InitEstablishes DEF PInit, SessionInit, SessionTyped, IndInv
<1>2. SessionTyped /\ [PNext]_pvars => SessionTyped'
  BY StepMapsToManager, SelectionStep, TypeStep DEF SessionTyped
<1> QED
  BY <1>1, <1>2, PluginUsesManager, IndInvHolds, PTL DEF PSpec

(* Every step keeps the session's types.                                   *)
LEMMA PTypeStep ==
    ASSUME PTypeOK, [PNext]_pvars
    PROVE  PTypeOK'
<1> USE DEF PTypeOK, SessionTypeOK
<1>1. TypeOK'
  BY StepMapsToManager, TypeStep DEF SessionTyped
<1>2. selected' \in Devices \cup {NoDevice}
  BY SelectionStep DEF SessionTyped
<1>3. ASSUME NEW t \in Callers, NEW d \in Devices, ConnectPrinter(t, d)
      PROVE  PTypeOK'
  BY <1>1, <1>2, <1>3 DEF ConnectPrinter, BeginConnect
<1>4. ASSUME NEW t \in Callers, DisconnectPrinter(t) PROVE PTypeOK'
  BY <1>1, <1>4 DEF DisconnectPrinter, session
<1>5. ASSUME NEW t \in Callers, Logout(t) PROVE PTypeOK'
  BY <1>1, <1>5 DEF Logout, session
<1>6. ASSUME NEW t \in Callers, LogoutEnds(t) PROVE PTypeOK'
  BY <1>1, <1>6 DEF LogoutEnds, ClearAfterLogout
<1>7. ASSUME NEW d \in Devices \cup {NoDevice}, SelectMachine(d) PROVE PTypeOK'
  BY <1>1, <1>7 DEF SelectMachine, SetSelectedDevice
<1>8. ASSUME NEW d \in Devices, Autoconnect(d) PROVE PTypeOK'
  BY <1>1, <1>8 DEF Autoconnect, ClaimAutoconnect, Status
<1>9. ASSUME NEW g \in Gen, TaskConnected(g) PROVE PTypeOK'
  BY <1>1, <1>2, <1>9 DEF TaskConnected, CbConnected, MarkConnected, Status
<1>10. ASSUME NEW status \in Status, CbDisconnected(status), UNCHANGED leaving
       PROVE  PTypeOK'
  BY <1>1, <1>10 DEF CbDisconnected, MarkDisconnected
<1>11. ASSUME NEW g \in Gen, TaskDisconnected(g) PROVE PTypeOK'
  BY <1>10, <1>11 DEF TaskDisconnected, Status
<1>12. ASSUME NEW t \in Threads, CallDisconnected(t) PROVE PTypeOK'
  BY <1>10, <1>12 DEF CallDisconnected, Status
<1>13. CASE SilentStep \/ UNCHANGED pvars
  BY <1>1, <1>13 DEF SilentStep, session, pvars
<1> QED
  BY <1>3, <1>4, <1>5, <1>6, <1>7, <1>8, <1>9, <1>11, <1>12, <1>13 DEF PNext

(* SessionState and the connection manager under it keep their types.      *)
THEOREM PTypeCorrect == PSpec => []PTypeOK
<1>1. PInit => PTypeOK
  BY InitEstablishes DEF PInit, SessionInit, PTypeOK, SessionTypeOK, Status, IndInv
<1>2. PTypeOK /\ [PNext]_pvars => PTypeOK'
  BY PTypeStep
<1> QED
  BY <1>1, <1>2, PTL DEF PSpec

-----------------------------------------------------------------------------
(* AttemptHasAnswer is not inductive: a disconnect that has not yet looked *)
(* at the active connection may return without a callback, and so may the  *)
(* task of a replaced connection whose dial fails.  Awaited counts only    *)
(* the calls and tasks that are bound to bring one.                        *)
Bringing(t) ==
    \/ call[t].op = "connect"
    \/ call[t].op = "disconnect" /\ call[t].pc # "peek"

Sure(g) ==
    \/ task[g] \in {"publish", "announce", "emitFailed"}
    \/ task[g] \in {"dial", "checkFailed"} /\ active = g

Awaited ==
    inProgress =>
        \/ \E t \in Threads : Bringing(t)
        \/ \E g \in Gen : Sure(g)
        \/ leaving # {}

(* Which operation a call that has not torn down yet belongs to.           *)
OpShape ==
    \A t \in Threads :
        /\ call[t].pc = "peek" => call[t].op = "disconnect"
        /\ call[t].pc = "take" => call[t].op \in {"connect", "disconnect"}

LEMMA StartShape ==
    ASSUME TypeOK, OpShape, NEW t \in Threads, NEW d, StartConnect(t, d)
    PROVE  OpShape' /\ call'[t].op = "connect"
           /\ \A s \in Threads : s # t => call'[s] = call[s]
<1>1. /\ call'[t].pc = "take" /\ call'[t].op = "connect"
      /\ \A s \in Threads : s # t => call'[s] = call[s]
  BY DEF StartConnect, TypeOK
<1> QED
  BY <1>1 DEF OpShape

(* A step of a call that goes on with its operation, or ends.              *)
LEMMA CallShapes ==
    ASSUME TypeOK, OpShape, NEW t \in Threads, CallStep(t)
    PROVE  /\ OpShape'
           /\ \A s \in Threads : s # t => call'[s] = call[s]
           /\ \/ EmitDisconnected(t) \/ Activate(t)
              \/ Bringing(t) => Bringing(t)'
           /\ Take(t) => Bringing(t)'
<1> USE DEF TypeOK
<1>1. CASE Peek(t)
  <2>1. /\ \/ call'[t].pc = "take" /\ call'[t].op = call[t].op
           \/ call'[t].pc = "remove"
        /\ \A s \in Threads : s # t => call'[s] = call[s]
        /\ call[t].pc = "peek"
    BY <1>1 DEF Peek, Call
  <2> QED
    BY <2>1 DEF OpShape, Bringing, Take
<1>2. CASE Take(t)
  <2>1. /\ call'[t].pc \in {"drop", "insert", "emit"} /\ call'[t].op = call[t].op
        /\ \A s \in Threads : s # t => call'[s] = call[s]
        /\ call[t].pc = "take"
    <3>1. CASE active = NoGen
      BY <1>2, <3>1 DEF Take, AfterTeardown, Call
    <3>2. CASE active # NoGen
      <4> DEFINE c == [call[t] EXCEPT !.pc = "drop", !.victim = devOf[active]]
      <4>1. call' = [call EXCEPT ![t] = c] /\ call[t].pc = "take"
        BY <1>2, <3>2, Zenon DEF Take
      <4>2. call[t] \in Call
        OBVIOUS
      <4>3. c.pc = "drop" /\ c.op = call[t].op
        BY <4>2 DEF Call
      <4> HIDE DEF c
      <4> QED
        BY <4>1, <4>3
    <3> QED
      BY <3>1, <3>2
  <2> QED
    BY <2>1 DEF OpShape, Bringing
<1>3. CASE DropSender(t)
  <2>1. /\ call'[t].pc = "uncurrent" /\ call'[t].op = call[t].op
        /\ \A s \in Threads : s # t => call'[s] = call[s]
        /\ call[t].pc # "take"
    BY <1>3 DEF DropSender, Call
  <2> QED
    BY <2>1 DEF OpShape, Bringing, Take
<1>4. CASE Uncurrent(t)
  <2>1. /\ call'[t].pc \in {"idle", "insert", "emit"}
        /\ call[t].op = "forget" \/ call'[t].op = call[t].op
        /\ \A s \in Threads : s # t => call'[s] = call[s]
        /\ call[t].pc # "take"
    BY <1>4 DEF Uncurrent, AfterTeardown, Call, Idle
  <2> QED
    BY <2>1 DEF OpShape, Bringing, Take
<1>5. CASE EmitDisconnected(t)
  <2>1. /\ call'[t].pc = "idle" /\ call[t].pc = "emit"
        /\ \A s \in Threads : s # t => call'[s] = call[s]
    BY <1>5 DEF EmitDisconnected, Idle
  <2> QED
    BY <1>5, <2>1 DEF OpShape, Take
<1>6. CASE Insert(t)
  <2>1. /\ call'[t].pc = "activate" /\ call'[t].op = call[t].op
        /\ \A s \in Threads : s # t => call'[s] = call[s]
        /\ call[t].pc = "insert"
    BY <1>6 DEF Insert, Call
  <2> QED
    BY <2>1 DEF OpShape, Bringing, Take
<1>7. CASE Activate(t)
  <2>1. /\ call'[t].pc = "idle" /\ call[t].pc = "activate"
        /\ \A s \in Threads : s # t => call'[s] = call[s]
    BY <1>7 DEF Activate, Idle
  <2> QED
    BY <1>7, <2>1 DEF OpShape, Take
<1> QED
  BY <1>1, <1>2, <1>3, <1>4, <1>5, <1>6, <1>7 DEF CallStep

(* A step that ends no call bound to answer and leaves the tasks alone.    *)
LEMMA AwaitedFrame ==
    ASSUME Awaited, inProgress' => inProgress,
           leaving # {} => leaving' # {},
           \A t \in Threads : Bringing(t) => Bringing(t)',
           \A g \in Gen : Sure(g) =>
               Sure(g)' \/ \E t \in Threads : Bringing(t)'
    PROVE  Awaited'
  BY DEF Awaited

(* A silent step of a call.                                                *)
LEMMA AwaitedCall ==
    ASSUME IndInv, OpShape, Awaited, NEW t \in Threads,
           CallStep(t), ~EmitDisconnected(t), UNCHANGED <<inProgress, leaving>>
    PROVE  OpShape' /\ Awaited'
<1>1. /\ OpShape' /\ \A s \in Threads : s # t => call'[s] = call[s]
      /\ Activate(t) \/ (Bringing(t) => Bringing(t)')
      /\ Take(t) => Bringing(t)'
  BY CallShapes DEF IndInv
<1>2. CASE Activate(t)
  <2>1. call[t].gen \in Gen
    BY <1>2 DEF Activate, IndInv, Owned, CallShape, TypeOK, Call
  <2>2. task'[call[t].gen] = "dial" /\ active' = call[t].gen
    BY <1>2, <2>1 DEF Activate, IndInv, TypeOK
  <2> QED
    BY <1>1, <2>1, <2>2 DEF Awaited, Sure
<1>3. CASE Take(t)
  <2>1. task' = task
    BY <1>3 DEF Take
  <2>2. ~Activate(t)
    BY <1>3 DEF Take, Activate
  <2>3. \A s \in Threads : Bringing(s) => Bringing(s)'
    BY <1>1, <2>2 DEF Bringing
  <2> QED
    BY <1>1, <1>3, <2>1, <2>3 DEF Awaited
<1>4. CASE ~Activate(t) /\ ~Take(t)
  <2>1. UNCHANGED <<task, active>>
    BY <1>4 DEF CallStep, Peek, DropSender, Uncurrent, Insert, globals
  <2>2. \A s \in Threads : Bringing(s) => Bringing(s)'
    BY <1>1, <1>4 DEF Bringing
  <2>3. \A g \in Gen : Sure(g) => Sure(g)'
    BY <2>1 DEF Sure
  <2> QED
    BY <1>1, <2>2, <2>3, AwaitedFrame
<1> QED
  BY <1>2, <1>3, <1>4

(* A silent step of a task.                                                *)
LEMMA AwaitedTask ==
    ASSUME IndInv, OpShape, Awaited, NEW g \in Gen,
           \/ DialOk(g) \/ DialFailed(g) \/ Publish(g) \/ RecvItem(g)
           \/ RecvFailed(g) \/ RecvNotConnected(g) \/ RecvCancelled(g)
           \/ CheckActive(g) \/ ClearActive(g) \/ ClearCurrent(g),
           UNCHANGED <<inProgress, leaving>>
    PROVE  OpShape' /\ Awaited'
<1> USE DEF IndInv, TypeOK
<1>1. UNCHANGED call
  BY DEF DialOk, DialFailed, Publish, RecvItem, RecvFailed, RecvNotConnected,
         RecvCancelled, CheckActive, ClearActive, ClearCurrent
<1>2. OpShape' /\ \A t \in Threads : Bringing(t) <=> Bringing(t)'
  BY <1>1 DEF OpShape, Bringing
<1>3. \A h \in Gen : h # g => task'[h] = task[h]
  BY DEF DialOk, DialFailed, Publish, RecvItem, RecvFailed, RecvNotConnected,
         RecvCancelled, CheckActive, ClearActive, ClearCurrent, Goto
<1>4. active' = active \/ (active = g /\ task[g] = "clear")
  BY DEF DialOk, DialFailed, Publish, RecvItem, RecvFailed, RecvNotConnected,
         RecvCancelled, CheckActive, ClearActive, ClearCurrent, IsActive, globals
<1>5. ASSUME NEW h \in Gen, h # g, Sure(h) PROVE Sure(h)'
  BY <1>3, <1>4, <1>5 DEF Sure
<1>6. Sure(g) => Sure(g)'
  BY DEF DialOk, DialFailed, Publish, RecvItem, RecvFailed, RecvNotConnected,
         RecvCancelled, CheckActive, ClearActive, ClearCurrent, Goto, IsActive,
         Sure, globals
<1> QED
  BY <1>2, <1>5, <1>6, AwaitedFrame

(* What the plugin's own steps do to the attempt.                          *)
LEMMA AnswerStep ==
    ASSUME IndInv, SessionTyped, OpShape, Awaited, [PNext]_pvars
    PROVE  OpShape' /\ Awaited'
<1> USE DEF IndInv
<1>1. ASSUME UNCHANGED <<task, active, call, inProgress, leaving>>
      PROVE  OpShape' /\ Awaited'
  BY <1>1 DEF OpShape, Awaited, Bringing, Sure
(* A connect begins.                                                       *)
<1>2. ASSUME NEW t \in Threads, NEW d, StartConnect(t, d)
      PROVE  OpShape' /\ Awaited'
  BY <1>2, StartShape DEF Awaited, Bringing
<1>3. ASSUME NEW t \in Callers, NEW d \in Devices, ConnectPrinter(t, d)
      PROVE  OpShape' /\ Awaited'
  BY <1>2, <1>3 DEF ConnectPrinter, Connect, Threads
<1>4. ASSUME NEW d \in Devices, Autoconnect(d)
      PROVE  OpShape' /\ Awaited'
  BY <1>2, <1>4 DEF Autoconnect, Connect, Threads
(* A disconnect begins: the thread was idle, and nothing else changes.     *)
<1>5. ASSUME NEW t \in Threads, NEW d, Disconnect(t, d),
             inProgress' => inProgress, leaving # {} => leaving' # {}
      PROVE  OpShape' /\ Awaited'
  <2>1. /\ call'[t].pc = "peek" /\ call'[t].op = "disconnect"
        /\ call[t].op = "none"
        /\ \A s \in Threads : s # t => call'[s] = call[s]
        /\ UNCHANGED <<task, active>>
    BY <1>5 DEF Disconnect, Idle, TypeOK, globals
  <2>2. /\ OpShape' /\ \A s \in Threads : Bringing(s) => Bringing(s)'
        /\ \A g \in Gen : Sure(g) => Sure(g)'
    BY <2>1 DEF OpShape, Bringing, Sure
  <2> QED
    BY <1>5, <2>2, AwaitedFrame
<1>6. ASSUME NEW t \in Callers, DisconnectPrinter(t)
      PROVE  OpShape' /\ Awaited'
  BY <1>5, <1>6 DEF DisconnectPrinter, session, Threads
<1>7. ASSUME NEW t \in Callers, Logout(t) PROVE OpShape' /\ Awaited'
  <2>1. leaving' # {}
    BY <1>7 DEF Logout
  <2>2. CASE selected # NoDevice
    BY <1>5, <1>7, <2>1, <2>2 DEF Logout, session, Threads
  <2>3. CASE selected = NoDevice
    BY <1>7, <2>1, <2>3 DEF Logout, Awaited, OpShape, vars
  <2> QED
    BY <2>2, <2>3
<1>8. ASSUME NEW t \in Callers, LogoutEnds(t) PROVE OpShape' /\ Awaited'
  BY <1>8 DEF LogoutEnds, ClearAfterLogout, Awaited, OpShape, vars
<1>9. ASSUME NEW d \in Devices \cup {NoDevice}, SelectMachine(d)
      PROVE  OpShape' /\ Awaited'
  BY <1>1, <1>9 DEF SelectMachine, SetSelectedDevice, vars
(* A callback ends the attempt.                                            *)
<1>10. ASSUME NEW g \in Gen, TaskConnected(g) \/ TaskDisconnected(g)
       PROVE  OpShape' /\ Awaited'
  BY <1>10 DEF TaskConnected, TaskDisconnected, Announce, EmitEvent, CbConnected,
     CbDisconnected, MarkConnected, MarkDisconnected, OpShape, Awaited
<1>11. ASSUME NEW t \in Threads, CallDisconnected(t)
       PROVE  OpShape' /\ Awaited'
  <2>1. ~inProgress' /\ CallStep(t)
    BY <1>11 DEF CallDisconnected, CbDisconnected, MarkDisconnected, CallStep
  <2> QED
    BY <2>1, CallShapes DEF Awaited
<1>12. CASE SilentStep
  <2>0. UNCHANGED <<inProgress, leaving>>
    BY <1>12 DEF SilentStep, session
  <2>1. ASSUME NEW t \in Threads,
               \/ Peek(t) \/ Take(t) \/ DropSender(t)
               \/ Uncurrent(t) \/ Insert(t) \/ Activate(t)
        PROVE  OpShape' /\ Awaited'
    <3>1. CallStep(t) /\ ~EmitDisconnected(t)
      BY <2>1 DEF CallStep, EmitDisconnected, Peek, Take, DropSender, Uncurrent,
                  Insert, Activate
    <3> QED
      BY <2>0, <3>1, AwaitedCall
  <2>2. ASSUME NEW g \in Gen,
               \/ DialOk(g) \/ DialFailed(g) \/ Publish(g) \/ RecvItem(g)
               \/ RecvFailed(g) \/ RecvNotConnected(g) \/ RecvCancelled(g)
               \/ CheckActive(g) \/ ClearActive(g) \/ ClearCurrent(g)
        PROVE  OpShape' /\ Awaited'
    BY <2>0, <2>2, AwaitedTask
  <2>3. ASSUME NEW g \in Gen, SendStep(g) PROVE OpShape' /\ Awaited'
    BY <1>1, <2>0, <2>3 DEF SendStep, SendCancelled, SendClosed, SendBroken,
       SendAnswered, globals
  <2>4. ASSUME NEW d \in Devices, Send(d) PROVE OpShape' /\ Awaited'
    BY <1>1, <2>0, <2>4 DEF Send, globals
  <2>5. CASE LoopStep
    <3>1. CASE LoopReconnect
      <4>1. CASE current = NoDevice
        BY <1>1, <2>0, <3>1, <4>1 DEF LoopReconnect
      <4>2. CASE current # NoDevice
        BY <1>2, <3>1, <4>2 DEF LoopReconnect, Threads
      <4> QED
        BY <4>1, <4>2
    <3>2. CASE ~LoopReconnect
      BY <1>1, <2>0, <2>5, <3>2 DEF LoopStep, LoopClear, LoopListed,
         LoopListFailed, LoopDial, globals
    <3> QED
      BY <3>1, <3>2
  <2> QED
    BY <1>12, <2>1, <2>2, <2>3, <2>4, <2>5 DEF SilentStep
<1>13. CASE UNCHANGED pvars
  BY <1>1, <1>13 DEF pvars, vars, session
<1> QED
  BY <1>3, <1>4, <1>6, <1>7, <1>8, <1>9, <1>10, <1>11, <1>12, <1>13 DEF PNext

(* connect_in_progress_ never outlives its attempt: for any number of      *)
(* printers, Studio threads and connections, a callback or a logout that   *)
(* ends the attempt is still to come.                                      *)
THEOREM AttemptHasAnswerAlways == PSpec => []AttemptHasAnswer
<1>1. PInit => OpShape /\ Awaited
  BY DEF PInit, Init, SessionInit, OpShape, Awaited, Idle
<1>2. IndInv /\ SessionTyped /\ OpShape /\ Awaited /\ [PNext]_pvars
        => OpShape' /\ Awaited'
  BY AnswerStep
<1>3. Awaited => AttemptHasAnswer
  BY DEF Awaited, AttemptHasAnswer, Bringing, Sure, Answering
<1> QED
  BY <1>1, <1>2, <1>3, ManagerHolds, PTL DEF PSpec

-----------------------------------------------------------------------------
(* A device once given to a connection stays its device.                   *)
Fresh == \A g \in Gen : g > lastGen => devOf[g] = NoDevice

LEMMA DeviceStep ==
    ASSUME TypeOK, Fresh, [Next]_vars
    PROVE  /\ Fresh'
           /\ \A g \in Gen : devOf[g] # NoDevice => devOf'[g] = devOf[g]
<1>1. ASSUME UNCHANGED <<devOf, lastGen>>
      PROVE  /\ Fresh'
             /\ \A g \in Gen : devOf[g] # NoDevice => devOf'[g] = devOf[g]
  BY <1>1 DEF Fresh
<1>2. ASSUME NEW t \in Threads, NEW d, StartConnect(t, d)
      PROVE  /\ Fresh'
             /\ \A g \in Gen : devOf[g] # NoDevice => devOf'[g] = devOf[g]
  <2>1. lastGen + 1 \in Gen /\ lastGen \in Nat /\ lastGen' = lastGen + 1
    BY <1>2, ConnAssumption DEF StartConnect, TypeOK, Gen
  <2>2. devOf[lastGen + 1] = NoDevice
    BY <2>1 DEF Fresh, Gen
  <2> QED
    BY <1>2, <2>1, <2>2, ConnAssumption DEF StartConnect, Fresh, TypeOK, Gen
<1>3. ASSUME NEW t \in Threads, NEW d \in Devices, Connect(t, d)
      PROVE  StartConnect(t, d)
  BY <1>3 DEF Connect
<1>4. ASSUME \/ \E t \in Callers, d \in Devices : Disconnect(t, d)
             \/ \E d \in Devices : Send(d)
             \/ \E t \in Threads : CallStep(t)
      PROVE  UNCHANGED <<devOf, lastGen>>
  BY <1>4 DEF Disconnect, Send, CallStep, Peek, Take, DropSender, Uncurrent,
     EmitDisconnected, Insert, Activate
<1>5. ASSUME NEW g \in Gen, TaskStep(g) \/ SendStep(g)
      PROVE  UNCHANGED <<devOf, lastGen>>
  BY <1>5 DEF TaskStep, DialOk, DialFailed, Publish, Announce, RecvItem,
     RecvFailed, RecvNotConnected, RecvCancelled, CheckActive, EmitEvent,
     ClearActive, ClearCurrent, SendStep, SendCancelled, SendClosed,
     SendBroken, SendAnswered
<1>6. ASSUME LoopStep
      PROVE  StartConnect(InitTask, current) \/ UNCHANGED <<devOf, lastGen>>
  BY <1>6 DEF LoopStep, LoopClear, LoopReconnect, LoopListed, LoopListFailed,
     LoopDial
<1> QED
  BY <1>1, <1>2, <1>3, <1>4, <1>5, <1>6 DEF Next, Threads, vars

Tried == Fresh /\ ClaimedWasTried

(* Every step keeps the session's claim.                                   *)
LEMMA TriedStep ==
    ASSUME SessionTyped, Tried, [PNext]_pvars
    PROVE  Tried'
<1> USE DEF Tried, SessionTyped
<1>1. /\ Fresh'
      /\ \A g \in Gen : devOf[g] # NoDevice => devOf'[g] = devOf[g]
  BY StepMapsToManager, DeviceStep
(* The claim is no stronger than it was.                                   *)
<1>2. ASSUME selected' = selected,
             connected' /\ ~autoPending' => connected /\ ~autoPending
      PROVE  ClaimedWasTried'
  BY <1>1, <1>2 DEF ClaimedWasTried
<1>3. ASSUME ~connected' PROVE ClaimedWasTried'
  BY <1>3 DEF ClaimedWasTried
<1>4. ASSUME NEW t \in Callers, NEW d \in Devices, ConnectPrinter(t, d)
      PROVE  ClaimedWasTried'
  BY <1>3, <1>4 DEF ConnectPrinter, BeginConnect
<1>5. ASSUME NEW t \in Callers, DisconnectPrinter(t) \/ Logout(t)
      PROVE  ClaimedWasTried'
  BY <1>2, <1>5 DEF DisconnectPrinter, Logout, session
<1>6. ASSUME NEW t \in Callers, LogoutEnds(t) PROVE ClaimedWasTried'
  BY <1>3, <1>6 DEF LogoutEnds, ClearAfterLogout
<1>7. ASSUME NEW d \in Devices \cup {NoDevice}, SelectMachine(d)
      PROVE  ClaimedWasTried'
  BY <1>7 DEF SelectMachine, SetSelectedDevice, ClaimedWasTried
<1>8. ASSUME NEW d \in Devices, Autoconnect(d) PROVE ClaimedWasTried'
  <2>1. selected' = d
    BY <1>8 DEF Autoconnect, MayClaim, ClaimAutoconnect
  <2>2. lastGen + 1 \in Gen /\ devOf'[lastGen + 1] = d
    BY <1>8, ConnAssumption DEF Autoconnect, Connect, StartConnect, TypeOK, Gen
  <2> QED
    BY <2>1, <2>2 DEF ClaimedWasTried
<1>9. ASSUME NEW g \in Gen, TaskConnected(g) PROVE ClaimedWasTried'
  BY <1>9 DEF TaskConnected, CbConnected, MarkConnected, Announce, ClaimedWasTried
<1>10. ASSUME NEW g \in Gen, TaskDisconnected(g) PROVE ClaimedWasTried'
  BY <1>3, <1>10 DEF TaskDisconnected, CbDisconnected, MarkDisconnected
<1>11. ASSUME NEW t \in Threads, CallDisconnected(t) PROVE ClaimedWasTried'
  BY <1>3, <1>11 DEF CallDisconnected, CbDisconnected, MarkDisconnected
<1>12. CASE SilentStep \/ UNCHANGED pvars
  <2>1. selected' = selected /\ connected' = connected /\ autoPending' = autoPending
    BY <1>12 DEF SilentStep, session, pvars
  <2> QED
    BY <1>1, <2>1, Zenon DEF ClaimedWasTried
<1>13. ClaimedWasTried'
  BY <1>4, <1>5, <1>6, <1>7, <1>8, <1>9, <1>10, <1>11, <1>12 DEF PNext
<1> QED
  BY <1>1, <1>13

(* The session's "already connected" is never about a printer to which no  *)
(* connection was ever made, however selections, logouts, autoconnect and  *)
(* late callbacks interleave.                                              *)
THEOREM ClaimedWasTriedAlways == PSpec => []ClaimedWasTried
<1>1. PInit => Tried
  BY DEF PInit, Init, SessionInit, Tried, Fresh, ClaimedWasTried
<1>2. SessionTyped /\ Tried /\ [PNext]_pvars => Tried'
  BY TriedStep
<1>3. Tried => ClaimedWasTried
  BY DEF Tried
<1> QED
  BY <1>1, <1>2, <1>3, ManagerHolds, PTL DEF PSpec
=============================================================================
