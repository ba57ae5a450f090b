---------------------- MODULE ClientConnection_proofs ----------------------
(* The connection manager's safety, for every number of printers, calling  *)
(* threads, connections, failures and queued messages.                     *)
EXTENDS ClientTarget, TLAPS

(* Moving a call to another step keeps it a call.                          *)
LEMMA CallUpdate ==
    ASSUME NEW c \in Call, NEW p \in CallPC, NEW o \in CallOp,
           NEW v \in Devices \cup {NoDevice}
    PROVE  /\ [c EXCEPT !.pc = p] \in Call
           /\ [c EXCEPT !.pc = p, !.op = o] \in Call
           /\ [c EXCEPT !.pc = p, !.victim = v] \in Call
  BY DEF Call

(* Every step of a call, a task, a send loop or the init loop keeps the    *)
(* types: the counters stop at their limits, the queue at its capacity.    *)
LEMMA TypeStep == TypeOK /\ [Next]_vars => TypeOK'
<1> SUFFICES ASSUME TypeOK, [Next]_vars PROVE TypeOK'
  OBVIOUS
<1>1. ASSUME NEW t \in Threads, NEW d \in Devices, Connect(t, d)
      PROVE  TypeOK'
  <2>1. lastGen + 1 \in Gen /\ lastGen' \in 0 .. MaxGen
    BY <1>1, ConnAssumption DEF Connect, StartConnect, TypeOK, Gen
  <2>2. [pc |-> "take", op |-> "connect", dev |-> d, victim |-> NoDevice,
         gen |-> lastGen + 1] \in Call
    BY <2>1 DEF Call, CallPC, CallOp
  <2>3. call' \in [Threads -> Call]
    BY <1>1, <2>2 DEF Connect, StartConnect, TypeOK
  <2>4. devOf' \in [Gen -> Devices \cup {NoDevice}]
    BY <1>1 DEF Connect, StartConnect, TypeOK
  <2>5. QED
    BY <1>1, <2>1, <2>3, <2>4 DEF Connect, TypeOK, globals, sending, looping

<1>2. ASSUME NEW t \in Callers, NEW d \in Devices, Disconnect(t, d)
      PROVE  TypeOK'
  BY <1>2, ConnAssumption
     DEF Disconnect, TypeOK, Call, CallPC, CallOp, Idle, Threads, globals,
         sending, looping

<1>3. ASSUME NEW d \in Devices, Send(d)
      PROVE  TypeOK'
  BY <1>3, ConnAssumption DEF Send, RxAlive, TypeOK, globals, sending, looping

<1>4. ASSUME NEW t \in Threads, Peek(t)
      PROVE  TypeOK'
  <2>1. /\ [call[t] EXCEPT !.pc = "take"] \in Call
        /\ [call[t] EXCEPT !.pc = "remove", !.op = "forget"] \in Call
    <3>1. "take" \in CallPC /\ "remove" \in CallPC /\ "forget" \in CallOp
      BY DEF CallPC, CallOp
    <3>2. call[t] \in Call
      BY DEF TypeOK
    <3>3. QED
      BY <3>1, <3>2, CallUpdate
  <2>2. call' \in [Threads -> Call]
    BY <1>4, <2>1 DEF Peek, TypeOK
  <2>3. QED
    BY <1>4, <2>2 DEF Peek, TypeOK, globals, sending, looping

<1>5. ASSUME NEW t \in Threads, Take(t)
      PROVE  TypeOK'
  <2>1. CASE active = NoGen
    <3>1. [call[t] EXCEPT !.pc = AfterTeardown(call[t].op)] \in Call
      <4>1. AfterTeardown(call[t].op) \in CallPC /\ "none" \in CallOp
        BY DEF AfterTeardown, CallPC, CallOp
      <4>2. QED
        BY <4>1, CallUpdate DEF TypeOK
    <3>2. call' \in [Threads -> Call]
      BY <1>5, <2>1, <3>1 DEF Take, TypeOK
    <3>3. QED
      BY <1>5, <2>1, <3>2 DEF Take, TypeOK, sending, looping
  <2>2. CASE active # NoGen
    <3>1. [call[t] EXCEPT !.pc = "drop", !.victim = devOf[active]] \in Call
      <4>1. devOf[active] \in Devices \cup {NoDevice}
        BY <2>2 DEF TypeOK
      <4>2. "drop" \in CallPC /\ "none" \in CallOp
        BY DEF CallPC, CallOp
      <4>3. QED
        BY <4>1, <4>2, CallUpdate DEF TypeOK
    <3>2. call' \in [Threads -> Call]
      BY <1>5, <2>2, <3>1 DEF Take, TypeOK
    <3>3. QED
      BY <1>5, <2>2, <3>2 DEF Take, TypeOK, sending, looping
  <2>3. QED
    BY <2>1, <2>2

<1>6. ASSUME NEW t \in Threads, DropSender(t)
      PROVE  TypeOK'
  <2> DEFINE d == IF call[t].pc = "drop" THEN call[t].victim ELSE call[t].dev
  <2>1. d \in Devices \cup {NoDevice}
    BY DEF TypeOK, Call
  <2>2. [call[t] EXCEPT !.pc = "uncurrent", !.victim = d] \in Call
    <3>1. "uncurrent" \in CallPC /\ "none" \in CallOp
      BY DEF CallPC, CallOp
    <3>2. QED
      BY <2>1, <3>1, CallUpdate DEF TypeOK
  <2>3. call' \in [Threads -> Call]
    BY <1>6, <2>2 DEF DropSender, TypeOK
  <2>4. msgTx' \in [Devices -> Gen \cup {NoGen}]
    BY <1>6 DEF DropSender, TypeOK
  <2>5. QED
    BY <1>6, <2>3, <2>4 DEF DropSender, TypeOK, sending, looping

<1>7. ASSUME NEW t \in Threads, Uncurrent(t)
      PROVE  TypeOK'
  BY <1>7, ConnAssumption
     DEF Uncurrent, AfterTeardown, TypeOK, Call, CallPC, CallOp, Idle, globals,
         sending, looping

<1>8. ASSUME NEW t \in Threads, EmitDisconnected(t)
      PROVE  TypeOK'
  BY <1>8, ConnAssumption
     DEF EmitDisconnected, TypeOK, Call, CallPC, CallOp, Idle, globals,
         sending, looping

<1>9. ASSUME NEW t \in Threads, Insert(t)
      PROVE  TypeOK'
  <2>1. [call[t] EXCEPT !.pc = "activate"] \in Call
    <3>1. "activate" \in CallPC /\ "none" \in CallOp
      BY DEF CallPC, CallOp
    <3>2. call[t] \in Call
      BY DEF TypeOK
    <3>3. QED
      BY <3>1, <3>2, CallUpdate
  <2>2. call' \in [Threads -> Call]
    BY <1>9, <2>1 DEF Insert, TypeOK
  <2>3. call[t].gen \in Gen \cup {NoGen}
    BY DEF TypeOK, Call
  <2>4. msgTx' \in [Devices -> Gen \cup {NoGen}]
    BY <1>9, <2>3 DEF Insert, TypeOK
  <2> QED
    BY <1>9, <2>2, <2>4 DEF Insert, TypeOK, sending, looping

<1>10. ASSUME NEW t \in Threads, Activate(t)
      PROVE  TypeOK'
  BY <1>10, ConnAssumption
     DEF Activate, ReleaseGuard, TypeOK, Call, CallPC, CallOp, Idle, TaskPC,
         globals, sending, looping

<1>11. ASSUME NEW g \in Gen, DialOk(g)
      PROVE  TypeOK'
  BY <1>11, ConnAssumption
     DEF DialOk, Goto, TypeOK, TaskPC, globals, sending, looping

<1>12. ASSUME NEW g \in Gen, DialFailed(g)
      PROVE  TypeOK'
  BY <1>12, ConnAssumption
     DEF DialFailed, Goto, TypeOK, TaskPC, globals, sending, looping

<1>13. ASSUME NEW g \in Gen, Publish(g)
      PROVE  TypeOK'
  BY <1>13, ConnAssumption
     DEF Publish, Goto, TypeOK, TaskPC, globals, sending, looping

<1>14. ASSUME NEW g \in Gen, Announce(g)
      PROVE  TypeOK'
  BY <1>14, ConnAssumption
     DEF Announce, Goto, TypeOK, TaskPC, globals, sending, looping

<1>15. ASSUME NEW g \in Gen, RecvItem(g)
      PROVE  TypeOK'
  BY <1>15, ConnAssumption DEF RecvItem, TypeOK, globals, sending, looping

<1>16. ASSUME NEW g \in Gen, RecvFailed(g)
      PROVE  TypeOK'
  BY <1>16, ConnAssumption
     DEF RecvFailed, LeaveRecv, Goto, TypeOK, TaskPC, globals, sending,
         looping

<1>17. ASSUME NEW g \in Gen, RecvNotConnected(g)
      PROVE  TypeOK'
  BY <1>17, ConnAssumption
     DEF RecvNotConnected, LeaveRecv, Goto, TypeOK, TaskPC, globals, sending,
         looping

<1>18. ASSUME NEW g \in Gen, RecvCancelled(g)
      PROVE  TypeOK'
  BY <1>18, ConnAssumption
     DEF RecvCancelled, LeaveRecv, Goto, TypeOK, TaskPC, globals, sending,
         looping

<1>19. ASSUME NEW g \in Gen, CheckActive(g)
      PROVE  TypeOK'
  BY <1>19, ConnAssumption
     DEF CheckActive, IsActive, Goto, TypeOK, TaskPC, globals, sending,
         looping

<1>20. ASSUME NEW g \in Gen, EmitEvent(g)
      PROVE  TypeOK'
  BY <1>20, ConnAssumption
     DEF EmitEvent, Goto, TypeOK, TaskPC, globals, sending, looping

<1>21. ASSUME NEW g \in Gen, ClearActive(g)
      PROVE  TypeOK'
  <2>1. CASE IsActive(g)
    BY <1>21, <2>1 DEF ClearActive, Unregister, Goto, TypeOK, TaskPC, looping
  <2>2. CASE ~IsActive(g)
    BY <1>21, <2>2, ConnAssumption
       DEF ClearActive, Unregister, DropReceiver, Goto, TypeOK, TaskPC, looping
  <2>3. QED
    BY <2>1, <2>2

<1>22. ASSUME NEW g \in Gen, ClearCurrent(g)
      PROVE  TypeOK'
  BY <1>22, ConnAssumption
     DEF ClearCurrent, DropReceiver, Goto, TypeOK, TaskPC, globals, sending,
         looping

<1>23. ASSUME NEW g \in Gen, SendCancelled(g)
      PROVE  TypeOK'
  BY <1>23, ConnAssumption
     DEF SendCancelled, StopSending, TypeOK, globals, sending, looping

<1>24. ASSUME NEW g \in Gen, SendClosed(g)
      PROVE  TypeOK'
  BY <1>24, ConnAssumption
     DEF SendClosed, StopSending, TypeOK, globals, sending, looping

<1>25. ASSUME NEW g \in Gen, SendBroken(g)
      PROVE  TypeOK'
  BY <1>25, ConnAssumption
     DEF SendBroken, StopSending, TypeOK, globals, sending, looping

<1>26. ASSUME NEW g \in Gen, NEW accepted \in BOOLEAN, SendAnswered(g,
   accepted)
      PROVE  TypeOK'
  BY <1>26, ConnAssumption
     DEF SendAnswered, StopSending, FailuresAfter, TypeOK, globals, sending,
         looping

<1>27. CASE LoopClear
  BY <1>27, ConnAssumption DEF LoopClear, TypeOK, globals, sending, looping

<1>28. CASE LoopReconnect
  <2>1. CASE current = NoDevice
    BY <1>28, <2>1, ConnAssumption DEF LoopReconnect, TypeOK, sending
  <2>2. CASE current # NoDevice
    <3>1. lastGen + 1 \in Gen /\ lastGen' \in 0 .. MaxGen
      BY <1>28, <2>2, ConnAssumption
         DEF LoopReconnect, StartConnect, TypeOK, Gen
    <3>2. [pc |-> "take", op |-> "connect", dev |-> current,
           victim |-> NoDevice, gen |-> lastGen + 1] \in Call
      BY <2>2, <3>1 DEF Call, CallPC, CallOp, TypeOK
    <3>3. call' \in [Threads -> Call]
      BY <1>28, <2>2, <3>2 DEF LoopReconnect, StartConnect, TypeOK
    <3>4. devOf' \in [Gen -> Devices \cup {NoDevice}]
      BY <1>28, <2>2 DEF LoopReconnect, StartConnect, TypeOK
    <3>5. QED
      BY <1>28, <2>2, <3>1, <3>3, <3>4, ConnAssumption
         DEF LoopReconnect, TypeOK, sending
  <2>3. QED
    BY <2>1, <2>2

<1>29. CASE LoopListed
  BY <1>29, ConnAssumption
     DEF LoopListed, LoopReady, TypeOK, globals, sending, looping

<1>30. CASE LoopListFailed
  BY <1>30, ConnAssumption
     DEF LoopListFailed, LoopReady, TypeOK, globals, sending, looping

<1>31. ASSUME NEW ok \in BOOLEAN, LoopDial(ok)
      PROVE  TypeOK'
  BY <1>31, ConnAssumption DEF LoopDial, TypeOK, globals, sending, looping

<1>32. CASE UNCHANGED vars
  BY <1>32 DEF vars, TypeOK

<1>33. QED
  BY <1>1, <1>2, <1>3, <1>4, <1>5, <1>6, <1>7, <1>8, <1>9, <1>10, <1>11,
     <1>12, <1>13, <1>14, <1>15, <1>16, <1>17, <1>18, <1>19, <1>20, <1>21,
     <1>22, <1>23, <1>24, <1>25, <1>26, <1>27, <1>28, <1>29, <1>30, <1>31,
     <1>32
     DEF Next, CallStep, TaskStep, SendStep, LoopStep
-----------------------------------------------------------------------------
(* A call holds a generation of its own that no task has taken up yet.     *)
CallShape ==
    \A t \in Threads :
        /\ call[t].pc \in {"insert", "activate"} => call[t].op = "connect"
        /\ call[t].op = "connect" => call[t].gen # NoGen
        /\ call[t].gen # NoGen => /\ call[t].gen <= lastGen
                                  /\ task[call[t].gen] = "new"

GenOwned ==
    \A s, t \in Threads :
        s # t /\ call[s].gen # NoGen => call[s].gen # call[t].gen

Unused == \A g \in Gen : g > lastGen => task[g] = "new"

(* The guard of ACTIVE_CONNECTION_STATE and the task that holds it.        *)
ClearIsExclusive ==
    /\ actLock # NoGen => active = NoGen /\ task[actLock] = "uncurrent"
    /\ \A g \in Gen : task[g] = "uncurrent" => actLock = g

(* The inductive invariant.                                                *)
Owned == CallShape /\ GenOwned /\ Unused
Safe == ActiveIsServed /\ NoOrphanTask /\ ClearIsExclusive
IndInv == TypeOK /\ Owned /\ Safe

(* A step that starts or moves no call and starts no task.                 *)
LEMMA OwnedTaskFrame ==
    ASSUME IndInv, UNCHANGED <<lastGen, call>>,
           \A g \in Gen : task[g] = "new" => task'[g] = "new"
    PROVE  Owned'
  BY DEF IndInv, TypeOK, Call, Owned, CallShape, GenOwned, Unused, NoGen

(* A step that moves the call of t on and touches nothing else of it.      *)
LEMMA OwnedCallFrame ==
    ASSUME IndInv, NEW t \in Threads, UNCHANGED <<lastGen, task>>,
           \A s \in Threads : s # t => call'[s] = call[s],
           call'[t].gen \in {call[t].gen, NoGen},
           call'[t].op = "connect" => /\ call[t].op = "connect"
                                      /\ call'[t].gen = call[t].gen,
           call'[t].pc \in {"insert", "activate"} => call'[t].op = "connect"
    PROVE  Owned'
<1>1. CallShape'
  BY DEF IndInv, Owned, CallShape
<1>2. GenOwned'
  BY DEF IndInv, Owned, GenOwned
<1>3. Unused'
  BY DEF IndInv, Owned, Unused
<1>4. QED
  BY <1>1, <1>2, <1>3 DEF Owned

(* A new connect takes a generation that nobody has.                       *)
LEMMA OwnedStart ==
    ASSUME IndInv, NEW t \in Threads, NEW d \in Devices, StartConnect(t, d),
           UNCHANGED task
    PROVE  Owned'
<1>1. lastGen \in Nat /\ lastGen' = lastGen + 1 /\ lastGen + 1 \in Gen
  BY ConnAssumption DEF StartConnect, IndInv, TypeOK, Gen
<1>2. \A s \in Threads :
          call[s].gen # NoGen => call[s].gen \in Nat /\ call[s].gen <= lastGen
  BY <1>1, ConnAssumption
     DEF IndInv, Owned, CallShape, TypeOK, Call, Gen, NoGen
<1>3. \A s \in Threads : s # t => call'[s] = call[s]
  BY DEF StartConnect, IndInv, TypeOK
<1>4. call'[t].gen = lastGen + 1 /\ call'[t].pc = "take"
  BY DEF StartConnect, IndInv, TypeOK
<1>5. task[lastGen + 1] = "new"
  BY <1>1 DEF IndInv, Owned, Unused
<1>6. lastGen + 1 # NoGen
  BY <1>1 DEF NoGen
<1>7. CallShape'
  <2> SUFFICES ASSUME NEW s \in Threads
               PROVE  /\ call'[s].pc \in {"insert", "activate"}
                            => call'[s].op = "connect"
                      /\ call'[s].op = "connect" => call'[s].gen # NoGen
                      /\ call'[s].gen # NoGen => /\ call'[s].gen <= lastGen'
                                                 /\ task'[call'[s].gen] = "new"
    BY DEF CallShape
  <2>1. CASE s = t
    BY <1>1, <1>4, <1>5, <1>6, <2>1
  <2>2. CASE s # t
    BY <1>1, <1>2, <1>3, <2>2 DEF IndInv, Owned, CallShape
  <2>3. QED
    BY <2>1, <2>2
<1>8. GenOwned'
  <2> SUFFICES ASSUME NEW r \in Threads, NEW s \in Threads, r # s,
                      call'[r].gen # NoGen
               PROVE  call'[r].gen # call'[s].gen
    BY DEF GenOwned
  <2>1. CASE r = t
    BY <1>1, <1>2, <1>3, <1>4, <1>6, <2>1
  <2>2. CASE s = t
    BY <1>1, <1>2, <1>3, <1>4, <2>2
  <2>3. CASE r # t /\ s # t
    BY <1>3, <2>3 DEF IndInv, Owned, GenOwned
  <2>4. QED
    BY <2>1, <2>2, <2>3
<1>9. Unused'
  BY <1>1, ConnAssumption DEF IndInv, Owned, Unused, Gen
<1>10. QED
  BY <1>7, <1>8, <1>9 DEF Owned

(* Every step keeps the ownership of generations: a connect call that is   *)
(* not over has one nobody else has, whose task has not started.           *)
LEMMA OwnedStep ==
    ASSUME IndInv, TypeOK', [Next]_vars
    PROVE  Owned'

<1>1. ASSUME NEW t \in Threads, NEW d \in Devices, Connect(t, d)
      PROVE  Owned'
  BY <1>1, OwnedStart DEF Connect

<1>2. ASSUME NEW t \in Callers, NEW d \in Devices, Disconnect(t, d)
      PROVE  Owned'
  BY <1>2, OwnedCallFrame DEF Disconnect, Idle, Threads, IndInv, TypeOK, Call

<1>3. ASSUME NEW d \in Devices, Send(d)
      PROVE  Owned'
  BY <1>3, OwnedTaskFrame DEF Send

<1>4. ASSUME NEW t \in Threads, Peek(t)
      PROVE  Owned'
  BY <1>4, OwnedCallFrame DEF Peek, IndInv, TypeOK, Call

<1>5. ASSUME NEW t \in Threads, Take(t)
      PROVE  Owned'
  <2>1. CASE active = NoGen
    BY <1>5, <2>1, OwnedCallFrame DEF Take, AfterTeardown, IndInv, TypeOK, Call
  <2>2. CASE active # NoGen
    <3>1. call' = [call EXCEPT ![t] = [call[t] EXCEPT !.pc = "drop",
                                            !.victim = devOf[active]]]
      BY <1>5, <2>2 DEF Take
    <3>2. /\ call'[t].pc = "drop"
          /\ call'[t].op = call[t].op /\ call'[t].gen = call[t].gen
          /\ \A s \in Threads : s # t => call'[s] = call[s]
      BY <3>1 DEF IndInv, TypeOK, Call
    <3>3. QED
      BY <1>5, <3>2, OwnedCallFrame DEF Take
  <2>3. QED
    BY <2>1, <2>2

<1>6. ASSUME NEW t \in Threads, DropSender(t)
      PROVE  Owned'
  BY <1>6, OwnedCallFrame DEF DropSender, IndInv, TypeOK, Call

<1>7. ASSUME NEW t \in Threads, Uncurrent(t)
      PROVE  Owned'
  <2>1. CASE call[t].op = "forget"
    <3>1. /\ call'[t] = Idle
          /\ \A s \in Threads : s # t => call'[s] = call[s]
      BY <1>7, <2>1 DEF Uncurrent, IndInv, TypeOK
    <3>2. QED
      BY <1>7, <3>1, OwnedCallFrame DEF Uncurrent, Idle
  <2>2. CASE call[t].op # "forget"
    <3>1. call' = [call EXCEPT ![t].pc = AfterTeardown(call[t].op)]
      BY <1>7, <2>2 DEF Uncurrent
    <3>2. /\ call'[t].pc = AfterTeardown(call[t].op)
          /\ call'[t].op = call[t].op /\ call'[t].gen = call[t].gen
          /\ \A s \in Threads : s # t => call'[s] = call[s]
      BY <3>1 DEF IndInv, TypeOK, Call
    <3>3. QED
      BY <1>7, <3>2, OwnedCallFrame DEF Uncurrent, AfterTeardown
  <2>3. QED
    BY <2>1, <2>2

<1>8. ASSUME NEW t \in Threads, EmitDisconnected(t)
      PROVE  Owned'
  BY <1>8, OwnedCallFrame DEF EmitDisconnected, Idle, IndInv, TypeOK, Call

<1>9. ASSUME NEW t \in Threads, Insert(t)
      PROVE  Owned'
  BY <1>9, OwnedCallFrame DEF Insert, Owned, CallShape, IndInv, TypeOK, Call

<1>10. ASSUME NEW t \in Threads, Activate(t)
      PROVE  Owned'
  <2> DEFINE h == call[t].gen
  <2>1. call[t].op = "connect" /\ h # NoGen /\ h \in Gen /\ h <= lastGen
    BY <1>10 DEF Activate, IndInv, Owned, CallShape, TypeOK, Call
  <2>2. /\ call' = [call EXCEPT ![t] = Idle]
        /\ task' = [task EXCEPT ![h] = "dial"]
        /\ lastGen' = lastGen
    BY <1>10 DEF Activate
  <2>3. /\ call'[t] = Idle
        /\ \A s \in Threads : s # t => call'[s] = call[s] /\ call[s].gen # h
    BY <2>1, <2>2 DEF IndInv, TypeOK, Owned, GenOwned
  <2>4. CallShape'
    BY <2>1, <2>2, <2>3
       DEF CallShape, IndInv, Owned, TypeOK, Call, Idle, NoGen
  <2>5. GenOwned'
    BY <2>3 DEF GenOwned, IndInv, Owned, Idle
  <2>6. Unused'
    <3>1. \A g \in Gen : g > lastGen => g # h
      BY <2>1, ConnAssumption DEF IndInv, TypeOK, Gen
    <3>2. QED
      BY <2>2, <3>1 DEF Unused, IndInv, Owned, TypeOK
  <2>7. QED
    BY <2>4, <2>5, <2>6 DEF Owned

<1>11. ASSUME NEW g \in Gen, DialOk(g)
      PROVE  Owned'
  BY <1>11, OwnedTaskFrame DEF DialOk, Goto, IndInv, TypeOK

<1>12. ASSUME NEW g \in Gen, DialFailed(g)
      PROVE  Owned'
  BY <1>12, OwnedTaskFrame DEF DialFailed, Goto, IndInv, TypeOK

<1>13. ASSUME NEW g \in Gen, Publish(g)
      PROVE  Owned'
  BY <1>13, OwnedTaskFrame DEF Publish, Goto, IndInv, TypeOK

<1>14. ASSUME NEW g \in Gen, Announce(g)
      PROVE  Owned'
  BY <1>14, OwnedTaskFrame DEF Announce, Goto, IndInv, TypeOK

<1>15. ASSUME NEW g \in Gen, RecvItem(g)
      PROVE  Owned'
  BY <1>15, OwnedTaskFrame DEF RecvItem

<1>16. ASSUME NEW g \in Gen, RecvFailed(g)
      PROVE  Owned'
  BY <1>16, OwnedTaskFrame DEF RecvFailed, Goto, IndInv, TypeOK

<1>17. ASSUME NEW g \in Gen, RecvNotConnected(g)
      PROVE  Owned'
  BY <1>17, OwnedTaskFrame DEF RecvNotConnected, Goto, IndInv, TypeOK

<1>18. ASSUME NEW g \in Gen, RecvCancelled(g)
      PROVE  Owned'
  BY <1>18, OwnedTaskFrame DEF RecvCancelled, Goto, IndInv, TypeOK

<1>19. ASSUME NEW g \in Gen, CheckActive(g)
      PROVE  Owned'
  BY <1>19, OwnedTaskFrame DEF CheckActive, Goto, IndInv, TypeOK

<1>20. ASSUME NEW g \in Gen, EmitEvent(g)
      PROVE  Owned'
  BY <1>20, OwnedTaskFrame DEF EmitEvent, Goto, IndInv, TypeOK

<1>21. ASSUME NEW g \in Gen, ClearActive(g)
      PROVE  Owned'
  BY <1>21, OwnedTaskFrame DEF ClearActive, IsActive, Goto, IndInv, TypeOK

<1>22. ASSUME NEW g \in Gen, ClearCurrent(g)
      PROVE  Owned'
  BY <1>22, OwnedTaskFrame DEF ClearCurrent, Goto, IndInv, TypeOK

<1>23. ASSUME NEW g \in Gen, SendCancelled(g)
      PROVE  Owned'
  BY <1>23, OwnedTaskFrame DEF SendCancelled

<1>24. ASSUME NEW g \in Gen, SendClosed(g)
      PROVE  Owned'
  BY <1>24, OwnedTaskFrame DEF SendClosed

<1>25. ASSUME NEW g \in Gen, SendBroken(g)
      PROVE  Owned'
  BY <1>25, OwnedTaskFrame DEF SendBroken

<1>26. ASSUME NEW g \in Gen, NEW accepted \in BOOLEAN, SendAnswered(g,
   accepted)
      PROVE  Owned'
  BY <1>26, OwnedTaskFrame DEF SendAnswered

<1>27. CASE LoopClear
  BY <1>27, OwnedTaskFrame DEF LoopClear

<1>28. CASE LoopReconnect
  <2>1. CASE current = NoDevice
    BY <1>28, <2>1, OwnedTaskFrame DEF LoopReconnect
  <2>2. CASE current # NoDevice
    BY <1>28, <2>2, OwnedStart DEF LoopReconnect, IndInv, TypeOK, Threads
  <2>3. QED
    BY <2>1, <2>2

<1>29. CASE LoopListed
  BY <1>29, OwnedTaskFrame DEF LoopListed

<1>30. CASE LoopListFailed
  BY <1>30, OwnedTaskFrame DEF LoopListFailed

<1>31. ASSUME NEW ok \in BOOLEAN, LoopDial(ok)
      PROVE  Owned'
  BY <1>31, OwnedTaskFrame DEF LoopDial

<1>32. CASE UNCHANGED vars
  BY <1>32, OwnedTaskFrame DEF vars

<1>33. QED
  BY <1>1, <1>2, <1>3, <1>4, <1>5, <1>6, <1>7, <1>8, <1>9, <1>10, <1>11,
     <1>12, <1>13, <1>14, <1>15, <1>16, <1>17, <1>18, <1>19, <1>20, <1>21,
     <1>22, <1>23, <1>24, <1>25, <1>26, <1>27, <1>28, <1>29, <1>30, <1>31,
     <1>32
     DEF Next, CallStep, TaskStep, SendStep, LoopStep

(* A step from one serving place of a task to another keeps them.          *)
LEMMA SafeTaskFrame ==
    ASSUME IndInv, NEW g \in Gen, NEW p \in Serving, task[g] \in Serving,
           task' = [task EXCEPT ![g] = p],
           UNCHANGED <<active, actLock, cancel>>
    PROVE  Safe'
<1>1. p # "uncurrent" /\ task[g] # "uncurrent"
  BY DEF Serving
<1>2. /\ task'[g] = p
      /\ \A h \in Gen : h # g => task'[h] = task[h]
  BY DEF IndInv, TypeOK
<1>3. ActiveIsServed'
  BY <1>2 DEF IndInv, TypeOK, Safe, ActiveIsServed
<1>4. NoOrphanTask'
  BY <1>2 DEF IndInv, Safe, NoOrphanTask
<1>5. ClearIsExclusive'
  BY <1>1, <1>2 DEF IndInv, TypeOK, Safe, ClearIsExclusive
<1>6. QED
  BY <1>3, <1>4, <1>5 DEF Safe

(* Every step keeps the safety invariants, given the types and who owns    *)
(* which generation.                                                       *)
LEMMA SafeStep ==
    ASSUME IndInv, TypeOK', [Next]_vars
    PROVE  Safe'
<1> USE DEF IndInv
<1>1. ASSUME UNCHANGED <<active, actLock, cancel, task, lastGen, call>>
      PROVE  Safe'
  BY <1>1
     DEF Safe, ActiveIsServed, NoOrphanTask, ClearIsExclusive, Serving, TaskPC

<1>2. ASSUME NEW t \in Threads, NEW d \in Devices, Connect(t, d)
      PROVE  Safe'
  BY <1>2, ConnAssumption
     DEF Connect, StartConnect, TypeOK, NoGen, Gen, globals, Safe,
         ActiveIsServed, NoOrphanTask, ClearIsExclusive, Serving, TaskPC

<1>3. ASSUME NEW t \in Callers, NEW d \in Devices, Disconnect(t, d)
      PROVE  Safe'
  BY <1>3, ConnAssumption
     DEF Disconnect, TypeOK, NoGen, Gen, globals, Safe, ActiveIsServed,
         NoOrphanTask, ClearIsExclusive, Serving, TaskPC

<1>4. ASSUME NEW d \in Devices, Send(d)
      PROVE  Safe'
  BY <1>1, <1>4 DEF Send, globals

<1>5. ASSUME NEW t \in Threads, Peek(t)
      PROVE  Safe'
  BY <1>5, ConnAssumption
     DEF Peek, TypeOK, NoGen, Gen, globals, Safe, ActiveIsServed, NoOrphanTask,
         ClearIsExclusive, Serving, TaskPC

<1>6. ASSUME NEW t \in Threads, Take(t)
      PROVE  Safe'
  BY <1>6, ConnAssumption
     DEF Take, AfterTeardown, TypeOK, NoGen, Gen, globals, Safe,
         ActiveIsServed, NoOrphanTask, ClearIsExclusive, Serving, TaskPC

<1>7. ASSUME NEW t \in Threads, DropSender(t)
      PROVE  Safe'
  BY <1>7, ConnAssumption
     DEF DropSender, TypeOK, NoGen, Gen, globals, Safe, ActiveIsServed,
         NoOrphanTask, ClearIsExclusive, Serving, TaskPC

<1>8. ASSUME NEW t \in Threads, Uncurrent(t)
      PROVE  Safe'
  BY <1>8, ConnAssumption
     DEF Uncurrent, AfterTeardown, TypeOK, NoGen, Gen, globals, Safe,
         ActiveIsServed, NoOrphanTask, ClearIsExclusive, Serving, TaskPC

<1>9. ASSUME NEW t \in Threads, EmitDisconnected(t)
      PROVE  Safe'
  BY <1>9, ConnAssumption
     DEF EmitDisconnected, TypeOK, NoGen, Gen, globals, Safe, ActiveIsServed,
         NoOrphanTask, ClearIsExclusive, Serving, TaskPC

<1>10. ASSUME NEW t \in Threads, Insert(t)
      PROVE  Safe'
  BY <1>10, ConnAssumption
     DEF Insert, TypeOK, NoGen, Gen, globals, Safe, ActiveIsServed,
         NoOrphanTask, ClearIsExclusive, Serving, TaskPC

<1>11. ASSUME NEW t \in Threads, Activate(t)
      PROVE  Safe'
  <2> DEFINE h == call[t].gen
  <2>1. h # NoGen /\ h \in Gen /\ task[h] = "new"
    BY <1>11 DEF Activate, Owned, CallShape, TypeOK, Call
  <2>2. /\ actLock = NoGen /\ actLock' = NoGen /\ active' = h
        /\ task' = [task EXCEPT ![h] = "dial"]
        /\ cancel' = [g \in Gen |-> IF g = active THEN "dropped"
                                                 ELSE cancel[g]]
    BY <1>11 DEF Activate
  <2>3. /\ task'[h] = "dial"
        /\ \A g \in Gen : g # h => task'[g] = task[g]
    BY <2>1, <2>2 DEF TypeOK
  <2>4. "dial" \in Serving
    BY DEF Serving, TaskPC
  <2> HIDE DEF h
  <2>5. ActiveIsServed'
    BY <2>2, <2>3, <2>4 DEF ActiveIsServed
  <2>6. NoOrphanTask'
    BY <2>2, <2>3 DEF Safe, NoOrphanTask
  <2>7. ClearIsExclusive'
    BY <2>1, <2>2, <2>3 DEF Safe, ClearIsExclusive
  <2>8. QED
    BY <2>5, <2>6, <2>7 DEF Safe

<1>12. ASSUME NEW g \in Gen, DialOk(g)
      PROVE  Safe'
  BY <1>12, SafeTaskFrame DEF DialOk, Goto, globals, Serving, TaskPC

<1>13. ASSUME NEW g \in Gen, DialFailed(g)
      PROVE  Safe'
  BY <1>13, SafeTaskFrame DEF DialFailed, Goto, globals, Serving, TaskPC

<1>14. ASSUME NEW g \in Gen, Publish(g)
      PROVE  Safe'
  BY <1>14, SafeTaskFrame DEF Publish, Goto, Serving, TaskPC

<1>15. ASSUME NEW g \in Gen, Announce(g)
      PROVE  Safe'
  BY <1>15, SafeTaskFrame DEF Announce, Goto, globals, Serving, TaskPC

<1>16. ASSUME NEW g \in Gen, RecvItem(g)
      PROVE  Safe'
  BY <1>1, <1>16 DEF RecvItem, globals

<1>17. ASSUME NEW g \in Gen, RecvFailed(g)
      PROVE  Safe'
  <2>1. CASE recvFails[g] + 1 > FailureLimit
    BY <1>17, <2>1
       DEF RecvFailed, Goto, TypeOK, NoGen, globals, Safe, ActiveIsServed,
           NoOrphanTask, ClearIsExclusive, Serving, TaskPC
  <2>2. CASE ~(recvFails[g] + 1 > FailureLimit)
    BY <1>1, <1>17, <2>2 DEF RecvFailed, globals
  <2>3. QED
    BY <2>1, <2>2

<1>18. ASSUME NEW g \in Gen, RecvNotConnected(g)
      PROVE  Safe'
  BY <1>18, SafeTaskFrame DEF RecvNotConnected, Goto, globals, Serving, TaskPC

<1>19. ASSUME NEW g \in Gen, RecvCancelled(g)
      PROVE  Safe'
  BY <1>19, SafeTaskFrame DEF RecvCancelled, Goto, globals, Serving, TaskPC

<1>20. ASSUME NEW g \in Gen, CheckActive(g)
      PROVE  Safe'
  BY <1>20, SafeTaskFrame DEF CheckActive, IsActive, Goto, globals, Serving, TaskPC

<1>21. ASSUME NEW g \in Gen, EmitEvent(g)
      PROVE  Safe'
  BY <1>21, SafeTaskFrame DEF EmitEvent, Goto, globals, Serving, TaskPC

<1>22. ASSUME NEW g \in Gen, ClearActive(g)
      PROVE  Safe'
  <2>1. CASE IsActive(g)
    <3>1. /\ task' = [task EXCEPT ![g] = "uncurrent"]
          /\ cancel' = [cancel EXCEPT ![g] = "dropped"]
          /\ active' = NoGen /\ actLock' = g /\ actLock = NoGen
          /\ active = g
      BY <1>22, <2>1 DEF ClearActive, Goto, IsActive
    <3>2. /\ task'[g] = "uncurrent" /\ cancel'[g] = "dropped"
          /\ \A h \in Gen : h # g => /\ task'[h] = task[h]
                                     /\ cancel'[h] = cancel[h]
      BY <3>1 DEF TypeOK
    <3>3. ActiveIsServed'
      BY <3>1 DEF ActiveIsServed
    <3>4. NoOrphanTask'
      BY <3>1, <3>2 DEF Safe, NoOrphanTask
    <3>5. \A h \in Gen : task[h] # "uncurrent"
      BY <3>1, ConnAssumption DEF Safe, ClearIsExclusive, Gen, NoGen
    <3>6. ClearIsExclusive'
      BY <3>1, <3>2, <3>5 DEF ClearIsExclusive
    <3>7. QED
      BY <3>3, <3>4, <3>6 DEF Safe
  <2>2. CASE ~IsActive(g)
    <3>1. /\ task' = [task EXCEPT ![g] = "done"]
          /\ UNCHANGED <<active, actLock, cancel>>
          /\ task[g] = "clear" /\ actLock = NoGen /\ active # g
      BY <1>22, <2>2 DEF ClearActive, Goto, IsActive
    <3>2. QED
      BY <3>1
         DEF TypeOK, Safe, ActiveIsServed, NoOrphanTask, ClearIsExclusive,
             Serving, TaskPC
  <2>3. QED
    BY <2>1, <2>2

<1>23. ASSUME NEW g \in Gen, ClearCurrent(g)
      PROVE  Safe'
  BY <1>23, ConnAssumption
     DEF ClearCurrent, DropReceiver, Goto, TypeOK, NoGen, Gen, globals, Safe,
         ActiveIsServed, NoOrphanTask, ClearIsExclusive, Serving, TaskPC

<1>24. ASSUME NEW g \in Gen, SendCancelled(g)
      PROVE  Safe'
  BY <1>1, <1>24 DEF SendCancelled, globals

<1>25. ASSUME NEW g \in Gen, SendClosed(g)
      PROVE  Safe'
  BY <1>1, <1>25 DEF SendClosed, globals

<1>26. ASSUME NEW g \in Gen, SendBroken(g)
      PROVE  Safe'
  BY <1>1, <1>26 DEF SendBroken, globals

<1>27. ASSUME NEW g \in Gen, NEW accepted \in BOOLEAN, SendAnswered(g,
   accepted)
      PROVE  Safe'
  BY <1>1, <1>27 DEF SendAnswered, StopSending, globals

<1>28. CASE LoopClear
  BY <1>1, <1>28 DEF LoopClear, globals

<1>29. CASE LoopReconnect
  BY <1>29, ConnAssumption
     DEF LoopReconnect, StartConnect, TypeOK, NoGen, Gen, globals, Safe,
         ActiveIsServed, NoOrphanTask, ClearIsExclusive, Serving, TaskPC

<1>30. CASE LoopListed
  BY <1>1, <1>30 DEF LoopListed, globals

<1>31. CASE LoopListFailed
  BY <1>1, <1>31 DEF LoopListFailed, globals

<1>32. ASSUME NEW ok \in BOOLEAN, LoopDial(ok)
      PROVE  Safe'
  BY <1>1, <1>32 DEF LoopDial, globals

<1>33. CASE UNCHANGED vars
  BY <1>1, <1>33 DEF vars

<1>34. QED
  BY <1>1, <1>2, <1>3, <1>4, <1>5, <1>6, <1>7, <1>8, <1>9, <1>10, <1>11,
     <1>12, <1>13, <1>14, <1>15, <1>16, <1>17, <1>18, <1>19, <1>20, <1>21,
     <1>22, <1>23, <1>24, <1>25, <1>26, <1>27, <1>28, <1>29, <1>30, <1>31,
     <1>32, <1>33
     DEF Next, CallStep, TaskStep, SendStep, LoopStep

(* The statics before the first call satisfy the inductive invariant.      *)
LEMMA InitEstablishes == Init \/ SteadyInit => IndInv
<1> SUFFICES ASSUME Init \/ SteadyInit PROVE IndInv
  OBVIOUS
<1>1. Idle \in Call
  BY DEF Idle, Call, CallPC, CallOp, NoGen
<1>2. TypeOK
  <2>1. /\ 0 \in 0 .. MaxGen /\ 0 \in 0 .. FailureLimit
        /\ 0 \in 0 .. QueueCap
    BY ConnAssumption
  <2>2. /\ recvFails \in [Gen -> 0 .. FailureLimit]
        /\ sendFails \in [Gen -> 0 .. FailureLimit]
        /\ queue \in [Gen -> 0 .. QueueCap]
        /\ listFails \in 0 .. FailureLimit /\ lastGen \in 0 .. MaxGen
    BY <2>1 DEF Init, SteadyInit
  <2>3. call \in [Threads -> Call]
    BY <1>1 DEF Init, SteadyInit
  <2>4. task \in [Gen -> TaskPC]
    BY DEF Init, SteadyInit, TaskPC
  <2>5. CASE Init
    BY <2>2, <2>3, <2>4, <2>5 DEF Init, TypeOK
  <2>6. CASE SteadyInit
    BY <2>2, <2>3, <2>4, <2>6 DEF SteadyInit, TypeOK
  <2>7. QED
    BY <2>5, <2>6
<1>3. Owned
  BY DEF Init, SteadyInit, Owned, CallShape, GenOwned, Unused, Idle
<1>4. Safe
  BY DEF Init, SteadyInit, Safe, ActiveIsServed, NoOrphanTask,
         ClearIsExclusive, Serving
<1>5. QED
  BY <1>2, <1>3, <1>4 DEF IndInv

(* Each part of the safety argument for every number of printers, threads  *)
(* and connections: types; an active connection is served; no running task *)
(* is beyond reach; clear_active_connection is not disturbed.              *)
THEOREM IndInvHolds == Spec => []IndInv
<1>1. Init => IndInv
  BY InitEstablishes
<1>2. IndInv /\ [Next]_vars => IndInv'
  BY TypeStep, OwnedStep, SafeStep DEF IndInv
<1>3. QED
  BY <1>1, <1>2, PTL DEF Spec

(* The statics and every task, call and counter keep their types.          *)
THEOREM TypeCorrect == Spec => []TypeOK
<1>1. IndInv => TypeOK
  BY DEF IndInv
<1>2. QED
  BY <1>1, IndInvHolds, PTL

(* An entry of ACTIVE_CONNECTION_STATE is never left without a task.       *)
THEOREM ActiveServedAlways == Spec => []ActiveIsServed
<1>1. IndInv => ActiveIsServed
  BY DEF IndInv, Safe
<1>2. QED
  BY <1>1, IndInvHolds, PTL

(* A running connection task is the active one or has been told to stop.   *)
THEOREM NoOrphanAlways == Spec => []NoOrphanTask
<1>1. IndInv => NoOrphanTask
  BY DEF IndInv, Safe
<1>2. QED
  BY <1>1, IndInvHolds, PTL

(* A step that leaves the active entry, and moves no task but among its    *)
(* serving places or after its end, changes nothing in the slot.           *)
LEMMA SlotFrame ==
    ASSUME UNCHANGED <<active, cancel>>,
           \A h \in Gen : \/ task'[h] = task[h]
                          \/ task[h] \in Serving /\ task'[h] \in Serving
                          \/ task[h] = "uncurrent" /\ task'[h] = "done"
    PROVE  UNCHANGED [g \in Gen |-> PhaseOf(g)]
<1>1. ASSUME NEW h \in Gen PROVE PhaseOf(h)' = PhaseOf(h)
  <2>1. "new" \notin Serving /\ "uncurrent" \notin Serving /\ "done" \notin Serving
    BY DEF Serving
  <2>2. Serving' = Serving
    BY DEF Serving
  <2>3. QED
    BY <2>1, <2>2 DEF PhaseOf
<1>2. QED
  BY <1>1

(* A step of one task among its serving places.                            *)
LEMMA SlotTaskFrame ==
    ASSUME TypeOK, NEW g \in Gen, NEW p \in Serving, task[g] \in Serving,
           task' = [task EXCEPT ![g] = p],
           UNCHANGED <<active, cancel>>
    PROVE  UNCHANGED [h \in Gen |-> PhaseOf(h)]
<1>1. \A h \in Gen : task'[h] = task[h] \/ (task[h] \in Serving /\ task'[h] \in Serving)
  BY DEF TypeOK
<1>2. QED
  BY <1>1, SlotFrame

(* The three steps that move the slot: a teardown takes the entry ...      *)
LEMMA SlotTake ==
    ASSUME IndInv, NEW t \in Threads, Take(t)
    PROVE  [Slot!Next]_([g \in Gen |-> PhaseOf(g)])
<1> DEFINE ph == [g \in Gen |-> PhaseOf(g)]
<1>1. CASE active = NoGen
  BY <1>1, SlotFrame DEF Take
<1>2. CASE active # NoGen
  <2>1. /\ active \in Gen /\ active' = NoGen /\ task' = task
        /\ cancel' = [cancel EXCEPT ![active] = "sent"]
        /\ cancel'[active] = "sent"
        /\ \A h \in Gen : h # active => cancel'[h] = cancel[h]
    BY <1>2 DEF Take, IndInv, TypeOK
  <2>2. task[active] \in Serving /\ task[active] # "new" /\ Serving' = Serving
    BY <1>2 DEF IndInv, Safe, ActiveIsServed, Serving
  <2>3. PhaseOf(active) = "owner" /\ ph'[active] = "retired"
    <3>1. active' # active
      BY <1>2, <2>1
    <3>2. QED
      BY <2>1, <2>2, <3>1 DEF PhaseOf
  <2>4. ASSUME NEW h \in Gen, h # active PROVE ph'[h] = PhaseOf(h)
    <3>1. active' # h
      BY <2>1, ConnAssumption DEF Gen, NoGen
    <3>2. QED
      BY <2>1, <2>2, <2>4, <3>1 DEF PhaseOf
  <2>5. ph' = [ph EXCEPT ![active] = "retired"]
    BY <2>1, <2>3, <2>4
  <2>6. Slot!Retire(active)
    BY <2>1, <2>3, <2>5 DEF Slot!Retire
  <2>7. QED
    BY <2>1, <2>6 DEF Slot!Next
<1>3. QED
  BY <1>1, <1>2

(* ... a connect puts its own ...                                          *)
LEMMA SlotActivate ==
    ASSUME IndInv, NEW t \in Threads, Activate(t)
    PROVE  [Slot!Next]_([g \in Gen |-> PhaseOf(g)])
<1> DEFINE ph == [g \in Gen |-> PhaseOf(g)]
<1>1. PICK c \in Gen : c = call[t].gen /\ task[c] = "new"
  BY DEF Activate, IndInv, Owned, CallShape, TypeOK, Call
<1>2. /\ active' = c
      /\ cancel' = [g \in Gen |-> IF g = active THEN "dropped" ELSE cancel[g]]
      /\ task'[c] = "dial"
      /\ \A h \in Gen : h # c => task'[h] = task[h]
  BY <1>1 DEF Activate, IndInv, TypeOK
<1>3. active # NoGen => active \in Gen /\ task[active] \in Serving
  BY DEF IndInv, Safe, ActiveIsServed, TypeOK
<1>4. "new" \notin Serving /\ Serving' = Serving
  BY DEF Serving
<1>5. active # c
  BY <1>1, <1>3, <1>4, ConnAssumption DEF Gen, NoGen
<1>6. PhaseOf(c) = "none" /\ ph'[c] = "owner"
  <2>1. PhaseOf(c) = "none"
    BY <1>1, <1>4 DEF PhaseOf
  <2>2. ph'[c] = "owner"
    BY <1>2, "dial" # "new" DEF PhaseOf
  <2>3. QED
    BY <2>1, <2>2
<1>7. ASSUME NEW h \in Gen, h # c
      PROVE  ph'[h] = IF PhaseOf(h) = "owner" THEN "retired" ELSE PhaseOf(h)
  <2>1. CASE h = active
    <3>1. task[h] \in Serving /\ task[h] # "new"
      BY <1>3, <1>4, <2>1, ConnAssumption DEF Gen, NoGen
    <3>2. PhaseOf(h) = "owner"
      BY <2>1, <3>1 DEF PhaseOf
    <3>3. /\ task'[h] \in Serving /\ task'[h] # "new"
          /\ active' # h /\ cancel'[h] = "dropped"
      BY <1>2, <1>7, <2>1, <3>1
    <3>4. ph'[h] = "retired"
      BY <1>4, <3>3 DEF PhaseOf
    <3>5. QED
      BY <3>2, <3>4
  <2>2. CASE h # active
    BY <1>2, <1>4, <1>7, <2>2 DEF PhaseOf
  <2>3. QED
    BY <2>1, <2>2
<1>8. ph' = [b \in Gen |-> IF b = c THEN "owner"
                           ELSE IF ph[b] = "owner" THEN "retired" ELSE ph[b]]
  BY <1>6, <1>7
<1>9. Slot!Install(c)
  BY <1>1, <1>6, <1>8 DEF Slot!Install
<1>10. QED
  BY <1>1, <1>9 DEF Slot!Next

(* ... and a task ends, giving up the entry if it is its own.              *)
LEMMA SlotClear ==
    ASSUME IndInv, NEW g \in Gen, ClearActive(g)
    PROVE  [Slot!Next]_([h \in Gen |-> PhaseOf(h)])
<1> DEFINE ph == [h \in Gen |-> PhaseOf(h)]
<1>1. task[g] \in Serving /\ task[g] # "new" /\ Serving' = Serving
  BY DEF ClearActive, Serving, TaskPC
<1>2. /\ task'[g] \in {"uncurrent", "done"}
      /\ \A h \in Gen : h # g => task'[h] = task[h] /\ cancel'[h] = cancel[h]
      /\ active' = IF active = g THEN NoGen ELSE active
  BY DEF ClearActive, IsActive, Goto, IndInv, TypeOK
<1>3. active' # g
  BY <1>2, ConnAssumption DEF Gen, NoGen
<1>4. ph[g] \in {"owner", "retired"}
  BY <1>1 DEF PhaseOf, IndInv, Safe, NoOrphanTask
<1>5. ph'[g] = "ended"
  BY <1>1, <1>2, <1>3 DEF PhaseOf, Serving
<1>6. ASSUME NEW h \in Gen, h # g PROVE ph'[h] = ph[h]
  <2>1. (active' = h) <=> (active = h)
    BY <1>2, <1>6, ConnAssumption DEF Gen, NoGen
  <2>2. QED
    BY <1>1, <1>2, <1>6, <2>1 DEF PhaseOf
<1>7. ph' = [ph EXCEPT ![g] = "ended"]
  BY <1>5, <1>6
<1>8. Slot!End(g)
  BY <1>4, <1>7 DEF Slot!End
<1>9. QED
  BY <1>8 DEF Slot!Next

(* Every step of the manager is a step of the slot, or none.               *)
LEMMA SlotStep ==
    ASSUME IndInv, [Next]_vars
    PROVE  [Slot!Next]_([g \in Gen |-> PhaseOf(g)])
<1> DEFINE Kept == [Slot!Next]_([g \in Gen |-> PhaseOf(g)])
<1>0. TypeOK
  BY DEF IndInv
<1>1. ASSUME NEW t \in Threads, NEW d \in Devices, Connect(t, d) PROVE Kept
  BY <1>1, SlotFrame DEF Connect, StartConnect, globals
<1>2. ASSUME NEW t \in Callers, NEW d \in Devices, Disconnect(t, d) PROVE Kept
  BY <1>2, SlotFrame DEF Disconnect, globals
<1>3. ASSUME NEW d \in Devices, Send(d) PROVE Kept
  BY <1>3, SlotFrame DEF Send, globals
<1>4. ASSUME NEW t \in Threads, Peek(t) PROVE Kept
  BY <1>4, SlotFrame DEF Peek, globals
<1>5. ASSUME NEW t \in Threads, DropSender(t) PROVE Kept
  BY <1>5, SlotFrame DEF DropSender, globals
<1>6. ASSUME NEW t \in Threads, Uncurrent(t) PROVE Kept
  BY <1>6, SlotFrame DEF Uncurrent, globals
<1>7. ASSUME NEW t \in Threads, EmitDisconnected(t) PROVE Kept
  BY <1>7, SlotFrame DEF EmitDisconnected, globals
<1>8. ASSUME NEW t \in Threads, Insert(t) PROVE Kept
  BY <1>8, SlotFrame DEF Insert, globals
<1>9. ASSUME NEW t \in Threads, Take(t) PROVE Kept
  BY <1>9, SlotTake
<1>10. ASSUME NEW t \in Threads, Activate(t) PROVE Kept
  BY <1>10, SlotActivate
<1>11. ASSUME NEW g \in Gen, DialOk(g) PROVE Kept
  BY <1>0, <1>11, SlotTaskFrame
     DEF DialOk, Goto, globals, Serving, TaskPC
<1>12. ASSUME NEW g \in Gen, DialFailed(g) PROVE Kept
  BY <1>0, <1>12, SlotTaskFrame
     DEF DialFailed, Goto, globals, Serving, TaskPC
<1>13. ASSUME NEW g \in Gen, Publish(g) PROVE Kept
  BY <1>0, <1>13, SlotTaskFrame
     DEF Publish, Goto, globals, Serving, TaskPC
<1>14. ASSUME NEW g \in Gen, Announce(g) PROVE Kept
  BY <1>0, <1>14, SlotTaskFrame
     DEF Announce, Goto, globals, Serving, TaskPC
<1>15. ASSUME NEW g \in Gen, RecvNotConnected(g) PROVE Kept
  BY <1>0, <1>15, SlotTaskFrame
     DEF RecvNotConnected, Goto, globals, Serving, TaskPC
<1>16. ASSUME NEW g \in Gen, RecvCancelled(g) PROVE Kept
  BY <1>0, <1>16, SlotTaskFrame
     DEF RecvCancelled, Goto, globals, Serving, TaskPC
<1>17. ASSUME NEW g \in Gen, EmitEvent(g) PROVE Kept
  BY <1>0, <1>17, SlotTaskFrame
     DEF EmitEvent, Goto, globals, Serving, TaskPC
<1>18. ASSUME NEW g \in Gen, CheckActive(g) PROVE Kept
  BY <1>0, <1>18, SlotTaskFrame
     DEF CheckActive, IsActive, Goto, globals, Serving, TaskPC
<1>19. ASSUME NEW g \in Gen, RecvItem(g) PROVE Kept
  BY <1>19, SlotFrame DEF RecvItem, globals
<1>20. ASSUME NEW g \in Gen, RecvFailed(g) PROVE Kept
  <2>1. CASE recvFails[g] + 1 > FailureLimit
    BY <1>0, <1>20, <2>1, SlotTaskFrame
       DEF RecvFailed, Goto, globals, Serving, TaskPC
  <2>2. CASE ~(recvFails[g] + 1 > FailureLimit)
    BY <1>20, <2>2, SlotFrame DEF RecvFailed, globals
  <2>3. QED
    BY <2>1, <2>2
<1>21. ASSUME NEW g \in Gen, ClearActive(g) PROVE Kept
  BY <1>21, SlotClear
<1>22. ASSUME NEW g \in Gen, ClearCurrent(g) PROVE Kept
  BY <1>22, SlotFrame DEF ClearCurrent, Goto, IndInv, TypeOK
<1>23. ASSUME NEW g \in Gen, SendCancelled(g) PROVE Kept
  BY <1>23, SlotFrame DEF SendCancelled, globals
<1>24. ASSUME NEW g \in Gen, SendClosed(g) PROVE Kept
  BY <1>24, SlotFrame DEF SendClosed, globals
<1>25. ASSUME NEW g \in Gen, SendBroken(g) PROVE Kept
  BY <1>25, SlotFrame DEF SendBroken, globals
<1>26. ASSUME NEW g \in Gen, NEW a \in BOOLEAN, SendAnswered(g, a) PROVE Kept
  BY <1>26, SlotFrame DEF SendAnswered, globals
<1>27. CASE LoopClear
  BY <1>27, SlotFrame DEF LoopClear, globals
<1>28. CASE LoopReconnect
  BY <1>28, SlotFrame DEF LoopReconnect, StartConnect, globals
<1>29. CASE LoopListed
  BY <1>29, SlotFrame DEF LoopListed, globals
<1>30. CASE LoopListFailed
  BY <1>30, SlotFrame DEF LoopListFailed, globals
<1>31. ASSUME NEW ok \in BOOLEAN, LoopDial(ok) PROVE Kept
  BY <1>31, SlotFrame DEF LoopDial, globals
<1>32. CASE UNCHANGED vars
  BY <1>32, SlotFrame DEF vars
<1>33. QED
  BY <1>1, <1>2, <1>3, <1>4, <1>5, <1>6, <1>7, <1>8, <1>9, <1>10,
     <1>11, <1>12, <1>13, <1>14, <1>15, <1>16, <1>17, <1>18, <1>19, <1>20,
     <1>21, <1>22, <1>23, <1>24, <1>25, <1>26, <1>27, <1>28, <1>29, <1>30,
     <1>31, <1>32
     DEF Next, CallStep, TaskStep, SendStep, LoopStep

(* ImplementsSlot: for every number of printers, threads and connections   *)
(* ACTIVE_CONNECTION_STATE, with the tasks it stands for, is a slot that   *)
(* one connection owns at a time.                                          *)
THEOREM SlotImplemented == Spec => ImplementsSlot
<1>1. Init => Slot!Init
  <2> SUFFICES ASSUME Init PROVE Slot!Init
    OBVIOUS
  <2>1. ASSUME NEW g \in Gen PROVE PhaseOf(g) = "none"
    BY DEF Init, PhaseOf, Serving
  <2>2. QED
    BY <2>1 DEF Slot!Init
<1>2. IndInv /\ [Next]_vars => [Slot!Next]_([g \in Gen |-> PhaseOf(g)])
  BY SlotStep
<1>3. QED
  BY <1>1, <1>2, IndInvHolds, PTL DEF Spec, ImplementsSlot, Slot!Spec
-----------------------------------------------------------------------------
(* Senders.  While the printer list is up, and as long as calls have not   *)
(* overlapped, the connect that is under way is the only one that can part *)
(* ACTIVE_CONNECTION_STATE from MSG_TX: between its insert and its         *)
(* activation nothing is active, and a removal never names the active      *)
(* device.                                                                 *)
OneCall == \A s, t \in Threads : call[s] # Idle /\ call[t] # Idle => s = t

ActiveRegistered ==
    active # NoGen => /\ devOf[active] \in Devices
                      /\ msgTx[devOf[active]] = active

ReplacesActive(c) ==
    \/ c.pc \in {"drop", "insert", "activate"}
    \/ c.pc = "uncurrent" /\ c.op # "forget"

CallLeavesSender(t) ==
    /\ ReplacesActive(call[t]) => active = NoGen
    /\ call[t].pc = "remove" => call[t].op = "forget"
    /\ call[t].pc = "remove" /\ active # NoGen => devOf[active] # call[t].dev
    /\ call[t].op = "connect" => /\ call[t].dev \in Devices
                                 /\ devOf[call[t].gen] = call[t].dev
    /\ call[t].pc = "activate" => msgTx[call[t].dev] = call[t].gen

Registered ==
    /\ OneCall
    /\ ActiveRegistered
    /\ \A t \in Threads : CallLeavesSender(t)

SenderInv == loop = "list" /\ (~overlap => Registered)

(* A step that leaves the senders and the calls alone, and the active      *)
(* entry too unless it gives it up.                                        *)
LEMMA SenderFrame ==
    ASSUME IndInv, Registered, UNCHANGED <<msgTx, devOf, call>>,
           active' \in {active, NoGen}
    PROVE  Registered'
  BY DEF Registered, OneCall, ActiveRegistered, CallLeavesSender,
         ReplacesActive, NoGen

(* Where no two calls are under way, a call that moves is the only one.    *)
LEMMA OthersIdle ==
    ASSUME TypeOK, OneCall, NEW t \in Threads, call[t].pc # "idle"
    PROVE  \A s \in Threads : s # t => call[s] = Idle
  BY DEF OneCall, Idle

(* A step of the only call under way.                                      *)
LEMMA SenderCall ==
    ASSUME IndInv, TypeOK', Registered, ~Overlapping',
           NEW t \in Threads, \A s \in Threads : s # t => call[s] = Idle,
           \A s \in Threads : s # t => call'[s] = call[s],
           ActiveRegistered', CallLeavesSender(t)'
    PROVE  Registered'
<1>1. OneCall'
  BY DEF OneCall, Overlapping
<1>2. ASSUME NEW s \in Threads PROVE CallLeavesSender(s)'
  <2>1. CASE s = t
    BY <2>1
  <2>2. CASE s # t
    BY <2>2 DEF CallLeavesSender, ReplacesActive, Idle
  <2>3. QED
    BY <2>1, <2>2
<1>3. QED
  BY <1>1, <1>2 DEF Registered
(* Each step of a call, the tasks, the send loops and the init loop keeps  *)
(* the registered sender the active one's.                                 *)
LEMMA RegisteredStep ==
    ASSUME IndInv, TypeOK', Registered, ~Overlapping', [Next]_vars,
           loop = "list", ListMayFail = FALSE
    PROVE  Registered'
<1>0. TypeOK /\ NoGen \notin Gen
  BY ConnAssumption DEF IndInv, Gen, NoGen
<1>a. \A s, t \in Threads : s # t => call'[s] = Idle \/ call'[t] = Idle
  BY DEF Overlapping
<1>b. ActiveRegistered
  BY DEF Registered
<1>1. ASSUME NEW t \in Threads, NEW d \in Devices, Connect(t, d)
      PROVE  Registered'
  <2>1. /\ lastGen + 1 \in Gen /\ lastGen \in Nat
        /\ devOf' = [devOf EXCEPT ![lastGen + 1] = d]
        /\ call' = [call EXCEPT ![t] = [pc |-> "take", op |-> "connect",
                        dev |-> d, victim |-> NoDevice, gen |-> lastGen + 1]]
        /\ UNCHANGED <<active, msgTx>>
    BY <1>1, ConnAssumption DEF Connect, StartConnect, globals, TypeOK, IndInv, Gen
  <2>2. /\ \A s \in Threads : s # t => call'[s] = call[s]
        /\ call'[t].pc = "take" /\ call'[t].op = "connect"
        /\ call'[t].dev = d /\ call'[t].gen = lastGen + 1
    BY <1>0, <2>1 DEF TypeOK
  <2>3. \A s \in Threads : s # t => call[s] = Idle
    BY <1>a, <2>2 DEF Idle
  <2>4. devOf'[lastGen + 1] = d /\ \A g \in Gen : g <= lastGen => devOf'[g] = devOf[g]
    BY <1>0, <2>1, ConnAssumption DEF TypeOK, Gen
  <2>5. active # NoGen => active \in Gen /\ active <= lastGen
    BY <1>0, ConnAssumption, <2>1
       DEF IndInv, Owned, Unused, Safe, ActiveIsServed, Serving, TypeOK, Gen
  <2>6. ActiveRegistered'
    BY <1>b, <2>1, <2>4, <2>5 DEF ActiveRegistered
  <2>7. CallLeavesSender(t)'
    BY <2>2, <2>4 DEF CallLeavesSender, ReplacesActive
  <2>8. QED
    BY <2>2, <2>3, <2>6, <2>7, SenderCall
<1>2. ASSUME NEW t \in Callers, NEW d \in Devices, Disconnect(t, d)
      PROVE  Registered'
  <2>1. /\ t \in Threads
        /\ \A s \in Threads : s # t => call'[s] = call[s]
        /\ call'[t].pc = "peek" /\ call'[t].op = "disconnect"
        /\ UNCHANGED <<active, msgTx, devOf>>
    BY <1>0, <1>2 DEF Disconnect, Threads, TypeOK, globals
  <2>2. \A s \in Threads : s # t => call[s] = Idle
    BY <1>a, <2>1 DEF Idle
  <2>3. ActiveRegistered' /\ CallLeavesSender(t)'
    BY <1>b, <2>1 DEF ActiveRegistered, CallLeavesSender, ReplacesActive
  <2>4. QED
    BY <2>1, <2>2, <2>3, SenderCall
<1>3. ASSUME NEW t \in Threads, CallStep(t)
      PROVE  Registered'
  <2>1. call[t].pc # "idle"
    BY <1>3 DEF CallStep, Peek, Take, DropSender, Uncurrent, EmitDisconnected,
                Insert, Activate
  <2>2. \A s \in Threads : s # t => call[s] = Idle
    BY <1>0, <2>1, OthersIdle DEF Registered
  <2>3. \A s \in Threads : s # t => call'[s] = call[s]
    BY <1>0, <1>3
       DEF CallStep, Peek, Take, DropSender, Uncurrent, EmitDisconnected,
           Insert, Activate, TypeOK
  <2>4. CallLeavesSender(t) /\ call[t] \in Call
    BY <1>0 DEF Registered, TypeOK
  <2> SUFFICES ActiveRegistered' /\ CallLeavesSender(t)'
    BY <2>2, <2>3, SenderCall
  <2>5. CASE Peek(t)
    <3>1. /\ UNCHANGED <<active, msgTx, devOf>>
          /\ call'[t].dev = call[t].dev /\ call'[t].gen = call[t].gen
          /\ IF active # NoGen /\ devOf[active] = call[t].dev
               THEN call'[t].pc = "take" /\ call'[t].op = call[t].op
               ELSE call'[t].pc = "remove" /\ call'[t].op = "forget"
      BY <1>0, <2>4, <2>5 DEF Peek, globals, TypeOK, Call
    <3>2. QED
      BY <1>b, <2>4, <3>1 DEF ActiveRegistered, CallLeavesSender, ReplacesActive
  <2>6. CASE Take(t)
    <3>1. /\ UNCHANGED <<msgTx, devOf>>
          /\ active' = NoGen
          /\ call'[t].dev = call[t].dev /\ call'[t].gen = call[t].gen
          /\ call'[t].op = call[t].op
          /\ call'[t].pc \in {"drop", "insert", "emit"}
      <4>1. CASE active = NoGen
        BY <1>0, <2>4, <2>6, <4>1 DEF Take, AfterTeardown, TypeOK, Call
      <4>2. CASE active # NoGen
        <5>1. call' = [call EXCEPT ![t] = [call[t] EXCEPT !.pc = "drop",
                                               !.victim = devOf[active]]]
          BY <2>6, <4>2 DEF Take
        <5>2. QED
          BY <1>0, <2>4, <2>6, <4>2, <5>1 DEF Take, TypeOK, Call
      <4>3. QED
        BY <4>1, <4>2
    <3>2. QED
      BY <1>b, <2>4, <3>1 DEF ActiveRegistered, CallLeavesSender, ReplacesActive
  <2>7. CASE DropSender(t)
    <3> DEFINE d == IF call[t].pc = "drop" THEN call[t].victim ELSE call[t].dev
    <3>1. call' = [call EXCEPT ![t] = [call[t] EXCEPT !.pc = "uncurrent",
                                           !.victim = d]]
      BY <2>7 DEF DropSender
    <3>2. /\ call'[t].dev = call[t].dev /\ call'[t].gen = call[t].gen
          /\ call'[t].op = call[t].op /\ call'[t].pc = "uncurrent"
      BY <1>0, <2>4, <3>1 DEF TypeOK, Call
    <3>3. /\ UNCHANGED <<active, devOf>>
          /\ \A e \in Devices : e # d => msgTx'[e] = msgTx[e]
      BY <2>7 DEF DropSender
    <3>4. ActiveRegistered'
      <4>1. CASE call[t].pc = "drop"
        BY <2>4, <3>3, <4>1
           DEF CallLeavesSender, ReplacesActive, ActiveRegistered
      <4>2. CASE call[t].pc = "remove"
        BY <1>b, <2>4, <3>3, <4>2 DEF CallLeavesSender, ActiveRegistered
      <4>3. QED
        BY <2>7, <4>1, <4>2 DEF DropSender
    <3>5. CallLeavesSender(t)'
      <4>1. call[t].pc = "drop" \/ call[t].op = "forget"
        BY <2>4, <2>7 DEF DropSender, CallLeavesSender
      <4>2. QED
        BY <2>4, <3>2, <3>3, <4>1 DEF CallLeavesSender, ReplacesActive
    <3>6. QED
      BY <3>4, <3>5
  <2>8. CASE Uncurrent(t)
    <3>1. UNCHANGED <<active, msgTx, devOf>>
      BY <2>8 DEF Uncurrent
    <3>2. ActiveRegistered'
      BY <1>b, <3>1 DEF ActiveRegistered
    <3>3. CallLeavesSender(t)'
      <4>1. CASE call[t].op = "forget"
        BY <1>0, <2>8, <4>1
           DEF Uncurrent, TypeOK, CallLeavesSender, ReplacesActive, Idle
      <4>2. CASE call[t].op # "forget"
        <5>1. /\ call'[t].dev = call[t].dev /\ call'[t].gen = call[t].gen
              /\ call'[t].op = call[t].op
              /\ call'[t].pc \in {"insert", "emit"}
          BY <1>0, <2>4, <2>8, <4>2 DEF Uncurrent, AfterTeardown, TypeOK, Call
        <5>2. active = NoGen
          BY <2>4, <2>8, <4>2 DEF Uncurrent, CallLeavesSender, ReplacesActive
        <5>3. QED
          BY <2>4, <3>1, <5>1, <5>2 DEF CallLeavesSender, ReplacesActive
      <4>3. QED
        BY <4>1, <4>2
    <3>4. QED
      BY <3>2, <3>3
  <2>9. CASE EmitDisconnected(t)
    BY <1>0, <1>b, <2>9
       DEF EmitDisconnected, globals, TypeOK, ActiveRegistered,
           CallLeavesSender, ReplacesActive, Idle
  <2>10. CASE Insert(t)
    <3>1. call[t].op = "connect" /\ call[t].dev \in Devices /\ active = NoGen
      BY <2>4, <2>10
         DEF Insert, IndInv, Owned, CallShape, CallLeavesSender, ReplacesActive
    <3>2. /\ UNCHANGED <<active, devOf>>
          /\ call'[t].dev = call[t].dev /\ call'[t].gen = call[t].gen
          /\ call'[t].op = call[t].op /\ call'[t].pc = "activate"
          /\ msgTx'[call[t].dev] = call[t].gen
      BY <1>0, <2>4, <2>10, <3>1 DEF Insert, TypeOK, Call
    <3>3. QED
      BY <2>4, <3>1, <3>2
         DEF ActiveRegistered, CallLeavesSender, ReplacesActive
  <2>11. CASE Activate(t)
    <3>1. /\ call[t].op = "connect" /\ call[t].dev \in Devices
          /\ devOf[call[t].gen] = call[t].dev
          /\ msgTx[call[t].dev] = call[t].gen
      BY <2>4, <2>11 DEF Activate, IndInv, Owned, CallShape, CallLeavesSender
    <3>2. /\ active' = call[t].gen /\ call'[t] = Idle
          /\ UNCHANGED <<devOf, msgTx>>
      BY <1>0, <2>11 DEF Activate, TypeOK
    <3>3. QED
      BY <3>1, <3>2
         DEF ActiveRegistered, CallLeavesSender, ReplacesActive, Idle
  <2>12. QED
    BY <1>3, <2>5, <2>6, <2>7, <2>8, <2>9, <2>10, <2>11 DEF CallStep
<1>4. ASSUME NEW g \in Gen, ClearActive(g)
      PROVE  Registered'
  <2>1. CASE ~IsActive(g)
    BY <1>4, <2>1, SenderFrame DEF ClearActive, Unregister
  <2>2. CASE IsActive(g)
    <3>1. active = g /\ active' = NoGen /\ UNCHANGED <<devOf, call>>
      BY <1>4, <2>2 DEF ClearActive, IsActive
    <3>2. ASSUME NEW t \in Threads PROVE CallLeavesSender(t)'
      <4>1. CallLeavesSender(t) /\ active # NoGen
        BY <1>0, <3>1 DEF Registered
      <4>2. QED
        BY <3>1, <4>1 DEF CallLeavesSender, ReplacesActive
    <3>3. QED
      BY <3>1, <3>2 DEF Registered, OneCall, ActiveRegistered
  <2>3. QED
    BY <2>1, <2>2
<1>5. ASSUME NEW g \in Gen, TaskStep(g), ~ClearActive(g)
      PROVE  Registered'
  BY <1>5, SenderFrame
     DEF TaskStep, DialOk, DialFailed, Publish, Announce, RecvItem, RecvFailed,
         RecvNotConnected, RecvCancelled, CheckActive, EmitEvent, ClearCurrent,
         globals
<1>6. ASSUME NEW g \in Gen, SendStep(g)
      PROVE  Registered'
  BY <1>6, SenderFrame
     DEF SendStep, SendCancelled, SendClosed, SendBroken, SendAnswered, globals
<1>7. ASSUME NEW d \in Devices, Send(d)
      PROVE  Registered'
  BY <1>7, SenderFrame DEF Send, globals
<1>8. CASE LoopStep
  BY <1>8, SenderFrame
     DEF LoopStep, LoopClear, LoopReconnect, LoopListed, LoopListFailed,
         LoopDial, globals
<1>9. CASE UNCHANGED vars
  BY <1>9, SenderFrame DEF vars
<1>10. QED
  BY <1>1, <1>2, <1>3, <1>4, <1>5, <1>6, <1>7, <1>8, <1>9 DEF Next

(* The list stream stays up when it may not fail.                          *)
LEMMA ListStaysUp ==
    ASSUME loop = "list", [Next]_vars, ListMayFail = FALSE
    PROVE  loop' = "list"
<1>1. ASSUME NEW t \in Threads, CallStep(t) PROVE UNCHANGED loop
  BY <1>1 DEF CallStep, Peek, Take, DropSender, Uncurrent, EmitDisconnected,
              Insert, Activate, looping
<1>2. ASSUME NEW g \in Gen, TaskStep(g) PROVE UNCHANGED loop
  BY <1>2
     DEF TaskStep, DialOk, DialFailed, Publish, Announce, RecvItem, RecvFailed,
         RecvNotConnected, RecvCancelled, CheckActive, EmitEvent, ClearActive,
         ClearCurrent, looping
<1>3. ASSUME NEW g \in Gen, SendStep(g) PROVE UNCHANGED loop
  BY <1>3
     DEF SendStep, SendCancelled, SendClosed, SendBroken, SendAnswered, looping
<1>4. ASSUME NEW t \in Threads, NEW d \in Devices,
             Connect(t, d) \/ Disconnect(t, d)
      PROVE  UNCHANGED loop
  BY <1>4 DEF Connect, Disconnect, looping
<1>5. CASE LoopStep
  BY <1>5 DEF LoopStep, LoopClear, LoopReconnect, LoopListed, LoopListFailed,
              LoopDial
<1>6. ASSUME NEW d \in Devices, Send(d) PROVE UNCHANGED loop
  BY <1>6 DEF Send, looping
<1>7. QED
  BY <1>1, <1>2, <1>3, <1>4, <1>5, <1>6 DEF Next, Threads, vars

(* The steady manager is a manager: its invariant holds here too.          *)
LEMMA SteadyIndInv == SteadySpec => []IndInv
<1>1. SteadyInit => IndInv
  BY InitEstablishes
<1>2. IndInv /\ [SteadyNext]_<<vars, overlap>> => IndInv'
  BY TypeStep, OwnedStep, SafeStep DEF IndInv, SteadyNext
<1>3. QED
  BY <1>1, <1>2, PTL DEF SteadySpec

(* ActiveHasSender: while the farm's printer list stays up and calls have  *)
(* not overlapped, a settled manager sends to the active connection, for   *)
(* every number of printers, calling threads and connections.              *)
THEOREM ActiveHasSenderAlways ==
    ASSUME ListMayFail = FALSE PROVE SteadySpec => []ActiveHasSender
<1>1. SteadyInit => SenderInv
  BY DEF SteadyInit, SenderInv, Registered, OneCall, ActiveRegistered,
         CallLeavesSender, ReplacesActive, Idle
<1>2. IndInv /\ IndInv' /\ SenderInv /\ [SteadyNext]_<<vars, overlap>>
          => SenderInv'
  <2> SUFFICES ASSUME IndInv, IndInv', SenderInv,
                      [SteadyNext]_<<vars, overlap>>
               PROVE  SenderInv'
    OBVIOUS
  <2>1. [Next]_vars
    BY DEF SteadyNext
  <2>2. loop' = "list"
    BY <2>1, ListStaysUp DEF SenderInv
  <2>3. ASSUME ~overlap' PROVE Registered'
    <3>1. ~overlap
      BY <2>3 DEF SteadyNext
    <3>2. CASE SteadyNext
      <4>1. ~Overlapping'
        BY <2>3, <3>2 DEF SteadyNext
      <4>2. QED
        BY <2>1, <3>1, <4>1, RegisteredStep DEF SenderInv, IndInv
    <3>3. CASE UNCHANGED <<vars, overlap>>
      BY <3>1, <3>3, SenderFrame DEF SenderInv, vars
    <3>4. QED
      BY <3>2, <3>3
  <2>4. QED
    BY <2>2, <2>3 DEF SenderInv
<1>3. SenderInv => ActiveHasSender
  BY DEF SenderInv, Registered, ActiveRegistered, ActiveHasSender
<1>4. QED
  BY <1>1, <1>2, <1>3, SteadyIndInv, PTL DEF SteadySpec
-----------------------------------------------------------------------------
(* Guards.  Who holds a mutex over a wait, and what it waits for.  The     *)
(* guard of CURRENT_CONNECTED_PRINTER is held by the reconnect of the init *)
(* loop only, from LoopReconnect to the end of the connect it makes.       *)
ReconnectHolds ==
    curLock => /\ loop = "list"
               /\ call[InitTask].op = "connect"
               /\ call[InitTask].pc \in {"take", "drop", "uncurrent", "insert",
                                         "activate"}

(* A holder of ACTIVE_CONNECTION_STATE waits for the other mutex and for   *)
(* nothing else; a holder of that one is the reconnect.  So every wait for *)
(* a mutex leads to a holder that can go on, or to the reconnect, which    *)
(* may wait for the holder of the first mutex, or for itself.              *)
GuardsHaveOwners ==
    /\ actLock # NoGen => task[actLock] = "uncurrent"
    /\ ReconnectHolds

(* A step that leaves the guard, the loop and the init task's call alone.  *)
LEMMA GuardFrame ==
    ASSUME ReconnectHolds, UNCHANGED <<curLock, loop>>,
           call'[InitTask] = call[InitTask]
    PROVE  ReconnectHolds'
  BY DEF ReconnectHolds

(* Every step of the calls, the tasks and the init loop leaves the guard   *)
(* with the reconnect.                                                     *)
LEMMA GuardStep ==
    ASSUME TypeOK, ReconnectHolds, [Next]_vars
    PROVE  ReconnectHolds'
<1>0. InitTask \in Threads /\ call[InitTask] \in Call
  BY DEF Threads, TypeOK
<1>1. ASSUME NEW t \in Threads, NEW d \in Devices, Connect(t, d)
      PROVE  ReconnectHolds'
  <2>1. UNCHANGED <<curLock, loop>> /\ call[t] = Idle
    BY <1>1 DEF Connect, StartConnect, globals, looping
  <2>2. CASE t = InitTask
    BY <2>1, <2>2 DEF ReconnectHolds, Idle
  <2>3. CASE t # InitTask
    BY <1>0, <1>1, <2>1, <2>3, GuardFrame DEF Connect, StartConnect, TypeOK
  <2>4. QED
    BY <2>2, <2>3
<1>2. ASSUME NEW t \in Callers, NEW d \in Devices, Disconnect(t, d)
      PROVE  ReconnectHolds'
  BY <1>0, <1>2, ConnAssumption, GuardFrame
     DEF Disconnect, globals, looping, TypeOK
<1>3. ASSUME NEW t \in Threads, CallStep(t)
      PROVE  ReconnectHolds'
  <2>1. UNCHANGED loop
    BY <1>3 DEF CallStep, Peek, Take, DropSender, Uncurrent, EmitDisconnected,
                Insert, Activate, looping
  <2>2. CASE t # InitTask
    <3>1. call'[InitTask] = call[InitTask] /\ UNCHANGED curLock
      BY <1>0, <1>3, <2>2
         DEF CallStep, Peek, Take, DropSender, Uncurrent, EmitDisconnected,
             Insert, Activate, ReleaseGuard, globals, TypeOK
    <3>2. QED
      BY <2>1, <3>1, GuardFrame
  <2>3. CASE t = InitTask /\ ~curLock
    <3>1. ~curLock'
      BY <1>3, <2>3
         DEF CallStep, Peek, Take, DropSender, Uncurrent, EmitDisconnected,
             Insert, Activate, ReleaseGuard, globals
    <3>2. QED
      BY <3>1 DEF ReconnectHolds
  <2>4. CASE t = InitTask /\ curLock
    <3>1. /\ call[t].op = "connect" /\ loop = "list"
          /\ call[t].pc \in {"take", "drop", "uncurrent", "insert", "activate"}
      BY <2>4 DEF ReconnectHolds
    <3>2. CASE Take(t)
      <4>1. call'[t].op = "connect" /\ call'[t].pc \in {"drop", "insert"}
        <5>1. CASE active = NoGen
          BY <1>0, <2>4, <3>1, <3>2, <5>1 DEF Take, AfterTeardown, TypeOK, Call
        <5>2. CASE active # NoGen
          <6>1. call' = [call EXCEPT ![t] = [call[t] EXCEPT !.pc = "drop",
                                                 !.victim = devOf[active]]]
            BY <3>2, <5>2 DEF Take
          <6>2. QED
            BY <1>0, <2>4, <3>1, <6>1 DEF TypeOK, Call
        <5>3. QED
          BY <5>1, <5>2
      <4>2. QED
        BY <2>1, <2>4, <3>1, <4>1 DEF ReconnectHolds
    <3>3. CASE DropSender(t)
      <4>1. call'[t].op = "connect" /\ call'[t].pc = "uncurrent"
        <5>1. PICK d : call' = [call EXCEPT ![t] = [call[t] EXCEPT
                                    !.pc = "uncurrent", !.victim = d]]
          BY <3>3 DEF DropSender
        <5>2. QED
          BY <1>0, <2>4, <3>1, <5>1 DEF TypeOK, Call
      <4>2. QED
        BY <2>1, <2>4, <3>1, <4>1 DEF ReconnectHolds
    <3>4. CASE Insert(t)
      <4>1. call'[t].op = "connect" /\ call'[t].pc = "activate"
        BY <1>0, <2>4, <3>1, <3>4 DEF Insert, TypeOK, Call
      <4>2. QED
        BY <2>1, <2>4, <3>1, <4>1 DEF ReconnectHolds
    <3>5. CASE Activate(t)
      BY <2>4, <3>5 DEF Activate, ReleaseGuard, ReconnectHolds
    <3>6. QED
      BY <1>3, <2>4, <3>1, <3>2, <3>3, <3>4, <3>5
         DEF CallStep, Peek, Uncurrent, EmitDisconnected
  <2>5. QED
    BY <2>2, <2>3, <2>4
<1>4. ASSUME NEW g \in Gen, TaskStep(g) PROVE ReconnectHolds'
  BY <1>4, GuardFrame
     DEF TaskStep, DialOk, DialFailed, Publish, Announce, RecvItem, RecvFailed,
         RecvNotConnected, RecvCancelled, CheckActive, EmitEvent, ClearActive,
         ClearCurrent, globals, looping
<1>5. ASSUME NEW g \in Gen, SendStep(g) PROVE ReconnectHolds'
  BY <1>5, GuardFrame
     DEF SendStep, SendCancelled, SendClosed, SendBroken, SendAnswered,
         globals, looping
<1>6. ASSUME NEW d \in Devices, Send(d) PROVE ReconnectHolds'
  BY <1>6, GuardFrame DEF Send, globals, looping
<1>7. CASE LoopReconnect
  <2>1. CASE current = NoDevice
    BY <1>7, <2>1 DEF LoopReconnect, ReconnectHolds
  <2>2. CASE current # NoDevice
    <3>1. /\ loop' = "list"
          /\ call'[InitTask].op = "connect" /\ call'[InitTask].pc = "take"
      BY <1>0, <1>7, <2>2 DEF LoopReconnect, StartConnect, TypeOK
    <3>2. QED
      BY <3>1 DEF ReconnectHolds
  <2>3. QED
    BY <2>1, <2>2
<1>8. CASE LoopStep /\ ~LoopReconnect
  <2>1. UNCHANGED <<curLock, call>>
    BY <1>8 DEF LoopStep, LoopClear, LoopListed, LoopListFailed, LoopDial,
                globals
  <2>2. curLock => LoopListed
    BY <1>8 DEF LoopStep, LoopClear, LoopListFailed, LoopDial, LoopReady,
                ReconnectHolds, Idle
  <2>3. QED
    BY <2>1, <2>2 DEF LoopListed, ReconnectHolds
<1>9. CASE UNCHANGED vars
  BY <1>9, GuardFrame DEF vars
<1>10. QED
  BY <1>1, <1>2, <1>3, <1>4, <1>5, <1>6, <1>7, <1>8, <1>9 DEF Next

(* GuardsHaveOwners, whatever the calls, the tasks and the farm do: no     *)
(* mutex is held over a wait but by a clearing task and by the reconnect.  *)
THEOREM GuardsHaveOwnersAlways == Spec => []GuardsHaveOwners
<1>1. Init => ReconnectHolds
  BY DEF Init, ReconnectHolds
<1>2. IndInv /\ ReconnectHolds /\ [Next]_vars => ReconnectHolds'
  BY GuardStep DEF IndInv
<1>3. IndInv /\ ReconnectHolds => GuardsHaveOwners
  BY DEF IndInv, Safe, ClearIsExclusive, GuardsHaveOwners
<1>4. QED
  BY <1>1, <1>2, <1>3, IndInvHolds, PTL DEF Spec

(* With the printer list up that wait cannot come about: nobody holds the  *)
(* guard of CURRENT_CONNECTED_PRINTER, and whoever holds the other can     *)
(* take the step that releases it.                                         *)
HoldersGoOn ==
    /\ ~curLock
    /\ actLock # NoGen => task[actLock] = "uncurrent"

(* HoldersGoOn: the part of CallsReturn that needs no fairness, for every  *)
(* number of printers, threads and connections.                            *)
THEOREM HoldersGoOnAlways ==
    ASSUME ListMayFail = FALSE PROVE SteadySpec => []HoldersGoOn
<1> DEFINE Up == loop = "list" /\ ~curLock
<1>1. SteadyInit => Up
  BY DEF SteadyInit
<1>2. Up /\ [SteadyNext]_<<vars, overlap>> => Up'
  <2> SUFFICES ASSUME Up, [SteadyNext]_<<vars, overlap>> PROVE Up'
    OBVIOUS
  <2>1. [Next]_vars
    BY DEF SteadyNext
  <2>2. loop' = "list"
    BY <2>1, ListStaysUp
  <2>3. ASSUME NEW t \in Threads, CallStep(t) PROVE ~curLock'
    BY <2>3 DEF CallStep, Peek, Take, DropSender, Uncurrent, EmitDisconnected,
                Insert, Activate, ReleaseGuard, globals
  <2>4. ASSUME NEW g \in Gen, TaskStep(g) \/ SendStep(g) PROVE ~curLock'
    BY <2>4
       DEF TaskStep, DialOk, DialFailed, Publish, Announce, RecvItem,
           RecvFailed, RecvNotConnected, RecvCancelled, CheckActive, EmitEvent,
           ClearActive, ClearCurrent, SendStep, SendCancelled, SendClosed,
           SendBroken, SendAnswered, globals
  <2>5. ASSUME NEW t \in Threads, NEW d \in Devices,
               Connect(t, d) \/ Disconnect(t, d)
        PROVE  ~curLock'
    BY <2>5 DEF Connect, Disconnect, globals
  <2>6. ASSUME NEW d \in Devices, Send(d) PROVE ~curLock'
    BY <2>6 DEF Send, globals
  <2>7. CASE LoopStep
    BY <2>7 DEF LoopStep, LoopClear, LoopReconnect, LoopListed, LoopListFailed,
                LoopDial, globals
  <2>8. QED
    BY <2>1, <2>2, <2>3, <2>4, <2>5, <2>6, <2>7 DEF Next, Threads, vars
<1>3. IndInv /\ Up => HoldersGoOn
  BY DEF IndInv, Safe, ClearIsExclusive, HoldersGoOn
<1>4. QED
  BY <1>1, <1>2, <1>3, SteadyIndInv, PTL DEF SteadySpec
-----------------------------------------------------------------------------
(* The printer to reconnect.  As long as no two calls were under way at    *)
(* once, a call that tears down has emptied ACTIVE_CONNECTION_STATE, and   *)
(* one that only forgets a printer does not name the active one.           *)
CallSparesActive(t) ==
    /\ ReplacesActive(call[t]) => active = NoGen
    /\ call[t].pc = "remove" => call[t].op = "forget"
    /\ call[t].pc = "remove" /\ active # NoGen => devOf[active] # call[t].dev
    /\ call[t].pc = "uncurrent" /\ active # NoGen
         => devOf[active] # call[t].victim

Apart == OneCall /\ \A t \in Threads : CallSparesActive(t)

TargetInv == ~overlap => Apart /\ (~late => TargetIsActive)

(* A step of nobody but a task, a send loop or the init loop.              *)
LEMMA ApartFrame ==
    ASSUME Apart, UNCHANGED <<devOf, call>>, active' \in {active, NoGen}
    PROVE  Apart'
  BY DEF Apart, OneCall, CallSparesActive, ReplacesActive, NoGen

LEMMA TargetFrame ==
    ASSUME TypeOK, TargetIsActive,
           UNCHANGED <<active, current, devOf, actLock, call>>,
           \A h \in Gen : task'[h] \in CameUp => task[h] \in CameUp
    PROVE  TargetIsActive'
<1>1. \A d : Closing(d)' <=> Closing(d)
  BY DEF Closing
<1>2. active # NoGen => active \in Gen
  BY DEF TypeOK
<1>3. QED
  BY <1>1, <1>2 DEF TargetIsActive, CameUp

(* A step of the only call under way: what is left to show of it.          *)
LEMMA ApartCall ==
    ASSUME Apart, ~Overlapping', NEW t \in Threads,
           \A s \in Threads : s # t => call[s] = Idle /\ call'[s] = Idle,
           CallSparesActive(t)'
    PROVE  Apart'
<1>1. OneCall'
  BY DEF OneCall, Overlapping
<1>2. ASSUME NEW s \in Threads PROVE CallSparesActive(s)'
  <2>1. CASE s = t
    BY <2>1
  <2>2. CASE s # t
    BY <2>2 DEF CallSparesActive, ReplacesActive, Idle
  <2>3. QED
    BY <2>1, <2>2
<1>3. QED
  BY <1>1, <1>2 DEF Apart

LEMMA ClosingOfCall ==
    ASSUME NEW t \in Threads, NEW d,
           \A s \in Threads : s # t => call[s] = Idle
    PROVE  Closing(d) <=> \/ /\ call[t].pc \in {"drop", "uncurrent"}
                             /\ call[t].victim = d
                          \/ actLock # NoGen /\ devOf[actLock] = d
  BY DEF Closing, Idle

(* A call that begins disturbs nothing: its generation is a new one.       *)
LEMMA TargetStart ==
    ASSUME IndInv, TypeOK', Apart, ~Overlapping', NEW t \in Threads,
           call[t] = Idle, call'[t].pc \in {"take", "peek"},
           \A s \in Threads : s # t => call'[s] = call[s],
           UNCHANGED <<active, current, actLock, task>>,
           \/ UNCHANGED devOf
           \/ \E d \in Devices : /\ lastGen < MaxGen
                                 /\ devOf' = [devOf EXCEPT ![lastGen + 1] = d]
    PROVE  Apart' /\ (TargetIsActive => TargetIsActive')
<1>1. \A s \in Threads : s # t => call[s] = Idle /\ call'[s] = Idle
  BY DEF Overlapping, Idle
<1>2. CallSparesActive(t)'
  BY DEF CallSparesActive, ReplacesActive
<1>3. Apart'
  BY <1>1, <1>2, ApartCall
<1>4. \A g \in Gen : task[g] # "new" => devOf'[g] = devOf[g]
  BY ConnAssumption DEF IndInv, Owned, Unused, TypeOK, Gen
<1>5. /\ active # NoGen => active \in Gen /\ devOf'[active] = devOf[active]
      /\ actLock # NoGen => actLock \in Gen /\ devOf'[actLock] = devOf[actLock]
  BY <1>4
     DEF IndInv, Safe, ActiveIsServed, ClearIsExclusive, Serving, TypeOK
<1>6. \A d : Closing(d) <=> actLock # NoGen /\ devOf[actLock] = d
  BY <1>1, ClosingOfCall DEF Idle
<1>7. \A d : Closing(d)' <=> actLock' # NoGen /\ devOf'[actLock'] = d
  BY <1>1 DEF Closing, Idle
<1>8. TargetIsActive => TargetIsActive'
  BY <1>5, <1>6, <1>7 DEF TargetIsActive, CameUp
<1>9. QED
  BY <1>3, <1>8

(* Each step of the only call.                                             *)
LEMMA TargetCall ==
    ASSUME IndInv, TypeOK', Apart, ~Overlapping', NEW t \in Threads,
           CallStep(t)
    PROVE  Apart' /\ (TargetIsActive => TargetIsActive')
<1>0. TypeOK /\ NoGen \notin Gen /\ call[t] \in Call /\ call[t].pc # "idle"
  BY ConnAssumption
     DEF IndInv, TypeOK, Gen, NoGen, CallStep, Peek, Take, DropSender,
         Uncurrent, EmitDisconnected, Insert, Activate
<1>1. \A s \in Threads : s # t => call[s] = Idle /\ call'[s] = Idle
  <2>1. \A s \in Threads : s # t => call[s] = Idle
    BY <1>0, OthersIdle DEF Apart
  <2>2. \A s \in Threads : s # t => call'[s] = call[s]
    BY <1>0
       DEF CallStep, Peek, Take, DropSender, Uncurrent, EmitDisconnected,
           Insert, Activate, TypeOK
  <2>3. QED
    BY <2>1, <2>2
<1>2. CallSparesActive(t)
  BY DEF Apart
<1>3. \A d : Closing(d) <=> \/ /\ call[t].pc \in {"drop", "uncurrent"}
                               /\ call[t].victim = d
                            \/ actLock # NoGen /\ devOf[actLock] = d
  BY <1>1, ClosingOfCall
<1>4. \A d : Closing(d)' <=> \/ /\ call'[t].pc \in {"drop", "uncurrent"}
                                /\ call'[t].victim = d
                             \/ actLock' # NoGen /\ devOf'[actLock'] = d
  BY <1>1 DEF Closing, Idle
<1> SUFFICES CallSparesActive(t)' /\ (TargetIsActive => TargetIsActive')
  BY <1>1, ApartCall
<1>5. CASE Peek(t)
  <2>1. /\ UNCHANGED <<active, actLock, current, devOf, task>>
        /\ call'[t].dev = call[t].dev
        /\ \/ call'[t].pc = "take"
           \/ /\ call'[t].pc = "remove" /\ call'[t].op = "forget"
              /\ active = NoGen \/ devOf[active] # call[t].dev
        /\ call[t].pc = "peek"
    BY <1>0, <1>5 DEF Peek, globals, TypeOK, Call
  <2>2. QED
    BY <1>3, <1>4, <2>1
       DEF CallSparesActive, ReplacesActive, TargetIsActive, CameUp
<1>6. CASE Take(t)
  <2>1. /\ UNCHANGED <<actLock, current, devOf, task>>
        /\ call[t].pc = "take" /\ actLock = NoGen /\ active' = NoGen
        /\ call'[t].op = call[t].op
    <3>1. CASE active = NoGen
      BY <1>0, <1>6, <3>1 DEF Take, TypeOK, Call
    <3>2. CASE active # NoGen
      <4>1. call' = [call EXCEPT ![t] = [call[t] EXCEPT !.pc = "drop",
                                             !.victim = devOf[active]]]
        BY <1>6, <3>2 DEF Take
      <4>2. QED
        BY <1>0, <1>6, <3>2, <4>1 DEF Take, TypeOK, Call
    <3>3. QED
      BY <3>1, <3>2
  <2>2. CASE active = NoGen
    <3>1. call'[t].pc \in {"insert", "emit"}
      BY <1>0, <1>6, <2>2 DEF Take, AfterTeardown, TypeOK, Call
    <3>2. QED
      BY <1>3, <1>4, <2>1, <2>2, <3>1
         DEF CallSparesActive, TargetIsActive
  <2>3. CASE active # NoGen
    <3>1. call' = [call EXCEPT ![t] = [call[t] EXCEPT !.pc = "drop",
                                           !.victim = devOf[active]]]
      BY <1>6, <2>3 DEF Take
    <3>2. call'[t].pc = "drop" /\ call'[t].victim = devOf[active]
      BY <1>0, <3>1 DEF TypeOK, Call
    <3>3. QED
      BY <1>3, <1>4, <2>1, <3>2
         DEF CallSparesActive, TargetIsActive
  <2>4. QED
    BY <2>2, <2>3
<1>7. CASE DropSender(t)
  <2> DEFINE d == IF call[t].pc = "drop" THEN call[t].victim ELSE call[t].dev
  <2>1. call' = [call EXCEPT ![t] = [call[t] EXCEPT !.pc = "uncurrent",
                                         !.victim = d]]
    BY <1>7 DEF DropSender
  <2>2. /\ call'[t].op = call[t].op /\ call'[t].pc = "uncurrent"
        /\ call'[t].victim = d
    BY <1>0, <2>1 DEF TypeOK, Call
  <2>3. UNCHANGED <<active, actLock, current, devOf, task>>
    BY <1>7 DEF DropSender
  <2>4. CallSparesActive(t)'
    <3>1. CASE call[t].pc = "drop"
      BY <1>2, <2>2, <2>3, <3>1 DEF CallSparesActive, ReplacesActive
    <3>2. CASE call[t].pc = "remove"
      BY <1>2, <2>2, <2>3, <3>2 DEF CallSparesActive, ReplacesActive
    <3>3. QED
      BY <1>7, <3>1, <3>2 DEF DropSender
  <2>5. ASSUME NEW e, Closing(e) PROVE Closing(e)'
    BY <1>3, <1>4, <1>7, <2>2, <2>3, <2>5 DEF DropSender
  <2>6. QED
    BY <2>3, <2>4, <2>5 DEF TargetIsActive, CameUp
<1>8. CASE Uncurrent(t)
  <2>1. /\ UNCHANGED <<active, actLock, devOf, task>>
        /\ current' = IF current = call[t].victim THEN NoDevice ELSE current
        /\ call[t].pc = "uncurrent"
        /\ call'[t].pc \in {"idle", "insert", "emit"}
        /\ call'[t].pc = "insert" => call[t].op # "forget"
    BY <1>0, <1>8 DEF Uncurrent, AfterTeardown, TypeOK, Call, Idle
  <2>2. CallSparesActive(t)'
    BY <1>2, <2>1 DEF CallSparesActive, ReplacesActive
  <2>3. ASSUME TargetIsActive PROVE TargetIsActive'
    <3>1. active # NoGen => devOf[active] # call[t].victim
      BY <1>2, <2>1 DEF CallSparesActive
    <3>2. QED
      BY <1>3, <1>4, <2>1, <2>3, <3>1 DEF TargetIsActive, CameUp
  <2>4. QED
    BY <2>2, <2>3
<1>9. CASE EmitDisconnected(t)
  <2>1. /\ UNCHANGED <<active, actLock, current, devOf, task>>
        /\ call[t].pc = "emit" /\ call'[t].pc = "idle"
    BY <1>0, <1>9 DEF EmitDisconnected, globals, TypeOK, Idle
  <2>2. QED
    BY <1>3, <1>4, <2>1
       DEF CallSparesActive, ReplacesActive, TargetIsActive, CameUp
<1>10. CASE Insert(t)
  <2>1. /\ UNCHANGED <<active, actLock, current, devOf, task>>
        /\ call[t].pc = "insert" /\ call'[t].pc = "activate"
    BY <1>0, <1>10 DEF Insert, TypeOK, Call
  <2>2. QED
    BY <1>2, <1>3, <1>4, <2>1
       DEF CallSparesActive, ReplacesActive, TargetIsActive, CameUp
<1>11. CASE Activate(t)
  <2>1. call[t].gen \in Gen
    BY <1>0, <1>11
       DEF Activate, IndInv, Owned, CallShape, Call, TypeOK
  <2>2. /\ UNCHANGED <<actLock, current, devOf>> /\ actLock = NoGen
        /\ call[t].pc = "activate" /\ call'[t].pc = "idle"
        /\ active' = call[t].gen /\ task'[call[t].gen] = "dial"
    BY <1>0, <1>11, <2>1 DEF Activate, TypeOK, Idle
  <2>3. active = NoGen
    BY <1>2, <2>2 DEF CallSparesActive, ReplacesActive
  <2>4. QED
    BY <1>3, <1>4, <2>2, <2>3
       DEF CallSparesActive, ReplacesActive, TargetIsActive, CameUp
<1>12. QED
  BY <1>5, <1>6, <1>7, <1>8, <1>9, <1>10, <1>11 DEF CallStep

(* Every step: a late publish apart, the target stays right.               *)
LEMMA TargetStep ==
    ASSUME IndInv, TypeOK', Apart, ~Overlapping', [Next]_vars
    PROVE  /\ Apart'
           /\ \/ \E g \in Gen : Publishes(g)
              \/ TargetIsActive => TargetIsActive'
           /\ \A g \in Gen : Publishes(g) /\ active = g => TargetIsActive'
<1> DEFINE Kept == /\ Apart'
                   /\ TargetIsActive => TargetIsActive'
                   /\ \A g \in Gen : ~Publishes(g)
<1> SUFFICES Kept \/ (Apart' /\ \E g \in Gen : Publish(g))
  <2>1. ASSUME NEW g \in Gen, Publish(g), Apart'
        PROVE  /\ Publishes(g)
               /\ \A h \in Gen : Publishes(h) /\ active = h => TargetIsActive'
    <3>1. /\ task[g] = "publish" /\ task'[g] = "announce"
          /\ \A h \in Gen : h # g => task'[h] = task[h]
          /\ current' = devOf[g] /\ UNCHANGED <<active, devOf>>
      BY <2>1 DEF Publish, Goto, IndInv, TypeOK
    <3>2. active = g => TargetIsActive'
      BY <3>1, ConnAssumption DEF TargetIsActive, Gen, NoGen
    <3>3. QED
      BY <3>1, <3>2 DEF Publishes
  <2>2. QED
    BY <2>1
<1>0. TypeOK /\ NoGen \notin Gen
  BY ConnAssumption DEF IndInv, Gen, NoGen
<1>1. ASSUME NEW t \in Threads, NEW d \in Devices, Connect(t, d)
      PROVE  Kept
  <2>1. /\ call[t] = Idle /\ call'[t].pc \in {"take", "peek"}
        /\ \A s \in Threads : s # t => call'[s] = call[s]
        /\ UNCHANGED <<active, current, actLock, task>>
        /\ lastGen < MaxGen /\ devOf' = [devOf EXCEPT ![lastGen + 1] = d]
    BY <1>0, <1>1 DEF Connect, StartConnect, globals, TypeOK
  <2>2. QED
    BY <2>1, TargetStart DEF Publishes
<1>2. ASSUME NEW t \in Callers, NEW d \in Devices, Disconnect(t, d)
      PROVE  Kept
  <2>1. /\ t \in Threads
        /\ call[t] = Idle /\ call'[t].pc \in {"take", "peek"}
        /\ \A s \in Threads : s # t => call'[s] = call[s]
        /\ UNCHANGED <<active, current, actLock, task, devOf>>
    BY <1>0, <1>2 DEF Disconnect, globals, TypeOK, Threads
  <2>2. QED
    BY <2>1, TargetStart DEF Publishes
<1>3. ASSUME NEW t \in Threads, CallStep(t) PROVE Kept
  <2>1. \A g \in Gen : task'[g] = task[g] \/ task'[g] = "dial"
    BY <1>0, <1>3
       DEF CallStep, Peek, Take, DropSender, Uncurrent, EmitDisconnected,
           Insert, Activate, TypeOK
  <2>2. QED
    BY <1>3, <2>1, TargetCall DEF Publishes
<1>4. ASSUME NEW g \in Gen, ClearActive(g) PROVE Kept
  <2>1. /\ UNCHANGED <<current, devOf, call>>
        /\ task[g] = "clear" /\ task'[g] \in {"uncurrent", "done"}
        /\ \A h \in Gen : h # g => task'[h] = task[h]
        /\ active' \in {active, NoGen}
    BY <1>0, <1>4 DEF ClearActive, Goto, TypeOK
  <2>2. Apart' /\ \A h \in Gen : ~Publishes(h)
    BY <2>1, ApartFrame DEF Publishes
  <2>3. CASE ~IsActive(g)
    BY <1>0, <1>4, <2>1, <2>2, <2>3, TargetFrame DEF ClearActive, CameUp
  <2>4. CASE IsActive(g)
    <3>1. active = g /\ active' = NoGen /\ actLock = NoGen /\ actLock' = g
      BY <1>4, <2>4 DEF ClearActive, IsActive
    <3>2. \A d : Closing(d) \/ devOf[g] = d => Closing(d)'
      BY <1>0, <2>1, <3>1 DEF Closing
    <3>3. QED
      BY <2>1, <2>2, <3>1, <3>2 DEF TargetIsActive
  <2>5. QED
    BY <2>3, <2>4
<1>5. ASSUME NEW g \in Gen, ClearCurrent(g) PROVE Kept
  <2>1. /\ actLock = g /\ active = NoGen /\ actLock' = NoGen
        /\ UNCHANGED <<active, devOf, call>>
        /\ current' = IF current = devOf[g] THEN NoDevice ELSE current
        /\ task[g] = "uncurrent" /\ task'[g] = "done"
        /\ \A h \in Gen : h # g => task'[h] = task[h]
    BY <1>0, <1>5
       DEF ClearCurrent, Goto, IndInv, TypeOK, Safe, ClearIsExclusive
  <2>2. Apart' /\ \A h \in Gen : ~Publishes(h)
    BY <2>1, ApartFrame DEF Publishes
  <2>3. \A d : Closing(d) /\ d # devOf[g] => Closing(d)'
    BY <2>1 DEF Closing
  <2>4. QED
    BY <2>1, <2>2, <2>3 DEF TargetIsActive
<1>6. ASSUME NEW g \in Gen, Publish(g) PROVE Apart'
  BY <1>6, ApartFrame DEF Publish
<1>7. ASSUME NEW g \in Gen,
             \/ DialOk(g) \/ DialFailed(g) \/ Announce(g)
             \/ RecvItem(g) \/ RecvFailed(g) \/ RecvNotConnected(g)
             \/ RecvCancelled(g) \/ CheckActive(g) \/ EmitEvent(g)
      PROVE  Kept
  <2>1. UNCHANGED <<active, current, devOf, actLock, call>>
    BY <1>7
       DEF DialOk, DialFailed, Announce, RecvItem, RecvFailed,
           RecvNotConnected, RecvCancelled, CheckActive, EmitEvent, globals
  <2>2. /\ \A h \in Gen : h # g => task'[h] = task[h]
        /\ task'[g] \in CameUp => task[g] \in CameUp
        /\ task'[g] = "announce" => task[g] = "announce"
    BY <1>0, <1>7
       DEF DialOk, DialFailed, Announce, RecvItem, RecvFailed,
           RecvNotConnected, RecvCancelled, CheckActive, EmitEvent, Goto,
           TypeOK, CameUp
  <2>3. QED
    BY <1>0, <2>1, <2>2, ApartFrame, TargetFrame DEF Publishes
<1>8. ASSUME NEW g \in Gen, SendStep(g) PROVE Kept
  BY <1>0, <1>8, ApartFrame, TargetFrame
     DEF SendStep, SendCancelled, SendClosed, SendBroken, SendAnswered,
         globals, Publishes
<1>9. ASSUME NEW d \in Devices, Send(d) PROVE Kept
  BY <1>0, <1>9, ApartFrame, TargetFrame DEF Send, globals, Publishes
<1>10. CASE LoopReconnect
  <2>1. CASE current = NoDevice
    BY <1>0, <1>10, <2>1, ApartFrame, TargetFrame DEF LoopReconnect, Publishes
  <2>2. CASE current # NoDevice
    <3>1. /\ InitTask \in Threads /\ current \in Devices
          /\ call[InitTask] = Idle /\ call'[InitTask].pc \in {"take", "peek"}
          /\ \A s \in Threads : s # InitTask => call'[s] = call[s]
          /\ UNCHANGED <<active, current, actLock, task>>
          /\ lastGen < MaxGen
          /\ devOf' = [devOf EXCEPT ![lastGen + 1] = current]
      BY <1>0, <1>10, <2>2 DEF LoopReconnect, StartConnect, TypeOK, Threads
    <3>2. QED
      BY <3>1, TargetStart DEF Publishes
  <2>3. QED
    BY <2>1, <2>2
<1>11. CASE LoopStep /\ ~LoopReconnect
  BY <1>0, <1>11, ApartFrame, TargetFrame
     DEF LoopStep, LoopClear, LoopListed, LoopListFailed, LoopDial, globals,
         Publishes
<1>12. CASE UNCHANGED vars
  BY <1>0, <1>12, ApartFrame, TargetFrame DEF vars, Publishes
<1>13. QED
  BY <1>1, <1>2, <1>3, <1>4, <1>5, <1>6, <1>7, <1>8, <1>9, <1>10, <1>11,
     <1>12 DEF Next, TaskStep

(* ReconnectsToActive: the loop of bambu_network_rs_init reconnects the    *)
(* printer that is connected, for every number of printers, threads and    *)
(* connections, unless calls overlapped or a replaced task published late. *)
THEOREM ReconnectsToActiveAlways == TargetSpec => []ReconnectsToActive
<1>1. TargetInit => IndInv /\ TargetInv
  <2>1. TargetInit => IndInv
    BY InitEstablishes DEF TargetInit
  <2>2. TargetInit => TargetInv
    BY DEF TargetInit, Init, TargetInv, Apart, OneCall, CallSparesActive,
           ReplacesActive, Idle, TargetIsActive
  <2>3. QED
    BY <2>1, <2>2
<1>2. IndInv /\ [TargetNext]_<<vars, overlap, late>> => IndInv'
  BY TypeStep, OwnedStep, SafeStep DEF IndInv, TargetNext, SteadyNext
<1>3. IndInv /\ IndInv' /\ TargetInv /\ [TargetNext]_<<vars, overlap, late>>
          => TargetInv'
  <2> SUFFICES ASSUME IndInv, IndInv', TargetInv, ~overlap',
                      [TargetNext]_<<vars, overlap, late>>
               PROVE  Apart' /\ (~late' => TargetIsActive')
    BY DEF TargetInv
  <2>1. CASE TargetNext
    <3>1. Next /\ ~overlap /\ ~Overlapping' /\ Apart
      BY <2>1 DEF TargetNext, SteadyNext, TargetInv
    <3>2. /\ Apart'
          /\ \/ \E g \in Gen : Publishes(g)
             \/ TargetIsActive => TargetIsActive'
          /\ \A g \in Gen : Publishes(g) /\ active = g => TargetIsActive'
      BY <3>1, TargetStep DEF IndInv
    <3>3. ~late' => \/ \E g \in Gen : Publishes(g) /\ active = g
                    \/ ~late /\ ~\E g \in Gen : Publishes(g)
      BY <2>1 DEF TargetNext
    <3>4. QED
      BY <3>1, <3>2, <3>3 DEF TargetInv
  <2>2. CASE UNCHANGED <<vars, overlap, late>>
    <3>1. TypeOK /\ ~overlap /\ Apart /\ UNCHANGED vars /\ late' = late
      BY <2>2 DEF IndInv, TargetInv
    <3>2. Apart' /\ (TargetIsActive => TargetIsActive')
      BY <3>1, ApartFrame, TargetFrame DEF vars
    <3>3. QED
      BY <3>1, <3>2 DEF TargetInv
  <2>3. QED
    BY <2>1, <2>2
<1>4. TargetInv => ReconnectsToActive
  BY DEF TargetInv, ReconnectsToActive
<1>5. QED
  BY <1>1, <1>2, <1>3, <1>4, PTL DEF TargetSpec
============================================================================
