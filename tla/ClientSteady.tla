--------------------------- MODULE ClientSteady ---------------------------
(* The connection manager with the farm's printer list up and staying up.  *)
EXTENDS ClientConnection

(* Whether two calls have ever been under way at once.                     *)
VARIABLE overlap

Overlapping ==
    \E s, t \in Threads : s # t /\ call[s] # Idle /\ call[t] # Idle

(* The init loop has its printer list stream and it stays up.              *)
SteadyInit ==
    /\ active = NoGen /\ actLock = NoGen
    /\ current = NoDevice /\ curLock = FALSE
    /\ msgTx = [d \in Devices |-> NoGen]
    /\ lastGen = 0
    /\ devOf = [g \in Gen |-> NoDevice]
    /\ cancel = [g \in Gen |-> "open"]
    /\ task = [g \in Gen |-> "new"]
    /\ recvFails = [g \in Gen |-> 0]
    /\ sendLoop = [g \in Gen |-> "off"]
    /\ sendFails = [g \in Gen |-> 0]
    /\ queue = [g \in Gen |-> 0]
    /\ call = [t \in Threads |-> Idle]
    /\ loop = "list" /\ listFails = 0
    /\ overlap = FALSE

SteadyNext == Next /\ overlap' = (overlap \/ Overlapping')

SteadySpec == SteadyInit /\ [][SteadyNext]_<<vars, overlap>> /\ Fairness

Settled == \A t \in Threads : call[t] = Idle

(* With no call under way, and as long as calls have not overlapped, the   *)
(* active connection's sender is the one bambu_network_rs_send finds for   *)
(* its device.                                                             *)
ActiveHasSender ==
    Settled /\ ~overlap /\ active # NoGen => msgTx[devOf[active]] = active

(* When a connection's task has ended its send loop ends as well, as long  *)
(* as calls do not overlap.                                                *)
SendLoopEnds ==
    \A g \in Gen : task[g] = "done" ~> sendLoop[g] # "run" \/ overlap
===========================================================================
