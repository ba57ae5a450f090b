--------------------------- MODULE MCPluginSession ---------------------------
(* The plugin with the farm's printer list stream up and staying up.       *)
EXTENDS PluginSession, TLC

Printers == Permutations(Devices)

SteadyPInit ==
    /\ SessionInit
    /\ active = NoGen /\ actLock = NoGen
    /\ current = NoDevice /\ curLock = FALSE
    /\ msgTx = [d \in Devices |-> NoGen]
    /\ lastGen = 0
    /\ devOf = [g \in Gen |-> NoDevice]
    /\ cancel = [g \in Gen |-> "open"]
    /\ task = [g \in Gen |-> "new"]
    /\ recvFails = [g \in Gen |-> 0]
    /\ sendLoop = [g \in Gen |-> "off"]
    /\ sendFails = [g \in Gen |-> 0]
    /\ queue = [g \in Gen |-> 0]
    /\ call = [t \in Threads |-> Idle]
    /\ loop = "list" /\ listFails = 0

SteadyPSpec == SteadyPInit /\ [][PNext]_pvars
=============================================================================
