--------------------------- MODULE ClientTarget ---------------------------
(* The connection manager with the farm's list stream breaking, and what   *)
(* the init loop would then reconnect to.                                  *)
EXTENDS ClientSteady

(* Whether CURRENT_CONNECTED_PRINTER was last set by a task that had       *)
(* already been replaced or told to stop; noted until calls overlap.       *)
VARIABLE late

Publishes(g) == task[g] = "publish" /\ task'[g] = "announce"

TargetInit == Init /\ overlap = FALSE /\ late = FALSE

TargetNext ==
    /\ SteadyNext
    /\ late' = /\ ~overlap'
               /\ IF \E g \in Gen : Publishes(g)
                    THEN \E g \in Gen : Publishes(g) /\ active # g
                    ELSE late

TargetSpec == TargetInit /\ [][TargetNext]_<<vars, overlap, late>>

(* Somebody is about to take this printer out of CURRENT_CONNECTED_PRINTER. *)
Closing(d) ==
    \/ \E t \in Threads :
          call[t].pc \in {"drop", "uncurrent"} /\ call[t].victim = d
    \/ actLock # NoGen /\ devOf[actLock] = d

CameUp == {"announce", "recv", "checkLost", "emitLost"}

(* CURRENT_CONNECTED_PRINTER names a printer only while its connection is  *)
(* registered or being torn down, and a connection that came up is named   *)
(* there as long as it is registered.                                      *)
TargetIsActive ==
    /\ current # NoDevice => \/ active # NoGen /\ devOf[active] = current
                             \/ Closing(current)
    /\ active # NoGen /\ task[active] \in CameUp => current = devOf[active]

(* The printer that the init loop would reconnect after an outage is the   *)
(* one that is connected, unless calls overlapped, or a replaced task      *)
(* published itself late and no registered one has since.                  *)
ReconnectsToActive == ~overlap /\ ~late => TargetIsActive
===========================================================================
