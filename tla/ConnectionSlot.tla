--------------------------- MODULE ConnectionSlot ---------------------------
(***************************************************************************)
(* What the connection manager promises: a slot that one connection owns   *)
(* at a time.  A connection owns it at most once; it loses it to its       *)
(* successor or to a teardown, and is then on its way out, or it gives it  *)
(* up by ending.  No step ends one connection and disturbs another.        *)
(***************************************************************************)
CONSTANT Conn

VARIABLE phase

Init == phase = [c \in Conn |-> "none"]

(* A connection takes the slot, from the one that has it if there is one.  *)
Install(c) ==
    /\ phase[c] = "none"
    /\ phase' = [b \in Conn |-> IF b = c THEN "owner"
                                ELSE IF phase[b] = "owner" THEN "retired"
                                ELSE phase[b]]

(* The owner is told to leave and the slot stays empty.                    *)
Retire(c) ==
    /\ phase[c] = "owner"
    /\ phase' = [phase EXCEPT ![c] = "retired"]

End(c) ==
    /\ phase[c] \in {"owner", "retired"}
    /\ phase' = [phase EXCEPT ![c] = "ended"]

Next == \E c \in Conn : Install(c) \/ Retire(c) \/ End(c)

Spec == Init /\ [][Next]_phase
=============================================================================
