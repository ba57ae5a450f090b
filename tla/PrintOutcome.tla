---------------------------- MODULE PrintOutcome ----------------------------
(***************************************************************************)
(* What the entry points of print_flow.cpp promise Studio of a job, with   *)
(* the upload, the printer and the other jobs left out.  A job is answered *)
(* once.  The printer is ordered to print at most once, never before it    *)
(* has the file and never after the answer; only the answer "done" or      *)
(* "late" leaves an order behind.  An upload may still succeed after the   *)
(* job was refused.                                                        *)
(***************************************************************************)
CONSTANT Jobs

VARIABLES
    kind,       \* which entry point was called
    outcome,    \* what it answered: "pending", "done", "late", "refused"
    uploaded,   \* whether the farm has put the file on the printer
    order       \* "none", "given", "arrived", "lost"

promise == <<kind, outcome, uploaded, order>>

Init ==
    /\ kind \in [Jobs -> {"print", "local", "send", "sdcard"}]
    /\ outcome = [j \in Jobs |-> "pending"]
    /\ uploaded = [j \in Jobs |-> FALSE]
    /\ order = [j \in Jobs |-> "none"]

(* A print from the SD card uploads nothing.                               *)
Upload(j) ==
    /\ kind[j] # "sdcard"
    /\ ~uploaded[j]
    /\ uploaded' = [uploaded EXCEPT ![j] = TRUE]
    /\ UNCHANGED <<kind, outcome, order>>

(* The order; only start_print waits for the printer before it answers.    *)
Order(j) ==
    /\ outcome[j] = "pending" /\ order[j] = "none"
    /\ kind[j] # "send"
    /\ kind[j] # "sdcard" => uploaded[j]
    /\ order' = [order EXCEPT ![j] = "given"]
    /\ outcome' = IF kind[j] = "print" THEN outcome
                  ELSE [outcome EXCEPT ![j] = "done"]
    /\ UNCHANGED <<kind, uploaded>>

(* What an answer says of the job.                                         *)
Justified(j, answer) ==
    CASE answer = "refused" -> order[j] = "none"
      [] answer = "late" -> kind[j] = "print" /\ order[j] # "none"
      [] answer = "done" -> \/ kind[j] = "print" /\ order[j] # "none"
                            \/ kind[j] = "send" /\ uploaded[j]

Answer(j, answer) ==
    /\ outcome[j] = "pending"
    /\ Justified(j, answer)
    /\ outcome' = [outcome EXCEPT ![j] = answer]
    /\ UNCHANGED <<kind, uploaded, order>>

(* What becomes of the order, now or after the answer.                     *)
Settle(j, fate) ==
    /\ order[j] = "given"
    /\ order' = [order EXCEPT ![j] = fate]
    /\ UNCHANGED <<kind, outcome, uploaded>>

Next ==
    \E j \in Jobs :
        \/ Upload(j) \/ Order(j)
        \/ \E answer \in {"done", "late", "refused"} : Answer(j, answer)
        \/ \E fate \in {"arrived", "lost"} : Settle(j, fate)

Spec == Init /\ [][Next]_promise
=============================================================================
