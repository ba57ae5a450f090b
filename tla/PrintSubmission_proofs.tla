----------------------- MODULE PrintSubmission_proofs -----------------------
(***************************************************************************)
(* What a print submission guarantees, for any number of jobs, chunks and  *)
(* printers: the printer only ever acknowledges whole streams, the code a  *)
(* flow returns tells what became of the job, and the flows implement      *)
(* PrintOutcome.                                                           *)
(***************************************************************************)
EXTENDS PrintSubmission, SequenceTheorems, TLAPS

(* Past the receive loop the temporary file is the whole, ended stream.    *)
Received(j) ==
    server[j] \notin {"idle", "recv", "failed"} =>
        ended[j] /\ stored[j] = read[j] /\ stored[j] > 0

WholeStreams ==
    \A j \in Jobs : Received(j) /\ (put[j] > 0 => ended[j] /\ put[j] = read[j])

(* What a flow has done at each of its points.                             *)
Progress(j) ==
    /\ server[j] \in {"quit", "ok"} => put[j] > 0
    /\ pc[j] \in {"uploaded", "send", "wait"} /\ kind[j] # "sdcard" => put[j] > 0
    /\ pc[j] \notin {"wait", "returned"} => cmd[j] = "none"
    /\ pc[j] = "wait" => cmd[j] # "none"
    /\ pc[j] # "returned" => ret[j] = "none"

(* A job that goes on has its name, and keeps it while its command may     *)
(* arrive.                                                                 *)
Named(j) ==
    pc[j] \notin {"idle", "begun", "returned"} \/ cmd[j] = "queued"
        => slot[j] \in Slots

Outcomes == ReturnTellsOutcome /\ \A j \in Jobs : Progress(j) /\ Named(j)

IndInv == TypeOK /\ WholeStreams /\ Outcomes

FlowTypes ==
    /\ pc \in [Jobs -> FlowPC] /\ stage \in [Jobs -> Stages]
    /\ ret \in [Jobs -> Results]
    /\ kind \in [Jobs -> Kinds] /\ params \in [Jobs -> Params]

(* A status report and a return keep the types of the flow.                *)
LEMMA ReportTypes ==
    ASSUME TypeOK, NEW j \in Jobs, NEW s \in Stages
    PROVE  /\ \A next \in FlowPC : Report(j, s, next) => FlowTypes'
           /\ \A code \in Results : Return(j, s, code) => FlowTypes'
<1> USE DEF TypeOK, FlowTypes, request
<1>1. ASSUME NEW next \in FlowPC, Report(j, s, next) PROVE FlowTypes'
  BY <1>1 DEF Report
<1>2. ASSUME NEW code \in Results, Return(j, s, code) PROVE FlowTypes'
  <2>1. "returned" \in FlowPC
    BY DEF FlowPC
  <2> QED
    BY <1>2, <2>1 DEF Return
<1> QED
  BY <1>1, <1>2

(* Every step keeps the types.                                             *)
LEMMA TypeStep ==
    ASSUME TypeOK, \A j \in Jobs : Named(j), [Next]_vars
    PROVE  TypeOK'
<1> USE SubmissionAssumption DEF TypeOK, FlowPC, ServerPC, Kinds, Stages,
         Results, Refusals, Held, File, Absent, flow, naming, request,
         stream, files, farm, printer
<1>1. CASE UNCHANGED vars
  BY <1>1 DEF vars
<1>2. ASSUME NEW j \in Jobs,
             Start(j) \/ FlowStep(j) \/ ServerStep(j) \/ Arrive(j) \/ Lose(j)
      PROVE  TypeOK'
  <2>1. CASE Start(j)
    BY <2>1 DEF Start, Report
  <2>2. CASE UploadOpen(j)
    BY <2>2 DEF UploadOpen
  <2>3. CASE UploadNotOpened(j)
    BY <2>3 DEF UploadNotOpened, Return, UploadFailure
  <2>4. CASE ReadChunk(j)
    BY <2>4 DEF ReadChunk
  <2>5. CASE ReadEnd(j) \/ ReadFailed(j)
    <3>1. CASE ReadEnd(j)
      BY <3>1 DEF ReadEnd
    <3>2. CASE ReadFailed(j)
      BY <3>2 DEF ReadFailed
    <3> QED
      BY <2>5, <3>1, <3>2
  <2>6. CASE UploadOk(j)
    <3>1. FlowTypes'
      BY <2>6, ReportTypes DEF UploadOk, FlowTypes
    <3>2. context' \in [Targets -> Jobs \cup {NoJob}]
      BY <2>6 DEF UploadOk, Record
    <3> QED
      BY <2>6, <3>1, <3>2 DEF UploadOk, FlowTypes
  <2>7. CASE UploadFailed(j)
    BY <2>7 DEF UploadFailed, Return, UploadFailure
  <2>8. CASE RpcBroken(j)
    BY <2>8 DEF RpcBroken, Return, UploadFailure
  <2>9. CASE SendOk(j)
    <3>1. FlowTypes'
      BY <2>9, ReportTypes DEF SendOk
    <3>2. cmd' \in [Jobs -> {"none", "queued", "arrived", "lost"}]
      BY <2>9 DEF SendOk
    <3> QED
      BY <2>9, <3>1, <3>2 DEF SendOk, FlowTypes
  <2>10. CASE SendFailed(j)
    BY <2>10 DEF SendFailed, Return
  <2>11. CASE ReceiveChunk(j)
    BY <2>11 DEF ReceiveChunk
  <2>12. CASE ReceiveFailed(j)
    BY <2>12 DEF ReceiveFailed, ServerGoto
  <2>13. CASE ReceiveEnd(j)
    BY <2>13 DEF ReceiveEnd, ServerGoto
  <2>14. CASE PutFile(j)
    BY <2>14 DEF PutFile, Streamed, ServerGoto
  <2>15. CASE Arrive(j)
    BY <2>15 DEF Arrive, Named
  <2>16. CASE Lose(j)
    BY <2>16 DEF Lose
  <2>17. CASE \E b \in BOOLEAN : Begin(j, b)
    <3>1. FlowTypes'
      BY <2>17, ReportTypes DEF Begin
    <3>2. slot' \in [Jobs -> Slots \cup {NoSlot}]
      <4>1. /\ params[j] \in Params /\ kind[j] \in Kinds
            /\ params[j].path \in Paths
        OBVIOUS
      <4>2. SlotFor(params[j], kind[j], file[params[j].path]) \in Slots
        BY <4>1
      <4> QED
        BY <2>17, <4>2 DEF Begin
    <3>3. named' \in [Jobs -> Contents \cup {Unreadable, NoContent}]
      <4>1. file[params[j].path] \in Contents \cup {Unreadable, NoContent}
        OBVIOUS
      <4>2. CASE UNCHANGED named
        BY <4>2
      <4>3. CASE named' = [named EXCEPT ![j] = file[params[j].path]]
        BY <4>1, <4>3
      <4> QED
        BY <2>17, <4>2, <4>3 DEF Begin
    <3> QED
      BY <2>17, <3>1, <3>2, <3>3 DEF Begin, FlowTypes
  <2>18. CASE \E b \in BOOLEAN : CheckCancel(j, b)
    <3>1. FlowTypes'
      BY <2>18, ReportTypes DEF CheckCancel
    <3> QED
      BY <2>18, <3>1 DEF CheckCancel, FlowTypes
  <2>19. CASE \E b \in BOOLEAN : Wait(j, b)
    <3>1. FlowTypes'
      BY <2>19, ReportTypes DEF Wait
    <3> QED
      BY <2>19, <3>1 DEF Wait, FlowTypes
  <2>20. CASE \E b \in BOOLEAN : FtpsConnect(j, b)
    BY <2>20 DEF FtpsConnect, ServerGoto
  <2>21. CASE \E b \in BOOLEAN : DeleteOld(j, b)
    <3>1. PICK b \in BOOLEAN : DeleteOld(j, b)
      BY <2>21
    <3>2. remote' \in [Slots -> File]
      <4>0. [n |-> 0, of |-> NoContent] \in File
        OBVIOUS
      <4>1. CASE b
        BY <3>1, <4>0, <4>1 DEF DeleteOld
      <4>2. CASE ~b
        BY <3>1, <4>2 DEF DeleteOld
      <4> QED
        BY <4>1, <4>2
    <3> QED
      BY <3>1, <3>2 DEF DeleteOld, ServerGoto
  <2>22. CASE \E b \in BOOLEAN : FtpsQuit(j, b)
    BY <2>22 DEF FtpsQuit, ServerGoto
  <2>23. CASE \E n \in 0 .. FileLen : PutFailed(j, n)
    <3>1. PICK n \in 0 .. FileLen : PutFailed(j, n)
      BY <2>23
    <3>2. remote' \in [Slots -> File]
      <4>1. Streamed(j, n) \in File
        BY DEF Streamed
      <4>2. CASE remote' = [remote EXCEPT ![slot[j]] = Streamed(j, n)]
        BY <4>1, <4>2
      <4>3. CASE remote' = remote
        BY <4>3
      <4> QED
        BY <3>1, <4>2, <4>3 DEF PutFailed
    <3>3. server' \in [Jobs -> ServerPC]
      BY <3>1 DEF PutFailed, Streamed, ServerGoto
    <3> QED
      BY <3>1, <3>2, <3>3 DEF PutFailed
  <2> QED
    BY <1>2, <2>1, <2>2, <2>3, <2>4, <2>5, <2>6, <2>7, <2>8, <2>9,
       <2>10, <2>11, <2>12, <2>13, <2>14, <2>15, <2>16, <2>17,
       <2>18, <2>19, <2>20, <2>21, <2>22, <2>23
       DEF FlowStep, ServerStep
<1>3. ASSUME NEW path \in Paths, NEW c \in Contents \cup {Unreadable},
             Rewrite(path, c)
      PROVE  TypeOK'
  BY <1>3 DEF Rewrite
<1>4. ASSUME NEW d \in Targets, Forget(d) PROVE TypeOK'
  BY <1>4 DEF Forget
<1> QED
  BY <1>1, <1>2, <1>3, <1>4 DEF Next

(* Every step keeps what the receive loop and the transfers establish.     *)
LEMMA StreamStep ==
    ASSUME TypeOK, WholeStreams, [Next]_vars
    PROVE  WholeStreams'
<1> USE SubmissionAssumption DEF TypeOK, FlowPC, ServerPC, Kinds, Stages,
         Results, Refusals, WholeStreams, Received, flow, naming, request,
         stream, files, farm, printer
<1>1. CASE UNCHANGED vars
  BY <1>1 DEF vars
<1>2. ASSUME NEW j \in Jobs,
             Start(j) \/ FlowStep(j) \/ ServerStep(j) \/ Arrive(j) \/ Lose(j)
      PROVE  WholeStreams'
  <2>1. CASE Start(j)
    BY <2>1 DEF Start, Report
  <2>2. CASE UploadOpen(j)
    BY <2>2 DEF UploadOpen
  <2>3. CASE UploadNotOpened(j)
    BY <2>3 DEF UploadNotOpened, Return, UploadFailure
  <2>4. CASE ReadChunk(j)
    BY <2>4 DEF ReadChunk
  <2>5. CASE ReadEnd(j) \/ ReadFailed(j)
    BY <2>5 DEF ReadEnd, ReadFailed
  <2>6. CASE UploadOk(j)
    BY <2>6 DEF UploadOk, Return
  <2>7. CASE UploadFailed(j)
    BY <2>7 DEF UploadFailed, Return, UploadFailure
  <2>8. CASE RpcBroken(j)
    BY <2>8 DEF RpcBroken, Return, UploadFailure
  <2>9. CASE SendOk(j)
    BY <2>9 DEF SendOk, Return, Report
  <2>10. CASE SendFailed(j)
    BY <2>10 DEF SendFailed, Return
  <2>11. CASE ReceiveChunk(j)
    BY <2>11 DEF ReceiveChunk
  <2>12. CASE ReceiveFailed(j)
    BY <2>12 DEF ReceiveFailed, ServerGoto
  <2>13. CASE ReceiveEnd(j)
    BY <2>13 DEF ReceiveEnd, ServerGoto
  <2>14. CASE PutFile(j)
    BY <2>14 DEF PutFile, Streamed, ServerGoto
  <2>15. CASE Arrive(j)
    BY <2>15 DEF Arrive
  <2>16. CASE Lose(j)
    BY <2>16 DEF Lose
  <2>17. CASE \E b \in BOOLEAN : Begin(j, b)
    BY <2>17 DEF Begin, Return, Report
  <2>18. CASE \E b \in BOOLEAN : CheckCancel(j, b)
    BY <2>18 DEF CheckCancel, Return, Report
  <2>19. CASE \E b \in BOOLEAN : Wait(j, b)
    BY <2>19 DEF Wait, Return
  <2>20. CASE \E b \in BOOLEAN : FtpsConnect(j, b)
    BY <2>20 DEF FtpsConnect, ServerGoto
  <2>21. CASE \E b \in BOOLEAN : DeleteOld(j, b)
    BY <2>21 DEF DeleteOld, ServerGoto
  <2>22. CASE \E b \in BOOLEAN : FtpsQuit(j, b)
    BY <2>22 DEF FtpsQuit, ServerGoto
  <2>23. CASE \E n \in 0 .. FileLen : PutFailed(j, n)
    BY <2>23 DEF PutFailed, Streamed, ServerGoto
  <2> QED
    BY <1>2, <2>1, <2>2, <2>3, <2>4, <2>5, <2>6, <2>7, <2>8, <2>9,
       <2>10, <2>11, <2>12, <2>13, <2>14, <2>15, <2>16, <2>17,
       <2>18, <2>19, <2>20, <2>21, <2>22, <2>23
       DEF FlowStep, ServerStep
<1>3. ASSUME NEW path \in Paths, NEW c \in Contents \cup {Unreadable},
             Rewrite(path, c)
      PROVE  WholeStreams'
  BY <1>3 DEF Rewrite
<1>4. ASSUME NEW d \in Targets, Forget(d) PROVE WholeStreams'
  BY <1>4 DEF Forget
<1> QED
  BY <1>1, <1>2, <1>3, <1>4 DEF Next

(* Every step keeps what is known at each point of a flow.                 *)
LEMMA OutcomeStep ==
    ASSUME TypeOK, WholeStreams, Outcomes, [Next]_vars
    PROVE  Outcomes'
<1> USE SubmissionAssumption DEF TypeOK, FlowPC, ServerPC, Kinds, Stages,
         Results, Refusals, WholeStreams, Received, Outcomes, Progress,
         Named,
         ReturnTellsOutcome, flow, naming, request,
         stream, files, farm, printer
<1>1. CASE UNCHANGED vars
  BY <1>1 DEF vars
<1>2. ASSUME NEW j \in Jobs,
             Start(j) \/ FlowStep(j) \/ ServerStep(j) \/ Arrive(j) \/ Lose(j)
      PROVE  Outcomes'
  <2>1. CASE Start(j)
    BY <2>1 DEF Start, Report
  <2>2. CASE UploadOpen(j)
    BY <2>2 DEF UploadOpen
  <2>3. CASE UploadNotOpened(j)
    BY <2>3 DEF UploadNotOpened, Return, UploadFailure
  <2>4. CASE ReadChunk(j)
    BY <2>4 DEF ReadChunk
  <2>5. CASE ReadEnd(j) \/ ReadFailed(j)
    BY <2>5 DEF ReadEnd, ReadFailed
  <2>6. CASE UploadOk(j)
    BY <2>6 DEF UploadOk, Return
  <2>7. CASE UploadFailed(j)
    BY <2>7 DEF UploadFailed, Return, UploadFailure
  <2>8. CASE RpcBroken(j)
    BY <2>8 DEF RpcBroken, Return, UploadFailure
  <2>9. CASE SendOk(j)
    BY <2>9 DEF SendOk, Return, Report
  <2>10. CASE SendFailed(j)
    BY <2>10 DEF SendFailed, Return
  <2>11. CASE ReceiveChunk(j)
    BY <2>11 DEF ReceiveChunk
  <2>12. CASE ReceiveFailed(j)
    BY <2>12 DEF ReceiveFailed, ServerGoto
  <2>13. CASE ReceiveEnd(j)
    BY <2>13 DEF ReceiveEnd, ServerGoto
  <2>14. CASE PutFile(j)
    BY <2>14 DEF PutFile, Streamed, ServerGoto
  <2>15. CASE Arrive(j)
    BY <2>15 DEF Arrive
  <2>16. CASE Lose(j)
    BY <2>16 DEF Lose
  <2>17. CASE \E b \in BOOLEAN : Begin(j, b)
    BY <2>17 DEF Begin, Return, Report
  <2>18. CASE \E b \in BOOLEAN : CheckCancel(j, b)
    BY <2>18 DEF CheckCancel, Return, Report
  <2>19. CASE \E b \in BOOLEAN : Wait(j, b)
    BY <2>19 DEF Wait, Return
  <2>20. CASE \E b \in BOOLEAN : FtpsConnect(j, b)
    BY <2>20 DEF FtpsConnect, ServerGoto
  <2>21. CASE \E b \in BOOLEAN : DeleteOld(j, b)
    BY <2>21 DEF DeleteOld, ServerGoto
  <2>22. CASE \E b \in BOOLEAN : FtpsQuit(j, b)
    BY <2>22 DEF FtpsQuit, ServerGoto
  <2>23. CASE \E n \in 0 .. FileLen : PutFailed(j, n)
    BY <2>23 DEF PutFailed, Streamed, ServerGoto
  <2> QED
    BY <1>2, <2>1, <2>2, <2>3, <2>4, <2>5, <2>6, <2>7, <2>8, <2>9,
       <2>10, <2>11, <2>12, <2>13, <2>14, <2>15, <2>16, <2>17,
       <2>18, <2>19, <2>20, <2>21, <2>22, <2>23
       DEF FlowStep, ServerStep
<1>3. ASSUME NEW path \in Paths, NEW c \in Contents \cup {Unreadable},
             Rewrite(path, c)
      PROVE  Outcomes'
  BY <1>3 DEF Rewrite
<1>4. ASSUME NEW d \in Targets, Forget(d) PROVE Outcomes'
  BY <1>4 DEF Forget
<1> QED
  BY <1>1, <1>2, <1>3, <1>4 DEF Next

(* The initial states satisfy the inductive invariant.                     *)
LEMMA InitEstablishes == Init => IndInv
<1> SUFFICES ASSUME Init PROVE IndInv
  OBVIOUS
<1>1. TypeOK
  BY SubmissionAssumption DEF Init, TypeOK, FlowPC, ServerPC, Kinds, Stages, Results, Held,
                              File, Absent
<1>2. WholeStreams
  <2>1. ASSUME NEW j \in Jobs PROVE server[j] = "idle" /\ ~(put[j] > 0)
    BY DEF Init
  <2> QED
    BY <2>1 DEF WholeStreams, Received
<1>3. Outcomes
  BY DEF Init, Outcomes, Progress, Named, ReturnTellsOutcome, Refusals
<1> QED
  BY <1>1, <1>2, <1>3 DEF IndInv

(* The invariant is inductive.                                             *)
THEOREM IndInvHolds == Spec => []IndInv
<1>1. Init => IndInv
  BY InitEstablishes
<1>2. IndInv /\ [Next]_vars => IndInv'
  BY TypeStep, StreamStep, OutcomeStep DEF IndInv, Outcomes
<1> QED
  BY <1>1, <1>2, PTL DEF Spec

(* Requests, files, streams, slots and commands keep their types.          *)
THEOREM TypeCorrect == Spec => []TypeOK
<1>1. IndInv => TypeOK
  BY DEF IndInv
<1> QED
  BY <1>1, IndInvHolds, PTL

(* AcknowledgedIsWholeStream: a stream that breaks, a refused chunk or a   *)
(* failing FTP client never makes a file the printer acknowledged differ   *)
(* from what the client streamed to its end.                               *)
THEOREM AcknowledgedAlways == Spec => []AcknowledgedIsWholeStream
<1>1. IndInv => AcknowledgedIsWholeStream
  BY DEF IndInv, WholeStreams, AcknowledgedIsWholeStream
<1> QED
  BY <1>1, IndInvHolds, PTL

(* ReturnTellsOutcome: the code each flow of print_flow.cpp returns agrees *)
(* with what it made the farm and the printer do.                          *)
THEOREM ReturnTellsOutcomeAlways == Spec => []ReturnTellsOutcome
<1>1. IndInv => ReturnTellsOutcome
  BY DEF IndInv, Outcomes
<1> QED
  BY <1>1, IndInvHolds, PTL

(* No other job uploads into the slot of this one.                         *)
Alone(j) == \A k \in Jobs \ {j} : slot[k] = slot[j] => server[k] = "idle"

(* What the printer holds for a job that has its slot for itself.          *)
Matches(j) ==
    /\ server[j] # "idle" =>
         pc[j] \notin {"idle", "begun", "dial"} /\ slot[j] \in Slots
    /\ kind[j] \in Printing /\ (pc[j] \in {"uploaded", "send", "wait"} \/ cmd[j] # "none")
         => server[j] = "ok"
    /\ server[j] \in {"quit", "ok"} /\ Alone(j) => remote[slot[j]].n = read[j]
    /\ cmd[j] = "arrived" /\ kind[j] \in Printing /\ Alone(j)
         => printed[j].n = read[j]

AllMatch == \A j \in Jobs : Matches(j)

(* Every step keeps what the printer holds for such a job.                 *)
LEMMA MatchStep ==
    ASSUME IndInv, AllMatch, [Next]_vars
    PROVE  AllMatch'
<1> USE SubmissionAssumption DEF IndInv, TypeOK, FlowPC, ServerPC, Kinds, Printing,
         WholeStreams, Received, Outcomes, Progress, Named, Alone, Matches,
         AllMatch, flow, naming, request, stream, files, farm, printer
<1>1. CASE UNCHANGED vars
  BY <1>1 DEF vars
<1>2. ASSUME NEW j \in Jobs,
             Start(j) \/ FlowStep(j) \/ ServerStep(j) \/ Arrive(j) \/ Lose(j)
      PROVE  AllMatch'
  <2>1. CASE Start(j)
    BY <2>1 DEF Start, Report
  <2>2. CASE UploadOpen(j)
    BY <2>2 DEF UploadOpen
  <2>3. CASE UploadNotOpened(j)
    BY <2>3 DEF UploadNotOpened, Return
  <2>4. CASE ReadChunk(j)
    BY <2>4 DEF ReadChunk
  <2>5. CASE ReadEnd(j) \/ ReadFailed(j)
    BY <2>5 DEF ReadEnd, ReadFailed
  <2>6. CASE UploadOk(j)
    BY <2>6 DEF UploadOk, Return
  <2>7. CASE UploadFailed(j)
    BY <2>7 DEF UploadFailed, Return
  <2>8. CASE RpcBroken(j)
    BY <2>8 DEF RpcBroken, Return
  <2>9. CASE SendOk(j)
    BY <2>9 DEF SendOk, Return, Report
  <2>10. CASE SendFailed(j)
    BY <2>10 DEF SendFailed, Return
  <2>11. CASE ReceiveChunk(j)
    BY <2>11 DEF ReceiveChunk
  <2>12. CASE ReceiveFailed(j)
    BY <2>12 DEF ReceiveFailed, ServerGoto
  <2>13. CASE ReceiveEnd(j)
    BY <2>13 DEF ReceiveEnd, ServerGoto
  <2>14. CASE PutFile(j)
    BY <2>14 DEF PutFile, Streamed, ServerGoto
  <2>15. CASE Arrive(j)
    BY <2>15 DEF Arrive
  <2>16. CASE Lose(j)
    BY <2>16 DEF Lose
  <2>17. CASE \E b \in BOOLEAN : Begin(j, b)
    BY <2>17 DEF Begin, Return, Report
  <2>18. CASE \E b \in BOOLEAN : CheckCancel(j, b)
    BY <2>18 DEF CheckCancel, Return, Report
  <2>19. CASE \E b \in BOOLEAN : Wait(j, b)
    BY <2>19 DEF Wait, Return
  <2>20. CASE \E b \in BOOLEAN : FtpsConnect(j, b)
    BY <2>20 DEF FtpsConnect, ServerGoto
  <2>21. CASE \E b \in BOOLEAN : DeleteOld(j, b)
    BY <2>21 DEF DeleteOld, ServerGoto
  <2>22. CASE \E b \in BOOLEAN : FtpsQuit(j, b)
    BY <2>22 DEF FtpsQuit, ServerGoto
  <2>23. CASE \E n \in 0 .. FileLen : PutFailed(j, n)
    BY <2>23 DEF PutFailed, ServerGoto
  <2> QED
    BY <1>2, <2>1, <2>2, <2>3, <2>4, <2>5, <2>6, <2>7, <2>8, <2>9,
       <2>10, <2>11, <2>12, <2>13, <2>14, <2>15, <2>16, <2>17, <2>18,
       <2>19, <2>20, <2>21, <2>22, <2>23
       DEF FlowStep, ServerStep
<1>3. ASSUME NEW path \in Paths, NEW c \in Contents \cup {Unreadable},
             Rewrite(path, c)
      PROVE  AllMatch'
  BY <1>3 DEF Rewrite
<1>4. ASSUME NEW d \in Targets, Forget(d) PROVE AllMatch'
  BY <1>4 DEF Forget
<1> QED
  BY <1>1, <1>2, <1>3, <1>4 DEF Next

(* PrintedIsStreamed: FTPS that fails half way or after the transfer, and  *)
(* curl that does it all again, leave on the printer what was streamed.    *)
THEOREM PrintedIsStreamedAlways == Spec => []PrintedIsStreamed
<1>1. Init => AllMatch
  BY DEF Init, AllMatch, Matches
<1>2. IndInv /\ AllMatch /\ [Next]_vars => AllMatch'
  BY MatchStep
<1>3. AllMatch => PrintedIsStreamed
  BY DEF AllMatch, Matches, Alone, PrintedIsStreamed
<1> QED
  BY <1>1, <1>2, <1>3, IndInvHolds, PTL DEF Spec

-----------------------------------------------------------------------------
(* What sanitizing and normalizing leave of a name, beside its stem and    *)
(* extensions.                                                             *)
Plain(n) == n = Name(n.stem, n.ext)

LEMMA NormalizePlain ==
    ASSUME NEW n, Plain(n)
    PROVE  Plain(Sanitize(n)) /\ Plain(Normalize(n))
<1>1. ASSUME NEW m, Plain(m), NEW x
      PROVE  Plain([m EXCEPT !.ext = x]) /\ Plain([m EXCEPT !.stem = x])
  <2>1. PICK a, b : m = [stem |-> a, ext |-> b, suffix |-> NoSuffix]
    BY <1>1 DEF Plain, Name
  <2>2. /\ [m EXCEPT !.ext = x] = [stem |-> a, ext |-> x, suffix |-> NoSuffix]
        /\ [m EXCEPT !.stem = x] = [stem |-> x, ext |-> b, suffix |-> NoSuffix]
    BY <2>1
  <2>3. ASSUME NEW u, NEW v
        PROVE  Plain([stem |-> u, ext |-> v, suffix |-> NoSuffix])
    BY DEF Plain, Name
  <2> QED
    BY <2>2, <2>3
<1>2. \A s, e : Plain(Name(s, e))
  BY DEF Plain, Name
<1>3. Plain(Sanitize(n))
  BY <1>1, <1>2 DEF Sanitize
<1>4. Plain(Normalize(n))
  <2> DEFINE m == Sanitize(n)
             base == IF EndsWith(m, <<"3mf">>) THEN Without(m, <<"3mf">>) ELSE m
  <2>1. Normalize(n) = IF EndsWith(m, GcodePackage) THEN m
                       ELSE [base EXCEPT !.ext = @ \o GcodePackage]
    BY DEF Normalize
  <2>2. Plain(base)
    BY <1>1, <1>3 DEF Without
  <2>3. Plain([base EXCEPT !.ext = @ \o GcodePackage])
    BY <1>1, <2>2
  <2> HIDE DEF m, base
  <2> QED
    BY <1>3, <2>1, <2>3 DEF m
<1> QED
  BY <1>3, <1>4

(* resolve_remote_filename puts the hash into the name, or nothing.        *)
LEMMA RemoteSuffix ==
    ASSUME NEW p \in Params, NEW c
    PROVE  RemoteFilename(p, c).suffix =
               IF NamedByContent(p) THEN PackageSuffix(p, c) ELSE NoSuffix
<1>1. \A n \in {p.source, p.project, p.task, p.ftp, p.dst} : n = Empty \/ Plain(n)
  BY NamesAssumption DEF Plain
<1>2. ASSUME NEW n, Plain(n), NEW x PROVE Package(n, x).suffix = x
  <2>1. Plain(Normalize(n))
    BY <1>2, NormalizePlain
  <2> QED
    BY <2>1 DEF Package, Plain, Name
<1>3. ASSUME NEW n, Plain(n) PROVE Sanitize(n).suffix = NoSuffix
  <2>1. Plain(Sanitize(n))
    BY <1>3, NormalizePlain
  <2> QED
    BY <2>1 DEF Plain, Name
<1>4. Name(DefaultStem, GcodePackage).suffix = NoSuffix
  BY DEF Name
<1> QED
  BY <1>1, <1>2, <1>3, <1>4 DEF RemoteFilename, NamedByContent, IsPackage

(* The slot of an uploading job carries the hash of what it was named by.  *)
SlotTells(j) ==
    /\ server[j] # "idle" \/ pc[j] \in {"dial", "upload", "uploaded"} => kind[j] # "sdcard"
    /\ slot[j] # NoSlot /\ kind[j] # "sdcard" =>
         /\ named[j] \in Contents \cup {Unreadable}
         /\ slot[j].name.suffix =
               IF NamedByContent(params[j])
                 THEN PackageSuffix(params[j], named[j]) ELSE NoSuffix
    /\ kind[j] \in Printing /\ cmd[j] # "none" => slot[j] # NoSlot

AllTell == \A j \in Jobs : SlotTells(j)

(* Every step keeps the slots telling.                                     *)
LEMMA TellStep ==
    ASSUME IndInv, AllMatch, AllTell, [Next]_vars
    PROVE  AllTell'
<1> USE SubmissionAssumption DEF IndInv, TypeOK, FlowPC, ServerPC, Kinds, Printing,
         Outcomes, Progress, Named, AllMatch, Matches, SlotTells, AllTell,
         flow, naming, request, stream, files, farm, printer
<1>1. CASE UNCHANGED vars
  BY <1>1 DEF vars
<1>2. ASSUME NEW j \in Jobs,
             Start(j) \/ FlowStep(j) \/ ServerStep(j) \/ Arrive(j) \/ Lose(j)
      PROVE  AllTell'
  <2>1. CASE Start(j)
    BY <2>1 DEF Start, Report
  <2>2. CASE UploadOpen(j)
    BY <2>2 DEF UploadOpen
  <2>3. CASE UploadNotOpened(j)
    BY <2>3 DEF UploadNotOpened, Return
  <2>4. CASE ReadChunk(j)
    BY <2>4 DEF ReadChunk
  <2>5. CASE ReadEnd(j) \/ ReadFailed(j)
    BY <2>5 DEF ReadEnd, ReadFailed
  <2>6. CASE UploadOk(j)
    BY <2>6 DEF UploadOk, Return
  <2>7. CASE UploadFailed(j)
    BY <2>7 DEF UploadFailed, Return
  <2>8. CASE RpcBroken(j)
    BY <2>8 DEF RpcBroken, Return
  <2>9. CASE SendOk(j)
    BY <2>9 DEF SendOk, Return, Report
  <2>10. CASE SendFailed(j)
    BY <2>10 DEF SendFailed, Return
  <2>11. CASE ReceiveChunk(j)
    BY <2>11 DEF ReceiveChunk
  <2>12. CASE ReceiveFailed(j)
    BY <2>12 DEF ReceiveFailed, ServerGoto
  <2>13. CASE ReceiveEnd(j)
    BY <2>13 DEF ReceiveEnd, ServerGoto
  <2>14. CASE PutFile(j)
    BY <2>14 DEF PutFile, Streamed, ServerGoto
  <2>15. CASE Arrive(j)
    BY <2>15 DEF Arrive
  <2>16. CASE Lose(j)
    BY <2>16 DEF Lose
  <2>17. CASE \E b \in BOOLEAN : Begin(j, b)
    <3> DEFINE c == file[params[j].path]
    <3>1. /\ kind' = kind /\ params' = params /\ server' = server /\ cmd' = cmd
          /\ \A k \in Jobs : k # j => /\ pc'[k] = pc[k] /\ slot'[k] = slot[k]
                                     /\ named'[k] = named[k]
      BY <2>17 DEF Begin, Return, Report
    <3>2. /\ server[j] = "idle" /\ cmd[j] = "none"
          /\ pc'[j] \in {"dial", "upload", "uploaded"} => kind[j] # "sdcard"
      BY <2>17 DEF Begin, Return, Report
    <3>3. CASE UNCHANGED naming
      BY <3>1, <3>2, <3>3
    <3>4. CASE /\ slot'[j] = SlotFor(params[j], kind[j], c)
               /\ named'[j] = c
      <4>1. c \in Contents \cup {Unreadable} /\ params[j] \in Params
        OBVIOUS
      <4>2. kind[j] # "sdcard" => slot'[j].name = RemoteFilename(params[j], c)
        BY <3>4 DEF SlotFor
      <4>3. kind[j] # "sdcard" =>
              slot'[j].name.suffix = IF NamedByContent(params[j])
                                       THEN PackageSuffix(params[j], c) ELSE NoSuffix
        BY <4>1, <4>2, RemoteSuffix
      <4> QED
        BY <3>1, <3>2, <3>4, <4>1, <4>3
    <3> QED
      BY <2>17, <3>3, <3>4 DEF Begin
  <2>18. CASE \E b \in BOOLEAN : CheckCancel(j, b)
    BY <2>18 DEF CheckCancel, Return, Report
  <2>19. CASE \E b \in BOOLEAN : Wait(j, b)
    BY <2>19 DEF Wait, Return
  <2>20. CASE \E b \in BOOLEAN : FtpsConnect(j, b)
    BY <2>20 DEF FtpsConnect, ServerGoto
  <2>21. CASE \E b \in BOOLEAN : DeleteOld(j, b)
    BY <2>21 DEF DeleteOld, ServerGoto
  <2>22. CASE \E b \in BOOLEAN : FtpsQuit(j, b)
    BY <2>22 DEF FtpsQuit, ServerGoto
  <2>23. CASE \E n \in 0 .. FileLen : PutFailed(j, n)
    BY <2>23 DEF PutFailed, ServerGoto
  <2> QED
    BY <1>2, <2>1, <2>2, <2>3, <2>4, <2>5, <2>6, <2>7, <2>8, <2>9,
       <2>10, <2>11, <2>12, <2>13, <2>14, <2>15, <2>16, <2>17, <2>18,
       <2>19, <2>20, <2>21, <2>22, <2>23
       DEF FlowStep, ServerStep
<1>3. ASSUME NEW path \in Paths, NEW c \in Contents \cup {Unreadable},
             Rewrite(path, c)
      PROVE  AllTell'
  BY <1>3 DEF Rewrite
<1>4. ASSUME NEW d \in Targets, Forget(d) PROVE AllTell'
  BY <1>4 DEF Forget
<1> QED
  BY <1>1, <1>2, <1>3, <1>4 DEF Next

(* A stream that has ended stays what it was, and where it was going.      *)
LEMMA EndedStep ==
    ASSUME IndInv, AllMatch, [Next]_vars, NEW k \in Jobs,
           server[k] # "idle", ended[k]
    PROVE  /\ server'[k] # "idle" /\ ended'[k]
           /\ slot'[k] = slot[k] /\ sent'[k] = sent[k]
<1> USE DEF IndInv, TypeOK, FlowPC, ServerPC, AllMatch, Matches,
         flow, naming, request, stream, files, farm, printer
<1> DEFINE Goal == /\ server'[k] # "idle" /\ ended'[k]
                   /\ slot'[k] = slot[k] /\ sent'[k] = sent[k]
<1>1. CASE UNCHANGED vars
  BY <1>1 DEF vars
<1>2. ASSUME NEW j \in Jobs,
             Start(j) \/ FlowStep(j) \/ ServerStep(j) \/ Arrive(j) \/ Lose(j)
      PROVE  Goal
  <2>1. CASE Start(j)
    BY <2>1 DEF Start, Report
  <2>2. CASE UploadOpen(j)
    BY <2>2 DEF UploadOpen
  <2>3. CASE UploadNotOpened(j)
    BY <2>3 DEF UploadNotOpened, Return
  <2>4. CASE ReadChunk(j)
    BY <2>4 DEF ReadChunk
  <2>5. CASE ReadEnd(j) \/ ReadFailed(j)
    BY <2>5 DEF ReadEnd, ReadFailed
  <2>6. CASE UploadOk(j)
    BY <2>6 DEF UploadOk, Return
  <2>7. CASE UploadFailed(j)
    BY <2>7 DEF UploadFailed, Return
  <2>8. CASE RpcBroken(j)
    BY <2>8 DEF RpcBroken, Return
  <2>9. CASE SendOk(j)
    BY <2>9 DEF SendOk, Return, Report
  <2>10. CASE SendFailed(j)
    BY <2>10 DEF SendFailed, Return
  <2>11. CASE ReceiveChunk(j)
    BY <2>11 DEF ReceiveChunk
  <2>12. CASE ReceiveFailed(j)
    BY <2>12 DEF ReceiveFailed, ServerGoto
  <2>13. CASE ReceiveEnd(j)
    BY <2>13 DEF ReceiveEnd, ServerGoto
  <2>14. CASE PutFile(j)
    BY <2>14 DEF PutFile, Streamed, ServerGoto
  <2>15. CASE Arrive(j)
    BY <2>15 DEF Arrive
  <2>16. CASE Lose(j)
    BY <2>16 DEF Lose
  <2>17. CASE \E b \in BOOLEAN : Begin(j, b)
    BY <2>17 DEF Begin, Return, Report
  <2>18. CASE \E b \in BOOLEAN : CheckCancel(j, b)
    BY <2>18 DEF CheckCancel, Return, Report
  <2>19. CASE \E b \in BOOLEAN : Wait(j, b)
    BY <2>19 DEF Wait, Return
  <2>20. CASE \E b \in BOOLEAN : FtpsConnect(j, b)
    BY <2>20 DEF FtpsConnect, ServerGoto
  <2>21. CASE \E b \in BOOLEAN : DeleteOld(j, b)
    BY <2>21 DEF DeleteOld, ServerGoto
  <2>22. CASE \E b \in BOOLEAN : FtpsQuit(j, b)
    BY <2>22 DEF FtpsQuit, ServerGoto
  <2>23. CASE \E n \in 0 .. FileLen : PutFailed(j, n)
    BY <2>23 DEF PutFailed, ServerGoto
  <2> QED
    BY <1>2, <2>1, <2>2, <2>3, <2>4, <2>5, <2>6, <2>7, <2>8, <2>9,
       <2>10, <2>11, <2>12, <2>13, <2>14, <2>15, <2>16, <2>17, <2>18,
       <2>19, <2>20, <2>21, <2>22, <2>23
       DEF FlowStep, ServerStep
<1>3. ASSUME NEW path \in Paths, NEW c \in Contents \cup {Unreadable},
             Rewrite(path, c)
      PROVE  Goal
  BY <1>3 DEF Rewrite
<1>4. ASSUME NEW d \in Targets, Forget(d) PROVE Goal
  BY <1>4 DEF Forget
<1> QED
  BY <1>1, <1>2, <1>3, <1>4 DEF Next

(* A content on the printer is there because a job streamed it to its end. *)
Source(s, c) ==
    \/ c = NoContent
    \/ \E k \in Jobs : server[k] # "idle" /\ ended[k] /\ slot[k] = s /\ sent[k] = c

Sourced ==
    /\ \A s \in Slots : Source(s, remote[s].of)
    /\ \A j \in Jobs : cmd[j] = "arrived" => Source(slot[j], printed[j].of)

(* Every step keeps that.                                                  *)
LEMMA SourceStep ==
    ASSUME IndInv, AllMatch, Sourced, [Next]_vars
    PROVE  Sourced'
<1> DEFINE Still(t, c) ==
              \/ c = NoContent
              \/ \E k \in Jobs : /\ server'[k] # "idle" /\ ended'[k]
                                /\ slot'[k] = t /\ sent'[k] = c
           Kept == /\ \A t \in Slots : Still(t, remote'[t].of)
                   /\ \A i \in Jobs : cmd'[i] = "arrived" =>
                                       Still(slot'[i], printed'[i].of)
           Same == /\ remote' = remote
                   /\ \A i \in Jobs : cmd'[i] = "arrived" =>
                         /\ cmd[i] = "arrived" /\ slot'[i] = slot[i]
                         /\ printed'[i] = printed[i]
<1>1. ASSUME NEW t, NEW c, Source(t, c) PROVE Still(t, c)
  BY <1>1, EndedStep DEF Source
<1>2. /\ \A t \in Slots : Still(t, remote[t].of)
      /\ \A i \in Jobs : cmd[i] = "arrived" => Still(slot[i], printed[i].of)
  BY <1>1 DEF Sourced
<1>3. ASSUME NEW t \in Slots, remote'[t].of = NoContent PROVE Still(t, remote'[t].of)
  BY <1>3
<1>4. SUFFICES Kept
  BY DEF Sourced, Source
<1> HIDE DEF Still
<1>5. ASSUME Same PROVE Kept
  BY <1>2, <1>5
<1>6. ASSUME NEW j \in Jobs,
             \/ \E b \in BOOLEAN : DeleteOld(j, b)
             \/ PutFile(j)
             \/ \E n \in 0 .. FileLen : PutFailed(j, n)
      PROVE  Kept
  <2>1. /\ cmd' = cmd /\ slot' = slot /\ printed' = printed /\ sent' = sent
        /\ ended' = ended
    BY <1>6 DEF DeleteOld, PutFile, PutFailed, flow, naming, stream, printer
  <2>2. /\ server[j] \notin {"idle", "recv", "failed"} /\ ended[j]
    BY <1>6 DEF DeleteOld, PutFile, PutFailed, IndInv, WholeStreams, Received
  <2>3. Still(slot[j], sent[j])
    BY <1>1, <2>2 DEF Source
  <2>4. ASSUME NEW t \in Slots
        PROVE  remote'[t].of \in {remote[t].of, NoContent}
                 \/ (t = slot[j] /\ remote'[t].of = sent[j])
    BY <1>6 DEF DeleteOld, PutFile, PutFailed, Streamed, Absent, IndInv, TypeOK
  <2>5. ASSUME NEW t \in Slots PROVE Still(t, remote'[t].of)
    BY <1>2, <1>3, <2>3, <2>4
  <2> QED
    BY <1>2, <2>1, <2>5
<1>7. ASSUME NEW j \in Jobs, Arrive(j) PROVE Kept
  <2>1. /\ remote' = remote /\ slot' = slot /\ printed'[j] = remote[slot[j]]
        /\ \A i \in Jobs : i # j => cmd'[i] = cmd[i] /\ printed'[i] = printed[i]
        /\ cmd[j] = "queued"
    BY <1>7 DEF Arrive, flow, naming, farm, IndInv, TypeOK
  <2>2. slot[j] \in Slots
    BY <2>1 DEF IndInv, Outcomes, Named
  <2> QED
    BY <1>2, <2>1, <2>2
<1>8. ASSUME NEW j \in Jobs,
             \/ Start(j) \/ UploadOpen(j) \/ UploadNotOpened(j)
             \/ ReadChunk(j) \/ ReadEnd(j) \/ ReadFailed(j)
             \/ UploadOk(j) \/ UploadFailed(j) \/ RpcBroken(j)
             \/ SendOk(j) \/ SendFailed(j) \/ Lose(j)
             \/ ReceiveChunk(j) \/ ReceiveFailed(j) \/ ReceiveEnd(j)
             \/ \E b \in BOOLEAN : CheckCancel(j, b) \/ Wait(j, b)
                                  \/ FtpsConnect(j, b) \/ FtpsQuit(j, b)
      PROVE  Kept
  <2>1. Same
    <3>1. remote' = remote /\ slot' = slot /\ printed' = printed
      BY <1>8 DEF Start, UploadOpen, UploadNotOpened, ReadChunk, ReadEnd,
           ReadFailed, UploadOk, UploadFailed, RpcBroken, SendOk, SendFailed,
           Lose, ReceiveChunk, ReceiveFailed, ReceiveEnd, CheckCancel, Wait,
           FtpsConnect, FtpsQuit, flow, naming, farm, printer
    <3>2. \A i \in Jobs : cmd'[i] = "arrived" => cmd[i] = "arrived"
      BY <1>8 DEF Start, UploadOpen, UploadNotOpened, ReadChunk, ReadEnd,
           ReadFailed, UploadOk, UploadFailed, RpcBroken, SendOk, SendFailed,
           Lose, ReceiveChunk, ReceiveFailed, ReceiveEnd, CheckCancel, Wait,
           FtpsConnect, FtpsQuit, printer, IndInv, TypeOK
    <3> QED
      BY <3>1, <3>2
  <2> QED
    BY <1>5, <2>1
<1>9. ASSUME NEW j \in Jobs, \E b \in BOOLEAN : Begin(j, b) PROVE Kept
  <2>1. /\ remote' = remote /\ printed' = printed /\ cmd' = cmd /\ cmd[j] = "none"
        /\ \A i \in Jobs : i # j => slot'[i] = slot[i]
    BY <1>9 DEF Begin, naming, farm, printer, IndInv, TypeOK, Outcomes, Progress
  <2> QED
    BY <1>5, <2>1
<1>10. ASSUME NEW path \in Paths, NEW c \in Contents \cup {Unreadable},
              Rewrite(path, c)
       PROVE  Kept
  BY <1>5, <1>10 DEF Rewrite, flow, naming, farm, printer
<1>12. ASSUME NEW d \in Targets, Forget(d) PROVE Kept
  BY <1>5, <1>12 DEF Forget, flow, naming, farm, printer
<1>11. CASE UNCHANGED vars
  BY <1>5, <1>11 DEF vars
<1> QED
  BY <1>6, <1>7, <1>8, <1>9, <1>10, <1>11, <1>12 DEF Next, FlowStep, ServerStep

(* What the printer holds, what the slots tell and where contents come     *)
(* from, together.                                                         *)
LEMMA StorageHolds == Spec => [](AllMatch /\ AllTell /\ Sourced)
<1>1. Init => AllMatch /\ AllTell /\ Sourced
  <2> SUFFICES ASSUME Init PROVE AllMatch /\ AllTell /\ Sourced
    OBVIOUS
  <2>1. AllMatch
    BY DEF Init, AllMatch, Matches
  <2>2. AllTell
    BY DEF Init, AllTell, SlotTells
  <2>3. Sourced
    BY DEF Init, Sourced, Source, Absent
  <2> QED
    BY <2>1, <2>2, <2>3
<1>2. IndInv /\ AllMatch /\ AllTell /\ Sourced /\ [Next]_vars
        => (AllMatch /\ AllTell /\ Sourced)'
  BY MatchStep, TellStep, SourceStep
<1> QED
  BY <1>1, <1>2, IndInvHolds, PTL DEF Spec

(* PrintedIsOurs: whatever is uploaded into a slot whose name tells its    *)
(* content was named by that content.                                      *)
THEOREM PrintedIsOursAlways == Spec => []PrintedIsOurs
<1>1. IndInv /\ AllMatch /\ AllTell /\ Sourced => PrintedIsOurs
  <2> SUFFICES ASSUME IndInv, AllMatch, AllTell, Sourced, NEW j \in Jobs,
                      cmd[j] = "arrived", kind[j] \in Printing,
                      NamedByContent(params[j]), printed[j].of # NoContent,
                      \A k \in Jobs : slot[k] = slot[j] =>
                                         sent[k] \in {NoContent, named[k]}
               PROVE  printed[j].of = named[j]
    BY DEF PrintedIsOurs
  <2>1. PICK k \in Jobs : /\ server[k] # "idle" /\ slot[k] = slot[j]
                          /\ sent[k] = printed[j].of
    BY DEF Sourced, Source
  <2>2. sent[k] = named[k]
    BY <2>1
  <2>3. named[k] \in Contents
    BY <2>1, <2>2, NamesAssumption DEF IndInv, TypeOK, Held
  <2>4. /\ kind[k] # "sdcard" /\ slot[k] \in Slots /\ slot[k] # NoSlot
        /\ kind[j] # "sdcard"
    BY <2>1, SubmissionAssumption DEF AllTell, SlotTells, AllMatch, Matches, Printing
  <2>5. PackageSuffix(params[j], named[j]) =
           IF NamedByContent(params[k]) THEN PackageSuffix(params[k], named[k])
                                        ELSE NoSuffix
    BY <2>1, <2>4 DEF AllTell, SlotTells
  <2>6. /\ params[j].source # Empty /\ params[j].path \in Paths
        /\ named[j] \in Contents \cup {Unreadable}
    BY <2>1, <2>4, SubmissionAssumption
       DEF NamedByContent, IsPackage, AllTell, SlotTells, IndInv, TypeOK
  <2>7. PackageSuffix(params[j], named[j]) \in Contents \cup Paths
    BY <2>6 DEF PackageSuffix
  <2>8. NamedByContent(params[k]) /\ params[k].source # Empty
    BY <2>5, <2>7, NamesAssumption DEF NamedByContent, IsPackage
  <2>9. PackageSuffix(params[k], named[k]) = named[k]
    BY <2>3, <2>8, NamesAssumption DEF PackageSuffix
  <2>10. named[j] = named[k]
    BY <2>3, <2>5, <2>6, <2>8, <2>9, NamesAssumption DEF PackageSuffix
  <2> QED
    BY <2>1, <2>2, <2>10
<1> QED
  BY <1>1, IndInvHolds, StorageHolds, PTL

(* What was appended is what a sequence ends with.                         *)
LEMMA AppendedIsLast ==
    ASSUME NEW S, NEW s \in Seq(S), NEW e \in Seq(S), Len(e) > 0
    PROVE  LET t == s \o e IN
           Len(t) >= Len(e) /\ SubSeq(t, Len(t) - Len(e) + 1, Len(t)) = e
<1>1. Len(s) \in Nat /\ Len(e) \in Nat
  BY LenProperties
<1>2. Len(s \o e) = Len(s) + Len(e)
  BY ConcatProperties
<1> DEFINE first == Len(s) + 1
           last == Len(s) + Len(e)
<1>3. first \in Len(s) + 1 .. Len(s) + Len(e) /\ last \in Len(s) + 1 .. Len(s) + Len(e)
  BY <1>1
<1>4. first - Len(s) = 1 /\ last - Len(s) = Len(e) /\ last - Len(e) + 1 = first /\ last >= Len(e)
  BY <1>1
<1> HIDE DEF first, last
<1>5. SubSeq(s \o e, first, last) = SubSeq(e, first - Len(s), last - Len(s))
  BY <1>3, SubSeqOfConcat2
<1>6. SubSeq(e, 1, Len(e)) = e
  BY SubSeqFull
<1> QED
  BY <1>2, <1>4, <1>5, <1>6 DEF last

(* normalize_print_package_name gives a name that ends in .gcode.3mf,      *)
(* whatever sanitizing leaves of the given one.                            *)
LEMMA NormalizedIsPackage ==
    ASSUME NEW n, n = Name(n.stem, n.ext), n.ext \in Seq(STRING)
    PROVE  EndsWith(Normalize(n), GcodePackage)
<1> DEFINE E == STRING \cup {"gcode", "3mf"}
           s == Sanitize(n)
           b == IF EndsWith(s, <<"3mf">>) THEN Without(s, <<"3mf">>) ELSE s
<1>1. GcodePackage \in Seq(E) /\ Len(GcodePackage) > 0
  BY DEF GcodePackage
<1>2. n.ext \in Seq(E)
  BY SeqMonotonic
<1> HIDE DEF E
<1>3. s = Name(s.stem, s.ext) /\ s.ext \in Seq(E)
  <2>1. CASE n.stem # Blank
    BY <1>2, <2>1 DEF Sanitize, Name
  <2>2. CASE n.stem = Blank /\ n.ext # <<>>
    <3>1. Tail(n.ext) \in Seq(E)
      BY <1>2, <2>2, HeadTailProperties
    <3> QED
      BY <2>2, <3>1 DEF Sanitize, Name
  <2>3. CASE n.stem = Blank /\ n.ext = <<>>
    BY <1>1, <2>3 DEF Sanitize, Name
  <2> QED
    BY <2>1, <2>2, <2>3
<1> HIDE DEF s
<1>4. b = Name(b.stem, b.ext) /\ b.ext \in Seq(E)
  <2>1. CASE ~EndsWith(s, <<"3mf">>)
    BY <1>3, <2>1
  <2>2. CASE EndsWith(s, <<"3mf">>)
    <3>1. Len(<<"3mf">>) = 1 /\ Len(s.ext) \in Nat /\ Len(s.ext) >= 1
      BY <1>3, <2>2 DEF EndsWith
    <3>2. SubSeq(s.ext, 1, Len(s.ext) - 1) \in Seq(E)
      BY <1>3, <3>1
    <3>3. ASSUME NEW st, NEW ex, NEW x
          PROVE  /\ Name(st, ex).stem = st /\ Name(st, ex).ext = ex
                 /\ [Name(st, ex) EXCEPT !.ext = x] = Name(st, x)
      BY DEF Name
    <3>4. b = Name(s.stem, SubSeq(s.ext, 1, Len(s.ext) - 1))
      <4>1. b = [s EXCEPT !.ext = SubSeq(s.ext, 1, Len(s.ext) - 1)]
        BY <2>2, <3>1 DEF Without
      <4> HIDE DEF b
      <4>2. PICK st, ex, x : s = Name(st, ex) /\ x = SubSeq(s.ext, 1, Len(s.ext) - 1)
        BY <1>3
      <4>3. [Name(st, ex) EXCEPT !.ext = x] = Name(st, x) /\ Name(st, ex).stem = st
        BY DEF Name
      <4> QED
        BY <4>1, <4>2, <4>3
    <3> HIDE DEF b
    <3> QED
      BY <3>2, <3>3, <3>4
  <2> QED
    BY <2>1, <2>2
<1>5. Normalize(n) = IF EndsWith(s, GcodePackage) THEN s
                     ELSE [b EXCEPT !.ext = @ \o GcodePackage]
  BY DEF Normalize, s
<1> HIDE DEF b
<1>6. [b EXCEPT !.ext = @ \o GcodePackage].ext = b.ext \o GcodePackage
  BY <1>4 DEF Name
<1>7. LET t == b.ext \o GcodePackage IN
        /\ Len(t) >= Len(GcodePackage)
        /\ SubSeq(t, Len(t) - Len(GcodePackage) + 1, Len(t)) = GcodePackage
  BY <1>1, <1>4, AppendedIsLast
<1> QED
  BY <1>5, <1>6, <1>7 DEF EndsWith

(* So does a name that tells its content.                                  *)
LEMMA NamedIsPackage ==
    ASSUME NEW p \in Params, NEW c, NamedByContent(p)
    PROVE  EndsWith(RemoteFilename(p, c), GcodePackage)
<1>1. ASSUME NEW n \in {p.source, p.project, p.task}, n # Empty, NEW x
      PROVE  EndsWith(Package(n, x), GcodePackage)
  <2>1. n = Name(n.stem, n.ext) /\ n.ext \in Seq(STRING)
    BY <1>1, NamesAssumption
  <2>2. EndsWith(Normalize(n), GcodePackage)
    BY <2>1, NormalizedIsPackage
  <2>3. Plain(Normalize(n))
    BY <2>1, NormalizePlain DEF Plain
  <2>4. Package(n, x).ext = Normalize(n).ext
    BY <2>3 DEF Package, Plain, Name
  <2> QED
    BY <2>2, <2>4 DEF EndsWith
<1> QED
  BY <1>1 DEF RemoteFilename, NamedByContent, IsPackage

(* A job that is named by its content is uploaded, and its print ordered,  *)
(* under a name that ends in .gcode.3mf: also when project, task or file   *)
(* is named otherwise, or sanitize_remote_filename leaves only extensions. *)
UploadedAsPackage ==
    \A j \in Jobs :
        slot[j] # NoSlot /\ kind[j] # "sdcard" /\ NamedByContent(params[j])
            => EndsWith(slot[j].name, GcodePackage)

LEMMA PackageStep ==
    ASSUME TypeOK, UploadedAsPackage, [Next]_vars
    PROVE  UploadedAsPackage'
<1> USE DEF UploadedAsPackage, flow, naming, request, stream, files, farm, printer
<1>1. ASSUME NEW j \in Jobs, FlowStep(j) \/ Start(j) PROVE UploadedAsPackage'
  <2>1. ASSUME NEW b \in BOOLEAN, Begin(j, b) PROVE UploadedAsPackage'
    <3>1. UNCHANGED request
      BY <2>1 DEF Begin, Report, Return
    <3>2. slot' = slot \/ slot' = [slot EXCEPT ![j] =
                                    SlotFor(params[j], kind[j], file[params[j].path])]
      BY <2>1 DEF Begin
    <3>3. params[j] \in Params
      BY DEF TypeOK
    <3>4. NamedByContent(params[j]) /\ kind[j] # "sdcard" =>
            EndsWith(SlotFor(params[j], kind[j], file[params[j].path]).name, GcodePackage)
      BY <3>3, NamedIsPackage DEF SlotFor
    <3> QED
      BY <3>1, <3>2, <3>4 DEF TypeOK
  <2>2. CASE \E b \in BOOLEAN : CheckCancel(j, b) \/ Wait(j, b)
    BY <2>2 DEF CheckCancel, Wait, Report, Return
  <2>3. CASE Start(j) \/ UploadOpen(j) \/ UploadNotOpened(j) \/ UploadFailed(j)
    BY <2>3 DEF Start, UploadOpen, UploadNotOpened, UploadFailed, Report, Return
  <2>4. CASE ReadChunk(j) \/ ReadEnd(j) \/ ReadFailed(j)
    BY <2>4 DEF ReadChunk, ReadEnd, ReadFailed
  <2>5. CASE UploadOk(j) \/ RpcBroken(j)
    BY <2>5 DEF UploadOk, RpcBroken, Return
  <2>6. CASE SendOk(j) \/ SendFailed(j)
    BY <2>6 DEF SendOk, SendFailed, Report, Return
  <2> QED
    BY <1>1, <2>1, <2>2, <2>3, <2>4, <2>5, <2>6 DEF FlowStep
<1>2. ASSUME NEW j \in Jobs, ServerStep(j) \/ Arrive(j) \/ Lose(j)
      PROVE  UploadedAsPackage'
  BY <1>2 DEF ServerStep, ReceiveChunk, ReceiveFailed, ReceiveEnd,
              FtpsConnect, DeleteOld, FtpsQuit, PutFile, PutFailed, Arrive,
              Lose
<1>3. ASSUME NEW path \in Paths, NEW c \in Contents \cup {Unreadable},
             Rewrite(path, c)
      PROVE  UploadedAsPackage'
  BY <1>3 DEF Rewrite
<1>5. ASSUME NEW d \in Targets, Forget(d) PROVE UploadedAsPackage'
  BY <1>5 DEF Forget
<1>4. CASE UNCHANGED vars
  BY <1>4 DEF vars
<1> QED
  BY <1>1, <1>2, <1>3, <1>4, <1>5 DEF Next

(* UploadedAsPackage, for all parameters and names.                        *)
THEOREM UploadedAsPackageAlways == Spec => []UploadedAsPackage
<1>1. Init => UploadedAsPackage
  BY DEF Init, UploadedAsPackage
<1>2. TypeOK /\ UploadedAsPackage /\ [Next]_vars => UploadedAsPackage'
  BY PackageStep
<1> QED
  BY <1>1, <1>2, TypeCorrect, PTL DEF Spec

(* The context of printer d may be that of job k.                          *)
Recorded(k, d) ==
    /\ k \in Jobs /\ params[k].dev = d /\ kind[k] \in Printing
    /\ put[k] > 0
    /\ pc[k] \in {"uploaded", "send", "wait", "returned"}
    /\ ret[k] # "LP_UPLOAD_FTP_FAILED"

(* No job reads the SD card and uploads.                                   *)
Uploads == \A j \in Jobs : pc[j] \in {"dial", "upload"} => kind[j] # "sdcard"

Contexts ==
    Uploads /\ \A d \in Targets : context[d] # NoJob => Recorded(context[d], d)

(* A job that may be in a context stays one, whatever steps are taken: a   *)
(* flow past its upload does not fail for it any more, and what the        *)
(* printer acknowledged stays so when another transfer ends.               *)
LEMMA RecordedStep ==
    ASSUME IndInv, Uploads, [Next]_vars
    PROVE  Uploads' /\ \A k \in Jobs, d \in Targets : Recorded(k, d) => Recorded(k, d)'
<1> DEFINE Goal == Uploads' /\ \A k \in Jobs, d \in Targets : Recorded(k, d) => Recorded(k, d)'
<1>0. TypeOK /\ WholeStreams /\ \A j \in Jobs : Progress(j)
  BY DEF IndInv, Outcomes
<1> USE DEF Recorded, Uploads, flow, naming, request, stream, files, farm, printer
<1>1. ASSUME NEW j \in Jobs, FlowStep(j) \/ Start(j) PROVE Goal
  <2>1. CASE \E b \in BOOLEAN : Begin(j, b)
    BY <1>0, <2>1 DEF Begin, Report, Return, TypeOK
  <2>2. CASE \E b \in BOOLEAN : CheckCancel(j, b) \/ Wait(j, b)
    BY <1>0, <2>2 DEF CheckCancel, Wait, Report, Return, TypeOK
  <2>3. CASE Start(j) \/ UploadOpen(j) \/ UploadNotOpened(j) \/ UploadFailed(j)
    BY <1>0, <2>3 DEF Start, UploadOpen, UploadNotOpened, UploadFailed, Report,
                      Return, TypeOK
  <2>4. CASE ReadChunk(j) \/ ReadEnd(j) \/ ReadFailed(j)
    BY <2>4 DEF ReadChunk, ReadEnd, ReadFailed
  <2>5. CASE UploadOk(j) \/ RpcBroken(j)
    BY <1>0, <2>5 DEF UploadOk, RpcBroken, Return, TypeOK
  <2>6. CASE SendOk(j) \/ SendFailed(j)
    BY <1>0, <2>6 DEF SendOk, SendFailed, Report, Return, TypeOK
  <2> QED
    BY <1>1, <2>1, <2>2, <2>3, <2>4, <2>5, <2>6 DEF FlowStep
<1>2. ASSUME NEW j \in Jobs, ServerStep(j) \/ Arrive(j) \/ Lose(j) PROVE Goal
  <2>1. CASE PutFile(j)
    BY <1>0, <2>1 DEF PutFile, ServerGoto, TypeOK, WholeStreams, Received
  <2>2. CASE ~PutFile(j)
    BY <1>2, <2>2 DEF ServerStep, ReceiveChunk, ReceiveFailed, ReceiveEnd,
                FtpsConnect, DeleteOld, FtpsQuit, PutFailed, Arrive, Lose
  <2> QED
    BY <2>1, <2>2
<1>3. ASSUME NEW path \in Paths, NEW c \in Contents \cup {Unreadable},
             Rewrite(path, c)
      PROVE  Goal
  BY <1>3 DEF Rewrite
<1>4. ASSUME NEW d \in Targets, Forget(d) PROVE Goal
  BY <1>4 DEF Forget
<1>5. CASE UNCHANGED vars
  BY <1>5 DEF vars
<1> QED
  BY <1>1, <1>2, <1>3, <1>4, <1>5 DEF Next

(* Every step keeps the contexts those of such jobs.                       *)
LEMMA ContextStep ==
    ASSUME IndInv, Contexts, [Next]_vars
    PROVE  Contexts'
<1>1. Uploads' /\ \A k \in Jobs, d \in Targets : Recorded(k, d) => Recorded(k, d)'
  BY RecordedStep DEF Contexts
<1>2. context \in [Targets -> Jobs \cup {NoJob}]
  BY DEF IndInv, TypeOK
<1>3. CASE UNCHANGED context
  BY <1>1, <1>2, <1>3 DEF Contexts, Recorded
<1>4. ASSUME NEW d \in Targets, Forget(d) PROVE Contexts'
  <2>1. context' = [context EXCEPT ![d] = NoJob]
    BY <1>4 DEF Forget
  <2> QED
    BY <1>1, <1>2, <2>1 DEF Contexts, Recorded
<1>5. ASSUME NEW j \in Jobs, UploadOk(j) PROVE Contexts'
  <2>1. CASE kind[j] = "send"
    BY <1>3, <1>5, <2>1 DEF UploadOk
  <2>2. CASE kind[j] # "send"
    <3>1. context' = [context EXCEPT ![params[j].dev] = j]
      BY <1>5, <2>2 DEF UploadOk, Record
    <3>2. Recorded(j, params[j].dev)'
      <4>1. /\ put[j] > 0 /\ ret[j] = "none"
            /\ kind[j] \in Printing
        BY <1>5, <2>2 DEF UploadOk, IndInv, Outcomes, Progress, Contexts, Uploads,
                          TypeOK, Kinds, Printing
      <4>2. /\ UNCHANGED <<put, ret, kind, params>>
            /\ pc' = [pc EXCEPT ![j] = "uploaded"]
        BY <1>5, <2>2 DEF UploadOk, request, farm
      <4> QED
        BY <4>1, <4>2 DEF Recorded, IndInv, TypeOK
    <3>3. params' = params
      BY <1>5, <2>2 DEF UploadOk, request
    <3> QED
      BY <1>1, <1>2, <3>1, <3>2, <3>3 DEF Contexts, Recorded
  <2> QED
    BY <2>1, <2>2
<1>6. ASSUME NEW j \in Jobs,
             Start(j) \/ FlowStep(j) \/ ServerStep(j) \/ Arrive(j) \/ Lose(j)
      PROVE  UNCHANGED context \/ UploadOk(j)
  BY <1>6 DEF Start, FlowStep, Begin, CheckCancel, Wait, UploadOpen, UploadNotOpened,
     ReadChunk, ReadEnd, ReadFailed, UploadFailed, RpcBroken, SendOk, SendFailed,
     ServerStep, ReceiveChunk, ReceiveFailed, ReceiveEnd, FtpsConnect, DeleteOld,
     FtpsQuit, PutFile, PutFailed, Arrive, Lose, flow
<1>7. ASSUME NEW path \in Paths, NEW c \in Contents \cup {Unreadable},
             Rewrite(path, c)
      PROVE  UNCHANGED context
  BY <1>7 DEF Rewrite, flow
<1>8. CASE UNCHANGED vars
  BY <1>3, <1>8 DEF vars
<1> QED
  BY <1>3, <1>4, <1>5, <1>6, <1>7, <1>8 DEF Next

(* ContextHasItsFile, for all jobs and printers, also across jobs whose    *)
(* RPC broke while the farm went on with their file.                       *)
THEOREM ContextHasItsFileAlways == Spec => []ContextHasItsFile
<1>1. Init => Contexts
  BY DEF Init, Contexts, Uploads
<1>2. IndInv /\ Contexts /\ [Next]_vars => Contexts'
  BY ContextStep
<1>3. IndInv /\ Contexts => ContextHasItsFile
  BY DEF IndInv, WholeStreams, Contexts, Recorded, ContextHasItsFile
<1> QED
  BY <1>1, <1>2, <1>3, IndInvHolds, PTL DEF Spec

(* What Studio was promised of the jobs, after and before a step.          *)
PromiseStep == [Promise!Next]_(Promise!promise)

(* A step that answers nothing, orders nothing and ends no upload well is  *)
(* no step of the promise.                                                 *)
LEMMA PromiseFrame ==
    ASSUME UNCHANGED <<kind, ret, cmd>>,
           \A k \in Jobs : (server'[k] = "ok") = (server[k] = "ok")
    PROVE  PromiseStep
<1>1. \A k \in Jobs : OutcomeOf(k)' = OutcomeOf(k) /\ OrderOf(k)' = OrderOf(k)
  BY DEF OutcomeOf, OrderOf, Refusals
<1> QED
  BY <1>1 DEF PromiseStep, Promise!promise

(* A job that returns, with its upload and its order as they are.          *)
LEMMA PromiseAnswer ==
    ASSUME IndInv, NEW j \in Jobs, NEW s, NEW code \in Results \ {"none"},
           Return(j, s, code), UNCHANGED cmd,
           \A k \in Jobs : (server'[k] = "ok") = (server[k] = "ok"),
           pc[j] # "returned",
           code \in Refusals => cmd[j] = "none",
           code = "TIMEOUT" => kind[j] = "print" /\ cmd[j] # "none",
           code = "SUCCESS" => \/ kind[j] = "print" /\ cmd[j] # "none"
                               \/ kind[j] = "send" /\ server[j] = "ok"
    PROVE  PromiseStep
<1> DEFINE out == [k \in Jobs |-> OutcomeOf(k)]
           ord == [k \in Jobs |-> OrderOf(k)]
           up == [k \in Jobs |-> server[k] = "ok"]
<1>1. ret[j] = "none" /\ ret \in [Jobs -> Results] /\ cmd[j] # "given"
  BY DEF IndInv, TypeOK, Outcomes, Progress
<1>2. /\ ret' = [ret EXCEPT ![j] = code] /\ UNCHANGED kind
      /\ ret'[j] = code /\ \A k \in Jobs \ {j} : ret'[k] = ret[k]
  BY <1>1 DEF Return, request
<1>3. ord' = ord /\ up' = up
  BY DEF OrderOf
<1>4. ord[j] # "none" <=> cmd[j] # "none"
  BY DEF OrderOf
<1>5. PICK answer \in {"done", "late", "refused"} :
          out'[j] = answer /\ Promise!Justified(j, answer)
  <2>1. CASE code \in Refusals
    <3>1. out'[j] = "refused"
      BY <1>2, <2>1 DEF OutcomeOf, Refusals
    <3> QED
      BY <1>4, <2>1, <3>1 DEF Promise!Justified
  <2>2. CASE code = "TIMEOUT"
    <3>1. out'[j] = "late"
      BY <1>2, <2>2 DEF OutcomeOf, Refusals
    <3> QED
      BY <1>4, <2>2, <3>1 DEF Promise!Justified
  <2>3. CASE code = "SUCCESS"
    <3>1. out'[j] = "done"
      BY <1>2, <2>3 DEF OutcomeOf, Refusals
    <3> QED
      BY <1>4, <2>3, <3>1 DEF Promise!Justified
  <2> QED
    BY <2>1, <2>2, <2>3 DEF Results
<1>6. out[j] = "pending" /\ \A k \in Jobs \ {j} : out'[k] = out[k]
  <2>1. out[j] = "pending"
    BY <1>1 DEF OutcomeOf, Refusals
  <2>2. ASSUME NEW k \in Jobs \ {j} PROVE OutcomeOf(k)' = OutcomeOf(k)
    <3>1. ret'[k] = ret[k]
      BY <1>2
    <3> QED
      BY <3>1 DEF OutcomeOf, Refusals
  <2> QED
    BY <2>1, <2>2
<1>7. out' = [out EXCEPT ![j] = answer]
  BY <1>5, <1>6
<1>8. Promise!Answer(j, answer)
  BY <1>2, <1>3, <1>5, <1>6, <1>7 DEF Promise!Answer
<1> QED
  BY <1>5, <1>8 DEF PromiseStep, Promise!Next

(* Which flows reach the command, and which of them wait.                  *)
Walk(j) ==
    /\ pc[j] \in {"uploaded", "send", "wait"} => kind[j] # "send"
    /\ pc[j] = "wait" => kind[j] = "print"

AllWalk == \A j \in Jobs : Walk(j)

(* Every step keeps a job on the way of its entry point.                   *)
LEMMA WalkStep ==
    ASSUME TypeOK, AllWalk, [Next]_vars
    PROVE  AllWalk'
<1> USE DEF AllWalk, Walk, flow, naming, request, stream, files, farm, printer
<1>1. ASSUME NEW j \in Jobs, FlowStep(j) \/ Start(j) PROVE AllWalk'
  <2>1. CASE \E b \in BOOLEAN : Begin(j, b)
    BY <2>1 DEF Begin, Report, Return, TypeOK
  <2>2. CASE \E b \in BOOLEAN : CheckCancel(j, b) \/ Wait(j, b)
    BY <2>2 DEF CheckCancel, Wait, Report, Return, TypeOK
  <2>3. CASE Start(j) \/ UploadOpen(j) \/ UploadNotOpened(j) \/ UploadFailed(j)
    BY <2>3 DEF Start, UploadOpen, UploadNotOpened, UploadFailed, Report,
                Return, TypeOK
  <2>4. CASE ReadChunk(j) \/ ReadEnd(j) \/ ReadFailed(j)
    BY <2>4 DEF ReadChunk, ReadEnd, ReadFailed
  <2>5. CASE UploadOk(j) \/ RpcBroken(j)
    BY <2>5 DEF UploadOk, RpcBroken, Return, TypeOK
  <2>6. CASE SendOk(j) \/ SendFailed(j)
    BY <2>6 DEF SendOk, SendFailed, Report, Return, TypeOK
  <2> QED
    BY <1>1, <2>1, <2>2, <2>3, <2>4, <2>5, <2>6 DEF FlowStep
<1>2. ASSUME NEW j \in Jobs, ServerStep(j) \/ Arrive(j) \/ Lose(j)
      PROVE  AllWalk'
  BY <1>2 DEF ServerStep, ReceiveChunk, ReceiveFailed, ReceiveEnd,
              FtpsConnect, DeleteOld, FtpsQuit, PutFile, PutFailed, Arrive,
              Lose
<1>3. ASSUME NEW path \in Paths, NEW c \in Contents \cup {Unreadable},
             Rewrite(path, c)
      PROVE  AllWalk'
  BY <1>3 DEF Rewrite
<1>5. ASSUME NEW d \in Targets, Forget(d) PROVE AllWalk'
  BY <1>5 DEF Forget
<1>4. CASE UNCHANGED vars
  BY <1>4 DEF vars
<1> QED
  BY <1>1, <1>2, <1>3, <1>4, <1>5 DEF Next

(* The farm has put the file of a job on the printer.                      *)
LEMMA PromiseUpload ==
    ASSUME IndInv, AllTell, NEW j \in Jobs, UNCHANGED <<kind, ret, cmd>>,
           server[j] \notin {"idle", "ok"}, ServerGoto(j, "ok")
    PROVE  PromiseStep
<1> DEFINE up == [k \in Jobs |-> server[k] = "ok"]
<1>1. \A k \in Jobs : OutcomeOf(k)' = OutcomeOf(k) /\ OrderOf(k)' = OrderOf(k)
  BY DEF OutcomeOf, OrderOf, Refusals
<1>2. server'[j] = "ok" /\ \A k \in Jobs \ {j} : server'[k] = server[k]
  BY DEF ServerGoto, IndInv, TypeOK
<1>3. ~up[j] /\ up' = [up EXCEPT ![j] = TRUE]
  BY <1>2
<1>4. kind[j] # "sdcard"
  BY DEF AllTell, SlotTells
<1>5. Promise!Upload(j)
  BY <1>1, <1>3, <1>4 DEF Promise!Upload
<1> QED
  BY <1>5 DEF PromiseStep, Promise!Next

(* The command is queued.                                                  *)
LEMMA PromiseOrder ==
    ASSUME IndInv, AllMatch, AllWalk, NEW j \in Jobs, SendOk(j)
    PROVE  PromiseStep
<1> DEFINE out == [k \in Jobs |-> OutcomeOf(k)]
           ord == [k \in Jobs |-> OrderOf(k)]
           up == [k \in Jobs |-> server[k] = "ok"]
<1>1. /\ ret[j] = "none" /\ ret \in [Jobs -> Results]
      /\ cmd[j] = "none" /\ pc[j] = "send" /\ kind[j] \in Kinds
  BY DEF SendOk, IndInv, TypeOK, Outcomes, Progress
<1>2. /\ kind[j] # "send"
      /\ kind[j] # "sdcard" => server[j] = "ok"
  BY <1>1 DEF AllWalk, Walk, AllMatch, Matches, Printing, Kinds
<1>3. /\ cmd'[j] = "queued" /\ \A k \in Jobs \ {j} : cmd'[k] = cmd[k]
      /\ UNCHANGED <<kind, server>>
  BY DEF SendOk, Report, Return, request, farm, IndInv, TypeOK
<1>4. ord[j] = "none" /\ ord' = [ord EXCEPT ![j] = "given"]
  <2>1. ord[j] = "none" /\ OrderOf(j)' = "given"
    BY <1>1, <1>3 DEF OrderOf
  <2>2. \A k \in Jobs \ {j} : OrderOf(k)' = OrderOf(k)
    BY <1>3 DEF OrderOf
  <2> QED
    BY <2>1, <2>2
<1>5. /\ out[j] = "pending" /\ \A k \in Jobs \ {j} : out'[k] = out[k]
      /\ out'[j] = IF kind[j] = "print" THEN "pending" ELSE "done"
  <2>1. ret' = IF kind[j] = "print" THEN ret ELSE [ret EXCEPT ![j] = "SUCCESS"]
    BY DEF SendOk, Report, Return
  <2>2. out[j] = "pending"
    BY <1>1 DEF OutcomeOf, Refusals
  <2>3. ASSUME NEW k \in Jobs \ {j} PROVE OutcomeOf(k)' = OutcomeOf(k)
    <3>1. ret'[k] = ret[k]
      BY <1>1, <2>1
    <3> QED
      BY <3>1 DEF OutcomeOf, Refusals
  <2>4. OutcomeOf(j)' = IF kind[j] = "print" THEN "pending" ELSE "done"
    <3>1. ret'[j] = IF kind[j] = "print" THEN "none" ELSE "SUCCESS"
      BY <1>1, <2>1
    <3> QED
      BY <3>1 DEF OutcomeOf, Refusals
  <2> QED
    BY <2>2, <2>3, <2>4
<1>6. out' = IF kind[j] = "print" THEN out ELSE [out EXCEPT ![j] = "done"]
  BY <1>5
<1>7. Promise!Order(j)
  BY <1>2, <1>3, <1>4, <1>5, <1>6 DEF Promise!Order
<1> QED
  BY <1>7 DEF PromiseStep, Promise!Next

(* The command arrives or is lost.                                         *)
LEMMA PromiseSettle ==
    ASSUME IndInv, NEW j \in Jobs, Arrive(j) \/ Lose(j)
    PROVE  PromiseStep
<1> DEFINE ord == [k \in Jobs |-> OrderOf(k)]
<1>1. PICK fate \in {"arrived", "lost"} : cmd' = [cmd EXCEPT ![j] = fate]
  BY DEF Arrive, Lose
<1>2. /\ cmd[j] = "queued" /\ cmd'[j] = fate
      /\ \A k \in Jobs \ {j} : cmd'[k] = cmd[k]
      /\ UNCHANGED <<kind, ret, server>>
  BY <1>1 DEF Arrive, Lose, flow, request, farm, IndInv, TypeOK
<1>3. ord[j] = "given" /\ ord' = [ord EXCEPT ![j] = fate]
  <2>1. ord[j] = "given" /\ OrderOf(j)' = fate
    BY <1>2 DEF OrderOf
  <2>2. \A k \in Jobs \ {j} : OrderOf(k)' = OrderOf(k)
    BY <1>2 DEF OrderOf
  <2> QED
    BY <2>1, <2>2
<1>4. \A k \in Jobs : OutcomeOf(k)' = OutcomeOf(k)
  BY <1>2 DEF OutcomeOf, Refusals
<1>5. Promise!Settle(j, fate)
  BY <1>2, <1>3, <1>4 DEF Promise!Settle
<1> QED
  BY <1>1, <1>5 DEF PromiseStep, Promise!Next

(* Every step of a flow, the farm, the printer or Studio is a step of the  *)
(* promise, or none.                                                       *)
LEMMA EveryPromiseStep ==
    ASSUME IndInv, AllMatch, AllTell, AllWalk, [Next]_vars
    PROVE  PromiseStep
<1>0. TypeOK
  BY DEF IndInv
<1> USE DEF flow, naming, request, stream, files, farm, printer
<1>1. ASSUME NEW j \in Jobs,
             \/ Start(j) \/ UploadOpen(j) \/ ReadChunk(j) \/ ReadEnd(j)
             \/ ReadFailed(j) \/ ReceiveChunk(j) \/ ReceiveFailed(j)
             \/ ReceiveEnd(j)
             \/ \E ok \in BOOLEAN : FtpsConnect(j, ok) \/ DeleteOld(j, ok)
             \/ \E n \in 0 .. FileLen : PutFailed(j, n)
      PROVE  PromiseStep
  <2>1. UNCHANGED <<kind, ret, cmd>>
    BY <1>1 DEF Start, Report, UploadOpen, ReadChunk, ReadEnd, ReadFailed,
                ReceiveChunk, ReceiveFailed, ReceiveEnd, FtpsConnect,
                DeleteOld, PutFailed
  <2>2. \A k \in Jobs : (server'[k] = "ok") = (server[k] = "ok")
    <3>1. CASE UNCHANGED server
      BY <3>1
    <3>2. CASE UploadOpen(j)
      <4>1. server[j] = "idle"
        BY <3>2 DEF UploadOpen, AllMatch, Matches
      <4> QED
        BY <1>0, <3>2, <4>1 DEF UploadOpen, TypeOK
    <3>3. CASE \/ ReceiveFailed(j) \/ ReceiveEnd(j)
               \/ \E ok \in BOOLEAN : FtpsConnect(j, ok) \/ DeleteOld(j, ok)
               \/ \E n \in 0 .. FileLen : PutFailed(j, n)
      <4>1. PICK next : server' = [server EXCEPT ![j] = next] /\ next # "ok"
        BY <3>3 DEF ReceiveFailed, ReceiveEnd, FtpsConnect, DeleteOld,
                    PutFailed, ServerGoto
      <4>2. server[j] # "ok"
        BY <3>3 DEF ReceiveFailed, ReceiveEnd, FtpsConnect, DeleteOld,
                    PutFailed
      <4> QED
        BY <1>0, <4>1, <4>2 DEF TypeOK
    <3> QED
      BY <1>1, <3>1, <3>2, <3>3
         DEF Start, ReadChunk, ReadEnd, ReadFailed, ReceiveChunk
  <2> QED
    BY <2>1, <2>2, PromiseFrame
<1>2. ASSUME NEW j \in Jobs, SendOk(j) PROVE PromiseStep
  BY <1>2, PromiseOrder
<1>3. ASSUME NEW j \in Jobs, Arrive(j) \/ Lose(j) PROVE PromiseStep
  BY <1>3, PromiseSettle
<1>4. ASSUME NEW j \in Jobs, PutFile(j) PROVE PromiseStep
  <2>1. CASE server[j] = "put"
    <3>1. \A k \in Jobs : (server'[k] = "ok") = (server[k] = "ok")
      BY <1>0, <1>4, <2>1 DEF PutFile, ServerGoto, TypeOK
    <3> QED
      BY <1>4, <3>1, PromiseFrame DEF PutFile
  <2>2. CASE server[j] = "curlPut"
    BY <1>4, <2>2, PromiseUpload DEF PutFile
  <2> QED
    BY <1>4, <2>1, <2>2 DEF PutFile
<1>5. ASSUME NEW j \in Jobs, NEW ok \in BOOLEAN, FtpsQuit(j, ok)
      PROVE  PromiseStep
  <2>1. CASE ~ok
    <3>1. \A k \in Jobs : (server'[k] = "ok") = (server[k] = "ok")
      BY <1>0, <1>5, <2>1 DEF FtpsQuit, ServerGoto, TypeOK
    <3> QED
      BY <1>5, <3>1, PromiseFrame DEF FtpsQuit
  <2>2. CASE ok
    BY <1>5, <2>2, PromiseUpload DEF FtpsQuit
  <2> QED
    BY <2>1, <2>2
<1>6. ASSUME NEW j \in Jobs, NEW b \in BOOLEAN, Begin(j, b) PROVE PromiseStep
  <2>1. CASE Return(j, "ERROR", "CANCELED")
    <3>1. cmd[j] = "none"
      BY <1>6 DEF Begin, IndInv, Outcomes, Progress
    <3> QED
      BY <1>6, <2>1, <3>1, PromiseAnswer DEF Begin, Results, Refusals
  <2>2. CASE Report(j, "Upload", "dial") \/ Report(j, "Sending", "send")
    BY <1>6, <2>2, PromiseFrame DEF Begin, Report
  <2> QED
    BY <1>6, <2>1, <2>2 DEF Begin
<1>7. ASSUME NEW j \in Jobs, NEW b \in BOOLEAN, CheckCancel(j, b)
      PROVE  PromiseStep
  <2>1. CASE b
    <3>1. cmd[j] = "none"
      BY <1>7 DEF CheckCancel, IndInv, Outcomes, Progress
    <3> QED
      BY <1>7, <2>1, <3>1, PromiseAnswer DEF CheckCancel, Results, Refusals
  <2>2. CASE ~b
    BY <1>7, <2>2, PromiseFrame DEF CheckCancel, Report
  <2> QED
    BY <2>1, <2>2
<1>8. ASSUME NEW j \in Jobs, NEW b \in BOOLEAN, Wait(j, b) PROVE PromiseStep
  <2>1. kind[j] = "print" /\ cmd[j] # "none"
    BY <1>8 DEF Wait, AllWalk, Walk, IndInv, Outcomes, Progress
  <2> QED
    BY <1>8, <2>1, PromiseAnswer DEF Wait, Results, Refusals
<1>9. ASSUME NEW j \in Jobs,
             UploadNotOpened(j) \/ UploadFailed(j) \/ SendFailed(j)
      PROVE  PromiseStep
  <2>1. cmd[j] = "none"
    BY <1>9 DEF UploadNotOpened, UploadFailed, SendFailed, IndInv, Outcomes,
                Progress
  <2>2. PICK code \in Refusals : Return(j, "ERROR", code)
    BY <1>9 DEF UploadNotOpened, UploadFailed, SendFailed, UploadFailure,
                Refusals
  <2>3. code \in Results \ {"none"} /\ code # "SUCCESS" /\ code # "TIMEOUT"
    BY DEF Results, Refusals
  <2> QED
    BY <1>9, <2>1, <2>2, <2>3, PromiseAnswer
       DEF UploadNotOpened, UploadFailed, SendFailed
<1>10. ASSUME NEW j \in Jobs, RpcBroken(j) PROVE PromiseStep
  <2>1. cmd[j] = "none"
    BY <1>10 DEF RpcBroken, IndInv, Outcomes, Progress
  <2>2. PICK code \in Refusals : Return(j, "ERROR", code)
    BY <1>10 DEF RpcBroken, UploadFailure, Refusals
  <2>3. code \in Results \ {"none"} /\ code # "SUCCESS" /\ code # "TIMEOUT"
    BY DEF Results, Refusals
  <2>4. \A k \in Jobs : (server'[k] = "ok") = (server[k] = "ok")
    BY <1>0, <1>10 DEF RpcBroken, TypeOK
  <2> QED
    BY <1>10, <2>1, <2>2, <2>3, <2>4, PromiseAnswer DEF RpcBroken
<1>11. ASSUME NEW j \in Jobs, UploadOk(j) PROVE PromiseStep
  <2>1. CASE kind[j] = "send"
    BY <1>11, <2>1, PromiseAnswer DEF UploadOk, Results, Refusals
  <2>2. CASE kind[j] # "send"
    BY <1>11, <2>2, PromiseFrame DEF UploadOk
  <2> QED
    BY <2>1, <2>2
<1>12. ASSUME NEW path \in Paths, NEW c \in Contents \cup {Unreadable},
              Rewrite(path, c)
       PROVE  PromiseStep
  BY <1>12, PromiseFrame DEF Rewrite
<1>14. ASSUME NEW d \in Targets, Forget(d) PROVE PromiseStep
  BY PromiseFrame, <1>14 DEF Forget
<1>13. CASE UNCHANGED vars
  BY <1>13, PromiseFrame DEF vars
<1> QED
  BY <1>1, <1>2, <1>3, <1>4, <1>5, <1>6, <1>7, <1>8, <1>9, <1>10, <1>11,
     <1>12, <1>13, <1>14
     DEF Next, FlowStep, ServerStep

(* KeepsPromise: print_flow.cpp answers every job once and truthfully, and *)
(* gives the printer at most one order, after the upload and before the    *)
(* answer, for any number of jobs, files and failures on the way.          *)
THEOREM PromiseKept == Spec => KeepsPromise
<1>1. Init => Promise!Init /\ AllWalk
  <2> SUFFICES ASSUME Init PROVE Promise!Init /\ AllWalk
    OBVIOUS
  <2>1. ASSUME NEW j \in Jobs
        PROVE  OutcomeOf(j) = "pending" /\ OrderOf(j) = "none"
    BY DEF Init, OutcomeOf, OrderOf, Refusals
  <2>2. Promise!Init
    BY <2>1 DEF Init, Promise!Init, Kinds
  <2>3. AllWalk
    BY DEF Init, AllWalk, Walk
  <2> QED
    BY <2>2, <2>3
<1>2. IndInv /\ AllWalk /\ [Next]_vars => AllWalk'
  BY WalkStep DEF IndInv
<1>3. IndInv /\ AllMatch /\ AllTell /\ AllWalk /\ [Next]_vars
        => [Promise!Next]_(Promise!promise)
  BY EveryPromiseStep DEF PromiseStep
<1> QED
  BY <1>1, <1>2, <1>3, IndInvHolds, StorageHolds, PTL
     DEF Spec, KeepsPromise, Promise!Spec
=============================================================================
