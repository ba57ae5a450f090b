-------------------------- MODULE PrintSubmission --------------------------
(***************************************************************************)
(* Submitting a print: the flows of cpp/print_flow.cpp on one of Studio's  *)
(* threads, the chunk stream of bambu_network_rs_upload_file, the          *)
(* upload_file_stream handler of the server with its FTPS client and its   *)
(* curl fallback, and the printer's storage.                               *)
(*                                                                         *)
(* A file is the number of its chunks and a content that stands for their  *)
(* bytes.  PrintJob names it: a slot is a printer and such a name.  A      *)
(* status line, a callback or a file operation is a step; jobs of several  *)
(* Studios interleave, and Studio may slice into a file once more while it *)
(* is named or read.                                                       *)
(***************************************************************************)
EXTENDS PrintJob

CONSTANTS
    Jobs,           \* submissions
    NoJob,
    Params,         \* what a job may ask for, see PrintJob
    Paths,          \* local files
    Contents,       \* what may be in one
    NoContent,
    Mixed,          \* what a reader gets of a file rewritten under it
    Slots,          \* a printer and a remote file name
    NoSlot,
    Listed,         \* the printers the farm lists
    FileLen,        \* chunks of a local file
    MaxWrites       \* bound: how often Studio writes a local file meanwhile

Kinds == {"print", "local", "send", "sdcard"}
Printing == {"print", "local"}      \* start_local_print with and without wait_fn
Stages == {"none", "Create", "Upload", "Sending", "WaitPrinter", "Finished",
           "ERROR"}
Refusals == {"CANCELED", "LP_UPLOAD_FTP_FAILED", "SG_UPLOAD_FTP_FAILED",
             "SEND_MSG_FAILED"}
Results == {"none", "SUCCESS", "TIMEOUT"} \cup Refusals

(* The file a job writes to or prints from: start_sdcard_print takes the   *)
(* last part of the plate's path, the others resolve_remote_filename.      *)
SlotFor(p, k, content) ==
    [dev |-> p.dev,
     name |-> IF k = "sdcard" THEN PlatePath(p) ELSE RemoteFilename(p, content)]

ASSUME SubmissionAssumption ==
    /\ NoJob \notin Jobs
    /\ NoSlot \notin Slots
    /\ \A p \in Params :
          /\ p.path \in Paths /\ p.plate \in Int
          /\ \A k \in Kinds, c \in Contents \cup {Unreadable} :
                SlotFor(p, k, c) \in Slots
    /\ FileLen \in Nat /\ MaxWrites \in Nat

(* The names in the parameters carry no suffix of append_package_suffix,   *)
(* and a hash of a content is not one of a path.                           *)
ASSUME NamesAssumption ==
    /\ \A p \in Params :
          \A n \in {p.source, p.project, p.task, p.ftp, p.dst} :
             n = Empty \/ (n = Name(n.stem, n.ext) /\ n.ext \in Seq(STRING))
    /\ Contents \cap Paths = {}
    /\ NoSuffix \notin Contents \cup Paths
    /\ Unreadable \notin Contents \cup {NoContent, Mixed}

VARIABLES
    pc,         \* where the flow of a job is
    kind,       \* which entry point started it
    params,     \* with which PrintParams
    stage,      \* the last stage reported to Studio
    ret,        \* what the entry point returned
    file,       \* what is in a local file
    writes,     \* how often one was written
    slot,       \* where a job's file is to be
    named,      \* what was in the local file when the job was named
    sent,       \* what its upload reads
    read,       \* chunks the client has put on the stream
    ended,      \* whether it has ended the stream
    server,     \* where the upload handler of the job is
    stored,     \* chunks in the handler's temporary file
    put,        \* chunks the printer acknowledged to the handler
    remote,     \* the file in a slot: its chunks and what they are of
    cmd,        \* the print command of a job
    printed,    \* the file the printer found when the command arrived
    context     \* the job LocalPrintContextStore remembers of a printer

naming == <<slot, named>>
request == <<kind, params>>
flow == <<pc, request, stage, ret, context, slot, named>>
files == <<file, writes>>
stream == <<files, sent, read, ended>>
farm == <<server, stored, put, remote>>
printer == <<cmd, printed>>
vars == <<pc, kind, params, stage, ret, file, writes, slot, named, sent, read,
          ended, server, stored, put, remote, cmd, printed, context>>

Targets == {p.dev : p \in Params}
Held == Contents \cup {NoContent, Mixed}
File == [n : 0 .. FileLen, of : Held]
Absent == [n |-> 0, of |-> NoContent]

FlowPC == {"idle", "begun", "dial", "upload", "uploaded", "send", "wait",
           "returned"}
ServerPC == {"idle", "recv", "connect", "delete", "put", "quit", "curlDelete",
             "curlPut", "ok", "failed"}

TypeOK ==
    /\ pc \in [Jobs -> FlowPC]
    /\ kind \in [Jobs -> Kinds]
    /\ params \in [Jobs -> Params]
    /\ stage \in [Jobs -> Stages]
    /\ ret \in [Jobs -> Results]
    /\ file \in [Paths -> Contents \cup {Unreadable}]
    /\ writes \in 0 .. MaxWrites
    /\ slot \in [Jobs -> Slots \cup {NoSlot}]
    /\ named \in [Jobs -> Contents \cup {Unreadable, NoContent}]
    /\ sent \in [Jobs -> Held]
    /\ read \in [Jobs -> 0 .. FileLen]
    /\ ended \in [Jobs -> BOOLEAN]
    /\ server \in [Jobs -> ServerPC]
    /\ stored \in [Jobs -> 0 .. FileLen]
    /\ put \in [Jobs -> 0 .. FileLen]
    /\ remote \in [Slots -> File]
    /\ cmd \in [Jobs -> {"none", "queued", "arrived", "lost"}]
    /\ printed \in [Jobs -> File]
    /\ context \in [Targets -> Jobs \cup {NoJob}]

Init ==
    /\ pc = [j \in Jobs |-> "idle"]
    /\ kind \in [Jobs -> Kinds]
    /\ params \in [Jobs -> Params]
    /\ stage = [j \in Jobs |-> "none"]
    /\ ret = [j \in Jobs |-> "none"]
    /\ file \in [Paths -> Contents \cup {Unreadable}]
    /\ writes = 0
    /\ slot = [j \in Jobs |-> NoSlot]
    /\ named = [j \in Jobs |-> NoContent]
    /\ sent = [j \in Jobs |-> NoContent]
    /\ read = [j \in Jobs |-> 0]
    /\ ended = [j \in Jobs |-> FALSE]
    /\ server = [j \in Jobs |-> "idle"]
    /\ stored = [j \in Jobs |-> 0]
    /\ put = [j \in Jobs |-> 0]
    /\ remote = [s \in Slots |-> Absent]
    /\ cmd = [j \in Jobs |-> "none"]
    /\ printed = [j \in Jobs |-> Absent]
    /\ context = [d \in Targets |-> NoJob]

-----------------------------------------------------------------------------
(* The flows.  Report is report_update_status followed by what runs next;  *)
(* Return reports the last stage and returns.                              *)

Report(j, s, next) ==
    /\ stage' = [stage EXCEPT ![j] = s]
    /\ pc' = [pc EXCEPT ![j] = next]
    /\ UNCHANGED <<request, ret>>

Return(j, s, code) ==
    /\ stage' = [stage EXCEPT ![j] = s]
    /\ pc' = [pc EXCEPT ![j] = "returned"]
    /\ ret' = [ret EXCEPT ![j] = code]
    /\ UNCHANGED request

Start(j) ==
    /\ pc[j] = "idle"
    /\ Report(j, "Create", "begun")
    /\ UNCHANGED <<context, naming, stream, farm, printer>>

(* The first look at cancel_fn; sending to the SD card does not look.  A   *)
(* job that goes on is named, by the content of its file as it is now.     *)
Begin(j, cancelled) ==
    /\ pc[j] = "begun"
    /\ \/ cancelled /\ kind[j] # "send" /\ Return(j, "ERROR", "CANCELED")
       \/ ~cancelled /\ kind[j] # "sdcard" /\ Report(j, "Upload", "dial")
       \/ ~cancelled /\ kind[j] = "sdcard" /\ Report(j, "Sending", "send")
    /\ IF cancelled /\ kind[j] # "send" THEN UNCHANGED naming
       ELSE LET content == file[params[j].path]
            IN  /\ slot' = [slot EXCEPT ![j] = SlotFor(params[j], kind[j], content)]
                /\ named' = [named EXCEPT ![j] = content]
    /\ UNCHANGED <<context, stream, farm, printer>>

UploadFailure(j) ==
    IF kind[j] = "send" THEN "SG_UPLOAD_FTP_FAILED" ELSE "LP_UPLOAD_FTP_FAILED"

(* update_local_print_context.                                             *)
Record(j) == context' = [context EXCEPT ![params[j].dev] = j]

(* Mutant: the context is recorded before the upload.                      *)
UploadOpenRecorded(j) ==
    /\ pc[j] = "dial"
    /\ file[params[j].path] # Unreadable
    /\ pc' = [pc EXCEPT ![j] = "upload"]
    /\ server' = [server EXCEPT ![j] = "recv"]
    /\ sent' = [sent EXCEPT ![j] = file[params[j].path]]
    /\ IF kind[j] = "send" THEN UNCHANGED context ELSE Record(j)
    /\ UNCHANGED <<request, stage, ret, naming, files, read, ended, stored,
                   put, remote, printer>>

(* connect_client and File::open ...                                       *)
UploadOpen(j) ==
    /\ pc[j] = "dial"
    /\ file[params[j].path] # Unreadable
    /\ pc' = [pc EXCEPT ![j] = "upload"]
    /\ server' = [server EXCEPT ![j] = "recv"]
    /\ sent' = [sent EXCEPT ![j] = file[params[j].path]]
    /\ UNCHANGED <<request, stage, ret, context, naming, files, read, ended, stored,
                   put, remote, printer>>

(* ... either of which may fail.                                           *)
UploadNotOpened(j) ==
    /\ pc[j] = "dial"
    /\ Return(j, "ERROR", UploadFailure(j))
    /\ UNCHANGED <<context, naming, stream, farm, printer>>

(* stream::unfold: a chunk, the end of the file, or a read error.          *)
ReadChunk(j) ==
    /\ pc[j] = "upload" /\ ~ended[j]
    /\ read[j] < FileLen
    /\ read' = [read EXCEPT ![j] = @ + 1]
    /\ UNCHANGED <<flow, files, sent, ended, farm, printer>>

ReadEnd(j) ==
    /\ pc[j] = "upload" /\ ~ended[j]
    /\ read[j] = FileLen
    /\ ended' = [ended EXCEPT ![j] = TRUE]
    /\ UNCHANGED <<flow, files, sent, read, farm, printer>>

(* The error is logged and the stream ends as at the end of the file.      *)
ReadFailed(j) ==
    /\ pc[j] = "upload" /\ ~ended[j]
    /\ ended' = [ended EXCEPT ![j] = TRUE]
    /\ UNCHANGED <<flow, files, sent, read, farm, printer>>

(* The answer of the RPC.  A printing flow then records its context.       *)
UploadOk(j) ==
    /\ pc[j] = "upload" /\ server[j] = "ok"
    /\ IF kind[j] = "send"
         THEN Return(j, "Finished", "SUCCESS") /\ UNCHANGED context
         ELSE /\ pc' = [pc EXCEPT ![j] = "uploaded"]
              /\ Record(j)
              /\ UNCHANGED <<request, stage, ret>>
    /\ UNCHANGED <<naming, stream, farm, printer>>

(* Mutant: the error code of the upload is not looked at.                  *)
UploadFailedIgnored(j) ==
    /\ pc[j] = "upload" /\ server[j] = "failed"
    /\ pc' = [pc EXCEPT ![j] = "uploaded"]
    /\ Record(j)
    /\ UNCHANGED <<request, stage, ret, naming, stream, farm, printer>>

UploadFailed(j) ==
    /\ pc[j] = "upload" /\ server[j] = "failed"
    /\ Return(j, "ERROR", UploadFailure(j))
    /\ UNCHANGED <<context, naming, stream, farm, printer>>

(* Mutant: the server takes a broken stream for its end.                   *)
RpcBrokenAsEnd(j) ==
    /\ pc[j] = "upload"
    /\ Return(j, "ERROR", UploadFailure(j))
    /\ server' = [server EXCEPT ![j] = IF @ = "recv" /\ stored[j] > 0
                                         THEN "connect" ELSE @]
    /\ UNCHANGED <<context, naming, stream, stored, put, remote, printer>>

(* The RPC breaks.  A handler still receiving ends with an error; one that *)
(* runs in spawn_blocking goes on, and nobody reads its answer.            *)
RpcBroken(j) ==
    /\ pc[j] = "upload"
    /\ Return(j, "ERROR", UploadFailure(j))
    /\ server' = [server EXCEPT ![j] = IF @ = "recv" THEN "failed" ELSE @]
    /\ UNCHANGED <<context, naming, stream, stored, put, remote, printer>>

(* The second look; the recorded context stays.                            *)
CheckCancel(j, cancelled) ==
    /\ pc[j] = "uploaded"
    /\ IF cancelled THEN Return(j, "ERROR", "CANCELED")
                    ELSE Report(j, "Sending", "send")
    /\ UNCHANGED <<context, naming, stream, farm, printer>>

(* bambu_network_rs_send puts the command into the send loop's channel.    *)
SendOk(j) ==
    /\ pc[j] = "send"
    /\ cmd' = [cmd EXCEPT ![j] = "queued"]
    /\ IF kind[j] = "print" THEN Report(j, "WaitPrinter", "wait")
                            ELSE Return(j, "Finished", "SUCCESS")
    /\ UNCHANGED <<context, naming, stream, farm, printed>>

SendFailed(j) ==
    /\ pc[j] = "send"
    /\ Return(j, "ERROR", "SEND_MSG_FAILED")
    /\ UNCHANGED <<context, naming, stream, farm, printer>>

(* Mutant: a wait that fails sends the command once more.                  *)
WaitResending(j, ok) ==
    /\ pc[j] = "wait"
    /\ IF ok THEN Return(j, "Finished", "SUCCESS")
             ELSE Report(j, "Sending", "send")
    /\ UNCHANGED <<context, naming, stream, farm, printer>>

(* Studio's wait_fn.                                                       *)
Wait(j, ok) ==
    /\ pc[j] = "wait"
    /\ IF ok THEN Return(j, "Finished", "SUCCESS")
             ELSE Return(j, "ERROR", "TIMEOUT")
    /\ UNCHANGED <<context, naming, stream, farm, printer>>

(* bambu_network_user_logout forgets the context of the printer selected.  *)
Forget(d) ==
    /\ context' = [context EXCEPT ![d] = NoJob]
    /\ UNCHANGED <<pc, request, stage, ret, naming, stream, farm, printer>>

-----------------------------------------------------------------------------
(* upload_file_stream.                                                     *)

ServerGoto(j, next) == server' = [server EXCEPT ![j] = next]

ReceiveChunk(j) ==
    /\ server[j] = "recv"
    /\ stored[j] < read[j]
    /\ stored' = [stored EXCEPT ![j] = @ + 1]
    /\ UNCHANGED <<flow, stream, server, put, remote, printer>>

(* No temporary file, a refused chunk, a full disk: an error status.       *)
ReceiveFailed(j) ==
    /\ server[j] = "recv"
    /\ ServerGoto(j, "failed")
    /\ UNCHANGED <<flow, stream, stored, put, remote, printer>>

(* The end of the stream: it may have been empty, the printer unknown.     *)
ReceiveEnd(j) ==
    /\ server[j] = "recv"
    /\ ended[j] /\ stored[j] = read[j]
    /\ ServerGoto(j, IF stored[j] = 0 \/ slot[j].dev \notin Listed
                       THEN "failed" ELSE "connect")
    /\ UNCHANGED <<flow, stream, stored, put, remote, printer>>

(* default_upload_handler: every error of the FTPS client leads to curl.   *)
FtpsConnect(j, ok) ==
    /\ server[j] = "connect"
    /\ ServerGoto(j, IF ok THEN "delete" ELSE "curlDelete")
    /\ UNCHANGED <<flow, stream, stored, put, remote, printer>>

(* Both clients delete the old file and ignore whether that worked.        *)
DeleteOld(j, ok) ==
    /\ server[j] \in {"delete", "curlDelete"}
    /\ ServerGoto(j, IF server[j] = "delete" THEN "put" ELSE "curlPut")
    /\ remote' = IF ok THEN [remote EXCEPT ![slot[j]] = Absent] ELSE remote
    /\ UNCHANGED <<flow, stream, stored, put, printer>>

(* The first n chunks of what job j streamed.                              *)
Streamed(j, n) == [n |-> n, of |-> sent[j]]

(* The printer has the temporary file; the FTPS session is to be closed.   *)
PutFile(j) ==
    /\ server[j] \in {"put", "curlPut"}
    /\ ServerGoto(j, IF server[j] = "put" THEN "quit" ELSE "ok")
    /\ remote' = [remote EXCEPT ![slot[j]] = Streamed(j, stored[j])]
    /\ put' = [put EXCEPT ![j] = stored[j]]
    /\ UNCHANGED <<flow, stream, stored, printer>>

(* Mutant: curl's exit status is not looked at.                            *)
PutFailedIgnored(j, n) ==
    /\ server[j] \in {"put", "curlPut"}
    /\ ServerGoto(j, IF server[j] = "put" THEN "curlDelete" ELSE "ok")
    /\ n <= stored[j]
    /\ remote' = [remote EXCEPT ![slot[j]] = Streamed(j, n)]
    /\ put' = [put EXCEPT ![j] = stored[j]]
    /\ UNCHANGED <<flow, stream, stored, printer>>

(* A transfer that fails leaves any part of the file, or the old one.      *)
PutFailed(j, n) ==
    /\ server[j] \in {"put", "curlPut"}
    /\ ServerGoto(j, IF server[j] = "put" THEN "curlDelete" ELSE "failed")
    /\ \/ /\ n <= stored[j]
          /\ remote' = [remote EXCEPT ![slot[j]] = Streamed(j, n)]
       \/ UNCHANGED remote
    /\ UNCHANGED <<flow, stream, stored, put, printer>>

FtpsQuit(j, ok) ==
    /\ server[j] = "quit"
    /\ ServerGoto(j, IF ok THEN "ok" ELSE "curlDelete")
    /\ UNCHANGED <<flow, stream, stored, put, remote, printer>>

-----------------------------------------------------------------------------
(* Studio writes or removes a local file.  An upload under way reads some  *)
(* of both if the file is written, and the file it opened if it is gone.   *)
Rewrite(path, content) ==
    /\ writes < MaxWrites
    /\ writes' = writes + 1
    /\ file' = [file EXCEPT ![path] = content]
    /\ sent' = [j \in Jobs |->
          IF /\ params[j].path = path /\ pc[j] = "upload" /\ ~ended[j]
             /\ content \notin {Unreadable, sent[j]}
            THEN Mixed ELSE sent[j]]
    /\ UNCHANGED <<flow, read, ended, farm, printer>>

(* The command reaches the printer, or its connection goes away first.     *)

Arrive(j) ==
    /\ cmd[j] = "queued"
    /\ cmd' = [cmd EXCEPT ![j] = "arrived"]
    /\ printed' = [printed EXCEPT ![j] = remote[slot[j]]]
    /\ UNCHANGED <<flow, stream, farm>>

Lose(j) ==
    /\ cmd[j] = "queued"
    /\ cmd' = [cmd EXCEPT ![j] = "lost"]
    /\ UNCHANGED <<flow, stream, farm, printed>>

-----------------------------------------------------------------------------
FlowStep(j) ==
    \/ \E b \in BOOLEAN : Begin(j, b) \/ CheckCancel(j, b) \/ Wait(j, b)
    \/ UploadOpen(j) \/ UploadNotOpened(j)
    \/ ReadChunk(j) \/ ReadEnd(j) \/ ReadFailed(j)
    \/ UploadOk(j) \/ UploadFailed(j) \/ RpcBroken(j)
    \/ SendOk(j) \/ SendFailed(j)

ServerStep(j) ==
    \/ ReceiveChunk(j) \/ ReceiveFailed(j) \/ ReceiveEnd(j)
    \/ \E ok \in BOOLEAN : FtpsConnect(j, ok) \/ DeleteOld(j, ok) \/ FtpsQuit(j, ok)
    \/ PutFile(j) \/ \E n \in 0 .. FileLen : PutFailed(j, n)

Next ==
    \/ \E j \in Jobs :
        \/ Start(j) \/ FlowStep(j) \/ ServerStep(j) \/ Arrive(j) \/ Lose(j)
    \/ \E d \in Targets : Forget(d)
    \/ \E path \in Paths, c \in Contents \cup {Unreadable} : Rewrite(path, c)

Spec == Init /\ [][Next]_vars

-----------------------------------------------------------------------------
(* What the printer acknowledges to the upload handler is the whole of     *)
(* what the client streamed, ended by the client: a stream that breaks     *)
(* never becomes a file, whichever of the two FTP clients carries it.      *)
AcknowledgedIsWholeStream ==
    \A j \in Jobs : put[j] > 0 => ended[j] /\ put[j] = read[j]

(* The code an entry point returns tells what happened: a success has its  *)
(* file acknowledged by the printer and its command queued, as far as the  *)
(* entry point promises them, and after any other code but a timeout the   *)
(* printer will not print this job.                                        *)
ReturnTellsOutcome ==
    \A j \in Jobs :
        /\ ret[j] = "SUCCESS" =>
             /\ kind[j] # "sdcard" => put[j] > 0
             /\ kind[j] # "send" => cmd[j] # "none"
        /\ ret[j] \in Refusals => cmd[j] = "none"

(* A print command finds on the printer what its job streamed there, also  *)
(* when FTPS failed half way, or after the transfer, and curl did it all   *)
(* again; provided that no other job uploads a file of that name.          *)
PrintedIsStreamed ==
    \A j \in Jobs :
        /\ cmd[j] = "arrived" /\ kind[j] \in Printing
        /\ \A k \in Jobs \ {j} : slot[k] = slot[j] => server[k] = "idle"
        => printed[j].n = read[j]

(* A print command whose job was named by its content finds that content   *)
(* under the name, or no file, whatever other jobs of that name upload and *)
(* whatever Studio slices into the files: provided that no file was        *)
(* written between its naming and the end of its upload.                   *)
PrintedIsOurs ==
    \A j \in Jobs :
        /\ cmd[j] = "arrived" /\ kind[j] \in Printing
        /\ NamedByContent(params[j])
        /\ \A k \in Jobs : slot[k] = slot[j] => sent[k] \in {NoContent, named[k]}
        => printed[j].of \in {NoContent, named[j]}

(* The context whose ids go into a printer's reports is of a job that this *)
(* printer acknowledged as a whole, and that was not refused for its       *)
(* upload: of a job that failed on the way no context is left, and none    *)
(* replaces that of the job printing, whatever the farm did with the file  *)
(* after its client gave up.  A job cancelled after its upload leaves one. *)
ContextHasItsFile ==
    \A d \in Targets : context[d] # NoJob =>
        LET j == context[d] IN
        /\ params[j].dev = d /\ kind[j] \in Printing
        /\ put[j] > 0 /\ ended[j] /\ put[j] = read[j]
        /\ ret[j] # "LP_UPLOAD_FTP_FAILED"

(* What the code an entry point returned means to Studio.                  *)
OutcomeOf(j) ==
    CASE ret[j] = "none" -> "pending"
      [] ret[j] = "SUCCESS" -> "done"
      [] ret[j] = "TIMEOUT" -> "late"
      [] ret[j] \in Refusals -> "refused"

OrderOf(j) == IF cmd[j] = "queued" THEN "given" ELSE cmd[j]

Promise == INSTANCE PrintOutcome
             WITH outcome <- [j \in Jobs |-> OutcomeOf(j)],
                  uploaded <- [j \in Jobs |-> server[j] = "ok"],
                  order <- [j \in Jobs |-> OrderOf(j)]

(* The flows, whatever fails on the way to the printer, keep the promise:  *)
(* a job is answered once, truthfully, and ordered at most once, after its *)
(* upload and before its answer.                                           *)
KeepsPromise == Promise!Spec

(* A print command that arrives finds the whole local file on the printer. *)
PrintedFileIsWhole ==
    \A j \in Jobs :
        cmd[j] = "arrived" /\ kind[j] \in Printing => printed[j].n = FileLen
=============================================================================
