----------------------------- MODULE LocalStores -----------------------------
(***************************************************************************)
(* The two tables the plugin keeps across restarts, keyed by printer:      *)
(* PrinterMetadataStore (names Studio gave printers) and                   *)
(* LocalPrintContextStore (ids of the print the plugin started), with the  *)
(* files of local_state.cpp they are saved to and loaded from, and the     *)
(* printer list that CallbackRegistry remembers under those names.  The    *)
(* tables share no state: a behaviour follows one of them, `kind'.         *)
(*                                                                         *)
(* A file is the sequence of its rows.  An ofstream opened with trunc      *)
(* holds the rows in its buffer until it is closed, and then writes them   *)
(* from offset 0, over whatever another writer put there meanwhile.        *)
(***************************************************************************)
EXTENDS Naturals, Sequences, FiniteSets

CONSTANTS
    Devices,        \* dev_id of the printers
    Vals,           \* names given by the user, or synthetic subtask ids
    NoVal,          \* no entry for the printer
    Own,            \* the name in the printer's own JSON
    Threads         \* Studio's threads and the one that reports printers

ASSUME DistinctNames == NoVal \notin Vals /\ Own \notin Vals /\ Own # NoVal
ASSUME FiniteDevices == IsFiniteSet(Devices)

VARIABLES
    kind,           \* the table followed
    mem,            \* printer_name_overrides_, or contexts_
    file,           \* rows of oss-printer-names.tsv or ...-print-contexts.tsv
    shown,          \* last_printer_json_by_id_: its dev_name, NoVal if absent
    call,           \* what each thread is doing
    disturbed,      \* history: the last save failed or did not run alone
    misShown        \* history: the name was remembered by an overlapped call

vars == <<kind, mem, file, shown, call, disturbed, misShown>>

Table == [Devices -> Vals \cup {NoVal}]
Empty == [d \in Devices |-> NoVal]
Row == Devices \X Vals

Call == [pc : {"idle", "open", "collect", "flush", "recall", "apply",
               "remember"},
         dev : Devices \cup {NoVal}, \* printer the call is about
         name : Vals \cup {Own, NoVal},
         buf : Table,               \* rows to write
         raced : BOOLEAN,           \* contexts_ changed under the iteration
         alone : BOOLEAN]           \* no other call overlapped this one

TypeOK ==
    /\ kind \in {"names", "contexts"}
    /\ mem \in Table
    /\ file \in Seq(Row)
    /\ shown \in [Devices -> Vals \cup {Own, NoVal}]
    /\ call \in [Threads -> Call]
    /\ disturbed \in BOOLEAN
    /\ misShown \in [Devices -> BOOLEAN]

IdleCall == [pc |-> "idle", dev |-> NoVal, name |-> NoVal,
             buf |-> Empty, raced |-> FALSE, alone |-> TRUE]

Idle(t) == call[t].pc = "idle"
Quiet == \A t \in Threads : Idle(t)

(* A first start: no file.                                                 *)
Init ==
    /\ kind \in {"names", "contexts"}
    /\ mem = Empty
    /\ file = <<>>
    /\ shown = Empty
    /\ call = [t \in Threads |-> IdleCall]
    /\ disturbed = FALSE
    /\ misShown = [d \in Devices |-> FALSE]

-----------------------------------------------------------------------------
(* Saving and loading.                                                     *)

Entries(m) == {<<d, m[d]>> : d \in {e \in Devices : m[e] # NoVal}}

(* The loop over the hash map writes each entry once, in some order.       *)
Listings(m) ==
    {s \in [1..Cardinality(Entries(m)) -> Entries(m)] :
        \A e \in Entries(m) :
            \E i \in DOMAIN s : \A j \in DOMAIN s : s[j] = e <=> j = i}

(* Writing s over f leaves a tail of f; a row of f cut in two is skipped   *)
(* when the file is loaded, or is about no printer.                        *)
Overwritten(f, s) ==
    IF s = <<>> \/ f = <<>> THEN {s \o f}
    ELSE {s \o SubSeq(f, k, Len(f)) : k \in 2..(Len(f) + 1)}

(* load_printer_name_overrides, load_local_print_contexts: of several rows *)
(* for a printer the last one counts.                                      *)
RowsOf(f, d) == {i \in 1..Len(f) : f[i][1] = d}
LastRow(f, d) == CHOOSE i \in RowsOf(f, d) : \A j \in RowsOf(f, d) : j <= i

Load(f) ==
    [d \in Devices |-> IF RowsOf(f, d) = {} THEN NoVal
                       ELSE f[LastRow(f, d)][2]]

-----------------------------------------------------------------------------
(* A call begins: calls under way are no longer alone, and those that      *)
(* iterate over contexts_ meet the change this one makes.                  *)
Started(t, c, changes) ==
    call' = [u \in Threads |->
        IF u = t THEN [c EXCEPT !.alone = Quiet]
        ELSE [call[u] EXCEPT
                 !.alone = @ /\ Idle(u),
                 !.raced = @ \/ (changes /\ call[u].pc = "collect")]]

Saving(d, m) == [IdleCall EXCEPT !.pc = "open", !.dev = d, !.buf = m]

(* Mutant: an empty name is kept in the table.                             *)
SetNameOverrideKeepingEmpty(t, d, v) ==
    /\ kind = "names"
    /\ Idle(t)
    /\ mem' = [mem EXCEPT ![d] = IF v = NoVal THEN "" ELSE v]
    /\ Started(t, Saving(d, mem), FALSE)
    /\ UNCHANGED <<kind, file, shown, disturbed, misShown>>

(* Mutant: the copy is taken before the change.                            *)
SetNameOverrideSavingOld(t, d, v) ==
    /\ kind = "names"
    /\ Idle(t)
    /\ mem' = [mem EXCEPT ![d] = v]
    /\ Started(t, Saving(d, mem), FALSE)
    /\ UNCHANGED <<kind, file, shown, disturbed, misShown>>

(* set_name_override, called by bambu_network_modify_printer_name: changes *)
(* the table (NoVal: an empty name erases) and copies it, under the lock.  *)
SetNameOverride(t, d, v) ==
    /\ kind = "names"
    /\ Idle(t)
    /\ mem' = [mem EXCEPT ![d] = v]
    /\ Started(t, Saving(d, mem'), FALSE)
    /\ UNCHANGED <<kind, file, shown, disturbed, misShown>>

(* LocalPrintContextStore::update, when a print starts.                    *)
Update(t, d, v) ==
    /\ kind = "contexts"
    /\ Idle(t)
    /\ mem' = [mem EXCEPT ![d] = v]
    /\ Started(t, Saving(d, Empty), TRUE)
    /\ UNCHANGED <<kind, file, shown, disturbed, misShown>>

(* LocalPrintContextStore::clear, at logout.                               *)
Clear(t, d) ==
    /\ kind = "contexts"
    /\ Idle(t)
    /\ mem' = [mem EXCEPT ![d] = NoVal]
    /\ Started(t, Saving(d, Empty), TRUE)
    /\ UNCHANGED <<kind, file, shown, disturbed, misShown>>

(* persist_...: the file is opened and truncated.  The names to write are  *)
(* the copy; the contexts are still to be read, without the lock.          *)
Open(t) ==
    /\ call[t].pc = "open"
    /\ file' = <<>>
    /\ call' = [call EXCEPT ![t] =
           IF kind = "names"
             THEN [@ EXCEPT !.pc = "flush"]
             ELSE [@ EXCEPT !.pc = "collect", !.buf = mem, !.raced = FALSE]]
    /\ UNCHANGED <<kind, mem, shown, disturbed, misShown>>

(* Where a call goes when persist_... has returned.                        *)
AfterSave(t) ==
    IF kind = "names"
      THEN [call[t] EXCEPT !.pc = "recall", !.buf = Empty]
      ELSE IdleCall

(* persist_... could not open the file, logs it and returns.               *)
OpenFailed(t) ==
    /\ call[t].pc = "open"
    /\ call' = [call EXCEPT ![t] = AfterSave(t)]
    /\ disturbed' = TRUE
    /\ UNCHANGED <<kind, mem, file, shown, misShown>>

(* The loop over contexts_.  If another thread changed it meanwhile, each  *)
(* row may be the one before, the one after or missed; it may also end the *)
(* process, which Restart allows at any time.                              *)
Collect(t) ==
    /\ call[t].pc = "collect"
    /\ \E b \in IF call[t].raced
                  THEN {r \in Table : \A d \in Devices :
                            r[d] \in {NoVal, call[t].buf[d], mem[d]}}
                  ELSE {mem} :
           call' = [call EXCEPT ![t] = [@ EXCEPT !.pc = "flush", !.buf = b]]
    /\ UNCHANGED <<kind, mem, file, shown, disturbed, misShown>>

(* The ofstream is closed.                                                 *)
Flush(t) ==
    /\ call[t].pc = "flush"
    /\ \E s \in Listings(call[t].buf) : file' \in Overwritten(file, s)
    /\ call' = [call EXCEPT ![t] = AfterSave(t)]
    /\ disturbed' = ~call[t].alone
    /\ UNCHANGED <<kind, mem, shown, misShown>>

-----------------------------------------------------------------------------
(* The printer list.                                                       *)

(* Mutant: an override only fills in a missing name.                       *)
ApplyIfUnnamed(d, name) == IF name = NoVal THEN mem[d] ELSE name

(* apply_name_override.                                                    *)
Apply(d, name) == IF mem[d] = NoVal THEN name ELSE mem[d]

(* bambu_network_cb_printer_available.                                     *)
Announce(t, d) ==
    /\ kind = "names"
    /\ Idle(t)
    /\ Started(t, [IdleCall EXCEPT !.pc = "apply", !.dev = d, !.name = Own],
               FALSE)
    /\ UNCHANGED <<kind, mem, file, shown, disturbed, misShown>>

(* bambu_network_modify_printer_name after the save: printer_json.         *)
Recall(t) ==
    /\ call[t].pc = "recall"
    /\ LET last == shown[call[t].dev]
       IN  call' = [call EXCEPT ![t] =
               IF last = NoVal THEN IdleCall
               ELSE [@ EXCEPT !.pc = "apply", !.name = last]]
    /\ UNCHANGED <<kind, mem, file, shown, disturbed, misShown>>

ApplyName(t) ==
    /\ call[t].pc = "apply"
    /\ LET name == Apply(call[t].dev, call[t].name)
       IN  call' = [call EXCEPT ![t] =
               [@ EXCEPT !.pc = "remember", !.name = name]]
    /\ UNCHANGED <<kind, mem, file, shown, disturbed, misShown>>

(* remember_printer_json.                                                  *)
Remember(t) ==
    /\ call[t].pc = "remember"
    /\ shown' = [shown EXCEPT ![call[t].dev] = call[t].name]
    /\ misShown' = [misShown EXCEPT ![call[t].dev] = ~call[t].alone]
    /\ call' = [call EXCEPT ![t] = IdleCall]
    /\ UNCHANGED <<kind, mem, file, disturbed>>

-----------------------------------------------------------------------------
(* Status messages and the questions Studio asks about them.  An id is the *)
(* printer's Own, that of a print the plugin started, or NoVal: missing.   *)

Ids == {"project_id", "profile_id", "subtask_id", "task_id"}
Message == [print : BOOLEAN,                        \* has a "print" object
            ipcam : {"absent", "bare", "file"},     \* "bare": without "file"
            ids : [Ids -> {NoVal, Own} \cup Vals]]

(* inject_file_capability.                                                 *)
InjectFileCapability(m) ==
    IF m.print THEN [m EXCEPT !.ipcam = "file"] ELSE m

(* Mutant: a message with any of the ids is left as it is.                 *)
RewriteStatusUnlessAny(d, m) ==
    IF mem[d] = NoVal \/ ~m.print \/ \E i \in Ids : m.ids[i] # NoVal
      THEN InjectFileCapability(m)
      ELSE [InjectFileCapability(m) EXCEPT !.ids = [i \in Ids |-> mem[d]]]

(* rewrite_status_message, called by bambu_network_cb_message_recv.        *)
RewriteStatus(d, m) ==
    IF mem[d] = NoVal \/ ~m.print
      THEN InjectFileCapability(m)
      ELSE [InjectFileCapability(m) EXCEPT !.ids =
               [i \in Ids |-> IF m.ids[i] = NoVal THEN mem[d] ELSE m.ids[i]]]

(* lookup_subtask_id, build_subtask_info: the HTTP status Studio is given. *)
LookupSubtaskId(id) == {d \in Devices : mem[d] # NoVal /\ mem[d] = id}
BuildSubtaskInfo(id) == IF LookupSubtaskId(id) = {} THEN 404 ELSE 200

-----------------------------------------------------------------------------
(* Studio ends, at any moment; bambu_network_set_config_dir of the next    *)
(* start loads the table.                                                  *)
Restart ==
    /\ mem' = Load(file)
    /\ shown' = Empty
    /\ call' = [t \in Threads |-> IdleCall]
    /\ disturbed' = FALSE
    /\ misShown' = [d \in Devices |-> FALSE]
    /\ UNCHANGED <<kind, file>>

Next ==
    \/ \E t \in Threads :
          \/ \E d \in Devices :
                \/ \E v \in Vals \cup {NoVal} : SetNameOverride(t, d, v)
                \/ \E v \in Vals : Update(t, d, v)
                \/ Clear(t, d)
                \/ Announce(t, d)
          \/ Open(t) \/ OpenFailed(t) \/ Collect(t) \/ Flush(t)
          \/ Recall(t) \/ ApplyName(t) \/ Remember(t)
    \/ Restart

Spec == Init /\ [][Next]_vars

-----------------------------------------------------------------------------
(* A restart keeps every entry, and brings none back that was removed,     *)
(* unless the last save failed or overlapped another call: one save that   *)
(* ran alone makes up for all that went wrong before it.                   *)
FileFollowsMemory == Quiet /\ ~disturbed => Load(file) = mem

(* The name remembered for a printer, which Studio is shown, is the one    *)
(* the user gave it, whether the printer was reported before or after the  *)
(* renaming, unless the two overlapped.                                    *)
ShownUnderGivenName ==
    kind = "names" /\ Quiet =>
        \A d \in Devices :
            shown[d] # NoVal /\ mem[d] # NoVal /\ ~misShown[d] =>
                shown[d] = mem[d]

(* While a print the plugin started is on a printer, every status message  *)
(* names a job: no id is missing, the printer's own ids stay, and an id    *)
(* the plugin put in is one get_subtask_info answers for.  Rewriting twice *)
(* is rewriting once.                                                      *)
StatusNamesTheJob ==
    kind = "contexts" /\ Quiet =>
        \A d \in Devices, m \in Message :
            LET r == RewriteStatus(d, m)
            IN  mem[d] # NoVal /\ m.print =>
                    /\ \A i \in Ids : /\ r.ids[i] # NoVal
                                      /\ m.ids[i] # NoVal => r.ids[i] = m.ids[i]
                    /\ m.ids["subtask_id"] = NoVal =>
                           BuildSubtaskInfo(r.ids["subtask_id"]) = 200
                    /\ RewriteStatus(d, r) = r
=============================================================================
