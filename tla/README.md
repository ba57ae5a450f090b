# Bambu Farm in TLA+

This directory specifies the networking plugin and the farm server of this
repository in TLA+, checks the specifications with TLC on small instances and
proves their main invariants with TLAPS for every instance.

Every module is written from the source; `PROJECT.json` maps each definition to
the lines it stands for and lists the runs, the mutants that show each property
can fail, the findings, the hazards and the theorems.

## 1. The system

Bambu Studio loads `libbambu_networking.so` (`bambu-farm-client`): C++ that
implements Studio's ABI (`cpp/`) over a Rust crate (`src/api.rs`), joined by
cxx. The crate talks gRPC to the farm server (`bambu-farm-server/src/main.rs`),
which talks MQTT and FTPS to the printers.

| Component | State | Operations | Interacts with |
|---|---|---|---|
| connection manager, `api.rs` | `ACTIVE_CONNECTION_STATE`, `MSG_TX`, `CURRENT_CONNECTED_PRINTER`; one task with a receive and a send loop per connection; the discovery loop | connect, disconnect, send, init loop, reconnect | called by the plugin on Studio's threads, calls back from tokio threads; gRPC to the farm |
| plugin session, `session_state.cpp`, `api.cpp` | selected printer, connected, connect in progress, autoconnect pending; `oss-last-device.txt` | connect, disconnect, select, logout, autoconnect, connected/disconnected callbacks | Studio above, connection manager below |
| callback registry, `callback_registry.cpp` | Studio's callbacks, last JSON of every printer | register (with replay), dispatch, remember | session, discovery |
| print flow, `print_flow.cpp` and upload, `api.rs`, `main.rs` | stage, result, temp file on the server, file on the printer | check, upload in chunks, FTPS or curl, send the command, wait | session's send, farm, printer |
| camera tunnel, `tunnel_bridge.cpp`, `api.rs` | tunnel with stream id and queued responses; `CAMERA_STREAMS`; a worker thread per stream | start, read sample, message, receive, close | Studio's player threads, camera |
| local stores, `local_state.cpp`, `local_print_context.cpp`, `printer_metadata.cpp` | name overrides, print contexts, their files | rename, update, clear, load, rewrite status, look up | discovery, status messages, print flow |
| farm, `main.rs` | printers with host, password and metadata; `connections`: a sender per printer; a forwarding and a publishing task per session | connect (resolve, connect, rediscover), send, refresh, upload, listing | plugin over gRPC, printers over MQTT/FTPS |
| source shim, `bambu_source.c` | `network_module`, the function pointers | load, look up, forward | Studio's player opens it; it loads the plugin |
| stateless parts | none | command JSON, file names, cloud answers, tunnel frames, thumbnails, listing, discovery scan | |

What is hard here: three mutexes that are taken in different combinations by
Studio's threads, tokio tasks and a loop that holds one of them while it calls
back into the code that takes it; tasks that outlive the connection they serve;
lookups by printer id where the id has a new owner; RPCs and streams that break
half-way; state saved outside the lock that guards it; printers that change
address while a connect is under way. `PROJECT.json` lists these as `hazards`,
each at its line.

What makes each part correct:

- connection manager: the registered connection is served; what is no longer
  registered knows it; after an outage the connected printer is the one that is
  reconnected; calls return; loops end.
- session: an attempt Studio waits for is answered; a loss is noticed; no
  printer is taken for connected that nobody tried to connect.
- farm: a registered sender leads to a live session; connects are answered;
  sessions are reclaimed; a printer that settled is reached.
- callbacks: what the plugin knows, Studio was told or is about to be told; the
  selection on disk is the one in memory.
- print: what is acknowledged is the whole stream; the result tells the outcome;
  what is printed under a name that tells a content has that content; the
  context that names a printer's print is of a job the printer has.
- tunnel: a released worker is stopped and ends; none is left; an end is real;
  a download arrives whole, in order, and to the session that asked for it.
- shim: no call goes through a pointer that was never looked up.
- stores: a restart loses nothing; a printer is shown under its given name; a
  status message names its job.

## 2. Modules

Each component has a module of its own, properties at its end and mutants beside
the definition they change. `MC*` modules add only symmetry, environments and
the choice of a subject, `ClientSteady`, `ClientTarget` and `TunnelHistory` the
history that some guarantees depend on; `*_proofs` modules hold the theorems.

**ClientConnection** (`api.rs`). `active` with `devOf` and `cancel` is
`ACTIVE_CONNECTION_STATE`, a connection being its generation; `msgTx` is
`MSG_TX`; `current` is `CURRENT_CONNECTED_PRINTER`. Two mutexes are variables
because code blocks while it holds them: `actLock` during
`clear_active_connection`, `curLock` during the reconnect of the discovery loop.
The third is never held across another lock and its sections are atomic. `call`
gives each thread its place in connect or disconnect (Peek, Take, DropSender,
Uncurrent, EmitDisconnected, Insert, Activate: one step per lock section).
`task`, `recvFails`, `sendLoop`, `sendFails` and `queue` are the connection task
and its send loop; `loop` and `listFails` the discovery loop. A generation is a
nanosecond clock reading in the code and a counter here: two connects in one
nanosecond are left out.

`ImplementsSlot` states that this implements **ConnectionSlot**, the abstract
specification of `ACTIVE_CONNECTION_STATE`: an exclusive slot whose owner is
replaced, retired by a teardown, or ends, and which no step that ends one
connection can disturb for another. The refinement mapping gives a generation
its phase from `active`, `cancel` and `task`. **ClientSteady** is the manager
with the printer list up, and with the history variable `overlap`: whether two
calls have been under way at once. **ClientTarget** lets the list stream break
again and adds `late`: whether `CURRENT_CONNECTED_PRINTER`, which the reconnect
of the discovery loop reads, was last set by a task that had been replaced or
told to stop while it dialled.

**SessionState** (`session_state.cpp`). The four fields of the class and one
operator per method, each being one critical section. The two modules below
instantiate it.

**PluginSession** (`api.cpp`; EXTENDS ClientConnection, INSTANCE SessionState)
adds the session and the last status Studio was given. An
entry point is its session change joined with the manager's action it calls; a
task's callback is joined with the task step that makes it. `Autoconnect` is
taken on the discovery thread: the task of `refresh_available_printers`, which
reports printers in the same way, is stood for by that thread. Logging out also
clears the print context, which is `Clear` of LocalStores and `Forget` of
PrintSubmission, and saves the selection, which StudioCallbacks follows.

**StudioCallbacks** (`callback_registry.cpp`, `api.cpp`; INSTANCE SessionState)
looks at the same entry points step by step, on several threads: reading the
state, storing the callback, copying it, calling it, writing
`oss-last-device.txt` are separate steps, because the lock of the registry is
not held between them. A save that cannot open the file leaves it as it was,
one that cannot write leaves it empty. `fn` is the set of registered callbacks, `cache` the
remembered JSON of each printer (a version number), `at` what each thread is
doing, `batch` the copy it replays or the list it reports, `shown` and `told`
what Studio was last given. `crossed` is history: topics that changed while
another thread had the old value in hand, and "save" once a save has failed.
What connection tasks announce is left
free, since ClientConnection says what it can be.

**FarmServer** (`main.rs`). `rpc` follows each `connect_printer` call through
password, host, session and rediscovery; `connections` is the registry;
`forwarder`, `publisher` and `queue` are the tasks of a session. The network is
external: where printers are, and whether they accept a session, may change.
A scan finds a printer only where it is (`Discovered`), and any scan may find
nothing: an interface outside a private /24, the TCP timeout, an MQTT error or
the report deadline. A connect that ends for that is "unfound".
One refresh per printer is under way at a time.

**PrintJob** (`print_job.cpp`) is the pure part of a submission: sanitizing and
normalizing a file name, the suffix made of the content (or of the path when the
file cannot be read) and the plate path. A name is a record of stem, extensions
and suffix.

**PrintSubmission** (`print_flow.cpp`, upload of `api.rs`, upload handler of
`main.rs`; EXTENDS PrintJob). One submission per job from the entry point to the
return code: naming the job from its parameters and the file as it is then, the
chunk stream, the server's temp file, FTPS with its pre-delete, put and quit,
the curl fallback, and the printer's side: the file of each remote name and the
command that arrives. `context` is the job that `update_local_print_context`
recorded last for a printer, until a logout. Studio may rewrite the file between any two steps, and two
jobs may come to one remote name.

`KeepsPromise` states that this implements **PrintOutcome**, the abstract
specification of what Studio is promised of a job: one answer; at most one order
to print, never before the file is on the printer (a print from the card needs
none) and never after the answer; an order left behind only by "done" or "late".
Chunks, the server, FTPS, curl, the names and the other jobs are gone from it.
The refinement mapping reads the answer off `ret`, the upload off the server's
success and the order off `cmd`.

**TunnelFrames** (`tunnel_protocol.cpp`) splits the answer to a download into
frames; **CameraTunnel** (`tunnel_bridge.cpp`, camera part of `api.rs`) is a
tunnel whose calls are made by several threads, with the queue of frames, the
stream registry and the workers. Start is two steps (the id under the lock, the
registration after it), as are the requests. **TunnelHistory** adds the requests
of the session (`session`) and whether a call crossed a start or a request of
another thread (`crossed`); `MCCameraTunnel` puts the shim before it.

**SourceShim** (`bambu_source.c`). The constructor, `load_network_module` with
its lookups one at a time, and the forwarded calls, on any number of threads:
there is no lock. A library that lacks a function, and one that cannot be
opened, are initial states.

**LocalStores** (`local_state.cpp`, `local_print_context.cpp`,
`printer_metadata.cpp`). The two tables behave alike and share nothing, so a
behaviour follows one of them. A file is its sequence of rows; a save is change,
truncation, (reading the live table,) write at close, with the data race on
`contexts_` as a choice of the rows that may come out and the overlap of two
writers as a tail of the earlier rows left behind. `Restart` may come at any
moment. `disturbed` and `misShown` are history: whether the last save, or the
last report of a printer, ran alone and succeeded. A file row cut in two by an
overlap is skipped on load or belongs to no printer, and is left out.

Composition: PluginSession composes the session with the connection manager,
PrintSubmission the job names with the flow, CameraTunnel the frames with the
tunnel. StudioCallbacks and PluginSession share the session object. The others
meet at interfaces that each side leaves free: the farm may refuse, end or break
any call the plugin makes, and clients may cancel any call the farm serves.

## 3. Runs

Small instances: one or two printers, because every registry is keyed by
printer and two keys suffice for a mix-up; two generations or sessions, because
a hazard is always between one and its successor; failure limit 1 instead of 3,
the loops only compare with it; queues of 0 or 1 instead of 10, files of two
chunks, frame queues of 2, since full, empty and in between are what differs.
Downloads of 0 to 5 bytes in chunks of 2 reach an empty payload, one chunk, a
multiple and both neighbours of it; three streams and requests let a third be
started while two overlap; two versions of a printer's JSON let an older one
overtake a newer; two contents and one rewriting let a file change between its
name and its upload. Of the two prints one is a `start_print` that waits
for the printer, the other of any kind. `CHECK_DEADLOCK FALSE` is given where all work may be done
(bounded generations, sessions, jobs, streams or versions); `local_stores` never
stops and has it on. Symmetry is used only in runs without liveness.

| Run | Shows |
|---|---|
| `client_connection` | all interleavings of a Studio thread, the discovery loop with list failures and reconnect, and two connections: TypeOK, ActiveIsServed, NoOrphanTask, ReconnectsToActive |
| `client_steady` | with the list stream up: the manager implements ConnectionSlot (ImplementsSlot), ActiveHasSender, CallsReturn, ReplacedTaskEnds, SendLoopEnds |
| `client_reconnect` | *violated*: the discovery loop holds a mutex and waits for it itself, or for a clearing task that waits for it |
| `plugin_session` | AttemptHasAnswer and ClaimedWasTried through connects, disconnects, logout, selection, autoconnect |
| `plugin_loss` | *violated*: a lost status stream gives Studio no disconnect |
| `studio_callbacks` | NoPrinterMissed, LoginIsTold, ConnectionIsTold, SelectionIsSaved and StudioCatchesUp with two of Studio's threads, a connection task, the discovery loop and a refresh |
| `farm_server` | RegisteredSessionIsLive, ConnectIsAnswered, SessionIsReclaimed, SettledPrinterIsReached with two sessions to a printer that moves once and that any scan may miss |
| `farm_sender` | *violated*: the end of a session takes the sender of its successor |
| `print_submission` | AcknowledgedIsWholeStream, ReturnTellsOutcome, PrintedIsStreamed, PrintedIsOurs, ContextHasItsFile, and the refinement of PrintOutcome (KeepsPromise) with two jobs from one file that Studio rewrites, and failures at every step |
| `print_truncated` | *violated*: a read error ends the upload like the end of the file |
| `camera_tunnel` | ReleasedIsStopped, NoOrphanCamera, EndIsTrue, StoppedWorkerEnds for the camera, DownloadUnbroken and AnswersAreOurs for the file browser, NoNullCall for the shim, with two callers |
| `local_stores` | FileFollowsMemory, ShownUnderGivenName, StatusNamesTheJob with two threads, overlapping, failing and interrupted saves |

`MCStudioCallbacks` and `MCCameraTunnel` choose a subject for each behaviour and
leave the entry points of the others out of it: printers, login, connection and
selection share no state in the registry but what the subject includes, and
camera and files share only the tunnel's close. `MCCameraTunnel` uses the tunnel
once the shim has loaded the library.

Conditions that are part of the result.

- `client_steady` assumes the list stream stays up, because with the reconnect of
  `client_reconnect` calls can block for ever. `plugin_session` and `plugin_loss`
  assume the same. ActiveHasSender and SendLoopEnds hold until calls overlap
  (history variable `overlap`): insert and registration are two lock sections.
- ReconnectsToActive holds until calls overlap, or until a task that was
  replaced while it dialled publishes its printer (`late`) and as long as no
  registered one has published since.
- SettledPrinterIsReached excepts a connect whose own scan found nothing. It
  says that a connect does not end at a stale address while its scans succeed.
- ClaimedWasTried is about a device that waits for no autoconnect.
- LoginIsTold, ConnectionIsTold and SelectionIsSaved hold until a change crosses
  a thread that has the old value in hand (`crossed`); SelectionIsSaved also
  excepts a selection made by a connection task, which the code does not save,
  and any selection after a save that failed, which the code only logs. Saves in
  the other order do no harm: each reads the selection itself.
  NoPrinterMissed and StudioCatchesUp have no such condition: the registry
  stores the callback and copies the list in one lock section, and a list comes
  every second.
- NoOrphanCamera and EndIsTrue hold until a start, a read or a close crosses a
  start of another thread (`crossed` has "start"); AnswersAreOurs until a close
  crosses a request ("request").
- NoNullCall holds if the library exports every function and no other thread is
  looking them up.
- PrintedIsStreamed is about a job to whose remote name nobody else uploads;
  PrintedIsOurs about a file that was not rewritten between its naming and the
  upload. ContextHasItsFile has no condition, but a job that is cancelled after
  its upload, or whose command could not be sent, keeps its context.
- The properties of the stores hold for saves and reports that ran alone and
  succeeded.

The models reach each of these exceptions: they are gaps of the code that no
text of the repository rules out, and the hazards name their lines.

Fairness. A thread or tokio task that can take a step takes it (weak fairness
per call, task and loop): nothing in the code suspends them but the locks and
channels that are modelled. `DialOk` or `DialFailed` happens because gRPC
connects time out or fail; an RPC of the farm ends because MQTT connects and
scans have timeouts; a camera worker's reads time out; the server sends the
printer list every second, so the discovery loop reports again. Nothing is
assumed of Studio, of messages arriving, of printers moving or of clients
leaving.

## 4. Proofs

All theorems are for arbitrary constants under the named assumptions of the
modules (finite or disjoint sets, positive bounds).

- `ClientConnection_proofs`: TypeOK, ActiveIsServed, NoOrphanTask and the
  refinement of ConnectionSlot. None of the last three is inductive: they depend on which generation a call in progress holds and on
  generations not used yet. The inductive invariant adds that (`CallShape`: a
  call past Take has a generation of its own kind; `GenOwned`: a generation
  belongs to one caller until it has a task; `Unused`: numbers beyond the last
  have no state; `Safe`: nothing is registered while a task clears).
  `SlotImplemented` then shows action by action that a step is a
  step of the slot or leaves the phases alone.

  ActiveHasSender (for SteadySpec, with the list up) speaks of the moments when
  no call is under way. `SenderInv` carries it through the calls while they do
  not overlap: the call under way is the only one, nothing is active between
  its teardown and its Activate, its own sender is in `MSG_TX` from Insert on,
  and what a disconnect removes is never the sender of the active printer.

  ReconnectsToActive (for TargetSpec, with the list breaking) relates
  `CURRENT_CONNECTED_PRINTER` to the registered entry, which no critical section
  covers together. `TargetInv` adds, as long as calls do not overlap, that the
  call under way is the only one and that what it removes is not the printer
  registered (`Apart`).

  GuardsHaveOwners and HoldersGoOn are what is true of the mutexes without
  fairness. `actLock` is held only by a task that is about to clear the current
  printer, `curLock` only by the reconnect while it is inside connect, so the
  only cycles of waiting are the ones `client_reconnect` shows. With the list up
  nobody holds `curLock` and the holder of the other is enabled: the part of
  CallsReturn that is left to TLC is that fair threads then go on.
- `PluginSession_proofs`: PSpec implements Spec of ClientConnection, each plugin
  step being a manager step or a stutter, so NoOrphanTask holds of the plugin
  without a second induction. On top of that PTypeOK; AttemptHasAnswer, whose
  strengthening `Awaited` counts only the calls and tasks that are bound to
  bring a callback (a disconnect that has not looked at the active connection,
  or the failed dial of a replaced one, is not); and ClaimedWasTried, with the
  fact that a generation keeps its device and unused ones have none.
- `StudioCallbacks_proofs`: TypeOK, NoPrinterMissed, LoginIsTold,
  ConnectionIsTold and SelectionIsSaved. The last three say nothing while a
  thread has something in hand; the invariant says that somebody does until
  Studio is told (or the file written, or the save failed), and that what is in
  hand is what holds.
- `FarmServer_proofs`: TypeOK and RegisteredSessionIsLive; SenderLostToPeer,
  the reverse of what `farm_sender` finds violated: a live session without its
  sender lost it to another session of the printer, and to nothing else (a
  cancelled or failed connect, a moving printer or a refresh never costs a
  sender); and AcceptedIsDrained, no message is queued where no publisher runs.
  They need which calls have an open session (`SessionShape`).
- `PrintSubmission_proofs`: TypeOK, AcknowledgedIsWholeStream,
  ReturnTellsOutcome, PrintedIsStreamed, PrintedIsOurs, ContextHasItsFile,
  UploadedAsPackage (a job named by its content is uploaded as `.gcode.3mf`,
  from a lemma on normalize_print_package_name for names of any length) and
  KeepsPromise, the refinement of PrintOutcome. The invariants relate
  the client's stage to the server's (a server past receiving saw the end of the
  stream), say what the printer holds for a job alone in its slot (`Matches`),
  that a slot carries the hash the job was named by (`SlotTells`), and that a
  content on the printer is there because a job streamed it to its end.
  ContextHasItsFile rests on `Recorded`: a flow that went past its upload does
  not fail for it any more, and an acknowledged file stays acknowledged, so that
  no step of another job, or of the server after its client gave up, makes the
  context that of a job without a file. For the
  refinement each action is one abstract step or none. The invariants above say
  that the server has succeeded wherever the flow goes on to order or to answer
  "done", and `Walk` which entry points get as far as the order and which one
  waits; the server's success is the abstract upload, whatever the client has
  been told by then.
- `CameraTunnel_proofs`: TypeOK, ReleasedIsStopped, with the fact that a caller
  about to register a stream has claimed its id, and DownloadUnbroken, from
  lemmas on the number of chunks and on where each frame begins and ends. Of
  TunnelHistory: NoOrphanCamera and EndIsTrue, as long as starts were not
  crossed, because then a caller between id and registration is the only one
  and the tunnel's id is its own (`StartsAlone`), and an id is
  registered once and its state "ended" is set by its worker alone (`Fresh`); AnswersAreOurs, because a
  request under way belongs to the session unless a close crossed it
  (`AsksAlone`).
- `SourceShim_proofs`: NoNullCall; a module that is set has its functions looked
  up, or a thread is at it and has those before.
- `LocalStores_proofs`: TypeOK, FileFollowsMemory, ShownUnderGivenName and
  StatusNamesTheJob. FileFollowsMemory says nothing while a call runs, so the
  invariant follows a save that runs alone from step to step, says that such a
  call is the only one, and that outside of saves an undisturbed file loads to
  the table. Lemma LoadListing shows that saving and loading are inverse. For
  ShownUnderGivenName a remembered name that differs from the given one has a
  call under way for its printer.

Only model-checked: liveness (CallsReturn, ReplacedTaskEnds, SendLoopEnds,
StudioCatchesUp, ConnectIsAnswered, SessionIsReclaimed, SettledPrinterIsReached,
StoppedWorkerEnds), since the prover has no fairness reasoning. Every invariant
and both refinements that a passing run checks are proved. TypeOK of
PrintSubmission is proved and not checked by a run any more.

## 5. Not modelled

- The message callbacks and the server-connected callback, which pass on what
  comes and keep nothing; setters of callbacks that are never called.
- The text of messages, paths, JSON, escaping and logs; the display name, the
  plate index, the AMS fields and the flags of the print command; the login
  commands.
- Of file names: the letter case of extensions, two contents with one hash, a
  path that ends in a slash.
- What each file request of the tunnel reads or deletes on the printer; FTPS
  listing, deletion and control messages (one request at a time, nothing kept).
- The address scan and configuration parsing (only what they find, or that they
  do not); thumbnails
  (a zip read, a cache file written); cloud answers (constant text).
- Two connects in one nanosecond, which would give two connections one
  generation.
- Headers and stubs, the server's unused gRPC router, build and packaging.

Effects the models reach but no property judges, because the repository states
no rule for them: a connected callback that comes after a logout selects the
printer again; the password of a connect is kept for later sessions; a cleared
name stays on screen until the printer is reported again; a failed list stream
clears the sender of a connection that is up; the bytes of a sample may be
replaced by another thread's read while Studio copies them.

## 6. Plan

Done, in this order: connection manager, farm, session on the manager, print
submission, camera tunnel, local stores; then callbacks and registration, frames
and requests of the tunnel, the shim, job names and contents, the abstract slot
and its refinement; inductive proofs of each; then the invariants that depend on
history, the mutexes, the senders of the farm, the promise of a print and its
refinement; then scans and saves that fail, what a reconnect reconnects, and the
contexts that prints leave.

Next:

1. An abstract session (idle, connecting, connected, with Studio's view) that
   PluginSession implements when no task is cancelled while it dials.
2. PrintSubmission composed with the files of LocalStores: a context that is
   saved while another job records its own.
