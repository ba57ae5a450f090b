------------------------ MODULE StudioCallbacks_proofs ------------------------
(* What Studio is told, for any number of printers, threads and tasks.     *)
EXTENDS StudioCallbacks, TLAPS

LEMMA IdleIsCall == Idle \in Call
  BY CallbacksAssumption DEF Idle, Call, Event, Versions

LEMMA Bounds == Versions \subseteq Nat /\ 0 \in Versions
  BY CallbacksAssumption DEF Versions

LEMMA TypeInit == Init => TypeOK
<1> SUFFICES ASSUME Init PROVE TypeOK
  OBVIOUS
<1>1. Empty \in [Devices -> Versions]
  BY Bounds DEF Empty
<1>2. real \in [Devices -> Versions] /\ refresh \in BOOLEAN
  BY Bounds DEF Init
<1>3. SessionTypeOK(Devices)
  BY Zenon DEF Init, SessionTypeOK
<1>4. at \in [Threads -> Call]
  BY IdleIsCall DEF Init
<1>5. told \in [Replayed -> [ev : Event, dev : Devices \cup {NoDevice}]]
  BY DEF Init, Event
<1>6. QED
  BY <1>1, <1>2, <1>3, <1>4, <1>5 DEF Init, TypeOK, LoginEvents

(* Thread t goes on with a call of the right form.                         *)
LEMMA AtTyped ==
    ASSUME TypeOK, NEW t \in Threads, NEW c \in Call, Do(t, c)
    PROVE  at' \in [Threads -> Call]
  BY DEF TypeOK, Do

(* A step, action by action; only the parameters matter for what follows.  *)
ThreadStep(t) ==
    \/ SetSsdpCallback(t) \/ RequestRefresh(t) \/ SetCallback(t) \/ Reply(t)
    \/ Copy(t) \/ Dispatched(t) \/ ListReceived(t) \/ Remember(t)
    \/ MatchSelected(t) \/ Claim(t) \/ LogoutUnconnected(t) \/ LogoutClears(t)
    \/ ReadSelected(t) \/ WriteSelected(t)
    \/ \E f \in Replayed : ReadCurrent(t, f)
    \/ \E f \in Replayed \cup {"ssdp"} : Unset(t, f) \/ Tell(t, f)
    \/ \E d \in Devices : \/ Replay(t, d) \/ CbPrinterAvailable(t, d)
                           \/ CbConnected(t, d) \/ ConnectPrinter(t, d)
    \/ \E d \in Devices \cup {NoDevice} : SelectMachine(t, d)
    \/ \E d \in Devices, failed \in BOOLEAN, then \in {"idle", "clear"} :
         at[t] = Idle /\ CbDisconnected(t, d, failed, then)
    \/ \E ev \in LoginEvents :
         (at[t] = Idle \/ at[t].pc = "logout") /\ SetLanLoginState(t, ev)

LEMMA NextCases ==
    ASSUME TypeOK, Next
    PROVE  (\E t \in Threads : ThreadStep(t)) \/ (\E d \in Devices : PrinterChanges(d))
<1>1. ASSUME NEW t \in Callers, CallerStarts(t) PROVE ThreadStep(t) /\ t \in Threads
  BY <1>1 DEF CallerStarts, ThreadStep, DisconnectPrinter, Disconnected,
       LogoutConnected, ChangeUser, LoginEvents, Threads, TypeOK, SessionTypeOK
<1>2. ASSUME NEW t \in Tasks, TaskStarts(t) PROVE ThreadStep(t) /\ t \in Threads
  BY <1>2 DEF TaskStarts, ThreadStep, Disconnected, Threads
<1>3. ASSUME NEW t \in Reporters, Report(t) PROVE ThreadStep(t) /\ t \in Threads
  BY <1>3 DEF Report, ThreadStep, Threads
<1>4. ASSUME NEW t \in Threads, Step(t) PROVE ThreadStep(t)
  BY <1>4 DEF Step, ThreadStep, LogoutEnds, LoginEvents
<1>5. QED
  BY <1>1, <1>2, <1>3, <1>4 DEF Next

LEMMA TypeStep == ASSUME TypeOK, [Next]_vars PROVE TypeOK'
<1> USE Bounds DEF session, world
<1>1. ASSUME NEW t \in Threads, SetSsdpCallback(t)
      PROVE  TypeOK'
  <2> DEFINE c == [at[t] EXCEPT !.pc = "replay"]
  <2>1. c \in Call
    BY <1>1, IdleIsCall DEF SetSsdpCallback, TypeOK, SessionTypeOK, Call,
        Event, LoginEvents, LinkEvents
  <2>2. Do(t, c)
    BY <1>1 DEF SetSsdpCallback, Do, Goto, TypeOK
  <2>3. at' \in [Threads -> Call]
    BY <2>1, <2>2, AtTyped
  <2>4. QED
    BY <1>1, <2>3 DEF SetSsdpCallback, TypeOK, SessionTypeOK, Topics, Call
<1>2. ASSUME NEW t \in Threads, NEW d \in Devices, Replay(t, d)
      PROVE  TypeOK'
  BY <1>2 DEF Replay, TypeOK, SessionTypeOK
<1>3. ASSUME NEW t \in Threads, RequestRefresh(t)
      PROVE  TypeOK'
  <2> DEFINE c == Idle
  <2>1. c \in Call
    BY <1>3, IdleIsCall DEF RequestRefresh, TypeOK, SessionTypeOK, Call,
        Event, LoginEvents, LinkEvents
  <2>2. Do(t, c)
    BY <1>3 DEF RequestRefresh, Do, Goto, TypeOK
  <2>3. at' \in [Threads -> Call]
    BY <2>1, <2>2, AtTyped
  <2>4. QED
    BY <1>3, <2>3 DEF RequestRefresh, TypeOK, SessionTypeOK, Topics, Call
<1>4. ASSUME NEW t \in Threads, NEW f \in Replayed, ReadCurrent(t, f)
      PROVE  TypeOK'
  <2> DEFINE c == [Idle EXCEPT !.pc = "set", !.ev = Current(f).ev, !.dev =
      Current(f).dev, !.to = {f}]
  <2>0. Current(f) \in [ev : Event, dev : Devices \cup {NoDevice}]
    BY DEF Current, ConnectedSelectedDevice, TypeOK, SessionTypeOK, Event,
        LoginEvents, LinkEvents
  <2>1. c \in Call
    BY ZenonT(60), <2>0, <1>4, IdleIsCall DEF ReadCurrent, TypeOK, SessionTypeOK, Call,
        Event, LoginEvents, LinkEvents
  <2>2. Do(t, c)
    BY <1>4 DEF ReadCurrent, Do, Goto, TypeOK
  <2>3. at' \in [Threads -> Call]
    BY <2>1, <2>2, AtTyped
  <2>4. QED
    BY <1>4, <2>3 DEF ReadCurrent, TypeOK, SessionTypeOK, Topics, Call
<1>5. ASSUME NEW t \in Threads, SetCallback(t)
      PROVE  TypeOK'
  <2> DEFINE c == [at[t] EXCEPT !.pc = "reply"]
  <2>1. c \in Call
    BY <1>5, IdleIsCall DEF SetCallback, TypeOK, SessionTypeOK, Call, Event,
        LoginEvents, LinkEvents
  <2>2. Do(t, c)
    BY <1>5 DEF SetCallback, Do, Goto, TypeOK
  <2>3. at' \in [Threads -> Call]
    BY <2>1, <2>2, AtTyped
  <2>4. QED
    BY <1>5, <2>3 DEF SetCallback, TypeOK, SessionTypeOK, Topics, Call
<1>6. ASSUME NEW t \in Threads, Reply(t)
      PROVE  TypeOK'
  <2> DEFINE c == Idle
  <2>1. c \in Call
    BY <1>6, IdleIsCall DEF Reply, TypeOK, SessionTypeOK, Call, Event,
        LoginEvents, LinkEvents
  <2>2. Do(t, c)
    BY <1>6 DEF Reply, Do, Goto, TypeOK
  <2>3. at' \in [Threads -> Call]
    BY <2>1, <2>2, AtTyped
  <2>4. QED
    BY <1>6, <2>3 DEF Reply, TypeOK, SessionTypeOK, Topics, Call
<1>7. ASSUME NEW t \in Threads, NEW f \in {"ssdp"} \cup Replayed, Unset(t, f)
      PROVE  TypeOK'
  BY <1>7 DEF Unset, TypeOK, SessionTypeOK
<1>8. ASSUME NEW t \in Threads, Copy(t)
      PROVE  TypeOK'
  <2> DEFINE c == [at[t] EXCEPT !.pc = "tell", !.to = Targets(at[t].ev) \cap
      fn]
  <2>1. c \in Call
    BY <1>8, IdleIsCall DEF Copy, TypeOK, Call
  <2>2. Do(t, c)
    BY <1>8 DEF Copy, Do, Goto, TypeOK
  <2>3. at' \in [Threads -> Call]
    BY <2>1, <2>2, AtTyped
  <2>4. QED
    BY <1>8, <2>3 DEF Copy, TypeOK, SessionTypeOK, Topics, Call
<1>9. ASSUME NEW t \in Threads, NEW f \in Replayed \cup {"ssdp"}, Tell(t, f)
      PROVE  TypeOK'
  <2> DEFINE c == [at[t] EXCEPT !.to = @ \ {f}]
  <2>1. c \in Call
    BY <1>9, IdleIsCall DEF Tell, TypeOK, Call
  <2>2. Do(t, c)
    BY <1>9 DEF Tell, Do, Goto, TypeOK
  <2>3. at' \in [Threads -> Call]
    BY <2>1, <2>2, AtTyped
  <2>4. QED
    BY SMTT(30), <1>9, <2>3 DEF Tell, TypeOK, SessionTypeOK, Topics, Call
<1>10. ASSUME NEW t \in Threads, Dispatched(t)
      PROVE  TypeOK'
  <2> DEFINE c == IF at[t].then = "idle" THEN Idle ELSE [Idle EXCEPT !.pc =
      at[t].then, !.dev = at[t].dev]
  <2>1. c \in Call
    BY <1>10, IdleIsCall DEF Dispatched, TypeOK, SessionTypeOK, Call, Event,
        LoginEvents, LinkEvents
  <2>2. Do(t, c)
    BY <1>10 DEF Dispatched, Do, Goto, TypeOK
  <2>3. at' \in [Threads -> Call]
    BY <2>1, <2>2, AtTyped
  <2>4. QED
    BY <1>10, <2>3 DEF Dispatched, TypeOK, SessionTypeOK, Topics, Call
<1>11. ASSUME NEW d \in Devices, PrinterChanges(d)
      PROVE  TypeOK'
  BY <1>11, CallbacksAssumption DEF PrinterChanges, TypeOK, SessionTypeOK,
      Versions
<1>12. ASSUME NEW t \in Threads, ListReceived(t)
      PROVE  TypeOK'
  BY <1>12 DEF ListReceived, TypeOK, SessionTypeOK
<1>13. ASSUME NEW t \in Threads, NEW d \in Devices, CbPrinterAvailable(t, d)
      PROVE  TypeOK'
  <2> DEFINE c == [Idle EXCEPT !.pc = "remember", !.ev = "available", !.dev =
      d, !.ver = batch[t][d], !.then = "match"]
  <2>0. batch[t][d] \in Versions
    BY DEF TypeOK
  <2>1. c \in Call
    BY <2>0, <1>13, IdleIsCall DEF CbPrinterAvailable, TypeOK, SessionTypeOK,
        Call, Event, LoginEvents, LinkEvents
  <2>2. Do(t, c)
    BY <1>13 DEF CbPrinterAvailable, Do, Goto, TypeOK
  <2>3. at' \in [Threads -> Call]
    BY <2>1, <2>2, AtTyped
  <2>4. QED
    BY <1>13, <2>3 DEF CbPrinterAvailable, TypeOK, SessionTypeOK, Topics, Call
<1>14. ASSUME NEW t \in Threads, Remember(t)
      PROVE  TypeOK'
  <2> DEFINE c == [at[t] EXCEPT !.pc = "copy"]
  <2>1. c \in Call
    BY <1>14, IdleIsCall DEF Remember, TypeOK, SessionTypeOK, Call, Event,
        LoginEvents, LinkEvents
  <2>2. Do(t, c)
    BY <1>14 DEF Remember, Do, Goto, TypeOK
  <2>3. at' \in [Threads -> Call]
    BY <2>1, <2>2, AtTyped
  <2>4. QED
    BY <1>14, <2>3 DEF Remember, TypeOK, SessionTypeOK, Topics, Call
<1>15. ASSUME NEW t \in Threads, MatchSelected(t)
      PROVE  TypeOK'
  <2> DEFINE c == IF at[t].dev = selected THEN [at[t] EXCEPT !.pc = "claim"]
      ELSE Idle
  <2>1. c \in Call
    BY ZenonT(60), <1>15, IdleIsCall DEF MatchSelected, TypeOK, SessionTypeOK, Call,
        Event, LoginEvents, LinkEvents
  <2>2. Do(t, c)
    BY <1>15 DEF MatchSelected, Do, Goto, TypeOK
  <2>3. at' \in [Threads -> Call]
    BY <2>1, <2>2, AtTyped
  <2>4. QED
    BY <1>15, <2>3 DEF MatchSelected, TypeOK, SessionTypeOK, Topics, Call
<1>16. ASSUME NEW t \in Threads, Claim(t)
      PROVE  TypeOK'
  <2> DEFINE c == IF MayClaim(at[t].dev) THEN [Idle EXCEPT !.pc = "copy", !.ev
      = "connected", !.dev = at[t].dev] ELSE Idle
  <2>1. c \in Call
    BY <1>16, IdleIsCall DEF Claim, TypeOK, SessionTypeOK, Call, Event,
        LoginEvents, LinkEvents
  <2>2. Do(t, c)
    BY <1>16 DEF Claim, Do, Goto, TypeOK
  <2>3. at' \in [Threads -> Call]
    BY <2>1, <2>2, AtTyped
  <2>4. QED
    BY <1>16, <2>3 DEF Claim, ClaimAutoconnect, TypeOK, SessionTypeOK, Topics,
        Call
<1>17. ASSUME NEW t \in Threads, NEW d \in Devices, CbConnected(t, d)
      PROVE  TypeOK'
  <2> DEFINE c == [Idle EXCEPT !.pc = "copy", !.ev = "connected", !.dev = d]
  <2>1. c \in Call
    BY ZenonT(60), <1>17, IdleIsCall DEF CbConnected, TypeOK, SessionTypeOK, Call, Event,
        LoginEvents, LinkEvents
  <2>2. Do(t, c)
    BY <1>17 DEF CbConnected, Do, Goto, TypeOK
  <2>3. at' \in [Threads -> Call]
    BY <2>1, <2>2, AtTyped
  <2>4. QED
    BY <1>17, <2>3 DEF CbConnected, MarkConnected, Change, TypeOK,
        SessionTypeOK, Topics, Call
<1>18. ASSUME NEW t \in Threads, NEW d \in Devices, NEW failed \in BOOLEAN,
             NEW then \in {"idle", "clear"}, CbDisconnected(t, d, failed, then)
      PROVE  TypeOK'
  <2> DEFINE c == [Idle EXCEPT !.pc = IF DisconnectIsNews(failed) THEN "copy"
      ELSE "tell", !.ev = IF failed THEN "failed" ELSE "lost", !.dev = d,
      !.then = then]
  <2>1. c \in Call
    BY <1>18, IdleIsCall DEF CbDisconnected, TypeOK, SessionTypeOK, Call,
        Event, LoginEvents, LinkEvents
  <2>2. Do(t, c)
    BY <1>18 DEF CbDisconnected, Do, Goto, TypeOK
  <2>3. at' \in [Threads -> Call]
    BY <2>1, <2>2, AtTyped
  <2>4. QED
    BY <1>18, <2>3 DEF CbDisconnected, MarkDisconnected, Change, TypeOK,
        SessionTypeOK, Topics, Call
<1>19. ASSUME NEW t \in Threads, NEW d \in Devices \cup {NoDevice},
             SelectMachine(t, d)
      PROVE  TypeOK'
  <2> DEFINE c == [Idle EXCEPT !.pc = "save"]
  <2>1. c \in Call
    BY <1>19, IdleIsCall DEF SelectMachine, TypeOK, SessionTypeOK, Call,
        Event, LoginEvents, LinkEvents
  <2>2. Do(t, c)
    BY <1>19 DEF SelectMachine, Do, Goto, TypeOK
  <2>3. at' \in [Threads -> Call]
    BY <2>1, <2>2, AtTyped
  <2>4. QED
    BY <1>19, <2>3 DEF SelectMachine, SetSelectedDevice, Change, TypeOK,
        SessionTypeOK, Topics, Call
<1>20. ASSUME NEW t \in Threads, NEW d \in Devices, ConnectPrinter(t, d)
      PROVE  TypeOK'
  <2> DEFINE c == [Idle EXCEPT !.pc = "save"]
  <2>1. c \in Call
    BY <1>20, IdleIsCall DEF ConnectPrinter, TypeOK, SessionTypeOK, Call,
        Event, LoginEvents, LinkEvents
  <2>2. Do(t, c)
    BY <1>20 DEF ConnectPrinter, Do, Goto, TypeOK
  <2>3. at' \in [Threads -> Call]
    BY <2>1, <2>2, AtTyped
  <2>4. QED
    BY <1>20, <2>3 DEF ConnectPrinter, BeginConnect, Change, TypeOK,
        SessionTypeOK, Topics, Call
<1>21. ASSUME NEW t \in Threads, LogoutUnconnected(t)
      PROVE  TypeOK'
  <2> DEFINE c == [Idle EXCEPT !.pc = "clear"]
  <2>1. c \in Call
    BY <1>21, IdleIsCall DEF LogoutUnconnected, TypeOK, SessionTypeOK, Call,
        Event, LoginEvents, LinkEvents
  <2>2. Do(t, c)
    BY <1>21 DEF LogoutUnconnected, Do, Goto, TypeOK
  <2>3. at' \in [Threads -> Call]
    BY <2>1, <2>2, AtTyped
  <2>4. QED
    BY <1>21, <2>3 DEF LogoutUnconnected, TypeOK, SessionTypeOK, Topics, Call
<1>22. ASSUME NEW t \in Threads, LogoutClears(t)
      PROVE  TypeOK'
  <2> DEFINE c == [Idle EXCEPT !.pc = "save", !.then = "logout"]
  <2>1. c \in Call
    BY <1>22, IdleIsCall DEF LogoutClears, TypeOK, SessionTypeOK, Call, Event,
        LoginEvents, LinkEvents
  <2>2. Do(t, c)
    BY <1>22 DEF LogoutClears, Do, Goto, TypeOK
  <2>3. at' \in [Threads -> Call]
    BY <2>1, <2>2, AtTyped
  <2>4. QED
    BY <1>22, <2>3 DEF LogoutClears, ClearAfterLogout, Change, TypeOK,
        SessionTypeOK, Topics, Call
<1>23. ASSUME NEW t \in Threads, ReadSelected(t)
      PROVE  TypeOK'
  <2> DEFINE c == [at[t] EXCEPT !.pc = "write", !.dev = selected]
  <2>1. c \in Call
    BY <1>23, IdleIsCall DEF ReadSelected, TypeOK, SessionTypeOK, Call, Event,
        LoginEvents, LinkEvents
  <2>2. Do(t, c)
    BY <1>23 DEF ReadSelected, Do, Goto, TypeOK
  <2>3. at' \in [Threads -> Call]
    BY <2>1, <2>2, AtTyped
  <2>4. QED
    BY <1>23, <2>3 DEF ReadSelected, TypeOK, SessionTypeOK, Topics, Call
<1>24. ASSUME NEW t \in Threads, WriteSelected(t)
      PROVE  TypeOK'
  <2> DEFINE c == [Idle EXCEPT !.pc = at[t].then]
  <2>1. c \in Call
    BY <1>24, IdleIsCall DEF WriteSelected, TypeOK, SessionTypeOK, Call,
        Event, LoginEvents, LinkEvents
  <2>2. Do(t, c)
    BY <1>24 DEF WriteSelected, Do, Goto, TypeOK
  <2>3. at' \in [Threads -> Call]
    BY <2>1, <2>2, AtTyped
  <2>4. QED
    BY <1>24, <2>3 DEF WriteSelected, TypeOK, SessionTypeOK, Topics, Call
<1>25. ASSUME NEW t \in Threads, NEW ev \in LoginEvents, SetLanLoginState(t,
             ev)
      PROVE  TypeOK'
  <2> DEFINE c == [Idle EXCEPT !.pc = "copy", !.ev = ev]
  <2>1. c \in Call
    BY <1>25, IdleIsCall DEF SetLanLoginState, TypeOK, SessionTypeOK, Call,
        Event, LoginEvents, LinkEvents
  <2>2. Do(t, c)
    BY <1>25 DEF SetLanLoginState, Do, Goto, TypeOK
  <2>3. at' \in [Threads -> Call]
    BY <2>1, <2>2, AtTyped
  <2>4. QED
    BY <1>25, <2>3 DEF SetLanLoginState, Change, TypeOK, SessionTypeOK,
        Topics, Call
<1>26. CASE UNCHANGED vars
  BY <1>26 DEF vars, TypeOK, SessionTypeOK
<1>27. QED
  BY <1>1, <1>2, <1>3, <1>4, <1>5, <1>6, <1>7, <1>8, <1>9, <1>10, <1>11,
      <1>12, <1>13, <1>14, <1>15, <1>16, <1>17, <1>18, <1>19, <1>20, <1>21,
      <1>22, <1>23, <1>24, <1>25, <1>26, NextCases DEF ThreadStep

(* What the record of a thread says, by where the thread is.               *)
ShapeOf(c) ==
    /\ c.ev = "available" => c.ver # 0 /\ c.dev \in Devices
    /\ c.pc = "remember" => c.ev = "available"
    /\ c.pc \in {"set", "reply"} =>
         /\ c.to \in {{"login"}, {"printer"}, {"local"}}
         /\ c.to = {"login"} => c.ev \in LoginEvents
         /\ c.to # {"login"} => c.ev \in {"connected", "unlinked"}
    /\ c.pc = "tell" => c.to \subseteq Targets(c.ev)
    /\ c.pc \notin {"set", "reply", "tell"} => c.to = {}
    /\ c.pc \in {"idle", "replay", "match", "claim", "save", "write", "clear",
                "logout"} => c.ev = "none"

Shape == \A t \in Threads : ShapeOf(at[t])

(* Until a login, a connection or a selection has been passed on, somebody *)
(* has it in hand; and nobody has another one, unless a change crossed it. *)
TellsLogin(t) ==
    /\ at[t].ev \in LoginEvents
    /\ at[t].pc = "tell" => "login" \in at[t].to

LoginPart ==
    "login" \notin crossed =>
        /\ \A t \in Threads : at[t].ev \in LoginEvents => at[t].ev = login
        /\ "login" \in fn /\ told["login"].ev # login =>
             \E t \in Threads : TellsLogin(t)

TellsLink(t) ==
    /\ at[t].ev = "connected"
    /\ at[t].pc \in {"set", "reply", "tell"} => "local" \in at[t].to

LinkPart ==
    "link" \notin crossed /\ ConnectedSelectedDevice # NoDevice =>
        /\ \A t \in Threads :
             at[t].ev \in LinkEvents => at[t].ev = "connected" /\ at[t].dev = selected
        /\ "local" \in fn /\ told["local"] # [ev |-> "connected", dev |-> selected] =>
             \E t \in Threads : TellsLink(t)

SavePart ==
    "save" \notin crossed =>
        /\ \A t \in Threads : at[t].pc = "write" => at[t].dev = selected
        /\ saved # selected => \E t \in Threads : at[t].pc \in {"save", "write"}

(* The two steps that end in one of two ways, as the proofs below use them. *)
LEMMA MatchOutcome ==
    ASSUME NEW t \in Threads, MatchSelected(t)
    PROVE  /\ at[t].pc = "match"
           /\ \/ at' = [at EXCEPT ![t].pc = "claim"]
              \/ at' = [at EXCEPT ![t] = Idle]
           /\ UNCHANGED <<fn, cache, login, selected, connected, saved, batch,
                          shown, told, crossed>>
BY DEF MatchSelected, Do, Goto, session

LEMMA ClaimOutcome ==
    ASSUME NEW t \in Threads, Claim(t)
    PROVE  /\ at[t].pc = "claim"
           /\ \/ /\ at' = [at EXCEPT ![t] = [Idle EXCEPT !.pc = "copy",
                                        !.ev = "connected", !.dev = at[t].dev]]
                 /\ at[t].dev = selected
              \/ at' = [at EXCEPT ![t] = Idle]
           /\ UNCHANGED <<fn, cache, login, selected, connected, saved, batch,
                          shown, told, crossed>>
BY DEF Claim, ClaimAutoconnect, MayClaim, Do, session

LEMMA ShapeStep == ASSUME TypeOK, Shape, [Next]_vars PROVE Shape'
<1> USE DEF TypeOK, Call, Shape, ShapeOf, Do, Goto, Idle, session, world
<1>1. ASSUME NEW t \in Threads, SetSsdpCallback(t)
      PROVE  Shape'
  BY SMTT(30), <1>1 DEF SetSsdpCallback
<1>2. ASSUME NEW t \in Threads, NEW d \in Devices, Replay(t, d)
      PROVE  Shape'
  BY <1>2 DEF Replay
<1>3. ASSUME NEW t \in Threads, RequestRefresh(t)
      PROVE  Shape'
  BY <1>3 DEF RequestRefresh
<1>4. ASSUME NEW t \in Threads, NEW f \in Replayed, ReadCurrent(t, f)
      PROVE  Shape'
  BY ZenonT(60), <1>4 DEF ReadCurrent, Current, ConnectedSelectedDevice, Replayed,
      LoginEvents
<1>5. ASSUME NEW t \in Threads, SetCallback(t)
      PROVE  Shape'
  BY <1>5 DEF SetCallback
<1>6. ASSUME NEW t \in Threads, Reply(t)
      PROVE  Shape'
  BY <1>6 DEF Reply
<1>7. ASSUME NEW t \in Threads, NEW f \in {"ssdp"} \cup Replayed, Unset(t, f)
      PROVE  Shape'
  BY <1>7 DEF Unset
<1>8. ASSUME NEW t \in Threads, Copy(t)
      PROVE  Shape'
  BY <1>8 DEF Copy
<1>9. ASSUME NEW t \in Threads, NEW f \in Replayed \cup {"ssdp"}, Tell(t, f)
      PROVE  Shape'
  BY <1>9 DEF Tell
<1>10. ASSUME NEW t \in Threads, Dispatched(t)
      PROVE  Shape'
  BY <1>10 DEF Dispatched
<1>11. ASSUME NEW d \in Devices, PrinterChanges(d)
      PROVE  Shape'
  BY <1>11 DEF PrinterChanges
<1>12. ASSUME NEW t \in Threads, ListReceived(t)
      PROVE  Shape'
  BY <1>12 DEF ListReceived
<1>13. ASSUME NEW t \in Threads, NEW d \in Devices, CbPrinterAvailable(t, d)
      PROVE  Shape'
  BY <1>13 DEF CbPrinterAvailable
<1>14. ASSUME NEW t \in Threads, Remember(t)
      PROVE  Shape'
  BY <1>14 DEF Remember
<1>15. ASSUME NEW t \in Threads, MatchSelected(t)
      PROVE  Shape'
  <2>1. /\ at[t].pc = "match"
        /\ UNCHANGED <<fn, cache, login, selected, connected, saved, batch,
                       shown, told, crossed>>
    BY <1>15, MatchOutcome
  <2>2. CASE at' = [at EXCEPT ![t].pc = "claim"]
    BY <2>1, <2>2
  <2>3. CASE at' = [at EXCEPT ![t] = Idle]
    BY <2>1, <2>3
  <2>4. QED
    BY <1>15, <2>2, <2>3, MatchOutcome
<1>16. ASSUME NEW t \in Threads, Claim(t)
      PROVE  Shape'
  <2>1. /\ at[t].pc = "claim"
        /\ UNCHANGED <<fn, cache, login, selected, connected, saved, batch,
                       shown, told, crossed>>
    BY <1>16, ClaimOutcome
  <2>2. CASE /\ at' = [at EXCEPT ![t] = [Idle EXCEPT !.pc = "copy",
                                               !.ev = "connected", !.dev = at[t].dev]]
             /\ at[t].dev = selected
    BY <2>1, <2>2
  <2>3. CASE at' = [at EXCEPT ![t] = Idle]
    BY <2>1, <2>3
  <2>4. QED
    BY <1>16, <2>2, <2>3, ClaimOutcome
<1>17. ASSUME NEW t \in Threads, NEW d \in Devices, CbConnected(t, d)
      PROVE  Shape'
  BY <1>17 DEF CbConnected, MarkConnected, Change
<1>18. ASSUME NEW t \in Threads, NEW d \in Devices, NEW failed \in BOOLEAN,
             NEW then \in {"idle", "clear"}, at[t] = Idle, CbDisconnected(t, d, failed,
             then)
      PROVE  Shape'
  BY <1>18 DEF CbDisconnected, MarkDisconnected, Change, Targets, LoginEvents
<1>19. ASSUME NEW t \in Threads, NEW d \in Devices \cup {NoDevice},
             SelectMachine(t, d)
      PROVE  Shape'
  BY <1>19 DEF SelectMachine, SetSelectedDevice, Change
<1>20. ASSUME NEW t \in Threads, NEW d \in Devices, ConnectPrinter(t, d)
      PROVE  Shape'
  BY <1>20 DEF ConnectPrinter, BeginConnect, Change
<1>21. ASSUME NEW t \in Threads, LogoutUnconnected(t)
      PROVE  Shape'
  BY <1>21 DEF LogoutUnconnected
<1>22. ASSUME NEW t \in Threads, LogoutClears(t)
      PROVE  Shape'
  BY <1>22 DEF LogoutClears, ClearAfterLogout, Change
<1>23. ASSUME NEW t \in Threads, ReadSelected(t)
      PROVE  Shape'
  BY <1>23 DEF ReadSelected
<1>24. ASSUME NEW t \in Threads, WriteSelected(t)
      PROVE  Shape'
  BY <1>24 DEF WriteSelected
<1>25. ASSUME NEW t \in Threads, NEW ev \in LoginEvents, at[t] = Idle \/
             at[t].pc = "logout", SetLanLoginState(t, ev)
      PROVE  Shape'
  BY <1>25 DEF SetLanLoginState, Change, Targets, LoginEvents
<1>26. CASE UNCHANGED vars
  BY <1>26 DEF vars
<1> HIDE DEF TypeOK, Call, Shape, ShapeOf, Do, Goto, Idle, session, world
<1>27. QED
  BY <1>1, <1>2, <1>3, <1>4, <1>5, <1>6, <1>7, <1>8, <1>9, <1>10, <1>11,
      <1>12, <1>13, <1>14, <1>15, <1>16, <1>17, <1>18, <1>19, <1>20, <1>21,
      <1>22, <1>23, <1>24, <1>25, <1>26, NextCases DEF ThreadStep

LEMMA MissedStep == ASSUME TypeOK, Shape, NoPrinterMissed, [Next]_vars PROVE NoPrinterMissed'
<1> USE DEF TypeOK, Call, Shape, ShapeOf, NoPrinterMissed, Showing, Do, Goto, Idle, session, world
<1>1. ASSUME NEW t \in Threads, SetSsdpCallback(t)
      PROVE  NoPrinterMissed'
  BY <1>1 DEF SetSsdpCallback
<1>2. ASSUME NEW t \in Threads, NEW d \in Devices, Replay(t, d)
      PROVE  NoPrinterMissed'
  BY <1>2 DEF Replay
<1>3. ASSUME NEW t \in Threads, RequestRefresh(t)
      PROVE  NoPrinterMissed'
  BY <1>3 DEF RequestRefresh, Empty
<1>4. ASSUME NEW t \in Threads, NEW f \in Replayed, ReadCurrent(t, f)
      PROVE  NoPrinterMissed'
  BY <1>4 DEF ReadCurrent
<1>5. ASSUME NEW t \in Threads, SetCallback(t)
      PROVE  NoPrinterMissed'
  <2>1. "ssdp" \notin at[t].to
    BY SMTT(30), <1>5 DEF SetCallback
  <2>2. QED
    BY <1>5, <2>1 DEF SetCallback
<1>6. ASSUME NEW t \in Threads, Reply(t)
      PROVE  NoPrinterMissed'
  BY <1>6 DEF Reply
<1>7. ASSUME NEW t \in Threads, NEW f \in {"ssdp"} \cup Replayed, Unset(t, f)
      PROVE  NoPrinterMissed'
  BY <1>7 DEF Unset
<1>8. ASSUME NEW t \in Threads, Copy(t)
      PROVE  NoPrinterMissed'
  BY <1>8 DEF Copy, Targets, LoginEvents
<1>9. ASSUME NEW t \in Threads, NEW f \in Replayed \cup {"ssdp"}, Tell(t, f)
      PROVE  NoPrinterMissed'
  BY SMTT(30), <1>9 DEF Tell, Targets, LoginEvents
<1>10. ASSUME NEW t \in Threads, Dispatched(t)
      PROVE  NoPrinterMissed'
  BY <1>10 DEF Dispatched
<1>11. ASSUME NEW d \in Devices, PrinterChanges(d)
      PROVE  NoPrinterMissed'
  BY <1>11 DEF PrinterChanges
<1>12. ASSUME NEW t \in Threads, ListReceived(t)
      PROVE  NoPrinterMissed'
  BY <1>12 DEF ListReceived
<1>13. ASSUME NEW t \in Threads, NEW d \in Devices, CbPrinterAvailable(t, d)
      PROVE  NoPrinterMissed'
  BY <1>13 DEF CbPrinterAvailable
<1>14. ASSUME NEW t \in Threads, Remember(t)
      PROVE  NoPrinterMissed'
  BY <1>14 DEF Remember
<1>15. ASSUME NEW t \in Threads, MatchSelected(t)
      PROVE  NoPrinterMissed'
  <2>1. /\ at[t].pc = "match"
        /\ UNCHANGED <<fn, cache, login, selected, connected, saved, batch,
                       shown, told, crossed>>
    BY <1>15, MatchOutcome
  <2>2. CASE at' = [at EXCEPT ![t].pc = "claim"]
    BY <2>1, <2>2
  <2>3. CASE at' = [at EXCEPT ![t] = Idle]
    BY <2>1, <2>3
  <2>4. QED
    BY <1>15, <2>2, <2>3, MatchOutcome
<1>16. ASSUME NEW t \in Threads, Claim(t)
      PROVE  NoPrinterMissed'
  <2>1. /\ at[t].pc = "claim"
        /\ UNCHANGED <<fn, cache, login, selected, connected, saved, batch,
                       shown, told, crossed>>
    BY <1>16, ClaimOutcome
  <2>2. CASE /\ at' = [at EXCEPT ![t] = [Idle EXCEPT !.pc = "copy",
                                               !.ev = "connected", !.dev = at[t].dev]]
             /\ at[t].dev = selected
    BY <2>1, <2>2
  <2>3. CASE at' = [at EXCEPT ![t] = Idle]
    BY <2>1, <2>3
  <2>4. QED
    BY <1>16, <2>2, <2>3, ClaimOutcome
<1>17. ASSUME NEW t \in Threads, NEW d \in Devices, CbConnected(t, d)
      PROVE  NoPrinterMissed'
  BY <1>17 DEF CbConnected, MarkConnected, Change
<1>18. ASSUME NEW t \in Threads, NEW d \in Devices, NEW failed \in BOOLEAN,
             NEW then \in {"idle", "clear"}, at[t] = Idle, CbDisconnected(t, d, failed,
             then)
      PROVE  NoPrinterMissed'
  BY <1>18 DEF CbDisconnected, MarkDisconnected, Change
<1>19. ASSUME NEW t \in Threads, NEW d \in Devices \cup {NoDevice},
             SelectMachine(t, d)
      PROVE  NoPrinterMissed'
  BY <1>19 DEF SelectMachine, SetSelectedDevice, Change
<1>20. ASSUME NEW t \in Threads, NEW d \in Devices, ConnectPrinter(t, d)
      PROVE  NoPrinterMissed'
  BY <1>20 DEF ConnectPrinter, BeginConnect, Change
<1>21. ASSUME NEW t \in Threads, LogoutUnconnected(t)
      PROVE  NoPrinterMissed'
  BY <1>21 DEF LogoutUnconnected
<1>22. ASSUME NEW t \in Threads, LogoutClears(t)
      PROVE  NoPrinterMissed'
  BY <1>22 DEF LogoutClears, ClearAfterLogout, Change
<1>23. ASSUME NEW t \in Threads, ReadSelected(t)
      PROVE  NoPrinterMissed'
  BY <1>23 DEF ReadSelected
<1>24. ASSUME NEW t \in Threads, WriteSelected(t)
      PROVE  NoPrinterMissed'
  BY <1>24 DEF WriteSelected
<1>25. ASSUME NEW t \in Threads, NEW ev \in LoginEvents, at[t] = Idle \/
             at[t].pc = "logout", SetLanLoginState(t, ev)
      PROVE  NoPrinterMissed'
  BY <1>25 DEF SetLanLoginState, Change
<1>26. CASE UNCHANGED vars
  BY <1>26 DEF vars
<1> HIDE DEF TypeOK, Call, Shape, ShapeOf, NoPrinterMissed, Showing, Do, Goto, Idle, session, world
<1>27. QED
  BY <1>1, <1>2, <1>3, <1>4, <1>5, <1>6, <1>7, <1>8, <1>9, <1>10, <1>11,
      <1>12, <1>13, <1>14, <1>15, <1>16, <1>17, <1>18, <1>19, <1>20, <1>21,
      <1>22, <1>23, <1>24, <1>25, <1>26, NextCases DEF ThreadStep

LEMMA LoginStep == ASSUME TypeOK, Shape, LoginPart, [Next]_vars PROVE LoginPart'
<1> USE DEF TypeOK, Call, Shape, ShapeOf, Do, Goto, Idle, session, world, LoginPart, TellsLogin, LoginEvents
<1>1. ASSUME NEW t \in Threads, SetSsdpCallback(t)
      PROVE  LoginPart'
  BY <1>1 DEF SetSsdpCallback
<1>2. ASSUME NEW t \in Threads, NEW d \in Devices, Replay(t, d)
      PROVE  LoginPart'
  BY <1>2 DEF Replay
<1>3. ASSUME NEW t \in Threads, RequestRefresh(t)
      PROVE  LoginPart'
  BY <1>3 DEF RequestRefresh
<1>4. ASSUME NEW t \in Threads, NEW f \in Replayed, ReadCurrent(t, f)
      PROVE  LoginPart'
  BY <1>4 DEF ReadCurrent, Current, Replayed
<1>5. ASSUME NEW t \in Threads, SetCallback(t)
      PROVE  LoginPart'
  BY <1>5 DEF SetCallback, Replayed
<1>6. ASSUME NEW t \in Threads, Reply(t)
      PROVE  LoginPart'
  BY SMTT(30), <1>6 DEF Reply, Replayed
<1>7. ASSUME NEW t \in Threads, NEW f \in {"ssdp"} \cup Replayed, Unset(t, f)
      PROVE  LoginPart'
  BY <1>7 DEF Unset
<1>8. ASSUME NEW t \in Threads, Copy(t)
      PROVE  LoginPart'
  BY <1>8 DEF Copy, Targets, Replayed
<1>9. ASSUME NEW t \in Threads, NEW f \in Replayed \cup {"ssdp"}, Tell(t, f)
      PROVE  LoginPart'
  BY SMTT(30), <1>9 DEF Tell, Targets, Replayed
<1>10. ASSUME NEW t \in Threads, Dispatched(t)
      PROVE  LoginPart'
  BY <1>10 DEF Dispatched
<1>11. ASSUME NEW d \in Devices, PrinterChanges(d)
      PROVE  LoginPart'
  BY <1>11 DEF PrinterChanges, InHand, Topics
<1>12. ASSUME NEW t \in Threads, ListReceived(t)
      PROVE  LoginPart'
  BY <1>12 DEF ListReceived
<1>13. ASSUME NEW t \in Threads, NEW d \in Devices, CbPrinterAvailable(t, d)
      PROVE  LoginPart'
  BY <1>13 DEF CbPrinterAvailable
<1>14. ASSUME NEW t \in Threads, Remember(t)
      PROVE  LoginPart'
  BY <1>14 DEF Remember
<1>15. ASSUME NEW t \in Threads, MatchSelected(t)
      PROVE  LoginPart'
  <2>1. /\ at[t].pc = "match"
        /\ UNCHANGED <<fn, cache, login, selected, connected, saved, batch,
                       shown, told, crossed>>
    BY <1>15, MatchOutcome
  <2>2. CASE at' = [at EXCEPT ![t].pc = "claim"]
    BY <2>1, <2>2
  <2>3. CASE at' = [at EXCEPT ![t] = Idle]
    BY <2>1, <2>3
  <2>4. QED
    BY <1>15, <2>2, <2>3, MatchOutcome
<1>16. ASSUME NEW t \in Threads, Claim(t)
      PROVE  LoginPart'
  <2>1. /\ at[t].pc = "claim"
        /\ UNCHANGED <<fn, cache, login, selected, connected, saved, batch,
                       shown, told, crossed>>
    BY <1>16, ClaimOutcome
  <2>2. CASE /\ at' = [at EXCEPT ![t] = [Idle EXCEPT !.pc = "copy",
                                               !.ev = "connected", !.dev = at[t].dev]]
             /\ at[t].dev = selected
    BY <2>1, <2>2
  <2>3. CASE at' = [at EXCEPT ![t] = Idle]
    BY <2>1, <2>3
  <2>4. QED
    BY <1>16, <2>2, <2>3, ClaimOutcome
<1>17. ASSUME NEW t \in Threads, NEW d \in Devices, CbConnected(t, d)
      PROVE  LoginPart'
  BY <1>17 DEF CbConnected, MarkConnected, Change, InHand, Topics
<1>18. ASSUME NEW t \in Threads, NEW d \in Devices, NEW failed \in BOOLEAN,
             NEW then \in {"idle", "clear"}, at[t] = Idle, CbDisconnected(t, d, failed,
             then)
      PROVE  LoginPart'
  BY <1>18 DEF CbDisconnected, MarkDisconnected, Change, Targets, InHand,
      Topics
<1>19. ASSUME NEW t \in Threads, NEW d \in Devices \cup {NoDevice},
             SelectMachine(t, d)
      PROVE  LoginPart'
  BY <1>19 DEF SelectMachine, SetSelectedDevice, Change, InHand, Topics
<1>20. ASSUME NEW t \in Threads, NEW d \in Devices, ConnectPrinter(t, d)
      PROVE  LoginPart'
  BY <1>20 DEF ConnectPrinter, BeginConnect, Change, InHand, Topics
<1>21. ASSUME NEW t \in Threads, LogoutUnconnected(t)
      PROVE  LoginPart'
  BY <1>21 DEF LogoutUnconnected
<1>22. ASSUME NEW t \in Threads, LogoutClears(t)
      PROVE  LoginPart'
  BY <1>22 DEF LogoutClears, ClearAfterLogout, Change, InHand, Topics
<1>23. ASSUME NEW t \in Threads, ReadSelected(t)
      PROVE  LoginPart'
  BY <1>23 DEF ReadSelected
<1>24. ASSUME NEW t \in Threads, WriteSelected(t)
      PROVE  LoginPart'
  BY <1>24 DEF WriteSelected
<1>25. ASSUME NEW t \in Threads, NEW ev \in LoginEvents, at[t] = Idle \/
             at[t].pc = "logout", SetLanLoginState(t, ev)
      PROVE  LoginPart'
  BY <1>25 DEF SetLanLoginState, Change, InHand, Topics
<1>26. CASE UNCHANGED vars
  BY <1>26 DEF vars
<1> HIDE DEF TypeOK, Call, Shape, ShapeOf, Do, Goto, Idle, session, world, LoginPart, TellsLogin, LoginEvents
<1>27. QED
  BY <1>1, <1>2, <1>3, <1>4, <1>5, <1>6, <1>7, <1>8, <1>9, <1>10, <1>11,
      <1>12, <1>13, <1>14, <1>15, <1>16, <1>17, <1>18, <1>19, <1>20, <1>21,
      <1>22, <1>23, <1>24, <1>25, <1>26, NextCases DEF ThreadStep

LEMMA LinkStep == ASSUME TypeOK, Shape, LinkPart, [Next]_vars PROVE LinkPart'
<1> USE DEF TypeOK, Call, Shape, ShapeOf, Do, Goto, Idle, session, world, SessionTypeOK, LinkPart, TellsLink, LinkEvents, ConnectedSelectedDevice
<1>1. ASSUME NEW t \in Threads, SetSsdpCallback(t)
      PROVE  LinkPart'
  BY <1>1 DEF SetSsdpCallback
<1>2. ASSUME NEW t \in Threads, NEW d \in Devices, Replay(t, d)
      PROVE  LinkPart'
  BY <1>2 DEF Replay
<1>3. ASSUME NEW t \in Threads, RequestRefresh(t)
      PROVE  LinkPart'
  BY <1>3 DEF RequestRefresh
<1>4. ASSUME NEW t \in Threads, NEW f \in Replayed, ReadCurrent(t, f)
      PROVE  LinkPart'
  BY <1>4 DEF ReadCurrent, Current, Replayed, LoginEvents
<1>5. ASSUME NEW t \in Threads, SetCallback(t)
      PROVE  LinkPart'
  BY <1>5 DEF SetCallback, LoginEvents, Replayed
<1>6. ASSUME NEW t \in Threads, Reply(t)
      PROVE  LinkPart'
  BY <1>6 DEF Reply, LoginEvents, Replayed
<1>7. ASSUME NEW t \in Threads, NEW f \in {"ssdp"} \cup Replayed, Unset(t, f)
      PROVE  LinkPart'
  BY <1>7 DEF Unset
<1>8. ASSUME NEW t \in Threads, Copy(t)
      PROVE  LinkPart'
  BY <1>8 DEF Copy, Targets, LoginEvents, Replayed
<1>9. ASSUME NEW t \in Threads, NEW f \in Replayed \cup {"ssdp"}, Tell(t, f)
      PROVE  LinkPart'
  BY <1>9 DEF Tell, Targets, LoginEvents, Replayed
<1>10. ASSUME NEW t \in Threads, Dispatched(t)
      PROVE  LinkPart'
  BY <1>10 DEF Dispatched
<1>11. ASSUME NEW d \in Devices, PrinterChanges(d)
      PROVE  LinkPart'
  BY <1>11 DEF PrinterChanges, InHand, Topics
<1>12. ASSUME NEW t \in Threads, ListReceived(t)
      PROVE  LinkPart'
  BY <1>12 DEF ListReceived
<1>13. ASSUME NEW t \in Threads, NEW d \in Devices, CbPrinterAvailable(t, d)
      PROVE  LinkPart'
  BY <1>13 DEF CbPrinterAvailable
<1>14. ASSUME NEW t \in Threads, Remember(t)
      PROVE  LinkPart'
  BY <1>14 DEF Remember
<1>15. ASSUME NEW t \in Threads, MatchSelected(t)
      PROVE  LinkPart'
  <2>1. /\ at[t].pc = "match"
        /\ UNCHANGED <<fn, cache, login, selected, connected, saved, batch,
                       shown, told, crossed>>
    BY <1>15, MatchOutcome
  <2>2. CASE at' = [at EXCEPT ![t].pc = "claim"]
    BY <2>1, <2>2
  <2>3. CASE at' = [at EXCEPT ![t] = Idle]
    BY <2>1, <2>3
  <2>4. QED
    BY <1>15, <2>2, <2>3, MatchOutcome
<1>16. ASSUME NEW t \in Threads, Claim(t)
      PROVE  LinkPart'
  <2>1. /\ at[t].pc = "claim"
        /\ UNCHANGED <<fn, cache, login, selected, connected, saved, batch,
                       shown, told, crossed>>
    BY <1>16, ClaimOutcome
  <2>2. CASE /\ at' = [at EXCEPT ![t] = [Idle EXCEPT !.pc = "copy",
                                               !.ev = "connected", !.dev = at[t].dev]]
             /\ at[t].dev = selected
    BY <2>1, <2>2
  <2>3. CASE at' = [at EXCEPT ![t] = Idle]
    BY <2>1, <2>3
  <2>4. QED
    BY <1>16, <2>2, <2>3, ClaimOutcome
<1>17. ASSUME NEW t \in Threads, NEW d \in Devices, CbConnected(t, d)
      PROVE  LinkPart'
  BY <1>17 DEF CbConnected, MarkConnected, Change, InHand, Topics
<1>18. ASSUME NEW t \in Threads, NEW d \in Devices, NEW failed \in BOOLEAN,
             NEW then \in {"idle", "clear"}, at[t] = Idle, CbDisconnected(t, d, failed,
             then)
      PROVE  LinkPart'
  BY <1>18 DEF CbDisconnected, MarkDisconnected, Change, Targets, InHand,
      Topics
<1>19. ASSUME NEW t \in Threads, NEW d \in Devices \cup {NoDevice},
             SelectMachine(t, d)
      PROVE  LinkPart'
  BY <1>19 DEF SelectMachine, SetSelectedDevice, Change, InHand, Topics
<1>20. ASSUME NEW t \in Threads, NEW d \in Devices, ConnectPrinter(t, d)
      PROVE  LinkPart'
  BY <1>20 DEF ConnectPrinter, BeginConnect, Change, InHand, Topics
<1>21. ASSUME NEW t \in Threads, LogoutUnconnected(t)
      PROVE  LinkPart'
  BY <1>21 DEF LogoutUnconnected
<1>22. ASSUME NEW t \in Threads, LogoutClears(t)
      PROVE  LinkPart'
  BY <1>22 DEF LogoutClears, ClearAfterLogout, Change, InHand, Topics
<1>23. ASSUME NEW t \in Threads, ReadSelected(t)
      PROVE  LinkPart'
  BY <1>23 DEF ReadSelected
<1>24. ASSUME NEW t \in Threads, WriteSelected(t)
      PROVE  LinkPart'
  BY <1>24 DEF WriteSelected
<1>25. ASSUME NEW t \in Threads, NEW ev \in LoginEvents, at[t] = Idle \/
             at[t].pc = "logout", SetLanLoginState(t, ev)
      PROVE  LinkPart'
  BY <1>25 DEF SetLanLoginState, Change, InHand, Topics, LoginEvents
<1>26. CASE UNCHANGED vars
  BY <1>26 DEF vars
<1> HIDE DEF TypeOK, Call, Shape, ShapeOf, Do, Goto, Idle, session, world, SessionTypeOK, LinkPart, TellsLink, LinkEvents, ConnectedSelectedDevice
<1>27. QED
  BY <1>1, <1>2, <1>3, <1>4, <1>5, <1>6, <1>7, <1>8, <1>9, <1>10, <1>11,
      <1>12, <1>13, <1>14, <1>15, <1>16, <1>17, <1>18, <1>19, <1>20, <1>21,
      <1>22, <1>23, <1>24, <1>25, <1>26, NextCases DEF ThreadStep

LEMMA SaveStep == ASSUME TypeOK, Shape, SavePart, [Next]_vars PROVE SavePart'
<1> USE DEF TypeOK, Call, Shape, ShapeOf, Do, Goto, Idle, session, world, SavePart
<1>1. ASSUME NEW t \in Threads, SetSsdpCallback(t)
      PROVE  SavePart'
  BY <1>1 DEF SetSsdpCallback
<1>2. ASSUME NEW t \in Threads, NEW d \in Devices, Replay(t, d)
      PROVE  SavePart'
  BY <1>2 DEF Replay
<1>3. ASSUME NEW t \in Threads, RequestRefresh(t)
      PROVE  SavePart'
  BY <1>3 DEF RequestRefresh
<1>4. ASSUME NEW t \in Threads, NEW f \in Replayed, ReadCurrent(t, f)
      PROVE  SavePart'
  BY <1>4 DEF ReadCurrent, Current, Replayed
<1>5. ASSUME NEW t \in Threads, SetCallback(t)
      PROVE  SavePart'
  BY <1>5 DEF SetCallback, LoginEvents, Replayed
<1>6. ASSUME NEW t \in Threads, Reply(t)
      PROVE  SavePart'
  BY <1>6 DEF Reply, LoginEvents, Replayed
<1>7. ASSUME NEW t \in Threads, NEW f \in {"ssdp"} \cup Replayed, Unset(t, f)
      PROVE  SavePart'
  BY <1>7 DEF Unset
<1>8. ASSUME NEW t \in Threads, Copy(t)
      PROVE  SavePart'
  BY <1>8 DEF Copy, Targets, LoginEvents, Replayed
<1>9. ASSUME NEW t \in Threads, NEW f \in Replayed \cup {"ssdp"}, Tell(t, f)
      PROVE  SavePart'
  BY <1>9 DEF Tell, Targets, LoginEvents, Replayed
<1>10. ASSUME NEW t \in Threads, Dispatched(t)
      PROVE  SavePart'
  BY <1>10 DEF Dispatched
<1>11. ASSUME NEW d \in Devices, PrinterChanges(d)
      PROVE  SavePart'
  BY <1>11 DEF PrinterChanges, InHand, Topics
<1>12. ASSUME NEW t \in Threads, ListReceived(t)
      PROVE  SavePart'
  BY <1>12 DEF ListReceived
<1>13. ASSUME NEW t \in Threads, NEW d \in Devices, CbPrinterAvailable(t, d)
      PROVE  SavePart'
  BY <1>13 DEF CbPrinterAvailable
<1>14. ASSUME NEW t \in Threads, Remember(t)
      PROVE  SavePart'
  BY <1>14 DEF Remember
<1>15. ASSUME NEW t \in Threads, MatchSelected(t)
      PROVE  SavePart'
  <2>1. /\ at[t].pc = "match"
        /\ UNCHANGED <<fn, cache, login, selected, connected, saved, batch,
                       shown, told, crossed>>
    BY <1>15, MatchOutcome
  <2>2. CASE at' = [at EXCEPT ![t].pc = "claim"]
    BY <2>1, <2>2
  <2>3. CASE at' = [at EXCEPT ![t] = Idle]
    BY <2>1, <2>3
  <2>4. QED
    BY <1>15, <2>2, <2>3, MatchOutcome
<1>16. ASSUME NEW t \in Threads, Claim(t)
      PROVE  SavePart'
  <2>1. /\ at[t].pc = "claim"
        /\ UNCHANGED <<fn, cache, login, selected, connected, saved, batch,
                       shown, told, crossed>>
    BY <1>16, ClaimOutcome
  <2>2. CASE /\ at' = [at EXCEPT ![t] = [Idle EXCEPT !.pc = "copy",
                                               !.ev = "connected", !.dev = at[t].dev]]
             /\ at[t].dev = selected
    BY <2>1, <2>2
  <2>3. CASE at' = [at EXCEPT ![t] = Idle]
    BY <2>1, <2>3
  <2>4. QED
    BY <1>16, <2>2, <2>3, ClaimOutcome
<1>17. ASSUME NEW t \in Threads, NEW d \in Devices, CbConnected(t, d)
      PROVE  SavePart'
  BY <1>17 DEF CbConnected, MarkConnected, Change, InHand, Topics
<1>18. ASSUME NEW t \in Threads, NEW d \in Devices, NEW failed \in BOOLEAN,
             NEW then \in {"idle", "clear"}, at[t] = Idle, CbDisconnected(t, d, failed,
             then)
      PROVE  SavePart'
  BY <1>18 DEF CbDisconnected, MarkDisconnected, Change, Targets, InHand,
      Topics
<1>19. ASSUME NEW t \in Threads, NEW d \in Devices \cup {NoDevice},
             SelectMachine(t, d)
      PROVE  SavePart'
  BY <1>19 DEF SelectMachine, SetSelectedDevice, Change, InHand, Topics
<1>20. ASSUME NEW t \in Threads, NEW d \in Devices, ConnectPrinter(t, d)
      PROVE  SavePart'
  BY <1>20 DEF ConnectPrinter, BeginConnect, Change, InHand, Topics
<1>21. ASSUME NEW t \in Threads, LogoutUnconnected(t)
      PROVE  SavePart'
  BY <1>21 DEF LogoutUnconnected
<1>22. ASSUME NEW t \in Threads, LogoutClears(t)
      PROVE  SavePart'
  BY <1>22 DEF LogoutClears, ClearAfterLogout, Change, InHand, Topics
<1>23. ASSUME NEW t \in Threads, ReadSelected(t)
      PROVE  SavePart'
  BY <1>23 DEF ReadSelected
<1>24. ASSUME NEW t \in Threads, WriteSelected(t)
      PROVE  SavePart'
  BY <1>24 DEF WriteSelected
<1>25. ASSUME NEW t \in Threads, NEW ev \in LoginEvents, at[t] = Idle \/
             at[t].pc = "logout", SetLanLoginState(t, ev)
      PROVE  SavePart'
  BY <1>25 DEF SetLanLoginState, Change, InHand, Topics
<1>26. CASE UNCHANGED vars
  BY <1>26 DEF vars
<1> HIDE DEF TypeOK, Call, Shape, ShapeOf, Do, Goto, Idle, session, world, SavePart
<1>27. QED
  BY <1>1, <1>2, <1>3, <1>4, <1>5, <1>6, <1>7, <1>8, <1>9, <1>10, <1>11,
      <1>12, <1>13, <1>14, <1>15, <1>16, <1>17, <1>18, <1>19, <1>20, <1>21,
      <1>22, <1>23, <1>24, <1>25, <1>26, NextCases DEF ThreadStep

(* What every step preserves.                                              *)
IndInv == TypeOK /\ Shape /\ NoPrinterMissed /\ LoginPart /\ LinkPart /\ SavePart

LEMMA IndInvHolds == Spec => []IndInv
<1>1. Init => IndInv
  <2> SUFFICES ASSUME Init PROVE IndInv
    OBVIOUS
  <2>1. TypeOK
    BY TypeInit
  <2>2. Shape
    BY DEF Init, Shape, ShapeOf, Idle
  <2>3. NoPrinterMissed /\ LoginPart
    BY DEF Init, NoPrinterMissed, Empty, LoginPart, Idle, LoginEvents
  <2>4. LinkPart /\ SavePart
    BY DEF Init, LinkPart, SavePart, ConnectedSelectedDevice, Idle
  <2>5. QED
    BY <2>1, <2>2, <2>3, <2>4 DEF IndInv
<1>2. IndInv /\ [Next]_vars => IndInv'
  BY TypeStep, ShapeStep, MissedStep, LoginStep, LinkStep, SaveStep DEF IndInv
<1>3. QED
  BY <1>1, <1>2, PTL DEF Spec

(* Every variable of the registry, the session and the threads keeps its   *)
(* type.                                                                   *)
THEOREM TypeCorrect == Spec => []TypeOK
<1>1. IndInv => TypeOK
  BY DEF IndInv
<1>2. QED
  BY <1>1, IndInvHolds, PTL

(* However the reports of any number of threads cross a registration, no   *)
(* remembered printer is left out (set_ssdp_callback and                   *)
(* dispatch_printer_available).                                            *)
THEOREM PrintersReachStudio == Spec => []NoPrinterMissed
<1>1. IndInv => NoPrinterMissed
  BY DEF IndInv
<1>2. QED
  BY <1>1, IndInvHolds, PTL

(* Studio has the login that is set, unless a change crossed a thread that *)
(* had the old one in hand (set_user_login_callback, notify_user_login).   *)
THEOREM LoginReachesStudio == Spec => []LoginIsTold
<1>1. IndInv => LoginIsTold
  <2> SUFFICES ASSUME IndInv, Quiet("login"), "login" \in fn
              PROVE  told["login"].ev = login
    BY DEF LoginIsTold
  <2> QED
    BY DEF IndInv, LoginPart, TellsLogin, Quiet, InHand
<1>2. QED
  BY <1>1, IndInvHolds, PTL

(* A printer the session takes for connected has been announced, with the  *)
(* same exception (set_local_connect_callback, dispatch_connected).        *)
THEOREM ConnectionReachesStudio == Spec => []ConnectionIsTold
<1>1. IndInv => ConnectionIsTold
  <2> SUFFICES ASSUME IndInv, Quiet("link"), "local" \in fn,
                      ConnectedSelectedDevice # NoDevice
              PROVE  told["local"] = [ev |-> "connected", dev |-> selected]
    BY DEF ConnectionIsTold
  <2> QED
    BY DEF IndInv, LinkPart, TellsLink, Quiet, InHand, LinkEvents
<1>2. QED
  BY <1>1, IndInvHolds, PTL

(* When no save is under way the file names the selected printer, unless a *)
(* save crossed a change or a task selected (persist_selected_device).     *)
THEOREM SelectionReachesDisk == Spec => []SelectionIsSaved
<1>1. IndInv => SelectionIsSaved
  <2> SUFFICES ASSUME IndInv, Quiet("save"),
                      \A t \in Threads : at[t].pc # "save"
              PROVE  saved = selected
    BY DEF SelectionIsSaved
  <2> QED
    BY DEF IndInv, SavePart, Quiet, InHand
<1>2. QED
  BY <1>1, IndInvHolds, PTL
=============================================================================
