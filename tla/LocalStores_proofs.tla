-------------------------- MODULE LocalStores_proofs --------------------------
(***************************************************************************)
(* What the next start loads is the table, for any number of printers,     *)
(* values and threads: FileFollowsMemory is an invariant of LocalStores.   *)
(*                                                                         *)
(* It is not inductive: it says nothing while a call runs.  The            *)
(* strengthening follows a save that runs alone from step to step, and     *)
(* says that a call that runs alone is the only one.                       *)
(***************************************************************************)
EXTENDS LocalStores, FiniteSetTheorems, WellFoundedInduction,
        TLAPS

Saves == {"open", "collect", "flush"}

AloneIsOnly ==
    \A t, u \in Threads : ~Idle(t) /\ call[t].alone /\ u # t => Idle(u)

SaveAlone ==
    \A t \in Threads : call[t].alone =>
        /\ call[t].pc = "open" /\ kind = "names" => call[t].buf = mem
        /\ call[t].pc \in {"collect", "flush"} => file = <<>>
        /\ call[t].pc = "collect" => ~call[t].raced
        /\ call[t].pc = "flush" => call[t].buf = mem

FileKept ==
    ~disturbed /\ (\A t \in Threads : call[t].pc \notin Saves) =>
        Load(file) = mem

(* A call that runs is about a printer.                                    *)
CallHasDevice == \A t \in Threads : ~Idle(t) => call[t].dev \in Devices

IndInv == TypeOK /\ CallHasDevice /\ AloneIsOnly /\ SaveAlone /\ FileKept

-------------------------------------------------------------------------------
(* A listing is a sequence of rows, as long as the table has entries.      *)
LEMMA ListingIsRows ==
    ASSUME NEW m \in Table, NEW s \in Listings(m)
    PROVE  /\ s \in Seq(Row)
           /\ DOMAIN s = 1..Len(s)
           /\ \A i \in 1..Len(s) : s[i] \in Entries(m)
<1> DEFINE D == {e \in Devices : m[e] # NoVal}
           n == Cardinality(Entries(m))
<1>1. IsFiniteSet(D)
  BY FiniteDevices, FS_Subset
<1>2. IsFiniteSet(Entries(m))
  <2> DEFINE f == [d \in D |-> <<d, m[d]>>]
  <2>1. f \in Surjection(D, Entries(m))
    BY DEF Surjection, Entries
  <2> QED
    BY <1>1, <2>1, FS_Surjection
<1>3. n \in Nat
  BY <1>2, FS_CardinalityType
<1>4. Entries(m) \subseteq Row
  BY DEF Entries, Row, Table
<1>5. s \in [1..n -> Entries(m)]
  BY DEF Listings
<1> HIDE DEF n
<1>6. s \in Seq(Row)
  BY <1>3, <1>4, <1>5
<1> QED
  BY <1>3, <1>5, <1>6

(* Loading what was saved gives back the table: persist_... and load_...   *)
(* are inverse to each other, whatever the order of the rows.              *)
LEMMA LoadListing ==
    ASSUME NEW m \in Table, NEW s \in Listings(m)
    PROVE  Load(s) = m
<1>1. /\ s \in Seq(Row) /\ DOMAIN s = 1..Len(s)
      /\ \A i \in 1..Len(s) : s[i] \in Entries(m)
  BY ListingIsRows
<1>2. ASSUME NEW d \in Devices
      PROVE  (IF RowsOf(s, d) = {} THEN NoVal ELSE s[LastRow(s, d)][2]) = m[d]
  <2>1. CASE m[d] = NoVal
    <3>1. RowsOf(s, d) = {}
      BY <1>1, <2>1 DEF RowsOf, Entries
    <3> QED
      BY <3>1, <2>1
  <2>2. CASE m[d] # NoVal
    <3>1. <<d, m[d]>> \in Entries(m)
      BY <2>2 DEF Entries
    <3>2. PICK i \in DOMAIN s : \A j \in DOMAIN s : s[j] = <<d, m[d]>> <=> j = i
      BY <3>1 DEF Listings
    <3>3. \A j \in 1..Len(s) : s[j][1] = d => s[j] = <<d, m[d]>>
      BY <1>1 DEF Entries
    <3>4. RowsOf(s, d) = {i}
      BY <1>1, <3>2, <3>3 DEF RowsOf
    <3>5. i \in 1..Len(s) /\ i <= i
      BY <1>1, <3>2
    <3>6. LastRow(s, d) = i
      BY <3>4, <3>5 DEF LastRow
    <3>7. s[i] = <<d, m[d]>>
      BY <3>2
    <3> QED
      BY <3>4, <3>6, <3>7
  <2> QED
    BY <2>1, <2>2
<1> QED
  BY <1>2 DEF Load, Table

(* If a printer has rows it has a last one, so what is loaded is a table.  *)
LEMMA LoadIsTable ==
    ASSUME NEW f \in Seq(Row)
    PROVE  Load(f) \in Table
<1>1. ASSUME NEW d \in Devices, RowsOf(f, d) # {}
      PROVE  LastRow(f, d) \in RowsOf(f, d)
  <2> DEFINE R == RowsOf(f, d)
             n == Len(f)
             T == {n - i : i \in R}
             Less == OpToRel(<, Nat)
  <2>1. n \in Nat /\ R \subseteq 1..n
    BY DEF RowsOf
  <2>2. T \subseteq Nat /\ T # {}
    BY <1>1, <2>1
  <2>3. IsWellFoundedOn(Less, Nat)
    BY NatLessThanWellFounded
  <2>4. \E x \in T : \A y \in T : ~(<<y, x>> \in Less)
    <3> HIDE DEF T, Less
    <3> QED
      BY <2>2, <2>3, WFMin
  <2>5. PICK x \in T : \A y \in T : ~(<<y, x>> \in Less)
    BY <2>4
  <2>6. \A y \in T : ~(y < x)
    BY <2>2, <2>5 DEF OpToRel
  <2>7. PICK i \in R : x = n - i
    OBVIOUS
  <2>8. ASSUME NEW j \in R PROVE j <= i
    <3>1. n - j \in T
      OBVIOUS
    <3>2. ~(n - j < n - i)
      BY <3>1, <2>6, <2>7
    <3>3. i \in Int /\ j \in Int /\ n \in Int
      BY <2>1
    <3> HIDE DEF n, T, R
    <3> QED
      BY <3>2, <3>3
  <2> QED
    BY <2>7, <2>8 DEF LastRow
<1>2. ASSUME NEW d \in Devices
      PROVE  (IF RowsOf(f, d) = {} THEN NoVal ELSE f[LastRow(f, d)][2])
                 \in Vals \cup {NoVal}
  <2>1. CASE RowsOf(f, d) = {}
    BY <2>1
  <2>2. CASE RowsOf(f, d) # {}
    <3>1. LastRow(f, d) \in 1..Len(f)
      BY <1>1, <2>2 DEF RowsOf
    <3>2. f[LastRow(f, d)] \in Row
      BY <3>1
    <3> QED
      BY <2>2, <3>2 DEF Row
  <2> QED
    BY <2>1, <2>2
<1> QED
  BY <1>2 DEF Load, Table

(* Rows written over rows are rows.                                        *)
LEMMA OverwrittenIsRows ==
    ASSUME NEW f \in Seq(Row), NEW s \in Seq(Row), NEW g \in Overwritten(f, s)
    PROVE  g \in Seq(Row)
<1>1. CASE s = <<>> \/ f = <<>>
  <2>1. g = s \o f
    BY <1>1 DEF Overwritten
  <2> QED
    BY <2>1
<1>2. CASE ~(s = <<>> \/ f = <<>>)
  <2>1. PICK k \in 2..(Len(f) + 1) : g = s \o SubSeq(f, k, Len(f))
    BY <1>2 DEF Overwritten
  <2>2. SubSeq(f, k, Len(f)) \in Seq(Row)
    OBVIOUS
  <2> QED
    BY <2>1, <2>2
<1> QED
  BY <1>1, <1>2

(* The types of what a restart and a first start leave.                    *)
LEMMA IdleTypes ==
    /\ Empty \in Table
    /\ IdleCall \in Call
BY DEF Empty, Table, IdleCall, Call

(* What Started does to the calls.                                         *)
LEMMA StartedCalls ==
    ASSUME TypeOK, NEW t \in Threads, NEW c \in Call, NEW changes \in BOOLEAN,
           Started(t, c, changes)
    PROVE  /\ call' \in [Threads -> Call]
           /\ \A f \in {"pc", "dev", "name", "buf", "raced"} :
                  call'[t][f] = c[f]
           /\ call'[t].alone <=> Quiet
           /\ \A u \in Threads \ {t} :
                  /\ call'[u].pc = call[u].pc
                  /\ call'[u].dev = call[u].dev
                  /\ call'[u].alone => Idle(u)
<1>1. \A u \in Threads \ {t} :
        call'[u] = [call[u] EXCEPT
                       !.alone = @ /\ Idle(u),
                       !.raced = @ \/ (changes /\ call[u].pc = "collect")]
  BY DEF Started
<1>2. call'[t] = [c EXCEPT !.alone = Quiet]
  BY DEF Started
<1>3. Quiet \in BOOLEAN
  BY Zenon DEF Quiet
<1>4. call'[t] \in Call
  BY <1>2, <1>3 DEF Call
<1>5. ASSUME NEW u \in Threads \ {t}
      PROVE  /\ call'[u] \in Call
             /\ call'[u].pc = call[u].pc
             /\ call'[u].dev = call[u].dev
             /\ call'[u].alone => Idle(u)
  <2> DEFINE a == call[u].alone /\ Idle(u)
             r == call[u].raced \/ (changes /\ call[u].pc = "collect")
  <2>1. a \in BOOLEAN /\ r \in BOOLEAN /\ (a => Idle(u))
    BY Zenon
  <2>2. call[u] \in Call
    BY Zenon DEF TypeOK
  <2>3. call'[u] = [call[u] EXCEPT !.alone = a, !.raced = r]
    BY <1>1
  <2> HIDE DEF a, r
  <2>4. /\ call'[u] \in Call /\ call'[u].alone = a
        /\ call'[u].pc = call[u].pc /\ call'[u].dev = call[u].dev
    BY <2>1, <2>2, <2>3 DEF Call
  <2> QED
    BY <2>1, <2>4, Zenon
<1>6. call' = [u \in Threads |-> call'[u]]
  BY DEF Started
<1>7. call' \in [Threads -> Call]
  BY <1>4, <1>5, <1>6, Zenon
<1>8. \A f \in {"pc", "dev", "name", "buf", "raced"} : call'[t][f] = c[f]
  BY <1>2 DEF Call
<1>9. call'[t].alone <=> Quiet
  BY <1>2, <1>3 DEF Call
<1> QED
  BY <1>5, <1>7, <1>8, <1>9, Zenon

(* Every step keeps the types.                                             *)
LEMMA TypeStep ==
    ASSUME TypeOK, CallHasDevice, [Next]_vars
    PROVE  TypeOK'
<1>1. CASE UNCHANGED vars
  BY <1>1 DEF vars, TypeOK, Table
<1>2. ASSUME NEW t \in Threads, NEW d \in Devices,
             NEW v \in Vals \cup {NoVal}, SetNameOverride(t, d, v)
      PROVE  TypeOK'
  <2>1. mem' \in Table
    BY <1>2 DEF SetNameOverride, TypeOK, Table
  <2>2. Saving(d, mem') \in Call
    BY <2>1, IdleTypes DEF Saving, Call
  <2>3. call' \in [Threads -> Call]
    BY <1>2, <2>2, StartedCalls, Zenon DEF SetNameOverride
  <2> QED
    BY <1>2, <2>1, <2>3, Zenon DEF SetNameOverride, TypeOK
<1>3. ASSUME NEW t \in Threads, NEW d \in Devices,
             \/ \E v \in Vals : Update(t, d, v)
             \/ Clear(t, d)
      PROVE  TypeOK'
  <2>1. mem' \in Table
    BY <1>3 DEF Update, Clear, TypeOK, Table
  <2>2. Saving(d, Empty) \in Call
    BY IdleTypes DEF Saving, Call
  <2>3. Started(t, Saving(d, Empty), TRUE)
    BY <1>3, Zenon DEF Update, Clear
  <2>4. call' \in [Threads -> Call]
    BY <2>2, <2>3, StartedCalls, Zenon
  <2> QED
    BY <1>3, <2>1, <2>4, Zenon DEF Update, Clear, TypeOK
<1>4. ASSUME NEW t \in Threads, NEW d \in Devices, Announce(t, d)
      PROVE  TypeOK'
  <2>1. [IdleCall EXCEPT !.pc = "apply", !.dev = d, !.name = Own] \in Call
    BY IdleTypes DEF Call
  <2>2. call' \in [Threads -> Call]
    BY <1>4, <2>1, StartedCalls, Zenon DEF Announce
  <2> QED
    BY <1>4, <2>2, Zenon DEF Announce, TypeOK
<1>5. ASSUME NEW t \in Threads, Open(t) PROVE TypeOK'
  <2>1. [call[t] EXCEPT !.pc = "flush"] \in Call
    BY DEF TypeOK, Call
  <2>2. [call[t] EXCEPT !.pc = "collect", !.buf = mem, !.raced = FALSE] \in Call
    BY DEF TypeOK, Call
  <2>3. call' \in [Threads -> Call]
    BY <1>5, <2>1, <2>2, Zenon DEF Open, TypeOK
  <2>4. file' \in Seq(Row)
    BY <1>5 DEF Open
  <2> QED
    BY <1>5, <2>3, <2>4, Zenon DEF Open, TypeOK
<1>6. ASSUME NEW t \in Threads PROVE TypeOK => AfterSave(t) \in Call
  BY IdleTypes DEF AfterSave, TypeOK, Call
<1>7. ASSUME NEW t \in Threads, OpenFailed(t) PROVE TypeOK'
  <2>1. call' \in [Threads -> Call]
    BY <1>6, <1>7, Zenon DEF OpenFailed, TypeOK
  <2> QED
    BY <1>7, <2>1, Zenon DEF OpenFailed, TypeOK
<1>8. ASSUME NEW t \in Threads, Collect(t) PROVE TypeOK'
  <2>1. PICK b \in Table :
            call' = [call EXCEPT ![t] =
                        [call[t] EXCEPT !.pc = "flush", !.buf = b]]
    BY <1>8 DEF Collect, TypeOK
  <2>2. [call[t] EXCEPT !.pc = "flush", !.buf = b] \in Call
    BY DEF TypeOK, Call
  <2>3. call' \in [Threads -> Call]
    BY <2>1, <2>2, Zenon DEF TypeOK
  <2> QED
    BY <1>8, <2>3, Zenon DEF Collect, TypeOK
<1>9. ASSUME NEW t \in Threads, Flush(t) PROVE TypeOK'
  <2>1. call' \in [Threads -> Call]
    BY <1>6, <1>9, Zenon DEF Flush, TypeOK
  <2>2. file' \in Seq(Row)
    <3>1. PICK s \in Listings(call[t].buf) : file' \in Overwritten(file, s)
      BY <1>9 DEF Flush
    <3>2. call[t].buf \in Table
      BY DEF TypeOK, Call
    <3> QED
      BY <3>1, <3>2, ListingIsRows, OverwrittenIsRows DEF TypeOK
  <2>3. disturbed' \in BOOLEAN
    BY <1>9, Zenon DEF Flush
  <2> QED
    BY <1>9, <2>1, <2>2, <2>3, Zenon DEF Flush, TypeOK
<1>10. ASSUME NEW t \in Threads, Recall(t) PROVE TypeOK'
  <2> DEFINE last == shown[call[t].dev]
  <2>1. call[t].dev \in Devices
    BY <1>10 DEF Recall, CallHasDevice, Idle
  <2>2. [call[t] EXCEPT !.pc = "apply", !.name = last] \in Call
    BY <2>1 DEF TypeOK, Call
  <2>3. call' \in [Threads -> Call]
    BY <1>10, <2>2, IdleTypes, Zenon DEF Recall, TypeOK
  <2> QED
    BY <1>10, <2>3, Zenon DEF Recall, TypeOK
<1>11. ASSUME NEW t \in Threads, ApplyName(t) PROVE TypeOK'
  <2> DEFINE name == Apply(call[t].dev, call[t].name)
  <2>1. call[t].dev \in Devices
    BY <1>11 DEF ApplyName, CallHasDevice, Idle
  <2>2. name \in Vals \cup {Own, NoVal}
    BY <2>1 DEF Apply, TypeOK, Call, Table
  <2>3. [call[t] EXCEPT !.pc = "remember", !.name = name] \in Call
    <3> HIDE DEF name
    <3>1. call[t] \in Call
      BY DEF TypeOK
    <3> QED
      BY <2>2, <3>1 DEF Call
  <2>4. call' \in [Threads -> Call]
    BY <1>11, <2>3, Zenon DEF ApplyName, TypeOK
  <2> QED
    BY <1>11, <2>4, Zenon DEF ApplyName, TypeOK
<1>12. ASSUME NEW t \in Threads, Remember(t) PROVE TypeOK'
  BY <1>12, IdleTypes DEF Remember, TypeOK, Call
<1>13. CASE Restart
  <2>1. mem' \in Table
    BY <1>13, LoadIsTable, Zenon DEF Restart, TypeOK
  <2> QED
    BY <1>13, <2>1, IdleTypes DEF Restart, TypeOK, Empty
<1> QED
  BY <1>1, <1>2, <1>3, <1>4, <1>5, <1>7, <1>8, <1>9, <1>10, <1>11, <1>12,
     <1>13 DEF Next

-------------------------------------------------------------------------------
(* Every step keeps the strengthening.                                     *)
LEMMA SafeStep ==
    ASSUME IndInv, TypeOK', [Next]_vars
    PROVE  CallHasDevice' /\ AloneIsOnly' /\ SaveAlone' /\ FileKept'
<1> USE DEF IndInv
<1>1. CASE UNCHANGED vars
  BY <1>1 DEF vars, CallHasDevice, AloneIsOnly, SaveAlone, FileKept, Idle
(* A call begins with a change of the table, or without.                   *)
<1>2. ASSUME NEW t \in Threads, NEW c \in Call, NEW changes \in BOOLEAN,
             Idle(t), Started(t, c, changes),
             c.dev \in Devices, UNCHANGED <<kind, file, disturbed>>,
             \/ c.pc = "open" /\ (kind = "names" => c.buf = mem')
             \/ c.pc = "apply" /\ mem' = mem
      PROVE  CallHasDevice' /\ AloneIsOnly' /\ SaveAlone' /\ FileKept'
  <2>1. /\ call'[t].pc = c.pc /\ call'[t].dev = c.dev
        /\ call'[t].buf = c.buf
        /\ call'[t].alone <=> Quiet
        /\ \A u \in Threads \ {t} : /\ call'[u].pc = call[u].pc
                                    /\ call'[u].dev = call[u].dev
                                    /\ call'[u].alone => Idle(u)
    BY <1>2, StartedCalls
  <2>2. CallHasDevice'
    BY <1>2, <2>1 DEF CallHasDevice, Idle
  <2>3. AloneIsOnly'
    BY <1>2, <2>1 DEF AloneIsOnly, Idle, Quiet
  <2>4. SaveAlone'
    BY <1>2, <2>1 DEF SaveAlone, Idle
  <2>5. FileKept'
    BY <1>2, <2>1 DEF FileKept, Idle, Saves
  <2> QED
    BY <2>2, <2>3, <2>4, <2>5
<1>3. ASSUME NEW t \in Threads, NEW d \in Devices,
             \/ \E v \in Vals \cup {NoVal} : SetNameOverride(t, d, v)
             \/ \E v \in Vals : Update(t, d, v)
             \/ Clear(t, d)
             \/ Announce(t, d)
      PROVE  CallHasDevice' /\ AloneIsOnly' /\ SaveAlone' /\ FileKept'
  <2>1. ASSUME NEW m \in Table
        PROVE  LET c == Saving(d, m)
               IN  c \in Call /\ c.pc = "open" /\ c.dev = d /\ c.buf = m
    BY IdleTypes DEF Saving, Call
  <2>2. mem' \in Table /\ Empty \in Table
    BY IdleTypes DEF TypeOK
  <2>3. CASE \E v \in Vals \cup {NoVal} : SetNameOverride(t, d, v)
    <3> DEFINE c == Saving(d, mem')
    <3>1. c \in Call /\ c.pc = "open" /\ c.dev = d /\ c.buf = mem'
      BY <2>1, <2>2
    <3>2. /\ Idle(t) /\ Started(t, c, FALSE)
          /\ UNCHANGED <<kind, file, disturbed>>
      BY <2>3, Zenon DEF SetNameOverride
    <3> HIDE DEF c
    <3> QED
      BY <1>2, <3>1, <3>2
  <2>4. CASE (\E v \in Vals : Update(t, d, v)) \/ Clear(t, d)
    <3> DEFINE c == Saving(d, Empty)
    <3>1. c \in Call /\ c.pc = "open" /\ c.dev = d
      BY <2>1, <2>2
    <3>2. /\ Idle(t) /\ Started(t, c, TRUE) /\ kind # "names"
          /\ UNCHANGED <<kind, file, disturbed>>
      BY <2>4 DEF Update, Clear
    <3> HIDE DEF c
    <3> QED
      BY <1>2, <3>1, <3>2
  <2>5. CASE Announce(t, d)
    <3> DEFINE c == [IdleCall EXCEPT !.pc = "apply", !.dev = d, !.name = Own]
    <3>1. c \in Call /\ c.pc = "apply" /\ c.dev = d
      BY IdleTypes DEF Call
    <3>2. /\ Idle(t) /\ Started(t, c, FALSE) /\ mem' = mem
          /\ UNCHANGED <<kind, file, disturbed>>
      BY <2>5, Zenon DEF Announce
    <3> HIDE DEF c
    <3> QED
      BY <1>2, <3>1, <3>2
  <2> QED
    BY <1>3, <2>3, <2>4, <2>5
(* A call goes on to c: what it must have done to be a save run alone.     *)
<1>4. ASSUME NEW t \in Threads, NEW c \in Call, ~Idle(t),
             call' = [call EXCEPT ![t] = c],
             UNCHANGED <<kind, mem>>,
             \/ c.pc = "idle"
             \/ c.dev = call[t].dev /\ c.alone = call[t].alone /\ c.pc # "open",
             \/ /\ call[t].pc \notin Saves /\ c.pc \notin Saves
                /\ UNCHANGED <<file, disturbed>>
             \/ /\ call[t].pc \in Saves /\ c.pc \notin Saves
                /\ disturbed' \/ (call[t].alone /\ Load(file') = mem)
             \/ /\ c.pc \in {"collect", "flush"}
                /\ c.alone => /\ file' = <<>>
                              /\ c.pc = "collect" => ~c.raced
                              /\ c.pc = "flush" => c.buf = mem
      PROVE  CallHasDevice' /\ AloneIsOnly' /\ SaveAlone' /\ FileKept'
  <2>1. call'[t] = c /\ \A u \in Threads \ {t} : call'[u] = call[u]
    BY <1>4 DEF TypeOK
  <2>2. CallHasDevice'
    BY <1>4, <2>1 DEF CallHasDevice, Idle
  <2>3. AloneIsOnly'
    BY <1>4, <2>1 DEF AloneIsOnly, Idle
  <2>4. ASSUME NEW u \in Threads \ {t}, ~Idle(u)
        PROVE  ~call[u].alone /\ ~call[t].alone
    BY <1>4, <2>4 DEF AloneIsOnly
  <2>5. SaveAlone'
    BY <1>4, <2>1, <2>4 DEF SaveAlone, Idle, Saves
  <2>6. FileKept'
    BY <1>4, <2>1, <2>4 DEF FileKept, Idle, Saves
  <2> QED
    BY <2>2, <2>3, <2>5, <2>6
<1>5. ASSUME NEW t \in Threads, Open(t)
      PROVE  CallHasDevice' /\ AloneIsOnly' /\ SaveAlone' /\ FileKept'
  <2>1. CASE kind = "names"
    <3> DEFINE c == [call[t] EXCEPT !.pc = "flush"]
    <3>1. /\ c \in Call /\ c.pc = "flush" /\ c.dev = call[t].dev
          /\ c.alone = call[t].alone /\ c.buf = call[t].buf
      BY DEF TypeOK, Call
    <3>2. call[t].alone => call[t].buf = mem
      BY <1>5, <2>1 DEF Open, SaveAlone
    <3>3. /\ call' = [call EXCEPT ![t] = c] /\ file' = <<>>
          /\ ~Idle(t) /\ UNCHANGED <<kind, mem>>
      BY <1>5, <2>1 DEF Open, Idle
    <3> HIDE DEF c
    <3> QED
      BY <1>4, <3>1, <3>2, <3>3
  <2>2. CASE kind # "names"
    <3> DEFINE c == [call[t] EXCEPT !.pc = "collect", !.buf = mem,
                                    !.raced = FALSE]
    <3>1. /\ c \in Call /\ c.pc = "collect" /\ c.dev = call[t].dev
          /\ c.alone = call[t].alone /\ ~c.raced
      <4>1. call[t] \in Call /\ mem \in Table
        BY DEF TypeOK
      <4>2. c \in Call
        BY <4>1 DEF Call
      <4> QED
        BY <4>1, <4>2 DEF Call
    <3>2. /\ call' = [call EXCEPT ![t] = c] /\ file' = <<>>
          /\ ~Idle(t) /\ UNCHANGED <<kind, mem>>
      BY <1>5, <2>2 DEF Open, Idle
    <3> HIDE DEF c
    <3> QED
      BY <1>4, <3>1, <3>2
  <2> QED
    BY <2>1, <2>2
<1>6. ASSUME NEW t \in Threads
      PROVE  /\ AfterSave(t) \in Call
             /\ AfterSave(t).pc \in {"recall", "idle"}
             /\ \/ AfterSave(t).pc = "idle"
                \/ /\ AfterSave(t).dev = call[t].dev
                   /\ AfterSave(t).alone = call[t].alone
  BY IdleTypes DEF AfterSave, TypeOK, Call, IdleCall
<1>7. ASSUME NEW t \in Threads, OpenFailed(t)
      PROVE  CallHasDevice' /\ AloneIsOnly' /\ SaveAlone' /\ FileKept'
  <2>1. /\ call' = [call EXCEPT ![t] = AfterSave(t)] /\ disturbed'
        /\ ~Idle(t) /\ call[t].pc \in Saves /\ UNCHANGED <<kind, mem>>
    BY <1>7 DEF OpenFailed, Idle, Saves
  <2>2. AfterSave(t).pc \notin Saves
    BY <1>6 DEF Saves
  <2> QED
    BY <1>4, <1>6, <2>1, <2>2
<1>8. ASSUME NEW t \in Threads, Collect(t)
      PROVE  CallHasDevice' /\ AloneIsOnly' /\ SaveAlone' /\ FileKept'
  <2>1. PICK b \in Table :
            /\ call' = [call EXCEPT ![t] =
                           [call[t] EXCEPT !.pc = "flush", !.buf = b]]
            /\ ~call[t].raced => b = mem
    BY <1>8 DEF Collect, TypeOK
  <2> DEFINE c == [call[t] EXCEPT !.pc = "flush", !.buf = b]
  <2>2. /\ c \in Call /\ c.pc = "flush" /\ c.dev = call[t].dev
        /\ c.alone = call[t].alone /\ c.buf = b
    BY DEF TypeOK, Call
  <2>3. call[t].alone => ~call[t].raced /\ file = <<>>
    BY <1>8 DEF Collect, SaveAlone
  <2>4. ~Idle(t) /\ UNCHANGED <<kind, mem, file>>
    BY <1>8 DEF Collect, Idle
  <2>5. call' = [call EXCEPT ![t] = c]
    BY <2>1
  <2> HIDE DEF c
  <2> QED
    BY <1>4, <2>1, <2>2, <2>3, <2>4, <2>5
<1>9. ASSUME NEW t \in Threads, Flush(t)
      PROVE  CallHasDevice' /\ AloneIsOnly' /\ SaveAlone' /\ FileKept'
  <2>1. /\ call' = [call EXCEPT ![t] = AfterSave(t)]
        /\ disturbed' = ~call[t].alone
        /\ ~Idle(t) /\ call[t].pc \in Saves /\ UNCHANGED <<kind, mem>>
    BY <1>9 DEF Flush, Idle, Saves
  <2>2. AfterSave(t).pc \notin Saves
    BY <1>6 DEF Saves
  <2>3. ASSUME call[t].alone PROVE Load(file') = mem
    <3>1. file = <<>> /\ call[t].buf = mem /\ mem \in Table
      BY <1>9, <2>3 DEF Flush, SaveAlone, TypeOK
    <3>2. PICK s \in Listings(mem) : file' \in Overwritten(<<>>, s)
      BY <1>9, <3>1 DEF Flush
    <3>3. s \in Seq(Row)
      BY <3>1, <3>2, ListingIsRows
    <3>4. file' = s
      BY <3>2, <3>3 DEF Overwritten
    <3> QED
      BY <3>1, <3>2, <3>4, LoadListing
  <2>4. disturbed' \/ (call[t].alone /\ Load(file') = mem)
    BY <2>1, <2>3
  <2> QED
    BY <1>4, <1>6, <2>1, <2>2, <2>4
<1>10. ASSUME NEW t \in Threads, Recall(t) \/ ApplyName(t) \/ Remember(t)
       PROVE  CallHasDevice' /\ AloneIsOnly' /\ SaveAlone' /\ FileKept'
  <2>1. PICK c \in Call :
            /\ call' = [call EXCEPT ![t] = c]
            /\ \/ c = IdleCall
               \/ c = [call[t] EXCEPT !.pc = "apply", !.name = shown[call[t].dev]]
               \/ c = [call[t] EXCEPT !.pc = "remember",
                              !.name = Apply(call[t].dev, call[t].name)]
    <3>1. call'[t] \in Call
      BY DEF TypeOK
    <3>2. call' = [call EXCEPT ![t] = call'[t]]
      BY <1>10 DEF Recall, ApplyName, Remember, TypeOK
    <3>3. \/ call'[t] = IdleCall
          \/ call'[t] = [call[t] EXCEPT !.pc = "apply",
                                        !.name = shown[call[t].dev]]
          \/ call'[t] = [call[t] EXCEPT !.pc = "remember",
                            !.name = Apply(call[t].dev, call[t].name)]
      BY <1>10 DEF Recall, ApplyName, Remember, TypeOK
    <3> QED
      BY <3>1, <3>2, <3>3, Zenon
  <2>2. ASSUME NEW p \in {"apply", "remember"}, NEW n,
               c = [call[t] EXCEPT !.pc = p, !.name = n]
        PROVE  c.dev = call[t].dev /\ c.alone = call[t].alone /\ c.pc = p
    BY <2>2 DEF TypeOK, Call
  <2>3. /\ c.pc \notin Saves
        /\ \/ c.pc = "idle"
           \/ c.dev = call[t].dev /\ c.alone = call[t].alone /\ c.pc # "open"
    <3>1. CASE c = IdleCall
      BY <3>1 DEF IdleCall, Saves
    <3>2. CASE c # IdleCall
      <4>1. PICK p \in {"apply", "remember"} :
                c.dev = call[t].dev /\ c.alone = call[t].alone /\ c.pc = p
        BY <2>1, <2>2, <3>2, Zenon
      <4> QED
        BY <4>1 DEF Saves
    <3> QED
      BY <3>1, <3>2
  <2>4. /\ ~Idle(t) /\ call[t].pc \notin Saves
        /\ UNCHANGED <<kind, mem, file, disturbed>>
    BY <1>10 DEF Recall, ApplyName, Remember, Idle, Saves
  <2> QED
    BY <1>4, <2>1, <2>3, <2>4
<1>11. CASE Restart
  <2>1. \A t \in Threads : call'[t].pc = "idle"
    BY <1>11 DEF Restart, IdleCall
  <2> QED
    BY <1>11, <2>1 DEF Restart, CallHasDevice, AloneIsOnly, SaveAlone,
       FileKept, Idle
<1> QED
  BY <1>1, <1>3, <1>5, <1>7, <1>8, <1>9, <1>10, <1>11 DEF Next

(* The strengthening holds in every reachable state.                       *)
THEOREM IndInvHolds == Spec => []IndInv
<1>1. Init => IndInv
  <2> SUFFICES ASSUME Init PROVE IndInv
    OBVIOUS
  <2>1. /\ mem = Empty /\ file = <<>> /\ call = [t \in Threads |-> IdleCall]
        /\ kind \in {"names", "contexts"} /\ shown = Empty
        /\ disturbed = FALSE /\ misShown = [d \in Devices |-> FALSE]
    BY DEF Init
  <2>2. TypeOK
    <3>1. file \in Seq(Row)
      BY <2>1
    <3>2. shown \in [Devices -> Vals \cup {Own, NoVal}]
      BY <2>1 DEF Empty
    <3>3. misShown \in [Devices -> BOOLEAN]
      BY <2>1, Zenon
    <3>4. call \in [Threads -> Call] /\ mem \in Table
      BY <2>1, IdleTypes, Zenon
    <3> QED
      BY <2>1, <3>1, <3>2, <3>3, <3>4, Zenon DEF TypeOK
  <2>3. \A t \in Threads : call[t].pc = "idle"
    BY <2>1 DEF IdleCall
  <2>4. Load(file) = mem
    <3>1. \A d \in Devices : RowsOf(file, d) = {}
      BY <2>1 DEF RowsOf
    <3> QED
      BY <2>1, <3>1 DEF Load, Empty
  <2> QED
    BY <2>2, <2>3, <2>4 DEF IndInv, CallHasDevice, AloneIsOnly, SaveAlone,
       FileKept, Idle
<1>2. IndInv /\ [Next]_vars => IndInv'
  BY TypeStep, SafeStep DEF IndInv
<1> QED
  BY <1>1, <1>2, PTL DEF Spec

(* persist_..., load_... and the calls around them: after a save that ran  *)
(* alone, and until one fails or is overlapped, a restart loads the table. *)
THEOREM FileFollowsMemoryAlways == Spec => []FileFollowsMemory
<1>1. IndInv => FileFollowsMemory
  BY DEF IndInv, FileKept, FileFollowsMemory, Quiet, Idle, Saves
<1> QED
  BY <1>1, IndInvHolds, PTL

(* Every field has its type: the files hold rows of printers and values,   *)
(* and the tables of printer_metadata.cpp and local_print_context.cpp      *)
(* never an empty name.                                                    *)
THEOREM TypeCorrect == Spec => []TypeOK
<1>1. IndInv => TypeOK
  BY DEF IndInv
<1> QED
  BY <1>1, IndInvHolds, PTL

-------------------------------------------------------------------------------
(* ShownUnderGivenName says nothing while a call runs.  The strengthening: *)
(* a remembered name that differs from the given one has a call under way  *)
(* for its printer, and a call that runs alone is about to remember the    *)
(* name in the table.                                                      *)
NameKept ==
    \A t \in Threads :
        call[t].alone /\ call[t].pc = "remember" /\ mem[call[t].dev] # NoVal
            => call[t].name = mem[call[t].dev]

Underway(d) == \E t \in Threads : ~Idle(t) /\ call[t].dev = d

ShownKept ==
    kind = "names" =>
        \A d \in Devices :
            shown[d] # NoVal /\ mem[d] # NoVal /\ ~misShown[d] =>
                shown[d] = mem[d] \/ Underway(d)

Shown == NameKept /\ ShownKept

(* Every step keeps it.                                                    *)
LEMMA ShownStep ==
    ASSUME IndInv, Shown, [Next]_vars
    PROVE  Shown'
<1> USE DEF IndInv, Shown
<1>1. CASE UNCHANGED vars
  BY <1>1 DEF vars, NameKept, ShownKept, Underway, Idle
(* A call begins; a change of the table is about its printer.              *)
<1>2. ASSUME NEW t \in Threads, NEW c \in Call, NEW changes \in BOOLEAN,
             Idle(t), Started(t, c, changes),
             c.pc \in {"open", "apply"}, UNCHANGED <<kind, shown, misShown>>,
             \A d \in Devices \ {c.dev} : mem'[d] = mem[d]
      PROVE  Shown'
  <2>1. /\ call'[t].pc = c.pc /\ call'[t].dev = c.dev
        /\ \A u \in Threads \ {t} : /\ call'[u].pc = call[u].pc
                                    /\ call'[u].dev = call[u].dev
                                    /\ call'[u].alone => Idle(u)
    BY <1>2, StartedCalls
  <2>2. NameKept'
    BY <1>2, <2>1 DEF NameKept, Idle
  <2>3. ~Idle(t)' /\ \A u \in Threads : ~Idle(u) => ~Idle(u)' /\ call'[u].dev = call[u].dev
    BY <1>2, <2>1 DEF Idle
  <2>4. ShownKept'
    BY <1>2, <2>1, <2>3 DEF ShownKept, Underway
  <2> QED
    BY <2>2, <2>4
<1>3. ASSUME NEW t \in Threads, NEW d \in Devices,
             \/ \E v \in Vals \cup {NoVal} : SetNameOverride(t, d, v)
             \/ \E v \in Vals : Update(t, d, v)
             \/ Clear(t, d)
             \/ Announce(t, d)
      PROVE  Shown'
  <2>1. ASSUME NEW m \in Table
        PROVE  LET c == Saving(d, m)
               IN  c \in Call /\ c.pc = "open" /\ c.dev = d
    BY IdleTypes DEF Saving, Call
  <2>2. mem' \in Table /\ Empty \in Table
    BY IdleTypes, TypeStep DEF TypeOK
  <2>3. CASE \E v \in Vals \cup {NoVal} : SetNameOverride(t, d, v)
    <3> DEFINE c == Saving(d, mem')
    <3>1. c \in Call /\ c.pc = "open" /\ c.dev = d
      BY <2>1, <2>2
    <3>2. /\ Idle(t) /\ Started(t, c, FALSE)
          /\ UNCHANGED <<kind, shown, misShown>>
      BY <2>3, Zenon DEF SetNameOverride
    <3>3. \A e \in Devices \ {d} : mem'[e] = mem[e]
      BY <2>3 DEF SetNameOverride, TypeOK, Table
    <3> HIDE DEF c
    <3> QED
      BY <1>2, <3>1, <3>2, <3>3
  <2>4. CASE (\E v \in Vals : Update(t, d, v)) \/ Clear(t, d)
    <3> DEFINE c == Saving(d, Empty)
    <3>1. c \in Call /\ c.pc = "open" /\ c.dev = d
      BY <2>1, <2>2
    <3>2. /\ Idle(t) /\ Started(t, c, TRUE)
          /\ UNCHANGED <<kind, shown, misShown>>
      BY <2>4, Zenon DEF Update, Clear
    <3>3. \A e \in Devices \ {d} : mem'[e] = mem[e]
      BY <2>4 DEF Update, Clear, TypeOK, Table
    <3> HIDE DEF c
    <3> QED
      BY <1>2, <3>1, <3>2, <3>3
  <2>5. CASE Announce(t, d)
    <3> DEFINE c == [IdleCall EXCEPT !.pc = "apply", !.dev = d, !.name = Own]
    <3>1. c \in Call /\ c.pc = "apply" /\ c.dev = d
      BY IdleTypes DEF Call
    <3>2. /\ Idle(t) /\ Started(t, c, FALSE) /\ mem' = mem
          /\ UNCHANGED <<kind, shown, misShown>>
      BY <2>5, Zenon DEF Announce
    <3> HIDE DEF c
    <3> QED
      BY <1>2, <3>1, <3>2
  <2> QED
    BY <1>3, <2>3, <2>4, <2>5
(* A step inside a call that remembers nothing: its own printer stays, and *)
(* it ends only when there is nothing to remember.                         *)
<1>4. ASSUME NEW t \in Threads, ~Idle(t), NEW c \in Call,
             call' = [call EXCEPT ![t] = c],
             UNCHANGED <<kind, mem, shown, misShown>>,
             c.pc = "remember" /\ mem[call[t].dev] # NoVal
                 => c.name = mem[call[t].dev],
             \/ c.pc # "idle" /\ c.dev = call[t].dev
             \/ c.pc = "idle" /\ (kind # "names" \/ shown[call[t].dev] = NoVal)
      PROVE  Shown'
  <2>1. /\ call'[t] = c /\ \A u \in Threads \ {t} : call'[u] = call[u]
    BY <1>4 DEF TypeOK
  <2>2. NameKept'
    BY <1>4, <2>1 DEF NameKept
  <2>3. ShownKept'
    BY <1>4, <2>1 DEF ShownKept, Underway, Idle, CallHasDevice
  <2> QED
    BY <2>2, <2>3
<1>5. ASSUME NEW t \in Threads, Open(t) \/ Collect(t)
      PROVE  Shown'
  <2> DEFINE c == call'[t]
  <2>1. /\ ~Idle(t) /\ call' = [call EXCEPT ![t] = c]
        /\ c.pc \in {"flush", "collect"} /\ c.dev = call[t].dev
        /\ UNCHANGED <<kind, mem, shown, misShown>>
    <3>1. call[t] \in Call /\ call \in [Threads -> Call]
      BY DEF TypeOK
    <3>2. CASE Open(t)
      BY <3>1, <3>2 DEF Open, Idle, Call
    <3>3. CASE Collect(t)
      <4>1. PICK b : call' = [call EXCEPT ![t] = [@ EXCEPT !.pc = "flush", !.buf = b]]
        BY <3>3 DEF Collect
      <4> QED
        BY <3>1, <3>3, <4>1 DEF Collect, Idle, Call
    <3> QED
      BY <1>5, <3>2, <3>3
  <2>2. c \in Call
    BY TypeStep, <1>5 DEF TypeOK
  <2> HIDE DEF c
  <2> QED
    BY <1>4, <2>1, <2>2
<1>6. ASSUME NEW t \in Threads, OpenFailed(t) \/ Flush(t)
      PROVE  Shown'
  <2> DEFINE c == AfterSave(t)
  <2>1. /\ ~Idle(t) /\ call' = [call EXCEPT ![t] = c]
        /\ UNCHANGED <<kind, mem, shown, misShown>>
    BY <1>6 DEF OpenFailed, Flush, Idle
  <2>2. /\ c \in Call
        /\ IF kind = "names" THEN c.pc = "recall" /\ c.dev = call[t].dev
                             ELSE c.pc = "idle"
    BY IdleTypes DEF AfterSave, TypeOK, Call, IdleCall
  <2> HIDE DEF c
  <2> QED
    BY <1>4, <2>1, <2>2
<1>7. ASSUME NEW t \in Threads, Recall(t) PROVE Shown'
  <2> DEFINE last == shown[call[t].dev]
             c == IF last = NoVal THEN IdleCall
                  ELSE [call[t] EXCEPT !.pc = "apply", !.name = last]
  <2>1. /\ ~Idle(t) /\ call' = [call EXCEPT ![t] = c]
        /\ UNCHANGED <<kind, mem, shown, misShown>>
    BY <1>7 DEF Recall, Idle
  <2>2. c \in Call
    <3>1. last \in Vals \cup {Own, NoVal}
      BY <2>1 DEF TypeOK, CallHasDevice
    <3> HIDE DEF last
    <3> QED
      BY <3>1, IdleTypes DEF TypeOK, Call
  <2>3. IF last = NoVal THEN c.pc = "idle" ELSE c.pc = "apply" /\ c.dev = call[t].dev
    BY DEF IdleCall, TypeOK, Call
  <2> HIDE DEF c
  <2> QED
    BY <1>4, <2>1, <2>2, <2>3
<1>8. ASSUME NEW t \in Threads, ApplyName(t) PROVE Shown'
  <2> DEFINE name == Apply(call[t].dev, call[t].name)
             c == [call[t] EXCEPT !.pc = "remember", !.name = name]
  <2>1. /\ ~Idle(t) /\ call' = [call EXCEPT ![t] = c]
        /\ UNCHANGED <<kind, mem, shown, misShown>>
    BY <1>8 DEF ApplyName, Idle
  <2>2. /\ name \in Vals \cup {Own, NoVal}
        /\ mem[call[t].dev] # NoVal => name = mem[call[t].dev]
    BY <2>1 DEF Apply, TypeOK, CallHasDevice, Table, Call
  <2> HIDE DEF name
  <2>3. c \in Call /\ c.pc = "remember" /\ c.dev = call[t].dev /\ c.name = name
    <3>1. call[t] \in Call
      BY DEF TypeOK
    <3> QED
      BY <2>2, <3>1 DEF Call
  <2> HIDE DEF c
  <2> QED
    BY <1>4, <2>1, <2>2, <2>3
(* The call remembers its name and ends.                                   *)
<1>9. ASSUME NEW t \in Threads, Remember(t) PROVE Shown'
  <2> DEFINE e == call[t].dev
  <2>1. /\ ~Idle(t) /\ call' = [call EXCEPT ![t] = IdleCall]
        /\ shown' = [shown EXCEPT ![e] = call[t].name]
        /\ misShown' = [misShown EXCEPT ![e] = ~call[t].alone]
        /\ UNCHANGED <<kind, mem>> /\ call[t].pc = "remember"
    BY <1>9 DEF Remember, Idle
  <2>2. e \in Devices
    BY <2>1 DEF CallHasDevice
  <2>3. call'[t].pc = "idle" /\ \A u \in Threads \ {t} : call'[u] = call[u]
    BY <2>1 DEF TypeOK, IdleCall
  <2>4. NameKept'
    BY <2>1, <2>3 DEF NameKept
  <2>5. ASSUME NEW d \in Devices, kind = "names",
               shown'[d] # NoVal, mem[d] # NoVal, ~misShown'[d]
        PROVE  shown'[d] = mem[d] \/ Underway(d)'
    <3>1. CASE d = e
      <4>1. shown'[e] = call[t].name /\ misShown'[e] = ~call[t].alone
        BY <2>1, <2>2 DEF TypeOK
      <4>2. call[t].alone
        BY <2>5, <3>1, <4>1, Zenon
      <4> QED
        BY <2>1, <2>5, <3>1, <4>1, <4>2 DEF NameKept
    <3>2. CASE d # e
      <4>1. shown'[d] = shown[d] /\ misShown'[d] = misShown[d]
        BY <2>1, <2>2, <3>2 DEF TypeOK
      <4>2. shown[d] = mem[d] \/ Underway(d)
        BY <2>5, <4>1, Zenon DEF ShownKept
      <4> QED
        BY <2>3, <3>2, <4>1, <4>2 DEF Underway, Idle
    <3> QED
      BY <3>1, <3>2
  <2>6. ShownKept'
    BY <2>1, <2>5, Zenon DEF ShownKept
  <2> QED
    BY <2>4, <2>6
<1>10. CASE Restart
  <2>1. \A t \in Threads : call'[t].pc = "idle"
    BY <1>10 DEF Restart, IdleCall
  <2>2. \A d \in Devices : shown'[d] = NoVal
    BY <1>10 DEF Restart, Empty
  <2> QED
    BY <2>1, <2>2 DEF NameKept, ShownKept
<1> QED
  BY <1>1, <1>3, <1>5, <1>6, <1>7, <1>8, <1>9, <1>10 DEF Next

(* bambu_network_modify_printer_name and bambu_network_cb_printer_available *)
(* leave Studio the name the user gave, for any number of printers.        *)
THEOREM ShownUnderGivenNameAlways == Spec => []ShownUnderGivenName
<1>1. Init => Shown
  <2> SUFFICES ASSUME Init PROVE Shown
    OBVIOUS
  <2>1. \A t \in Threads : call[t].pc = "idle"
    BY DEF Init, IdleCall
  <2>2. \A d \in Devices : shown[d] = NoVal
    BY DEF Init, Empty
  <2> QED
    BY <2>1, <2>2 DEF Shown, NameKept, ShownKept
<1>2. IndInv /\ Shown /\ [Next]_vars => Shown'
  BY ShownStep
<1>3. Shown => ShownUnderGivenName
  BY DEF Shown, ShownKept, Underway, ShownUnderGivenName, Quiet
<1> QED
  BY <1>1, <1>2, <1>3, IndInvHolds, PTL DEF Spec

(* rewrite_status_message: while a print the plugin started is on a        *)
(* printer no status message goes to Studio without a job.                 *)
THEOREM StatusNamesTheJobAlways == Spec => []StatusNamesTheJob
<1>1. ASSUME TypeOK, NEW d \in Devices, NEW m \in Message,
             mem[d] # NoVal, m.print
      PROVE  LET r == RewriteStatus(d, m)
             IN  /\ \A i \in Ids : /\ r.ids[i] # NoVal
                                   /\ m.ids[i] # NoVal => r.ids[i] = m.ids[i]
                 /\ m.ids["subtask_id"] = NoVal =>
                        BuildSubtaskInfo(r.ids["subtask_id"]) = 200
                 /\ RewriteStatus(d, r) = r
  <2> DEFINE r == RewriteStatus(d, m)
             filled == [i \in Ids |-> IF m.ids[i] = NoVal THEN mem[d] ELSE m.ids[i]]
  <2>1. r = [print |-> TRUE, ipcam |-> "file", ids |-> filled]
    BY <1>1 DEF RewriteStatus, InjectFileCapability, Message
  <2>2. \A i \in Ids : filled[i] # NoVal /\ (m.ids[i] # NoVal => filled[i] = m.ids[i])
    BY <1>1
  <2>3. m.ids["subtask_id"] = NoVal => filled["subtask_id"] = mem[d]
    BY DEF Ids
  <2>4. BuildSubtaskInfo(mem[d]) = 200
    BY <1>1 DEF BuildSubtaskInfo, LookupSubtaskId
  <2>5. [i \in Ids |-> IF filled[i] = NoVal THEN mem[d] ELSE filled[i]] = filled
    BY <2>2
  <2> HIDE DEF filled
  <2>6. RewriteStatus(d, r) = r
    BY <1>1, <2>1, <2>5 DEF RewriteStatus, InjectFileCapability
  <2> QED
    BY <2>1, <2>2, <2>3, <2>4, <2>6
<1>2. TypeOK => StatusNamesTheJob
  BY <1>1 DEF StatusNamesTheJob
<1> QED
  BY <1>2, TypeCorrect, PTL
===============================================================================
