------------------------ MODULE CameraTunnel_proofs ------------------------
(* Camera workers that were let go have been told to stop, and downloads   *)
(* arrive whole and in order, for every number of callers, streams and     *)
(* requests, every depth of the frame channel, chunk size and file size.   *)
EXTENDS TunnelHistory, Integers, TLAPS

(* The number of chunks of n bytes, rounded up.                            *)
LEMMA ChunkCount ==
    ASSUME NEW n \in Nat, n > 0
    PROVE  LET k == (n + Chunk - 1) \div Chunk IN
           k \in Nat /\ k >= 1 /\ (k - 1) * Chunk < n /\ n <= k * Chunk
<1> USE ChunkAssumption
<1> DEFINE k == (n + Chunk - 1) \div Chunk
           r == (n + Chunk - 1) % Chunk
<1>1. n + Chunk - 1 \in Nat /\ Chunk > 0
  OBVIOUS
<1>2. /\ k \in Int /\ r \in 0 .. Chunk - 1
      /\ n + Chunk - 1 = Chunk * k + r
  BY <1>1
<1> HIDE DEF k, r
<1>3. Chunk * k >= n
  BY <1>2
<1>4. k >= 1
  BY <1>2, <1>3
<1>5. (k - 1) * Chunk = Chunk * k - Chunk
  BY <1>2
<1>6. k * Chunk = Chunk * k
  BY <1>2
<1> QED
  BY <1>2, <1>3, <1>4, <1>5, <1>6 DEF k

LEMMA Monotone ==
    ASSUME NEW i \in Nat, NEW j \in Nat, i <= j
    PROVE  i * Chunk <= j * Chunk
BY ChunkAssumption

(* What split_file_download_response_frames makes of an answer of any      *)
(* size: the first frame begins at 0, a frame that announces more is       *)
(* followed by its continuation, and only the last one announces no more.  *)
LEMMA SplitFrames ==
    ASSUME NEW Requests, NEW a \in Answers(Requests, Nat)
    PROVE  LET t == Split(a) IN
           /\ t \in Seq(Frames(Requests, 0 .. a.size))
           /\ t # <<>> /\ t[1].offset = 0
           /\ \A i \in 1 .. Len(t) :
                /\ t[i].result = 1 => i < Len(t)
                /\ i < Len(t) =>
                     /\ t[i].result = 1
                     /\ t[i + 1].req = t[i].req
                     /\ t[i + 1].offset = t[i].offset + t[i].size
                /\ t[i].result # 1 => t[i].offset + t[i].size = t[i].total
<1> USE ChunkAssumption DEF Answers, Frames
<1>1. CASE ~a.framed \/ a.size <= Chunk
  <2>1. Split(a) = <<Whole(a)>>
    BY <1>1 DEF Split
  <2>2. /\ Whole(a) \in Frames(Requests, 0 .. a.size)
        /\ Whole(a).offset = 0 /\ Whole(a).result # 1
        /\ Whole(a).size = Whole(a).total /\ Whole(a).size \in Nat
    BY DEF Whole
  <2> HIDE DEF Frames
  <2> QED
    BY <2>1, <2>2
<1>2. CASE a.framed /\ a.size > Chunk
  <2> DEFINE n == (a.size + Chunk - 1) \div Chunk
             f(k) == ChunkAt(a, (k - 1) * Chunk)
             t == Split(a)
  <2>1. /\ n \in Nat /\ n >= 1
        /\ (n - 1) * Chunk < a.size /\ a.size <= n * Chunk
    BY <1>2, ChunkCount
  <2>2. t = [k \in 1 .. n |-> f(k)]
    BY <1>2 DEF Split
  <2> HIDE DEF n
  <2>3. ASSUME NEW k \in 1 .. n
        PROVE  /\ (k - 1) * Chunk \in Nat /\ (k - 1) * Chunk < a.size
               /\ k < n => (k - 1) * Chunk + Chunk < a.size
               /\ k = n => a.size - (k - 1) * Chunk <= Chunk
               /\ (k + 1 - 1) * Chunk = (k - 1) * Chunk + Chunk
    <3>1. (k - 1) * Chunk \in Nat /\ (k + 1 - 1) * Chunk = (k - 1) * Chunk + Chunk
      BY <2>1
    <3>2. (k - 1) * Chunk <= (n - 1) * Chunk
      BY <2>1, Monotone
    <3>3. k < n => k * Chunk <= (n - 1) * Chunk
      BY <2>1, Monotone
    <3>4. (n - 1) * Chunk \in Nat /\ k * Chunk = (k + 1 - 1) * Chunk /\ k * Chunk \in Nat
      BY <2>1
    <3> QED
      BY <2>1, <3>1, <3>2, <3>3, <3>4
  <2>4. ASSUME NEW k \in 1 .. n
        PROVE  /\ f(k) \in Frames(Requests, 0 .. a.size)
               /\ f(k).req = a.req /\ f(k).offset = (k - 1) * Chunk
               /\ k < n => f(k).result = 1 /\ f(k).size = Chunk
               /\ k = n => f(k).result = 0
               /\ f(k).result # 1 => f(k).offset + f(k).size = f(k).total
    <3> DEFINE o == (k - 1) * Chunk
    <3>1. o \in Nat /\ o < a.size /\ a.size \in Nat
      BY <2>3
    <3>2. k < n => o + Chunk < a.size
      BY <2>3
    <3>3. k = n => a.size - o <= Chunk
      BY <2>3
    <3> HIDE DEF o
    <3>4. /\ ChunkAt(a, o) \in Frames(Requests, 0 .. a.size)
          /\ ChunkAt(a, o).req = a.req /\ ChunkAt(a, o).offset = o
          /\ ChunkAt(a, o).result # 1 =>
               ChunkAt(a, o).offset + ChunkAt(a, o).size = ChunkAt(a, o).total
      BY <3>1 DEF ChunkAt
    <3>5. k < n => ChunkAt(a, o).result = 1 /\ ChunkAt(a, o).size = Chunk
      BY <3>1, <3>2 DEF ChunkAt
    <3>6. k = n => ChunkAt(a, o).result = 0
      BY <3>1, <3>3 DEF ChunkAt
    <3> QED
      BY <3>4, <3>5, <3>6 DEF o
  <2> HIDE DEF f, t, Frames
  <2>5. t \in Seq(Frames(Requests, 0 .. a.size)) /\ Len(t) = n
    BY <2>1, <2>2, <2>4
  <2>6. \A k \in 1 .. n : t[k] = f(k)
    BY <2>2
  <2>7. t # <<>> /\ t[1].offset = 0
    BY <2>1, <2>4, <2>5, <2>6
  <2>8. ASSUME NEW i \in 1 .. n
        PROVE  /\ t[i].result = 1 => i < n
               /\ i < n => /\ t[i].result = 1
                          /\ t[i + 1].req = t[i].req
                          /\ t[i + 1].offset = t[i].offset + t[i].size
               /\ t[i].result # 1 => t[i].offset + t[i].size = t[i].total
    <3>1. i < n => i + 1 \in 1 .. n
      BY <2>1
    <3>2. i = n \/ i < n
      BY <2>1
    <3>3. t[i].result = 1 => i < n
      BY <2>4, <2>6, <3>2
    <3>4. t[i].result # 1 => t[i].offset + t[i].size = t[i].total
      BY <2>4, <2>6
    <3>5. i < n => t[i].result = 1 /\ t[i + 1].req = t[i].req
      BY <2>4, <2>6, <3>1
    <3>6. ASSUME i < n PROVE t[i + 1].offset = t[i].offset + t[i].size
      <4>1. t[i].offset = (i - 1) * Chunk /\ t[i].size = Chunk
        BY <2>4, <2>6, <3>6
      <4>2. t[i + 1].offset = (i + 1 - 1) * Chunk
        BY <2>4, <2>6, <3>1, <3>6
      <4> QED
        BY <2>3, <4>1, <4>2
    <3> QED
      BY <3>3, <3>4, <3>5, <3>6
  <2> QED
    BY <2>5, <2>7, <2>8 DEF t
<1> QED
  BY <1>1, <1>2

-----------------------------------------------------------------------------
(* A caller that is to register a stream has claimed one, one that reads   *)
(* has found one, and one that waits for an answer has asked.              *)
Claimed ==
    \A c \in Callers :
        /\ call[c].pc = "register" => call[c].id \in Stream
        /\ call[c].pc = "request" => call[c].id \in Request
        /\ call[c].pc = "state" => call[c].id \in Stream

IndInv == TypeOK /\ Claimed /\ ReleasedIsStopped /\ DownloadUnbroken

(* The frames of an answer, as they are queued.                            *)
LEMMA QueuedFrames ==
    ASSUME NEW c \in Callers, NEW a \in AnswersTo(call[c].id), TypeOK, Claimed,
           NEW download \in BOOLEAN, Answered(c, a, download)
    PROVE  \E t \in Seq(Frames(Request, Size)) :
             /\ responses' = responses \o t
             /\ t # <<>> /\ t[1].offset = 0
             /\ \A i \in 1 .. Len(t) :
                  /\ t[i].result = 1 => i < Len(t)
                  /\ i < Len(t) =>
                       /\ t[i].result = 1
                       /\ t[i + 1].req = t[i].req
                       /\ t[i + 1].offset = t[i].offset + t[i].size
                  /\ t[i].result # 1 => t[i].offset + t[i].size = t[i].total
<1>1. a \in Answers(Request, Size)
  BY DEF AnswersTo, Answered, Claimed, Answers
<1>2. a \in Answers(Request, Nat) /\ a.size \in Size
  BY <1>1, CameraAssumption DEF Answers, Size
<1>3. CASE download
  <2> DEFINE t == Split(a)
  <2>1. responses' = responses \o t
    BY <1>3 DEF Answered
  <2>2. t \in Seq(Frames(Request, 0 .. a.size))
    BY <1>2, SplitFrames
  <2>3. Frames(Request, 0 .. a.size) \subseteq Frames(Request, Size)
    BY <1>2, CameraAssumption DEF Frames, Size
  <2>4. t \in Seq(Frames(Request, Size))
    BY <2>2, <2>3
  <2> QED
    BY <1>2, <2>1, <2>4, SplitFrames
<1>4. CASE ~download
  <2> DEFINE t == <<Whole(a)>>
  <2>1. responses' = responses \o t
    BY <1>4 DEF Answered
  <2>2. /\ Whole(a) \in Frames(Request, Size)
        /\ Whole(a).offset = 0 /\ Whole(a).result # 1
        /\ Whole(a).size = Whole(a).total /\ Whole(a).size \in Nat
    BY <1>2, CameraAssumption DEF Whole, Frames, Answers, Size
  <2> HIDE DEF Whole
  <2> QED
    BY SMTT(30), <2>1, <2>2
<1> QED
  BY <1>3, <1>4

(* Every step keeps the types; a claimed id is a stream's.                 *)
LEMMA TypeStep ==
    ASSUME TypeOK, Claimed, [Next]_vars
    PROVE  TypeOK' /\ Claimed'
<1> USE CameraAssumption DEF TypeOK, Claimed, Stream, Request, NoStream, States,
        CallPC, tunnel, streams, control
<1>1. CASE UNCHANGED vars
  BY <1>1 DEF vars
<1>2. ASSUME NEW c \in Callers, CallStep(c) PROVE TypeOK' /\ Claimed'
  <2>1. CASE StartVideo(c)
    BY <2>1 DEF StartVideo, Goto, Idle
  <2>2. CASE Register(c)
    BY <2>2 DEF Register, Goto
  <2>3. CASE RegisterFails(c)
    BY <2>3 DEF RegisterFails, Goto
  <2>4. CASE UndoStart(c)
    BY <2>4 DEF UndoStart, Goto
  <2>5. CASE Close(c)
    <3>1. stop' \in [Stream -> BOOLEAN]
      BY <2>5, Zenon DEF Close, StopStream
    <3>2. frames' \in [Stream -> 0 .. Depth]
      BY <2>5 DEF Close, StopStream
    <3>3. handles' \subseteq Stream
      BY <2>5 DEF Close, StopStream
    <3>4. /\ sid' = 0 /\ started' = FALSE /\ responses' = <<>> /\ last' = <<>>
          /\ UNCHANGED <<asked, nextId, state, worker, call, told>>
      BY <2>5 DEF Close
    <3>5. /\ responses' \in Seq(Frames(Request, Size))
          /\ last' \in Seq(Frames(Request, Size))
          /\ asked' \in 0 .. MaxRequest
      BY <3>4
    <3>6. started' \in BOOLEAN
      BY <3>4, Zenon
    <3>7. Claimed'
      BY <3>4
    <3>8. /\ nextId' \in 1 .. MaxStream + 1
          /\ state' \in [Stream -> States]
          /\ worker' \in [Stream -> {"none", "connect", "run", "done"}]
          /\ call' \in [Callers -> [pc : CallPC, id : Stream \cup Request \cup {NoStream}]]
          /\ told' \in [Callers -> [res : States \cup {"frame", "none"},
                                    id : Stream \cup {NoStream}]]
      BY <3>4
    <3>9. sid' \in Stream \cup {NoStream}
      BY <3>4
    <3> QED
      BY <3>1, <3>2, <3>3, <3>5, <3>6, <3>7, <3>8, <3>9, Zenon
  <2>6. CASE ReadFrame(c)
    <3>1. sid \in Stream /\ UNCHANGED <<tunnel, handles, stop, state, worker>>
      BY <2>6 DEF ReadFrame
    <3>2. CASE sid \in handles /\ frames[sid] > 0
      <4>1. /\ frames' = [frames EXCEPT ![sid] = @ - 1]
            /\ told' = [told EXCEPT ![c] = [res |-> "frame", id |-> sid]]
            /\ UNCHANGED call
        BY <2>6, <3>2 DEF ReadFrame, Tell
      <4>2. frames' \in [Stream -> 0 .. Depth]
        BY <3>1, <3>2, <4>1
      <4>3. told' \in [Callers -> [res : States \cup {"frame", "none"},
                                  id : Stream \cup {NoStream}]]
        BY <3>1, <4>1
      <4> QED
        BY <3>1, <4>1, <4>2, <4>3
    <3>3. CASE ~(sid \in handles /\ frames[sid] > 0)
      <4>1. /\ call' = [call EXCEPT ![c] = [pc |-> "state", id |-> sid]]
            /\ UNCHANGED <<frames, told>>
        BY <2>6, <3>3 DEF ReadFrame, Goto
      <4> QED
        BY <3>1, <4>1
    <3> QED
      BY <3>2, <3>3
  <2>7. CASE ReadState(c)
    <3>1. call[c].id \in Stream \cup {NoStream}
      BY <2>7 DEF ReadState
    <3>2. StreamState(call[c].id) \in States
      BY <3>1, <2>7 DEF StreamState
    <3> QED
      BY <2>7, <3>1, <3>2 DEF ReadState, Goto, Tell
  <2>8. CASE Ask(c)
    BY <2>8 DEF Ask, Goto, Idle
  <2>9. CASE TakeResponse(c)
    <3>1. /\ Tail(responses) \in Seq(Frames(Request, Size))
          /\ <<Head(responses)>> \in Seq(Frames(Request, Size))
      BY <2>9 DEF TakeResponse
    <3> QED
      BY <2>9, <3>1 DEF TakeResponse, Idle
  <2>10. ASSUME NEW a \in AnswersTo(call[c].id), NEW download \in BOOLEAN,
                Answered(c, a, download)
         PROVE  TypeOK' /\ Claimed'
    <3>0. PICK t \in Seq(Frames(Request, Size)) : responses' = responses \o t
      BY <2>10, QueuedFrames
    <3>1. responses' \in Seq(Frames(Request, Size))
      BY <3>0
    <3> QED
      BY <2>10, <3>1 DEF Answered, Goto
  <2>11. CASE RequestFails(c)
    BY <2>11 DEF RequestFails, Goto
  <2> QED
    BY <1>2, <2>1, <2>2, <2>3, <2>4, <2>5, <2>6, <2>7, <2>8, <2>9, <2>10, <2>11
       DEF CallStep
<1>3. ASSUME NEW i \in Stream, WorkerStep(i) PROVE TypeOK' /\ Claimed'
  <2>1. CASE WorkerConnects(i)
    BY <2>1 DEF WorkerConnects
  <2>2. CASE WorkerFails(i)
    BY <2>2 DEF WorkerFails, WorkerExits
  <2>3. CASE WorkerFrame(i)
    <3>1. CASE i \in handles
      <4>1. frames' \in [Stream -> 0 .. Depth]
        BY <2>3, <3>1 DEF WorkerFrame
      <4> QED
        BY <2>3, <3>1, <4>1 DEF WorkerFrame
    <3>2. CASE i \notin handles
      BY <2>3, <3>2 DEF WorkerFrame, WorkerExits
    <3> QED
      BY <3>1, <3>2
  <2>4. CASE WorkerStops(i)
    BY <2>4 DEF WorkerStops, WorkerExits
  <2>5. CASE WorkerEof(i)
    BY <2>5 DEF WorkerEof, WorkerExits
  <2> QED
    BY <1>3, <2>1, <2>2, <2>3, <2>4, <2>5 DEF WorkerStep
<1> QED
  BY <1>1, <1>2, <1>3 DEF Next

(* No step lets a running worker's stream go without raising its flag.     *)
LEMMA ReleaseStep ==
    ASSUME TypeOK, Claimed, ReleasedIsStopped, [Next]_vars
    PROVE  ReleasedIsStopped'
<1> USE DEF TypeOK, Claimed, ReleasedIsStopped, tunnel, streams
<1>1. CASE UNCHANGED vars
  BY <1>1 DEF vars
<1>2. ASSUME NEW c \in Callers, CallStep(c) PROVE ReleasedIsStopped'
  <2>1. CASE StartVideo(c)
    BY <2>1 DEF StartVideo, Goto, Idle
  <2>2. CASE Register(c)
    BY <2>2 DEF Register, Goto
  <2>3. CASE RegisterFails(c)
    BY <2>3 DEF RegisterFails, Goto
  <2>4. CASE UndoStart(c)
    BY <2>4 DEF UndoStart, Goto
  <2>5. CASE Close(c)
    BY <2>5 DEF Close, StopStream, Idle
  <2>6. CASE ReadFrame(c)
    BY <2>6 DEF ReadFrame, Goto, Tell, Idle
  <2>7. CASE ReadState(c)
    BY <2>7 DEF ReadState, Goto, Tell, StreamState
  <2>8. CASE Ask(c)
    BY <2>8 DEF Ask, Goto, Idle
  <2>9. CASE TakeResponse(c)
    BY <2>9 DEF TakeResponse, Idle
  <2>10. CASE \E a \in AnswersTo(call[c].id), download \in BOOLEAN :
                Answered(c, a, download)
    BY <2>10 DEF Answered, Goto
  <2>11. CASE RequestFails(c)
    BY <2>11 DEF RequestFails, Goto
  <2> QED
    BY <1>2, <2>1, <2>2, <2>3, <2>4, <2>5, <2>6, <2>7, <2>8, <2>9, <2>10, <2>11
       DEF CallStep
<1>3. ASSUME NEW i \in Stream, WorkerStep(i) PROVE ReleasedIsStopped'
  <2>1. CASE WorkerConnects(i)
    BY <2>1 DEF WorkerConnects
  <2>2. CASE WorkerFails(i)
    BY <2>2 DEF WorkerFails, WorkerExits
  <2>3. CASE WorkerFrame(i)
    BY <2>3 DEF WorkerFrame, WorkerExits
  <2>4. CASE WorkerStops(i)
    BY <2>4 DEF WorkerStops, WorkerExits
  <2>5. CASE WorkerEof(i)
    BY <2>5 DEF WorkerEof, WorkerExits
  <2> QED
    BY <1>3, <2>1, <2>2, <2>3, <2>4, <2>5 DEF WorkerStep
<1> QED
  BY <1>1, <1>2, <1>3 DEF Next

(* No step tears the frames of a download apart.                           *)
LEMMA UnbrokenStep ==
    ASSUME TypeOK, Claimed, DownloadUnbroken, [Next]_vars
    PROVE  DownloadUnbroken'
<1> DEFINE F == Frames(Request, Size)
           s == last \o responses
<1>0. /\ last \in Seq(F) /\ responses \in Seq(F) /\ s \in Seq(F)
      /\ Len(s) = Len(last) + Len(responses)
  BY DEF TypeOK
<1>1. ASSUME UNCHANGED <<last, responses>> PROVE DownloadUnbroken'
  BY <1>1 DEF DownloadUnbroken
<1>2. ASSUME NEW c \in Callers, Close(c) PROVE DownloadUnbroken'
  BY <1>2 DEF Close, DownloadUnbroken
<1>3. ASSUME NEW c \in Callers, TakeResponse(c) PROVE DownloadUnbroken'
  <2> DEFINE m == Len(last)
  <2>1. responses # <<>> /\ last' = <<Head(responses)>> /\ responses' = Tail(responses)
    BY <1>3 DEF TakeResponse
  <2>2. last' \o responses' = responses /\ Len(last') = 1
    BY <1>0, <2>1
  <2>3. m \in Nat /\ \A i \in 1 .. Len(responses) :
          i + m \in DOMAIN s /\ i + m > m /\ s[i + m] = responses[i]
    BY <1>0
  <2>4. ASSUME NEW i \in 1 .. Len(responses)
        PROVE  /\ responses[i].result = 1 =>
                    /\ i < Len(responses)
                    /\ responses[i + 1].req = responses[i].req
                    /\ responses[i + 1].offset = responses[i].offset + responses[i].size
               /\ i > 1 /\ responses[i].offset > 0 => responses[i - 1].result = 1
               /\ responses[i].result # 1 =>
                    responses[i].offset + responses[i].size = responses[i].total
    <3>1. s[i + m] = responses[i] /\ i + m \in DOMAIN s /\ i + m > m
      BY <2>3
    <3>2. i < Len(responses) => s[i + m + 1] = responses[i + 1]
      BY <1>0, <2>3
    <3>3. i > 1 => s[i + m - 1] = responses[i - 1]
      BY <1>0, <2>3
    <3>4. /\ s[i + m].result = 1 =>
               /\ i + m < Len(s)
               /\ s[i + m + 1].req = s[i + m].req
               /\ s[i + m + 1].offset = s[i + m].offset + s[i + m].size
          /\ s[i + m].offset > 0 => s[i + m - 1].result = 1
          /\ s[i + m].result # 1 => s[i + m].offset + s[i + m].size = s[i + m].total
      <4>1. \A j \in DOMAIN s :
              /\ s[j].result = 1 =>
                   /\ j < Len(s)
                   /\ s[j + 1].req = s[j].req
                   /\ s[j + 1].offset = s[j].offset + s[j].size
              /\ j > m /\ s[j].offset > 0 => s[j - 1].result = 1
              /\ s[j].result # 1 => s[j].offset + s[j].size = s[j].total
        BY DEF DownloadUnbroken
      <4> DEFINE k == i + m
      <4>2. k \in DOMAIN s /\ k > m
        BY <3>1
      <4> HIDE DEF s, m, k
      <4>3. /\ s[k].result = 1 =>
                 /\ k < Len(s)
                 /\ s[k + 1].req = s[k].req
                 /\ s[k + 1].offset = s[k].offset + s[k].size
            /\ s[k].offset > 0 => s[k - 1].result = 1
            /\ s[k].result # 1 => s[k].offset + s[k].size = s[k].total
        BY <4>1, <4>2
      <4> QED
        BY <2>3, <4>3 DEF k
    <3> HIDE DEF s
    <3>5. i + m < Len(s) <=> i < Len(responses)
      BY <1>0
    <3> QED
      BY <3>1, <3>2, <3>3, <3>4, <3>5
  <2>5. DOMAIN responses = 1 .. Len(responses) /\ Len(responses) \in Nat
    BY <1>0
  <2> QED
    BY <2>2, <2>4, <2>5 DEF DownloadUnbroken
<1>4. ASSUME NEW c \in Callers, NEW a \in AnswersTo(call[c].id),
             NEW download \in BOOLEAN, Answered(c, a, download)
      PROVE  DownloadUnbroken'
  <2>1. PICK t \in Seq(F) :
          /\ responses' = responses \o t
          /\ t # <<>> /\ t[1].offset = 0
          /\ \A i \in 1 .. Len(t) :
               /\ t[i].result = 1 => i < Len(t)
               /\ i < Len(t) =>
                    /\ t[i].result = 1
                    /\ t[i + 1].req = t[i].req
                    /\ t[i + 1].offset = t[i].offset + t[i].size
               /\ t[i].result # 1 => t[i].offset + t[i].size = t[i].total
    BY <1>4, QueuedFrames
  <2> DEFINE n == Len(s)
             u == last' \o responses'
  <2>2. last' = last
    BY <1>4 DEF Answered
  <2>3. /\ n \in Nat /\ Len(t) \in Nat /\ u \in Seq(F) /\ Len(u) = n + Len(t)
        /\ DOMAIN u = 1 .. Len(u) /\ DOMAIN s = 1 .. n
    BY <1>0, <2>1, <2>2
  <2>4. (\A i \in 1 .. n : u[i] = s[i]) /\ (\A i \in 1 .. Len(t) : u[n + i] = t[i])
    BY <1>0, <2>1, <2>2
  <2>5. \A i \in 1 .. n :
          /\ s[i].result = 1 =>
               /\ i < n
               /\ s[i + 1].req = s[i].req
               /\ s[i + 1].offset = s[i].offset + s[i].size
          /\ i > Len(last) /\ s[i].offset > 0 => i > 1 /\ s[i - 1].result = 1
          /\ s[i].result # 1 => s[i].offset + s[i].size = s[i].total
    BY <2>3 DEF DownloadUnbroken
  <2> HIDE DEF s, n, u
  <2>6. ASSUME NEW i \in 1 .. Len(u)
        PROVE  /\ u[i].result = 1 =>
                    /\ i < Len(u)
                    /\ u[i + 1].req = u[i].req
                    /\ u[i + 1].offset = u[i].offset + u[i].size
               /\ i > Len(last) /\ u[i].offset > 0 => i > 1 /\ u[i - 1].result = 1
               /\ u[i].result # 1 => u[i].offset + u[i].size = u[i].total
    <3>1. CASE i <= n
      <4>1. i \in 1 .. n /\ i < n => i + 1 \in 1 .. n
        BY <2>3, <3>1
      <4>2. i > 1 => i - 1 \in 1 .. n
        BY <2>3, <3>1
      <4> QED
        BY <2>3, <2>4, <2>5, <3>1, <4>1, <4>2
    <3>2. CASE i > n
      <4> DEFINE k == i - n
      <4>1. k \in 1 .. Len(t) /\ i = n + k
        BY <2>3, <3>2
      <4> HIDE DEF k
      <4>2. u[i] = t[k]
        BY <2>4, <4>1
      <4>3. k < Len(t) => u[i + 1] = t[k + 1]
        <5>1. k < Len(t) => k + 1 \in 1 .. Len(t) /\ i + 1 = n + (k + 1)
          BY <2>3, <4>1
        <5> QED
          BY <2>4, <5>1
      <4>4. k > 1 => u[i - 1] = t[k - 1] /\ t[k - 1].result = 1 /\ i > 1
        <5>1. k > 1 => /\ k - 1 \in 1 .. Len(t) /\ i - 1 = n + (k - 1)
                       /\ k - 1 < Len(t) /\ i > 1
          BY <2>3, <4>1
        <5> QED
          BY <2>1, <2>4, <5>1
      <4>5. k = 1 => u[i].offset = 0
        BY <2>1, <4>2
      <4>6. k > 1 \/ k = 1
        BY <2>3, <4>1
      <4>7. k < Len(t) => i < Len(u)
        BY <2>3, <4>1
      <4>8. u[i].offset > 0 => i > 1 /\ u[i - 1].result = 1
        BY <4>4, <4>5, <4>6
      <4> QED
        BY <2>1, <4>1, <4>2, <4>3, <4>7, <4>8
    <3> QED
      BY <2>3, <3>1, <3>2
  <2> QED
    BY <2>2, <2>3, <2>6 DEF DownloadUnbroken, u
<1>5. ASSUME NEW c \in Callers, CallStep(c) PROVE DownloadUnbroken'
  <2>1. CASE \/ StartVideo(c) \/ Register(c) \/ RegisterFails(c) \/ UndoStart(c)
             \/ ReadFrame(c) \/ ReadState(c) \/ Ask(c) \/ RequestFails(c)
    BY <1>1, <2>1 DEF StartVideo, Register, RegisterFails, UndoStart, ReadFrame,
       ReadState, Ask, RequestFails, tunnel, control
  <2> QED
    BY <1>2, <1>3, <1>4, <1>5, <2>1 DEF CallStep
<1>6. ASSUME NEW i \in Stream, WorkerStep(i) PROVE DownloadUnbroken'
  BY <1>1, <1>6 DEF WorkerStep, WorkerConnects, WorkerFails, WorkerFrame,
     WorkerStops, WorkerEof, tunnel
<1>7. CASE UNCHANGED vars
  BY <1>1, <1>7 DEF vars
<1> QED
  BY <1>5, <1>6, <1>7 DEF Next

LEMMA IndInvHolds == Spec => []IndInv
<1>1. Init => IndInv
  <2> SUFFICES ASSUME Init PROVE IndInv
    OBVIOUS
  <2>1. TypeOK
    <3>1. stop \in [Stream -> BOOLEAN]
      BY Zenon DEF Init
    <3>2. 0 \in 0 .. Depth /\ 0 \in 0 .. MaxRequest /\ 1 \in 1 .. MaxStream + 1
      BY CameraAssumption
    <3>3. /\ responses \in Seq(Frames(Request, Size)) /\ last \in Seq(Frames(Request, Size))
          /\ sid \in Stream \cup {NoStream}
      BY DEF Init
    <3>4. /\ call \in [Callers -> [pc : CallPC, id : Stream \cup Request \cup {NoStream}]]
          /\ told \in [Callers -> [res : States \cup {"frame", "none"},
                                   id : Stream \cup {NoStream}]]
      BY DEF Init, CallPC, Idle
    <3> QED
      BY <3>1, <3>2, <3>3, <3>4 DEF Init, TypeOK, States
  <2>2. Claimed
    BY DEF Init, Claimed, Idle
  <2>3. ReleasedIsStopped
    BY DEF Init, ReleasedIsStopped
  <2>4. DownloadUnbroken
    BY DEF Init, DownloadUnbroken
  <2> QED
    BY <2>1, <2>2, <2>3, <2>4 DEF IndInv
<1>2. IndInv /\ [Next]_vars => IndInv'
  BY TypeStep, ReleaseStep, UnbrokenStep DEF IndInv
<1> QED
  BY <1>1, <1>2, PTL DEF Spec

(* The tunnel, its streams and its queue keep their types; the frame       *)
(* channel never holds more than Depth pictures (camera_stream_worker).    *)
THEOREM TypeCorrect == Spec => []TypeOK
<1>1. IndInv => TypeOK
  BY DEF IndInv
<1> QED
  BY <1>1, IndInvHolds, PTL

(* ReleasedIsStopped: stop_camera_stream and the worker's exits are the    *)
(* only ways out of CAMERA_STREAMS for a stream and its thread.            *)
THEOREM ReleasedIsStoppedAlways == Spec => []ReleasedIsStopped
<1>1. IndInv => ReleasedIsStopped
  BY DEF IndInv
<1> QED
  BY <1>1, IndInvHolds, PTL

(* A download of any size reaches Studio whole and in order                *)
(* (split_file_download_response_frames, send_tunnel_message).             *)
THEOREM DownloadUnbrokenAlways == Spec => []DownloadUnbroken
<1>1. IndInv => DownloadUnbroken
  BY DEF IndInv
<1> QED
  BY <1>1, IndInvHolds, PTL

-----------------------------------------------------------------------------
(* The tunnel with its history.                                            *)

(* A step with history is a step of the tunnel.                            *)
LEMMA HistoryStep == ASSUME [HNext]_hvars PROVE [Next]_vars
  BY DEF HNext, hvars, Next, CameraCall, AskCall, AnswerCall, CloseCall, CallStep

LEMMA TunnelHolds == HSpec => [](TypeOK /\ Claimed)
<1>1. Spec => [](TypeOK /\ Claimed)
  <2>1. IndInv => TypeOK /\ Claimed
    BY DEF IndInv
  <2> QED
    BY <2>1, IndInvHolds, PTL
<1>2. [HNext]_hvars => [Next]_vars
  BY HistoryStep
<1>3. HInit => Init
  BY DEF HInit
<1> QED
  BY <1>1, <1>2, <1>3, PTL DEF HSpec, Spec

(* An id is registered once, by the caller that claimed it, and the state  *)
(* of a stream says "ended" only when its worker is done.                  *)
Fresh ==
    /\ \A i \in Stream : i >= nextId => worker[i] = "none"
    /\ \A c \in Callers : call[c].pc = "register" =>
         call[c].id < nextId /\ worker[call[c].id] = "none"
    /\ \A c, d \in Callers :
         c # d /\ call[c].pc = "register" /\ call[d].pc = "register"
             => call[c].id # call[d].id
    /\ \A i \in Stream : state[i] = "ended" => worker[i] = "done"
    /\ \A c \in Callers : told[c].res = "ended" => told[c].id \in Stream

(* While no call has crossed a start: one thread starts at a time, for the *)
(* tunnel's own id, and a tunnel that has started has its stream.          *)
StartsAlone ==
    "start" \notin crossed =>
        /\ started <=> sid # NoStream
        /\ \A i \in handles : sid = i
        /\ \A c \in Callers : Starting(c) => call[c].id = sid /\ started /\ sid \notin handles
        /\ \A c, d \in Callers : Starting(c) /\ Starting(d) => c = d
        /\ started /\ (\A c \in Callers : ~Starting(c)) => sid \in handles
        /\ \A c \in Callers : call[c].pc = "state" => call[c].id \in handles

(* While no close has crossed a request: what is queued, and what is still *)
(* asked for, was asked for in this session.                               *)
AsksAlone ==
    "request" \notin crossed =>
        /\ \A i \in DOMAIN responses : responses[i].req \in session
        /\ \A c \in Callers : Asking(c) => call[c].id \in session

LEMMA FreshStep ==
    ASSUME TypeOK, Claimed, Fresh, [Next]_vars
    PROVE  Fresh'
<1> USE CameraAssumption DEF TypeOK, Claimed, Fresh, tunnel, streams, control, Stream
<1>1. CASE UNCHANGED vars
  BY <1>1 DEF vars
<1>2. ASSUME NEW c \in Callers, CallStep(c) PROVE Fresh'
  <2>1. CASE StartVideo(c)
    BY <2>1 DEF StartVideo, Goto, Idle
  <2>2. CASE Register(c)
    BY <2>2 DEF Register, Goto
  <2>3. CASE RegisterFails(c)
    BY <2>3 DEF RegisterFails, Goto
  <2>4. CASE UndoStart(c)
    BY <2>4 DEF UndoStart, Goto
  <2>5. CASE Close(c)
    BY <2>5 DEF Close, StopStream, Idle
  <2>6. CASE ReadFrame(c)
    <3>1. UNCHANGED <<nextId, worker, state>>
      BY <2>6 DEF ReadFrame
    <3>2. CASE sid \in handles /\ frames[sid] > 0
      <4>1. told' = [told EXCEPT ![c] = [res |-> "frame", id |-> sid]] /\ UNCHANGED call
        BY <2>6, <3>2 DEF ReadFrame, Tell
      <4> QED
        BY <3>1, <4>1
    <3>3. CASE ~(sid \in handles /\ frames[sid] > 0)
      <4>1. call' = [call EXCEPT ![c] = [pc |-> "state", id |-> sid]] /\ UNCHANGED told
        BY <2>6, <3>3 DEF ReadFrame, Goto
      <4> QED
        BY <3>1, <4>1
    <3> QED
      BY <3>2, <3>3
  <2>7. CASE ReadState(c)
    BY <2>7 DEF ReadState, Goto, Tell
  <2>8. CASE Ask(c)
    BY <2>8 DEF Ask, Goto, Idle
  <2>9. CASE TakeResponse(c)
    BY <2>9 DEF TakeResponse, Idle
  <2>10. CASE RequestFails(c)
    BY <2>10 DEF RequestFails, Goto
  <2>11. CASE \E a \in AnswersTo(call[c].id), download \in BOOLEAN :
                Answered(c, a, download)
    BY <2>11 DEF Answered, Goto
  <2> QED
    BY <1>2, <2>1, <2>2, <2>3, <2>4, <2>5, <2>6, <2>7, <2>8, <2>9, <2>10, <2>11
       DEF CallStep
<1>3. ASSUME NEW i \in Stream, WorkerStep(i) PROVE Fresh'
  <2>1. CASE WorkerConnects(i)
    BY <2>1 DEF WorkerConnects
  <2>2. CASE WorkerFails(i)
    BY <2>2 DEF WorkerFails, WorkerExits
  <2>3. CASE WorkerFrame(i)
    <3>1. UNCHANGED <<nextId, call, told>>
      BY <2>3 DEF WorkerFrame
    <3>2. CASE UNCHANGED <<state, worker>>
      BY <3>1, <3>2
    <3>3. CASE WorkerExits(i, "ended")
      BY <2>3, <3>1, <3>3 DEF WorkerExits, WorkerFrame
    <3> QED
      BY <2>3, <3>2, <3>3 DEF WorkerFrame
  <2>4. CASE WorkerStops(i)
    BY <2>4 DEF WorkerStops, WorkerExits
  <2>5. CASE WorkerEof(i)
    BY <2>5 DEF WorkerEof, WorkerExits
  <2> QED
    BY <1>3, <2>1, <2>2, <2>3, <2>4, <2>5 DEF WorkerStep
<1> QED
  BY <1>1, <1>2, <1>3 DEF Next

(* What a call of the camera side, or a close, means for the history: if   *)
(* it crossed no start, nobody else was in the middle of one.              *)
LEMMA NobodyElseStarts ==
    ASSUME NEW c \in Callers, CameraCall(c) \/ CloseCall(c), "start" \notin crossed'
    PROVE  "start" \notin crossed /\ \A o \in Callers : Starting(o) => o = c
  BY DEF CameraCall, CloseCall, CrossesStart

LEMMA StartsStep ==
    ASSUME TypeOK, Claimed, StartsAlone, [HNext]_hvars
    PROVE  StartsAlone'
<1> SUFFICES ASSUME "start" \notin crossed' PROVE StartsAlone'
  BY DEF StartsAlone
<1> USE CameraAssumption DEF TypeOK, Claimed, tunnel, streams, control, Stream, NoStream
<1>1. CASE UNCHANGED hvars
  BY <1>1 DEF hvars, vars, history, StartsAlone, Starting
<1>2. ASSUME NEW c \in Callers, CameraCall(c) PROVE StartsAlone'
  <2> USE DEF StartsAlone, Starting
  <2>0. "start" \notin crossed /\ \A o \in Callers : Starting(o) => o = c
    BY <1>2, NobodyElseStarts
  <2>1. CASE StartVideo(c)
    BY <2>0, <2>1 DEF StartVideo, Goto, Idle, TunnelFree
  <2>2. CASE Register(c)
    BY <2>0, <2>2 DEF Register, Goto
  <2>3. CASE RegisterFails(c)
    BY <2>0, <2>3 DEF RegisterFails, Goto
  <2>4. CASE UndoStart(c)
    BY <2>0, <2>4 DEF UndoStart, Goto, TunnelFree
  <2>5. CASE ReadFrame(c)
    <3>1. /\ UNCHANGED <<sid, started, handles>> /\ started
          /\ \A o \in Callers : ~Starting(o)
      BY <2>0, <2>5 DEF ReadFrame, Idle
    <3>2. sid \in handles
      BY <2>0, <3>1
    <3>3. CASE UNCHANGED call
      BY <2>0, <3>1, <3>3
    <3>4. CASE call' = [call EXCEPT ![c] = [pc |-> "state", id |-> sid]]
      BY <2>0, <3>1, <3>2, <3>4
    <3> QED
      BY <2>5, <3>3, <3>4 DEF ReadFrame, Goto
  <2>6. CASE ReadState(c)
    BY <2>0, <2>6 DEF ReadState, Goto, Tell
  <2> QED
    BY <1>2, <2>1, <2>2, <2>3, <2>4, <2>5, <2>6 DEF CameraCall
<1>3. ASSUME NEW c \in Callers, CloseCall(c) PROVE StartsAlone'
  <2>0. "start" \notin crossed /\ \A o \in Callers : Starting(o) => o = c
    BY <1>3, NobodyElseStarts
  <2> QED
    BY <1>3, <2>0 DEF CloseCall, Close, StopStream, Idle, TunnelFree, StartsAlone, Starting
<1>4. ASSUME NEW c \in Callers, AskCall(c) \/ AnswerCall(c) PROVE StartsAlone'
  <2>1. UNCHANGED <<sid, started, handles, crossed>>
    BY <1>4 DEF AskCall, AnswerCall, Ask, RequestFails, Answered, TakeResponse, history
  <2>2. \A o \in Callers : call'[o] = call[o] \/
          (call[o].pc \notin {"register", "undo"} /\ call'[o].pc \in {"idle", "request"})
    <3>1. CASE Ask(c)
      BY <3>1 DEF Ask, Goto, Idle
    <3>2. CASE RequestFails(c)
      BY <3>2 DEF RequestFails, Goto
    <3>3. CASE \E a \in AnswersTo(call[c].id), download \in BOOLEAN : Answered(c, a, download)
      BY <3>3 DEF Answered, Goto
    <3>4. CASE TakeResponse(c)
      BY <3>4 DEF TakeResponse
    <3> QED
      BY <1>4, <3>1, <3>2, <3>3, <3>4 DEF AskCall, AnswerCall
  <2>3. \A o \in Callers : (Starting(o)' <=> Starting(o)) /\ (Starting(o) => call'[o] = call[o])
    BY <2>2 DEF Starting
  <2> QED
    BY <2>1, <2>2, <2>3 DEF StartsAlone
<1>5. ASSUME NEW i \in Stream, WorkerStep(i), UNCHANGED history PROVE StartsAlone'
  <2>1. UNCHANGED <<sid, started, handles, call, crossed>>
    BY <1>5 DEF WorkerStep, WorkerConnects, WorkerFails, WorkerFrame, WorkerStops,
       WorkerEof, history
  <2> QED
    BY <2>1 DEF StartsAlone, Starting
<1> QED
  BY <1>1, <1>2, <1>3, <1>4, <1>5 DEF HNext

(* A worker that is done stays done.                                       *)
LEMMA DoneStays ==
    ASSUME TypeOK, Claimed, Fresh, [Next]_vars, NEW i \in Stream, worker[i] = "done"
    PROVE  worker'[i] = "done"
<1>1. CASE UNCHANGED worker
  BY <1>1
<1>2. ASSUME NEW c \in Callers, Register(c) PROVE worker'[i] = "done"
  <2>1. call[c].id # i /\ call[c].id \in Stream
    BY <1>2 DEF Fresh, Claimed, Register
  <2> QED
    BY <1>2, <2>1 DEF Register, TypeOK
<1>3. ASSUME NEW j \in Stream, WorkerStep(j) PROVE worker'[i] = "done"
  BY <1>3 DEF WorkerStep, WorkerConnects, WorkerFails, WorkerFrame, WorkerStops,
     WorkerEof, WorkerExits, TypeOK
<1>4. ASSUME NEW c \in Callers, CallStep(c), ~Register(c) PROVE UNCHANGED worker
  BY <1>4 DEF CallStep, StartVideo, RegisterFails, UndoStart, Close, ReadFrame,
     ReadState, Ask, RequestFails, Answered, TakeResponse, streams
<1> QED
  BY <1>1, <1>2, <1>3, <1>4 DEF Next, vars

LEMMA EndStep ==
    ASSUME TypeOK, Claimed, Fresh, StartsAlone, EndIsTrue, [HNext]_hvars
    PROVE  EndIsTrue'
<1> SUFFICES ASSUME "start" \notin crossed', NEW c \in Callers,
                    told'[c].res = "ended"
             PROVE  worker'[told'[c].id] = "done"
  BY DEF EndIsTrue
<1>1. "start" \notin crossed
  BY DEF HNext, CameraCall, CloseCall, AskCall, AnswerCall, hvars, history
<1>2. CASE told'[c] = told[c]
  <2>1. worker[told[c].id] = "done"
    BY <1>1, <1>2 DEF EndIsTrue
  <2>2. told[c].id \in Stream
    BY <1>2 DEF Fresh
  <2> QED
    BY <1>2, <2>1, <2>2, DoneStays, HistoryStep
<1>3. CASE told'[c] # told[c]
  <2>1. PICK b \in Callers : ReadFrame(b) \/ ReadState(b)
    BY <1>3 DEF HNext, CameraCall, CloseCall, AskCall, AnswerCall, hvars, vars,
       StartVideo, Register, RegisterFails, UndoStart, Close, Ask, RequestFails,
       Answered, TakeResponse, WorkerStep, WorkerConnects, WorkerFails,
       WorkerFrame, WorkerStops, WorkerEof
  <2>2. b = c /\ ReadState(c)
    BY <1>3, <2>1 DEF TypeOK, ReadFrame, ReadState, Tell
  <2>3. call[c].id \in handles /\ call[c].id \in Stream
    BY <1>1, <2>2 DEF StartsAlone, ReadState, TypeOK
  <2>4. told'[c] = [res |-> state[call[c].id], id |-> call[c].id]
    BY <2>2, <2>3 DEF ReadState, Tell, StreamState, TypeOK
  <2> QED
    BY <2>2, <2>3, <2>4 DEF Fresh, ReadState, streams
<1> QED
  BY <1>2, <1>3

(* Every frame of an answer carries the request it answers.                *)
LEMMA FramesOfRequest ==
    ASSUME NEW r \in Request, NEW a \in AnswersTo(r), NEW download \in BOOLEAN,
           NEW t, t = IF download THEN Split(a) ELSE <<Whole(a)>>
    PROVE  /\ t \in Seq(Frames({r}, Nat))
           /\ \A i \in DOMAIN t : t[i].req = r
<1>1. a \in Answers({r}, Nat) /\ a.size \in Nat
  BY CameraAssumption DEF AnswersTo, Answers, Size
<1> DEFINE F == Frames({r}, 0 .. a.size)
           G == Frames({r}, Nat)
<1>2. F \subseteq G /\ \A f \in G : f.req = r
  BY <1>1 DEF Frames
<1>3. CASE download
  <2>1. t \in Seq(F)
    BY <1>1, <1>3, SplitFrames
  <2> HIDE DEF F, G
  <2>2. t \in Seq(G) /\ \A i \in DOMAIN t : t[i] \in G
    BY <1>2, <2>1
  <2> QED
    BY <1>2, <2>2 DEF G
<1>4. CASE ~download
  <2>1. Whole(a) \in G /\ t = <<Whole(a)>>
    BY <1>1, <1>4 DEF Whole, Frames, Answers
  <2> HIDE DEF G
  <2>2. t \in Seq(G) /\ \A i \in DOMAIN t : t[i] \in G
    BY <2>1
  <2> QED
    BY <1>2, <2>2 DEF G
<1> QED
  BY <1>3, <1>4

LEMMA AsksStep ==
    ASSUME TypeOK, Claimed, AsksAlone, [HNext]_hvars
    PROVE  AsksAlone'
<1> SUFFICES ASSUME "request" \notin crossed' PROVE AsksAlone'
  BY DEF AsksAlone
<1>1. CASE UNCHANGED hvars
  BY <1>1 DEF hvars, vars, history, AsksAlone, Asking
<1>2. ASSUME NEW c \in Callers, CameraCall(c) PROVE AsksAlone'
  <2>1. "request" \notin crossed /\ UNCHANGED <<session, responses>>
    BY <1>2 DEF CameraCall, StartVideo, Register, RegisterFails, UndoStart,
       ReadFrame, ReadState, tunnel, control
  <2>2. \A o \in Callers : Asking(o)' => call'[o] = call[o]
    BY <1>2 DEF CameraCall, StartVideo, Register, RegisterFails, UndoStart,
       ReadFrame, ReadState, Goto, Asking, TypeOK
  <2> QED
    BY <2>1, <2>2 DEF AsksAlone, Asking
<1>3. ASSUME NEW c \in Callers, CloseCall(c) PROVE AsksAlone'
  <2>1. responses' = <<>> /\ UNCHANGED call /\ call[c] = Idle
    BY <1>3 DEF CloseCall, Close
  <2>2. \A o \in Callers : ~Asking(o)
    BY <1>3, <2>1 DEF CloseCall, CrossesRequest, Asking, Idle
  <2> QED
    BY <2>1, <2>2 DEF AsksAlone, Asking
<1>4. ASSUME NEW c \in Callers, AskCall(c) PROVE AsksAlone'
  BY <1>4 DEF AskCall, Ask, Goto, AsksAlone, Asking, TypeOK
<1>5. ASSUME NEW c \in Callers, AnswerCall(c) PROVE AsksAlone'
  <2> USE DEF AnswerCall, history
  <2>1. CASE RequestFails(c)
    BY <1>5, <2>1 DEF RequestFails, Goto, tunnel, AsksAlone, Asking, TypeOK
  <2>2. CASE TakeResponse(c)
    <3>1. /\ responses \in Seq(Frames(Request, Size)) /\ responses # <<>>
          /\ responses' = Tail(responses)
      BY <2>2 DEF TakeResponse, TypeOK
    <3>2. \A i \in DOMAIN responses' :
            i + 1 \in DOMAIN responses /\ responses'[i] = responses[i + 1]
      BY <3>1
    <3> QED
      BY <1>5, <2>2, <3>2 DEF TakeResponse, AsksAlone, Asking
  <2>3. ASSUME NEW a \in AnswersTo(call[c].id), NEW download \in BOOLEAN,
               Answered(c, a, download), UNCHANGED history
        PROVE  AsksAlone'
    <3> DEFINE r == call[c].id
               t == IF download THEN Split(a) ELSE <<Whole(a)>>
    <3>1. Asking(c) /\ r \in Request
      BY <2>3 DEF Answered, Asking, Claimed
    <3>2. responses' = responses \o t
      BY <2>3 DEF Answered
    <3>3. t \in Seq(Frames({r}, Nat)) /\ \A i \in DOMAIN t : t[i].req = r
      <4>1. t = IF download THEN Split(a) ELSE <<Whole(a)>>
        OBVIOUS
      <4>2. a \in AnswersTo(r)
        BY <2>3
      <4> HIDE DEF t, r
      <4> QED
        BY <3>1, <4>1, <4>2, FramesOfRequest
    <3>4. responses \in Seq(Frames(Request, Size))
      BY DEF TypeOK
    <3> HIDE DEF t
    <3>5. \A i \in DOMAIN responses' :
            \/ i \in DOMAIN responses /\ responses'[i] = responses[i]
            \/ i - Len(responses) \in DOMAIN t /\ responses'[i] = t[i - Len(responses)]
      BY <3>2, <3>3, <3>4
    <3>6. "request" \notin crossed /\ session' = session /\ r \in session
      BY <2>3, <3>1 DEF AsksAlone
    <3>7. \A i \in DOMAIN responses' : responses'[i].req \in session'
      BY <3>3, <3>5, <3>6 DEF AsksAlone
    <3>8. \A o \in Callers : Asking(o)' => Asking(o) /\ call'[o] = call[o]
      BY <2>3 DEF Answered, Goto, Asking, TypeOK
    <3> QED
      BY <3>6, <3>7, <3>8 DEF AsksAlone
  <2> QED
    BY <1>5, <2>1, <2>2, <2>3
<1>6. ASSUME NEW i \in Stream, WorkerStep(i), UNCHANGED history PROVE AsksAlone'
  BY <1>6 DEF WorkerStep, WorkerConnects, WorkerFails, WorkerFrame, WorkerStops,
     WorkerEof, tunnel, history, AsksAlone, Asking
<1> QED
  BY <1>1, <1>2, <1>3, <1>4, <1>5, <1>6 DEF HNext

HistInv == Fresh /\ StartsAlone /\ EndIsTrue /\ AsksAlone

LEMMA HistInvHolds == HSpec => []HistInv
<1>1. HInit => HistInv
  BY DEF HInit, Init, HistInv, Fresh, StartsAlone, EndIsTrue, AsksAlone, Idle,
     Starting, Asking
<1>2. TypeOK /\ Claimed /\ HistInv /\ [HNext]_hvars => HistInv'
  BY FreshStep, StartsStep, EndStep, AsksStep, HistoryStep DEF HistInv
<1> QED
  BY <1>1, <1>2, TunnelHolds, PTL DEF HSpec

(* NoOrphanCamera: start_tunnel_stream and close_tunnel, one at a time,    *)
(* leave no stream in CAMERA_STREAMS that the tunnel does not know.        *)
THEOREM NoOrphanCameraAlways == HSpec => []NoOrphanCamera
<1>1. HistInv => NoOrphanCamera
  BY DEF HistInv, StartsAlone, NoOrphanCamera
<1> QED
  BY <1>1, HistInvHolds, PTL

(* EndIsTrue: what read_tunnel_sample reports as the end of a stream is    *)
(* the end of its worker.                                                  *)
THEOREM EndIsTrueAlways == HSpec => []EndIsTrue
<1>1. HistInv => EndIsTrue
  BY DEF HistInv
<1> QED
  BY <1>1, HistInvHolds, PTL

(* AnswersAreOurs: send_tunnel_message queues answers of this session.     *)
THEOREM AnswersAreOursAlways == HSpec => []AnswersAreOurs
<1>1. HistInv => AnswersAreOurs
  BY DEF HistInv, AsksAlone, AnswersAreOurs
<1> QED
  BY <1>1, HistInvHolds, PTL
=============================================================================
