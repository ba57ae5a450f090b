---------------------------- MODULE TunnelFrames ----------------------------
(***************************************************************************)
(* How the answer to a file download becomes the frames Studio receives:   *)
(* split_file_download_response_frames of cpp/tunnel_protocol.cpp.  An     *)
(* answer is what is known of its header, and the size of its payload; the *)
(* bytes, digests and paths are left out.                                  *)
(***************************************************************************)
EXTENDS Naturals

CONSTANT Chunk      \* kTunnelDownloadChunkSize: 4 MiB in the source

ASSUME ChunkAssumption == Chunk \in Nat \ {0}

(* framed: there is a separator, and a sequence number before it.          *)
Answers(Requests, Sizes) ==
    [req : Requests, framed : BOOLEAN, result : {0, 10}, size : Sizes]

Frames(Requests, Sizes) ==
    [req : Requests, result : {0, 1, 10}, offset : Sizes, size : Sizes,
     total : Sizes]

(* The answer as it came.                                                  *)
Whole(a) == [req |-> a.req, result |-> a.result, offset |-> 0,
             size |-> a.size, total |-> a.size]

(* The chunk that begins at an offset; result 1 says that more follows.    *)
ChunkAt(a, offset) ==
    LET rest == a.size - offset
        size == IF Chunk <= rest THEN Chunk ELSE rest
    IN [req |-> a.req, result |-> IF offset + size < a.size THEN 1 ELSE 0,
        offset |-> offset, size |-> size, total |-> a.size]

(* Mutant: the bytes after the last whole chunk are forgotten.             *)
SplitWholeChunks(a) ==
    IF ~a.framed \/ a.size <= Chunk THEN <<Whole(a)>>
    ELSE [k \in 1 .. a.size \div Chunk |-> ChunkAt(a, (k - 1) * Chunk)]

Split(a) ==
    IF ~a.framed \/ a.size <= Chunk THEN <<Whole(a)>>
    ELSE [k \in 1 .. (a.size + Chunk - 1) \div Chunk |->
             ChunkAt(a, (k - 1) * Chunk)]
=============================================================================
