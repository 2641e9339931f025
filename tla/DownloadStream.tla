---------------------------- MODULE DownloadStream ----------------------------
(***************************************************************************)
(* The receiver's half of a transfer: one slot of the download tables of   *)
(* keep_track.c and the chunk of the current request it fills (util.c).    *)
(*                                                                         *)
(* `last' is the seq of the only node last_acked_record keeps between      *)
(* calls; `bytes' is received_byte_number; `saved' lists the sequence      *)
(* numbers whose payload was copied into the chunk's buffer, in that       *)
(* order, and stands for the buffer's contents.                            *)
(***************************************************************************)
EXTENDS ChunkLayout

ChunkStates == {"RECEIVING", "OWNED", "NOT_STARTED"}
ByteCounts  == 0 .. BT_CHUNK_SIZE + 1

Streams == [stream : BOOLEAN, last : SeqNumbers, chunk : ChunkStates,
            bytes : ByteCounts, saved : PacketQueues, overrun : BOOLEAN]

\* start_download on a chunk pick_a_chunk has just marked RECEIVING.
StartDownload == [stream |-> TRUE, last |-> 0, chunk |-> "RECEIVING",
                  bytes |-> 0, saved |-> << >>, overrun |-> FALSE]

\* Faulty variant: a packet that leaves a gap is linked too.
TrackDataPacketSkips(d, seq) == IF seq > d.last THEN [d EXCEPT !.last = seq] ELSE d

\* track_data_packet: add_record links seq only when it follows the root.
TrackDataPacket(d, seq) ==
    IF seq = d.last + 1 THEN [d EXCEPT !.last = seq] ELSE d

\* save_data_packet: append at received_byte_number.  The copy has no bound;
\* past the end of the buffer its effect is undefined, and `overrun' records it.
\* `bytes' stops at BT_CHUNK_SIZE + 1, which no later test tells from larger.
SaveDataPacket(d, seq) ==
    IF d.chunk = "OWNED" THEN d
    ELSE IF d.bytes + PayloadSize(seq) <= BT_CHUNK_SIZE
    THEN [d EXCEPT !.bytes = d.bytes + PayloadSize(seq), !.saved = Append(d.saved, seq)]
    ELSE [d EXCEPT !.bytes = BT_CHUNK_SIZE + 1, !.overrun = TRUE]

\* The SHA-1 comparison of save_chunk: the buffer holds the chunk.
Verifies(d) == d.saved = [i \in 1 .. N |-> i]
Filled(d)   == d.bytes = BT_CHUNK_SIZE /\ d.chunk # "OWNED"

\* save_chunk and the abort_download that follows it in the DATA handler.
SaveChunk(d) ==
    IF Filled(d)
    THEN [d EXCEPT !.stream = FALSE, !.bytes = 0,
                   !.chunk = IF Verifies(d) THEN "OWNED" ELSE "NOT_STARTED"]
    ELSE d

\* Faulty variant: the stream is not aborted.
CrashDownloadKeepsStream(d) ==
    [d EXCEPT !.chunk = "NOT_STARTED", !.bytes = 0, !.saved = << >>]

\* clean_download_timeout and download_peer_crash: the stream is dropped and
\* the chunk goes back to NOT_STARTED with its buffer freed.
CrashDownload(d) ==
    [d EXCEPT !.stream = FALSE, !.chunk = "NOT_STARTED", !.bytes = 0, !.saved = << >>]

\* Faulty variant: a packet that comes too early is saved as well.
DataStreamSavesEarly(d, seq) ==
    LET tracked == TrackDataPacket(d, seq)
    IN  IF seq >= tracked.last THEN SaveChunk(SaveDataPacket(tracked, seq)) ELSE tracked

\* The stream after a DATA packet: saved when seq is the last continuous one.
DataStream(d, seq) ==
    LET tracked == TrackDataPacket(d, seq)
    IN  IF seq = tracked.last THEN SaveChunk(SaveDataPacket(tracked, seq)) ELSE tracked

-------------------------------------------------------------------------------
(* What every operation above keeps true of a stream.                        *)

\* While its stream is open a chunk is RECEIVING, and its buffer either has
\* been overrun or holds full packets only: at least one for every packet
\* received in order, and exactly these when there are no more.
Buffer(d) ==
    d.stream =>
      /\ d.chunk = "RECEIVING"
      /\ \/ d.bytes = BT_CHUNK_SIZE + 1
         \/ /\ d.last < N
            /\ d.bytes = Len(d.saved) * FullPacket
            /\ d.last <= Len(d.saved) /\ Len(d.saved) <= N - 1
            /\ Len(d.saved) = d.last => d.saved = [i \in 1 .. d.last |-> i]
================================================================================
