----------------------------- MODULE UploadStream -----------------------------
(***************************************************************************)
(* The sender's half of keep_track.c: one slot of the upload tables        *)
(* (upload_id_map, sent_queue_head/tail/size, last_ack_table,              *)
(* dup_ack_count, upload_last_time).  Packets are their sequence numbers.  *)
(*                                                                         *)
(* sent_queue_head is the sequence `queue'; `tail' is the sequence number  *)
(* of the node sent_queue_tail points to (0 for NULL), which outlives the  *)
(* queue: receive_ack never frees the last node it pops.  `size' is the    *)
(* separately maintained sent_queue_size.                                  *)
(*                                                                         *)
(* Time stamps are abstracted to what the code asks of them: `due' says    *)
(* that the head's time stamp has been set back by one RTO (fast           *)
(* retransmit), `quiet' counts the RTO periods since upload_last_time.     *)
(***************************************************************************)
EXTENDS ChunkLayout

ABORT_COEFF == 4      \* RTO periods without an ACK before a stream is dropped
DUP_ACKS    == 3      \* duplicate ACKs that trigger the fast retransmit

DupCounts == 0 .. DUP_ACKS - 1
QuietRTOs == 0 .. ABORT_COEFF

Slots == [active : BOOLEAN, queue : PacketQueues, size : Nat, tail : SeqNumbers,
          lastAck : SeqNumbers, dup : DupCounts, due : BOOLEAN, quiet : QuietRTOs]

\* The slot after init_tracker.
FreeSlot == [active |-> FALSE, queue |-> << >>, size |-> 0, tail |-> 0,
             lastAck |-> 0, dup |-> 0, due |-> FALSE, quiet |-> 0]

\* start_upload: the queue pointers are not touched, abort_upload cleared them.
StartUpload(u) ==
    [u EXCEPT !.active = TRUE, !.size = 0, !.lastAck = 0, !.dup = 0, !.quiet = 0]

\* Faulty variant: the tail pointer is left dangling.
AbortUploadKeepsTail(u) == [u EXCEPT !.active = FALSE, !.queue = << >>, !.due = FALSE]

\* abort_upload: frees the slot and forgets the queue.
AbortUpload(u) ==
    [u EXCEPT !.active = FALSE, !.queue = << >>, !.tail = 0, !.due = FALSE]

\* Faulty variants: the ACK's own packet stays, or the one after it goes too.
AckedPrefixStrict(queue, ack) ==
    CHOOSE k \in 0 .. Len(queue) :
        /\ \A i \in 1 .. k : queue[i] < ack
        /\ k < Len(queue) => queue[k + 1] >= ack
AckedPrefixGreedy(queue, ack) ==
    CHOOSE k \in 0 .. Len(queue) :
        /\ \A i \in 1 .. k : queue[i] <= ack + 1
        /\ k < Len(queue) => queue[k + 1] > ack + 1

\* The number of nodes receive_ack pops: the longest prefix with seq <= ack.
AckedPrefix(queue, ack) ==
    CHOOSE k \in 0 .. Len(queue) :
        /\ \A i \in 1 .. k : queue[i] <= ack
        /\ k < Len(queue) => queue[k + 1] > ack

\* What receive_ack leaves of the queue, and the duplicate count it reaches.
Unacked(u, ack)  == SubSeq(u.queue, AckedPrefix(u.queue, ack) + 1, Len(u.queue))
DupCount(u, ack) == IF u.lastAck = ack THEN u.dup + 1 ELSE 0

\* Faulty variants: the duplicate count is not reset after a fast retransmit, the
\* size is not decremented, the last node popped takes the tail with it.
ReceiveAckKeepsDups(u, ack) ==
    [u EXCEPT !.queue = Unacked(u, ack), !.size = u.size - AckedPrefix(u.queue, ack),
              !.lastAck = ack, !.dup = DupCount(u, ack), !.quiet = 0]
ReceiveAckKeepsSize(u, ack) ==
    [u EXCEPT !.queue = Unacked(u, ack), !.lastAck = ack, !.quiet = 0]
ReceiveAckForgetsTail(u, ack) ==
    [u EXCEPT !.queue = Unacked(u, ack), !.size = u.size - AckedPrefix(u.queue, ack),
              !.tail = IF Unacked(u, ack) = << >> THEN 0 ELSE u.tail,
              !.lastAck = ack, !.quiet = 0]

\* receive_ack: cumulative pop, duplicate count, last_ack_table, time stamps.
ReceiveAck(u, ack) ==
    LET fast == DupCount(u, ack) >= DUP_ACKS
    IN  [u EXCEPT !.queue   = Unacked(u, ack),
                  !.size    = u.size - AckedPrefix(u.queue, ack),
                  !.lastAck = ack,
                  !.dup     = IF fast THEN 0 ELSE DupCount(u, ack),
                  !.due     = fast \/ (u.due /\ AckedPrefix(u.queue, ack) = 0),
                  !.quiet   = 0]

\* The fast retransmit looks at the head without a NULL test, and ends the
\* process with exit(0) when the head does not follow the repeated ACK.
NullHead(u, ack)  == DupCount(u, ack) >= DUP_ACKS /\ Unacked(u, ack) = << >>
WrongHead(u, ack) == /\ DupCount(u, ack) >= DUP_ACKS
                     /\ Unacked(u, ack) # << >>
                     /\ Head(Unacked(u, ack)) # ack + 1

\* wait_ack(timeout = 0): a new packet joins the queue.
WaitAck(u, seq) ==
    [u EXCEPT !.queue = Append(u.queue, seq), !.tail = seq, !.size = u.size + 1]

\* Faulty variant: a retransmission counts as a sign of life.
RestampResetsClock(u) == [u EXCEPT !.due = FALSE, !.quiet = 0]

\* get_timeout_seq and wait_ack(timeout = 1): the head gets a new time stamp;
\* the expiry of a time stamp nobody set back is one more RTO of silence.
Restamp(u) ==
    [u EXCEPT !.due   = FALSE,
              !.quiet = IF u.due \/ u.quiet = ABORT_COEFF THEN u.quiet ELSE u.quiet + 1]

-------------------------------------------------------------------------------
(* What every operation above keeps true of a slot.                          *)

\* The sent queue holds the packets base+1, base+2, ... in this order.
Run(queue, base) == \A i \in 1 .. Len(queue) : queue[i] = base + i

\* The packets of the stream acknowledged so far are 1 .. Acked(u).
Acked(u) == u.tail - Len(u.queue)

\* An open slot's queue is the run that ends at its tail, and size its length;
\* a free slot has no queue.
Window(u) ==
    /\ u.active => /\ u.size = Len(u.queue)
                   /\ Acked(u) \in Nat
                   /\ Run(u.queue, Acked(u))
    /\ ~u.active => u.queue = << >> /\ u.tail = 0 /\ ~u.due
================================================================================
