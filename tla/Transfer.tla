------------------------------- MODULE Transfer -------------------------------
(***************************************************************************)
(* The transfer of one chunk between two peers: the uploader's main loop   *)
(* (process_inbound_udp, send_data_packets, clean_upload_timeout), the     *)
(* downloader's DATA handler and crash timeout, and the network between.   *)
(*                                                                         *)
(* The downloader has handled an IHAVE: its stream is open and its GET is  *)
(* on its way.  `pc' is the place of the uploader in an iteration of its   *)
(* loop: "poll" (select, then at most one packet), "send", "clean".        *)
(***************************************************************************)
EXTENDS CongestionControl, UploadStream, DownloadStream

CONSTANTS Cap,         \* packets a link queues before it drops (drop-tail)
          Mishaps,     \* what the network may do: lose a "get", "data" or "ack",
                       \* or break the "order" of the packets of a link
          MaxMishaps,  \* bound: how often it does so in a behaviour
          Timely       \* TRUE: timers are long compared with the round trip,
                       \* so none expires while an answer is under way

ASSUME NetworkAssumption == /\ Cap \in Nat \ {0}
                            /\ Mishaps \subseteq {"get", "data", "ack", "order"}
                            /\ MaxMishaps \in Nat
                            /\ Timely \in BOOLEAN

VARIABLES up,     \* the uploader's slot
          cc,     \* and its congestion controller
          down,   \* the downloader's stream and chunk
          get,    \* the GET packet: "sent", "lost" or "accepted"
          data,   \* DATA packets under way, oldest first
          acks,   \* ACK packets under way, oldest first
          mishaps, \* what the network has done so far
          pc,     \* the uploader's place in its loop, or "exited"
          fault   \* how the uploader's process died: "none" while it runs

vars == <<up, cc, down, get, data, acks, mishaps, pc, fault>>

Init == /\ up = FreeSlot
        /\ cc = InitCwnd
        /\ down = StartDownload
        /\ get = "sent"
        /\ data = << >> /\ acks = << >>
        /\ mishaps = 0
        /\ pc = "poll"
        /\ fault = "none"

-------------------------------------------------------------------------------
(* The network.                                                              *)

Mishap(kind) == /\ kind \in Mishaps
                /\ mishaps < MaxMishaps
                /\ mishaps' = mishaps + 1

\* after is what a channel holds when packet p has been sent on it: p joins the
\* queue, is lost, or meets a full queue.
Sent(kind, before, after, p) ==
    \/ Len(before) < Cap /\ after = Append(before, p) /\ UNCHANGED mishaps
    \/ Len(before) = Cap /\ after = before /\ UNCHANGED mishaps
    \/ after = before /\ Mishap(kind)

LoseGet == /\ get = "sent"
           /\ Mishap("get")
           /\ get' = "lost"
           /\ UNCHANGED <<up, cc, down, data, acks, pc, fault>>

\* s with its ith packet moved to the jth place: delayed, or ahead of its turn.
Moved(s, i, j) ==
    [k \in 1 .. Len(s) |-> CASE k = j -> s[i]
                             [] i <= k /\ k < j -> s[k + 1]
                             [] j < k /\ k <= i -> s[k - 1]
                             [] OTHER -> s[k]]

ReorderData == /\ Mishap("order")
               /\ \E i, j \in 1 .. Len(data) : i # j /\ data' = Moved(data, i, j)
               /\ UNCHANGED <<up, cc, down, get, acks, pc, fault>>
ReorderAcks == /\ Mishap("order")
               /\ \E i, j \in 1 .. Len(acks) : i # j /\ acks' = Moved(acks, i, j)
               /\ UNCHANGED <<up, cc, down, get, data, pc, fault>>

\* Nothing is under way, so no answer can come: a timer that runs will expire.
Silence == data = << >> /\ acks = << >>

-------------------------------------------------------------------------------
(* The uploader: one packet per iteration of the loop.                       *)

\* The GET handler: find_chunk succeeds and a slot is free.
ReceiveGet == /\ pc = "poll" /\ get = "sent"
              /\ get' = "accepted"
              /\ up' = StartUpload(up)
              /\ cc' = InitCwnd
              /\ pc' = "send"
              /\ UNCHANGED <<down, data, acks, mishaps, fault>>

\* The ACK handler, when no slot carries the peer's id.
IgnoreAck == /\ pc = "poll" /\ acks # << >> /\ ~up.active
             /\ acks' = Tail(acks)
             /\ pc' = "send"
             /\ UNCHANGED <<up, cc, down, get, data, mishaps, fault>>

\* Faulty variant: the ACK of the last packet does not free the slot.
AckedSlotStaysOpen(u, ack) == ReceiveAck(u, ack)

\* The ACK handler: receive_ack, window_control, and abort_upload on the ACK
\* of the last packet.
AckedSlot(u, ack) == IF ack = N THEN AbortUpload(ReceiveAck(u, ack)) ELSE ReceiveAck(u, ack)
ReceiveAckPacket ==
    /\ pc = "poll" /\ acks # << >> /\ up.active
    /\ LET ack == Head(acks) IN
         /\ ~NullHead(up, ack) /\ ~WrongHead(up, ack)
         /\ up' = AckedSlot(up, ack)
         /\ cc' = WindowControl(cc, AckedPrefix(up.queue, ack))
    /\ acks' = Tail(acks)
    /\ pc' = "send"
    /\ UNCHANGED <<down, get, data, mishaps, fault>>

\* receive_ack ends the process: through exit(0), or through the NULL head.
DieOnAck ==
    /\ pc = "poll" /\ acks # << >> /\ up.active
    /\ LET ack == Head(acks) IN
         /\ NullHead(up, ack) \/ WrongHead(up, ack)
         /\ fault' = IF NullHead(up, ack) THEN "null_head" ELSE "error_exit"
    /\ acks' = Tail(acks)
    /\ pc' = "exited"
    /\ UNCHANGED <<up, cc, down, get, data, mishaps>>

\* select returns without a packet from the downloader.
PollNothing == /\ pc = "poll"
               /\ pc' = "send"
               /\ UNCHANGED <<up, cc, down, get, data, acks, mishaps, fault>>

\* get_timeout_seq: the head's time stamp is one RTO old.  It is when set back,
\* and otherwise may be; a timely one is not while an answer is under way, nor
\* for a fifth time without an ACK, which clean_upload_timeout comes before.
HeadExpires == /\ up.active /\ up.queue # << >>
               /\ up.due \/ ~Timely \/ (Silence /\ up.quiet < ABORT_COEFF)

\* send_data_packets, head timed out: the window collapses, the head is resent.
Retransmit == /\ pc = "send" /\ HeadExpires
              /\ Sent("data", data, data', Head(up.queue))
              /\ up' = Restamp(up)
              /\ cc' = WindowTimeout(cc)
              /\ pc' = "clean"
              /\ UNCHANGED <<down, get, acks, fault>>

\* send_data_packets, no timeout: one new packet if the window has room.
RoomToSend == up.active /\ up.size < cc.cwnd /\ up.tail < N
SendNew == /\ pc = "send" /\ ~up.due /\ RoomToSend
           /\ Sent("data", data, data', up.tail + 1)
           /\ up' = WaitAck(up, up.tail + 1)
           /\ pc' = "clean"
           /\ UNCHANGED <<cc, down, get, acks, fault>>

SendNothing == /\ pc = "send" /\ ~up.due /\ ~RoomToSend
               /\ pc' = "clean"
               /\ UNCHANGED <<up, cc, down, get, data, acks, mishaps, fault>>

\* clean_upload_timeout: no ACK for more than ABORT_COEFF RTO periods.
UploadTimeout == /\ pc = "clean" /\ up.active
                 /\ ~Timely \/ (Silence /\ up.quiet >= ABORT_COEFF - 1)
                 /\ up' = AbortUpload(up)
                 /\ pc' = "poll"
                 /\ UNCHANGED <<cc, down, get, data, acks, mishaps, fault>>

KeepUpload == /\ pc = "clean"
              /\ pc' = "poll"
              /\ UNCHANGED <<up, cc, down, get, data, acks, mishaps, fault>>

-------------------------------------------------------------------------------
(* The downloader.                                                           *)

\* The DATA handler, when the peer has no download stream: no answer at all.
IgnoreData == /\ data # << >> /\ ~down.stream
              /\ data' = Tail(data)
              /\ UNCHANGED <<up, cc, down, get, acks, mishaps, pc, fault>>

\* The DATA handler: ACK the last continuous packet, save, and if the chunk was
\* filled with the wrong bytes pick it again from the same peer with a new GET.
ReceiveData ==
    /\ data # << >> /\ down.stream
    /\ data' = Tail(data)
    /\ LET seq  == Head(data)
           next == DataStream(down, seq)
       IN  /\ Sent("ack", acks, acks', TrackDataPacket(down, seq).last)
           /\ down' = IF next.chunk = "NOT_STARTED" THEN StartDownload ELSE next
           /\ get'  = IF next.chunk = "NOT_STARTED" THEN "sent" ELSE get
    /\ UNCHANGED <<up, cc, pc, fault>>

\* clean_download_timeout: no DATA for ABORT_COEFF of the downloader's own RTO
\* periods.  Timely: the uploader has long stopped sending.
DownloadTimeout == /\ down.stream
                   /\ ~Timely \/ (Silence /\ get # "sent" /\ (~up.active \/ pc = "exited"))
                   /\ down' = CrashDownload(down)
                   /\ UNCHANGED <<up, cc, get, data, acks, mishaps, pc, fault>>

-------------------------------------------------------------------------------
Uploader   == \/ ReceiveGet \/ IgnoreAck \/ ReceiveAckPacket \/ DieOnAck \/ PollNothing
              \/ Retransmit \/ SendNew \/ SendNothing
              \/ UploadTimeout \/ KeepUpload
Downloader == IgnoreData \/ ReceiveData \/ DownloadTimeout
Network    == LoseGet \/ ReorderData \/ ReorderAcks

Next == Uploader \/ Downloader \/ Network

Spec == Init /\ [][Next]_vars

\* The loops never block (select waits 5 ms at most); a packet in the socket's
\* buffer is read at some later poll; an expired timer is seen by some later
\* iteration.
Fairness == /\ WF_vars(PollNothing \/ SendNew \/ SendNothing \/ KeepUpload)
            /\ SF_vars(ReceiveGet) /\ SF_vars(IgnoreAck) /\ SF_vars(ReceiveAckPacket)
            /\ SF_vars(Retransmit) /\ SF_vars(SendNew) /\ SF_vars(UploadTimeout)
            /\ WF_vars(IgnoreData \/ ReceiveData) /\ WF_vars(DownloadTimeout)

FairSpec == Spec /\ Fairness

-------------------------------------------------------------------------------
(* Properties.                                                               *)

\* The values every variable of the two peers and of the network may take.
TypeOK == /\ up \in Slots
          /\ cc \in Controller
          /\ down \in Streams
          /\ get \in {"sent", "lost", "accepted"}
          /\ data \in PacketQueues /\ acks \in Seq(SeqNumbers)
          /\ mishaps \in 0 .. MaxMishaps
          /\ pc \in {"poll", "send", "clean", "exited"}
          /\ fault \in {"none", "null_head", "error_exit"}

\* The sent queue and the counters kept beside it agree: the queue is the run of
\* consecutive packets ending at sent_queue_tail, and sent_queue_size its length.
\* send_data_packets relies on it to choose the next packet and to respect the
\* window (keep_track.c: start_upload, abort_upload, wait_ack, receive_ack).
WindowIsARun == Window(up)

\* The uploader never takes a packet for received, and drops it from its queue,
\* that the downloader has not received in order, and the downloader never
\* receives one that was not sent: whatever is lost, resent or overtaken.
AckedWasReceived == /\ up.lastAck <= down.last
                    /\ up.active => Acked(up) <= down.last /\ down.last <= up.tail

\* Once send_data_packets has run, an open upload waits for something: its queue
\* has a head, whose timer brings the stream back to life if nothing else does.
NeverIdle == (up.active /\ pc # "send") => up.queue # << >>

\* receive_ack's fast retransmit finds the packet the duplicates ask for at the
\* head of the queue: the branch that prints ERROR and exits is never taken, nor
\* is a NULL head read, over links that keep the order of packets.
FastRetransmitFindsHead == fault = "none"

\* A filled chunk verifies: the downloader never has to ask the same uploader
\* for the same chunk again, because it saves packets only in order.
NeverRefetched == [][get # "sent" => get' # "sent"]_vars

\* The inductive invariants the theorems of TransferProofs rest on.  Whatever the
\* network does: nothing moves before the GET is accepted, ACKs under way are of
\* packets received, DATA under way has been sent, an open upload is unfinished.
Unopened   == get # "accepted" => /\ ~up.active /\ up.lastAck = 0 /\ down.last = 0
                                  /\ data = << >> /\ acks = << >>
InTransit  == /\ \A i \in 1 .. Len(acks) : acks[i] <= down.last
              /\ up.active => \A i \in 1 .. Len(data) : data[i] <= up.tail
Unfinished == up.active => Acked(up) < N
SafeInv    == /\ TypeOK /\ WindowIsARun /\ Buffer(down) /\ Unopened /\ InTransit
              /\ AckedWasReceived /\ Unfinished /\ NeverIdle

\* When links keep the order of packets, ACKs arrive in ascending order and the
\* last one the uploader has seen is the one that bounds its queue.
InOrder == "order" \notin Mishaps
AckOrder == /\ \A i, j \in 1 .. Len(acks) : i <= j => acks[i] <= acks[j]
            /\ \A i \in 1 .. Len(acks) : up.lastAck <= acks[i]
            /\ up.active => up.lastAck = Acked(up)
OrderInv == FastRetransmitFindsHead /\ AckOrder
FifoInv  == SafeInv /\ OrderInv

\* The transfer implements the delivery of a chunk in order with a sender that
\* knows no more than the receiver has.
Delivery == INSTANCE ChunkDelivery WITH
    delivered <- down.last,
    acked     <- up.lastAck,
    session   <- IF get # "accepted" THEN "none"
                 ELSE IF up.active THEN "open"
                 ELSE IF up.lastAck = N THEN "done" ELSE "abandoned"
ImplementsDelivery == Delivery!Spec

\* Every upload ends, by the last ACK or by the timeout: its slot is freed.
UploadEnds == up.active ~> ~up.active

\* Every download stream ends, whatever was lost.
DownloadEnds == <>[](~down.stream)

\* A stream the uploader has opened delivers every packet, as long as fewer
\* packets are lost than the uploader makes attempts in ABORT_COEFF RTO periods.
EveryPacketArrives == (get = "accepted") ~> (down.last = N)

\* A chunk whose GET was accepted is filled, verified and owned, unless its buffer
\* has been overrun: save_chunk's test for exactly BT_CHUNK_SIZE bytes
\* (util.c:307) is met in time, and the stream does not end before.
ChunkIsOwned == (get = "accepted") ~> (down.chunk = "OWNED" \/ down.overrun)

\* save_data_packet copies past the end of the buffer (util.c:275) only when a
\* packet is saved again or one has been before: the packets of a chunk, the
\* short last one included (network.c:300), fill it exactly.
OverrunNeedsRepeat ==
    [][down'.overrun /\ ~down.overrun
       => down'.last = down.last \/ Len(down.saved) > down.last]_vars

\* peer.c:149, "ignore historical packets": a packet already counted into the
\* last continuous seq is not saved again.
IgnoresHistorical == [][down'.saved # down.saved /\ down'.stream => down'.last > down.last]_vars

\* congestion_control.c:31, "current wnd reachs half of max, linear increase":
\* above half of the maximum the window grows only after a full window of ACKs.
LinearAboveHalf ==
    [][(cc.policy = "congestion_avoidance" /\ cc'.policy = cc.policy /\ cc.cwnd > cc.max \div 2
        /\ cc'.cwnd > cc.cwnd)
       => cc.acks + (Len(up.queue) - Len(up'.queue)) >= cc.cwnd]_vars
================================================================================
