-------------------------------- MODULE Session --------------------------------
(***************************************************************************)
(* One uploader and the downloaders it serves, chunk after chunk: the      *)
(* upload tables of keep_track.c with all their slots, and the handlers    *)
(* that look a slot up by its peer's id and take the first that matches.   *)
(* Every downloader fetches its chunks from this uploader alone, the next  *)
(* one when the last is complete.                                          *)
(*                                                                         *)
(* Time: a retransmission timer may expire early, while packets are under  *)
(* way (the mishap "timer"), so copies of a chunk's packets can arrive     *)
(* after its end.  Nobody is given up, and no upload ages otherwise, while *)
(* a packet is under way between the two peers (cf. Transfer!Timely).      *)
(***************************************************************************)
EXTENDS CongestionControl, UploadStream, DownloadStream

CONSTANTS Downloaders,
          Wants,      \* how many chunks each of them fetches
          MaxConn,    \* upload slots (the -m option)
          Garbage,    \* what init_controller's malloc may leave in a window
          Mishaps,    \* between the uploader and each of them: the kinds of packets
                      \* the network may lose, "get", "data", "ack", and "timer" if
                      \* a packet may be resent while an answer is under way
          MaxMishaps  \* bound: how often that happens in a behaviour

ASSUME SessionAssumption == /\ Downloaders # {}
                            /\ Wants \in [Downloaders -> Nat \ {0}]
                            /\ MaxConn \in Nat \ {0}
                            /\ Garbage \subseteq Nat /\ Garbage # {}
                            /\ Mishaps \in [Downloaders -> SUBSET {"get", "data", "ack", "timer"}]
                            /\ MaxMishaps \in Nat

VARIABLES slots,    \* upload_id_map, upload_chunk_id_map and the tables beside them
          pc,       \* the uploader's place in its loop, or "exited"
          turn,     \* the slot send_data_packets has come to
          down,     \* each downloader's stream
          wanted,   \* the chunk it is fetching, or the one it gave up
          pure,     \* all it saved of that chunk was of that chunk
          up,       \* GETs and ACKs under way to the uploader, oldest first
          data,     \* DATA packets under way from it, oldest first
          mishaps   \* what has gone wrong so far

vars == <<slots, pc, turn, down, wanted, pure, up, data, mishaps>>

Get(c)       == [kind |-> "get", chunk |-> c]
Ack(seq)     == [kind |-> "ack", ack |-> seq]
Data(seq, c) == [seq |-> seq, chunk |-> c]

\* init_tracker and init_controller at the uploader; each downloader has handled
\* an IHAVE and its first GET is on its way.
Init == /\ \E w \in Garbage :
             slots = [i \in 1 .. MaxConn |->
                        [peer |-> CHOOSE d \in Downloaders : TRUE, chunk |-> 0,
                         u |-> FreeSlot, cc |-> [InitCwnd EXCEPT !.cwnd = w]]]
        /\ pc = "poll" /\ turn = 1
        /\ down = [d \in Downloaders |-> StartDownload]
        /\ wanted = [d \in Downloaders |-> 1]
        /\ pure = [d \in Downloaders |-> TRUE]
        /\ up = [d \in Downloaders |-> <<Get(1)>>]
        /\ data = [d \in Downloaders |-> << >>]
        /\ mishaps = 0

-------------------------------------------------------------------------------
(* The tables.                                                               *)

Lowest(S) == CHOOSE i \in S : \A j \in S : i <= j

\* get_upload_index_by_id finds the lowest of these.
Of(s, d)   == {i \in DOMAIN s : s[i].u.active /\ s[i].peer = d}
IndexOf(d) == Lowest(Of(slots, d))

\* Faulty variant of InitWindow: the window of the lowest slot in use, whoever's.
InitWindowOfAny(s, d) ==
    [s EXCEPT ![Lowest({i \in DOMAIN s : s[i].u.active})].cc = InitCwnd]

\* init_cwnd: the window of the peer's first slot.
InitWindow(s, d) == [s EXCEPT ![Lowest(Of(s, d))].cc = InitCwnd]

\* start_upload in the first free slot, if any, and init_cwnd.
StartSlot(s, d, c) ==
    LET free == {i \in DOMAIN s : ~s[i].u.active}
        i    == Lowest(free)
    IN  IF free = {} THEN s
        ELSE InitWindow([s EXCEPT ![i] = [peer |-> d, chunk |-> c,
                                          u |-> StartUpload(s[i].u), cc |-> s[i].cc]], d)

\* abort_upload.
AbortSlot(s, d) == [s EXCEPT ![Lowest(Of(s, d))].u = AbortUpload(@)]

\* Faulty variant of AckSlot: the ACK of the last packet does not close the slot.
AckSlotStaysOpen(s, d, ack) ==
    IF Of(s, d) = {} THEN s
    ELSE LET i == Lowest(Of(s, d))
         IN  [s EXCEPT ![i].u = ReceiveAck(s[i].u, ack),
                       ![i].cc = WindowControl(s[i].cc, AckedPrefix(s[i].u.queue, ack))]

\* receive_ack, window_control, and abort_upload on the ACK of the last packet.
AckSlot(s, d, ack) ==
    IF Of(s, d) = {} THEN s
    ELSE LET i == Lowest(Of(s, d))
             t == [s EXCEPT ![i].u = ReceiveAck(s[i].u, ack),
                            ![i].cc = WindowControl(s[i].cc, AckedPrefix(s[i].u.queue, ack))]
         IN  IF ack = N THEN AbortSlot(t, d) ELSE t

\* receive_ack ends the process, through exit(0) or a NULL head.
Fatal(s, d, ack) == /\ Of(s, d) # {}
                    /\ LET u == s[Lowest(Of(s, d))].u IN NullHead(u, ack) \/ WrongHead(u, ack)

\* One more RTO without an ACK has passed for the slots in S.
Aged(s, S) == [i \in DOMAIN s |->
                 IF i \in S /\ s[i].u.quiet < ABORT_COEFF
                 THEN [s[i] EXCEPT !.u.quiet = @ + 1] ELSE s[i]]

\* The peer's other slots, which no ACK reaches.
Others(s, d) == Of(s, d) \ {Lowest(Of(s, d))}

-------------------------------------------------------------------------------
(* The network.                                                              *)

Silence(d) == up[d] = << >> /\ data[d] = << >>

\* Links keep the order of packets; a lost one is gone when it would arrive.
Mishap(kind, d) == kind \in Mishaps[d] /\ mishaps < MaxMishaps /\ mishaps' = mishaps + 1

LoseUp(d)   == /\ up[d] # << >> /\ Mishap(Head(up[d]).kind, d)
               /\ up' = [up EXCEPT ![d] = Tail(@)]
               /\ UNCHANGED <<slots, pc, turn, down, wanted, pure, data>>
LoseData(d) == /\ data[d] # << >> /\ Mishap("data", d)
               /\ data' = [data EXCEPT ![d] = Tail(@)]
               /\ UNCHANGED <<slots, pc, turn, down, wanted, pure, up>>

-------------------------------------------------------------------------------
(* The uploader.                                                             *)

\* The GET handler.
ReceiveGet(d) ==
    /\ pc = "poll" /\ up[d] # << >> /\ Head(up[d]).kind = "get"
    /\ slots' = StartSlot(slots, d, Head(up[d]).chunk)
    /\ up' = [up EXCEPT ![d] = Tail(@)]
    /\ pc' = "send"
    /\ UNCHANGED <<turn, down, wanted, pure, data, mishaps>>

\* The ACK handler.
ReceiveAckOf(d) ==
    /\ pc = "poll" /\ up[d] # << >> /\ Head(up[d]).kind = "ack"
    /\ LET ack == Head(up[d]).ack IN
         IF Fatal(slots, d, ack) THEN pc' = "exited" /\ UNCHANGED slots
         ELSE pc' = "send" /\ slots' = AckSlot(slots, d, ack)
    /\ up' = [up EXCEPT ![d] = Tail(@)]
    /\ UNCHANGED <<turn, down, wanted, pure, data, mishaps>>

PollNothing == /\ pc = "poll" /\ pc' = "send"
               /\ UNCHANGED <<slots, turn, down, wanted, pure, up, data, mishaps>>

\* send_data_packets goes on to the next slot in use, or has come to the end.
NextTurn == IF turn < MaxConn THEN turn' = turn + 1 /\ pc' = "send"
                              ELSE turn' = 1 /\ pc' = "clean"

SkipFree == /\ pc = "send" /\ ~slots[turn].u.active
            /\ NextTurn
            /\ UNCHANGED <<slots, down, wanted, pure, up, data, mishaps>>

\* Faulty variant of Content: the list of chunks counts free slots too, the list
\* of peers does not.
ContentShifted(t) ==
    slots[1 + Len(SelectSeq([i \in 1 .. t - 1 |-> i], LAMBDA i : slots[i].u.active))].chunk

\* The chunk whose bytes go out in this turn: upload_chunk_id_list, entry by entry
\* beside upload_id_list; but queue, timer and window are the first slot's.
Content(t) == slots[t].chunk

\* The timer of the head, in this turn: get_timeout_seq, wait_ack, window_timeout.
Resend(d) ==
    /\ pc = "send" /\ slots[turn].u.active /\ slots[turn].peer = d
    /\ slots[IndexOf(d)].u.queue # << >>
    /\ LET i == IndexOf(d) IN
         /\ data' = [data EXCEPT ![d] = Append(@, Data(Head(slots[i].u.queue), Content(turn)))]
         /\ slots' = [(IF slots[i].u.due THEN slots ELSE Aged(slots, Others(slots, d)))
                        EXCEPT ![i].u = Restamp(@), ![i].cc = WindowTimeout(@)]
    /\ NextTurn
    /\ UNCHANGED <<down, wanted, pure, up>>

\* It was set back by a fast retransmit, or nothing is under way.
Retransmit(d) ==
    /\ Resend(d)
    /\ LET u == slots[IndexOf(d)].u IN u.due \/ (Silence(d) /\ u.quiet < ABORT_COEFF)
    /\ UNCHANGED mishaps

\* It expires although a packet or its ACK is under way.
EarlyRetransmit(d) ==
    /\ Resend(d)
    /\ LET u == slots[IndexOf(d)].u IN ~u.due /\ ~Silence(d) /\ u.quiet < ABORT_COEFF
    /\ Mishap("timer", d)

RoomToSend(d) == LET s == slots[IndexOf(d)] IN s.u.size < s.cc.cwnd /\ s.u.tail < N

SendNew(d) ==
    /\ pc = "send" /\ slots[turn].u.active /\ slots[turn].peer = d
    /\ ~slots[IndexOf(d)].u.due /\ RoomToSend(d)
    /\ LET i   == IndexOf(d)
           seq == slots[i].u.tail + 1
       IN  /\ data' = [data EXCEPT ![d] = Append(@, Data(seq, Content(turn)))]
           /\ slots' = [slots EXCEPT ![i].u = WaitAck(@, seq)]
    /\ NextTurn
    /\ UNCHANGED <<down, wanted, pure, up, mishaps>>

\* An upload that has sent nothing and has no room to send has no timer, but
\* upload_last_time grows old all the same.
SendNothing(d) ==
    /\ pc = "send" /\ slots[turn].u.active /\ slots[turn].peer = d
    /\ ~slots[IndexOf(d)].u.due /\ ~RoomToSend(d)
    /\ slots' = IF slots[IndexOf(d)].u.queue = << >> /\ Silence(d)
                THEN Aged(slots, Of(slots, d)) ELSE slots
    /\ NextTurn
    /\ UNCHANGED <<down, wanted, pure, up, data, mishaps>>

\* Faulty variant of Dead: an upload is closed at the first silent RTO.
DeadAtOnce(i) == slots[i].u.active /\ Silence(slots[i].peer)

\* clean_upload_timeout finds slot i silent, but closes its peer's first slot.
Dead(i) == LET d == slots[i].peer IN
           slots[i].u.active /\ Silence(d) /\ slots[i].u.quiet >= ABORT_COEFF - 1
UploadTimeout(i) ==
    /\ pc = "clean" /\ Dead(i) /\ \A j \in 1 .. i - 1 : ~Dead(j)
    /\ slots' = AbortSlot(slots, slots[i].peer)
    /\ pc' = "poll"
    /\ UNCHANGED <<turn, down, wanted, pure, up, data, mishaps>>

KeepUploads == /\ pc = "clean" /\ pc' = "poll"
               /\ UNCHANGED <<slots, turn, down, wanted, pure, up, data, mishaps>>

-------------------------------------------------------------------------------
(* The downloaders.                                                          *)

IgnoreData(d) ==
    /\ data[d] # << >> /\ ~down[d].stream
    /\ data' = [data EXCEPT ![d] = Tail(@)]
    /\ UNCHANGED <<slots, pc, turn, down, wanted, pure, up, mishaps>>

\* The stream after DATA packet p; a chunk with other bytes in it does not verify.
Received(d, p) ==
    LET next == DataStream(down[d], p.seq)
    IN  IF next.chunk = "OWNED" /\ ~(pure[d] /\ p.chunk = wanted[d])
        THEN [next EXCEPT !.chunk = "NOT_STARTED"] ELSE next

\* Faulty variant of Fetches: one chunk too many.
FetchesOneMore(d, c) == c <= Wants[d] + 1

\* pick_a_new_chunk finds chunk c.
Fetches(d, c) == c <= Wants[d]

\* The DATA handler: ACK, save, and with the chunk filled the next GET: for the
\* same chunk if it did not verify.
ReceiveData(d) ==
    /\ data[d] # << >> /\ down[d].stream
    /\ data' = [data EXCEPT ![d] = Tail(@)]
    /\ LET p     == Head(data[d])
           next  == Received(d, p)
           saved == next.saved # down[d].saved
           c     == IF next.chunk = "OWNED" THEN wanted[d] + 1 ELSE wanted[d]
           more  == ~next.stream /\ Fetches(d, c)
           acked == Ack(TrackDataPacket(down[d], p.seq).last)
           asked == IF more THEN <<Get(c)>> ELSE << >>
       IN  /\ down' = [down EXCEPT ![d] = IF more THEN StartDownload ELSE next]
           /\ wanted' = [wanted EXCEPT ![d] = IF more THEN c ELSE @]
           /\ pure' = [pure EXCEPT ![d] = more \/ (@ /\ (saved => p.chunk = wanted[d]))]
           /\ up' = [up EXCEPT ![d] = Append(@, acked) \o asked]
    /\ UNCHANGED <<slots, pc, turn, mishaps>>

\* clean_download_timeout and download_peer_crash: the uploader has stopped, the
\* chunk is given up, the connection deleted, and there is nobody else to ask.
DownloadTimeout(d) ==
    /\ down[d].stream /\ Silence(d)
    /\ Of(slots, d) = {} \/ pc = "exited"
    /\ down' = [down EXCEPT ![d] = CrashDownload(@)]
    /\ UNCHANGED <<slots, pc, turn, wanted, pure, up, data, mishaps>>

-------------------------------------------------------------------------------
Next == \/ PollNothing \/ SkipFree \/ KeepUploads
        \/ \E i \in 1 .. MaxConn : UploadTimeout(i)
        \/ \E d \in Downloaders :
             \/ ReceiveGet(d) \/ ReceiveAckOf(d)
             \/ Retransmit(d) \/ EarlyRetransmit(d) \/ SendNew(d) \/ SendNothing(d)
             \/ IgnoreData(d) \/ ReceiveData(d) \/ DownloadTimeout(d)
             \/ LoseUp(d) \/ LoseData(d)

Spec == Init /\ [][Next]_vars

\* As in Transfer: the loop never blocks, packets are read and expired timers
\* seen by some later iteration.
FairSpec ==
    /\ Spec
    /\ WF_vars(PollNothing \/ SkipFree \/ KeepUploads
               \/ \E d \in Downloaders : SendNew(d) \/ SendNothing(d))
    /\ \A i \in 1 .. MaxConn : SF_vars(UploadTimeout(i))
    /\ \A d \in Downloaders :
         /\ SF_vars(ReceiveGet(d) \/ ReceiveAckOf(d))
         /\ SF_vars(Retransmit(d)) /\ SF_vars(SendNew(d))
         /\ WF_vars(IgnoreData(d) \/ ReceiveData(d)) /\ WF_vars(DownloadTimeout(d))

-------------------------------------------------------------------------------
(* Properties.                                                               *)

\* The values the uploader's tables and the downloaders' streams may hold.
TypeOK == /\ slots \in [1 .. MaxConn -> [peer : Downloaders, chunk : Nat, u : Slots,
                                         cc : [policy : Policies, cwnd : Nat,
                                               max : Windows, acks : Nat]]]
          /\ pc \in {"poll", "send", "clean", "exited"} /\ turn \in 1 .. MaxConn
          /\ down \in [Downloaders -> Streams] /\ wanted \in [Downloaders -> Nat]
          /\ \A d \in Downloaders : wanted[d] \in 1 .. Wants[d]
          /\ pure \in [Downloaders -> BOOLEAN]
          /\ up \in [Downloaders -> Seq([kind : {"get"}, chunk : Nat] \union [kind : {"ack"}, ack : {0} \union Packets])]
          /\ data \in [Downloaders -> Seq([seq : Packets, chunk : Nat])]
          /\ mishaps \in 0 .. MaxMishaps

\* Every upload slot in use is the one its peer's packets find, and its window has
\* been initialised: start_upload (keep_track.c:200) looks neither for an older
\* upload to the peer nor at the window, init_cwnd (congestion_control.c:67) sets
\* the window of the peer's first slot, so this rests on the order of the last
\* ACK and the next GET.
OneSlotPerPeer ==
    \A i \in DOMAIN slots : slots[i].u.active => /\ Of(slots, slots[i].peer) = {i}
                                                 /\ slots[i].cc.cwnd > 0

\* The bytes of two chunks, or of two downloaders, are never mixed: what a
\* downloader saves is of the chunk it is fetching, whatever is still under way
\* of the one before (send_data_packets, network.c:302, peer.c:175).
ChunksNotMixed == \A d \in Downloaders : pure[d]

\* The exits of receive_ack (keep_track.c:315-319) are not taken by ACKs of one
\* chunk that reach the upload of the next, either.
UploaderSurvives == pc # "exited"

\* An upload that the ACK of its last packet has closed was of a chunk its
\* downloader has whole and verified, or of one whose buffer a packet saved twice
\* has spoilt: an uploader never takes the ACKs of one chunk, or of an earlier
\* upload in the same slot, for those of another (receive_ack, keep_track.c:326,
\* and abort_upload in the ACK handler, peer.c:208).
CompletedUploads ==
    \A i \in DOMAIN slots : LET d == slots[i].peer IN
      ~slots[i].u.active /\ slots[i].u.lastAck = N =>
        \/ slots[i].chunk < wanted[d]
        \/ slots[i].chunk = wanted[d] /\ (down[d].chunk = "OWNED" \/ down[d].overrun)

\* A downloader whose GETs arrive is never left waiting for an uploader that has
\* forgotten it: until its chunk is complete, or its buffer spoilt, a GET is under
\* way or an upload to it is open, as long as fewer packets are lost than it takes
\* to make the uploader give up (clean_upload_timeout, keep_track.c).
StaysServed ==
    \A d \in Downloaders :
      "get" \notin Mishaps[d] /\ down[d].stream /\ ~down[d].overrun =>
        (\E g \in DOMAIN up[d] : up[d][g].kind = "get") \/ Of(slots, d) # {}

\* The uploader and its downloaders keep the promise of SerialDelivery, over links
\* that lose packets.
Upload(s) == [open |-> s.u.active, to |-> s.peer, chunk |-> s.chunk, acked |-> s.u.lastAck]
Serial == INSTANCE SerialDelivery WITH
            Slots <- 1 .. MaxConn,
            chunk <- wanted,
            got <- [d \in Downloaders |-> down[d].last],
            uploads <- [i \in 1 .. MaxConn |-> Upload(slots[i])]
ImplementsSerial == Serial!Spec

\* Chunk after chunk, a downloader whose GETs arrive gets all it wants, unless a
\* packet saved twice has spoilt a buffer (src/peer.c:150).
SerialDownload ==
    \A d \in {x \in Downloaders : "get" \notin Mishaps[x]} :
        <>(\/ wanted[d] = Wants[d] /\ down[d].chunk = "OWNED"
           \/ down[d].overrun)
================================================================================
