# A BitTorrent-like peer with congestion control: TLA+ models, checks and proofs

The program is one single-threaded C process per peer (`peer.c`). Peers ask each other for
chunks of a file over UDP: WHOHAS (who has these hashes?), IHAVE (the ones I have), GET (send
me this one), then DATA and ACK packets under a congestion window. Packets travel through a
simulated network (`spiffy.c`, `hupsim.pl`) whose links are first-in first-out queues that drop
what does not fit.

This directory models the four things that make the program hard: the **transfer** of one chunk
(a window of packets, cumulative ACKs, timers, losses), the **session** of an uploader that
serves chunk after chunk from slots looked up by peer id, the **downloads** of one peer (which
chunk is asked of whom, while peers finish, answer late and vanish), and **discovery** (from a
line the user types to the GET that reaches the right peer). Every safety property and the three
refinements that the runs check on small instances are also proved, for every value of the
constants under the hypotheses that the theorems name; liveness is model-checked.

## The system

| component | state it keeps | operations | correct when |
|---|---|---|---|
| upload streams (`keep_track.c`, `network.c`) | per slot: peer, chunk, sent queue with head, tail and size, last ACK, duplicate count, time stamps | `start_upload`, `wait_ack`, `get_timeout_seq`, `receive_ack`, `abort_upload`, `clean_upload_timeout` | queue and counters agree; nothing is taken for received that was not; every slot is freed; the process survives |
| download streams (`keep_track.c`, `util.c`) | per slot: peer, hash, last packet in order; per chunk: state, buffer, bytes received | `start_download`, `track_data_packet`, `save_data_packet`, `save_chunk`, `abort_download`, `clean_download_timeout` | bytes are saved once and in order; a filled chunk verifies; every stream ends |
| congestion control (`congestion_control.c`) | per slot: policy, window, largest window, ACK count | `init_cwnd`, `window_control`, `window_timeout` | window bounds what is outstanding; growth as documented |
| requests and connections (`peer.c`, `util.c`) | current request and its chunks' states, linked list of connections with chunk tables and WORKING/NOT_WORKING | `process_get`, IHAVE and DATA handlers, `download_peer_crash_wrapper`, `all_chunk_finished` | streams, chunk states and peer states agree; no useful peer stands idle; every request ends |
| GET and upload admission (`peer.c`, `keep_track.c`) | the upload tables' slots by peer id | `start_upload`, `init_cwnd`, `get_upload_index_by_id` | a peer has one slot, the one its packets find; chunks are not mixed; a serial download completes |
| WHOHAS/IHAVE packets (`network.c`) | none | `make_packet`, `whohas_flooding` | every provider is heard with every wanted hash; the loop over the chunks ends |
| output file (`file.c`) | the file | `create_file`, `write_file` | a saved chunk stays saved |
| user input (`input_buffer.c`) | a byte buffer | `process_user_input` | lines come out as they went in |
| chunk files, hashes (`util.c`, `chunk.c`, `sha.c`, `make_chunks.c`) | `has_chunk_table`, `total_chunk_table` | parsing, `find_chunk`, `get_chunk_id`, `update_ihave_table`, SHA-1 | what is sent is the chunk asked for, whatever id a file gives it |
| network (`spiffy.c`, `hupsim.pl`) | a queue per link | `enQ`, `recv`, `spiffy_recvfrom` | packets keep their order; a sender can be told by the address reported |
| configuration (`bt_parse.c`) | list of peers | `bt_parse_peer_list`, `bt_peer_id` | a packet is booked for the peer that sent it |
| logging (`window_log.c`, `debug.c`) | | | |

The components meet in one loop (`peer.c:307-338`), which never blocks for more than 5 ms: at
most one packet is handled, then the user's line, then `send_data_packets` sends at most one
packet per upload, then one upload and one download at most are found to have timed out, then a
finished request is freed. Nothing in a process runs concurrently with anything else; what
interleaves are the two ends of a transfer, the network, and the timers. State shared between
handlers is global: the slots of `keep_track.c` are looked up by peer id, and the first slot
with that id wins.

The hard behaviours are therefore: packets and ACKs lost, late, resent or overtaken; a timer
that expires just before the answer; a stream that ends at one side only; a peer that vanishes
while others are being asked; tables that several handlers update in different orders.
`PROJECT.json` lists them with their lines under `hazards`.

## Modules

| module | models |
|---|---|
| `ChunkLayout` | how a chunk is cut into N packets, the last one shorter |
| `CongestionControl` | `congestion_control.c`: one operator per function, on the row of a slot |
| `UploadStream` | the upload half of `keep_track.c`: one operator per function, on one slot |
| `DownloadStream` | the download half of `keep_track.c` and the chunk buffer of `util.c` |
| `Transfer` | composes the four above: the uploader's loop, the downloader's DATA handler and timeout, the links |
| `ChunkDelivery` | what a transfer promises: in-order delivery, a sender that knows no more than the truth |
| `Session` | composes the same four modules with all the upload slots: one uploader, several downloaders, consecutive chunks |
| `SerialDelivery` | what a session promises: each downloader's chunks one after the other, at most one upload open to it, an upload known to be complete only when its chunk is |
| `Download` | one peer's requests, connections and download slots, the answers of the others |
| `ChunkRequest` | what the downloads of a request promise: each chunk fetched from one peer at a time, each peer asked for one chunk at a time, nothing owned fetched again, no end before the last chunk |
| `InputBuffer` | `input_buffer.c`: reads, the shift after each line, and what a buffer of lines promises |
| `ChunkTables` | the chunk tables of `util.c` and the WHOHAS and IHAVE packets `network.c` makes of them |
| `Discovery` | composes the last two: user, flood, answers, GETs, ids and addresses |
| `MCTransfer`, `MCSession`, `MCDownload`, `MCDiscovery` | constants for TLC |
| `StreamProofs`, `TransferProofs`, `DeliveryProofs` | proofs about the operators on a stream, about `Transfer`, and that it implements `ChunkDelivery` |
| `SessionProofs` | proofs about `Session` |
| `DownloadProofs`, `RequestProofs` | proofs about `Download`, and that it implements `ChunkRequest` |
| `InputProofs`, `DiscoveryProofs` | proofs about the input buffer's loop, and about `Discovery` |

### Transfer

`up`, `cc` and `down` are the uploader's slot, its congestion controller and the downloader's
stream; `data` and `acks` are the links; `get` is the GET packet. `pc` is the uploader's place
in its loop: "poll" (`select` and `process_inbound_udp`), "send" (`send_data_packets`), "clean"
(`clean_upload_timeout`). Every action is one such call with everything it does; the downloader's
handler is a single action, its loop having nothing else to do for the chunk.

| action | code |
|---|---|
| `ReceiveGet` | case GET: `start_upload`, `init_cwnd` |
| `ReceiveAckPacket`, `IgnoreAck`, `DieOnAck` | case ACK: `receive_ack`, `window_control`, `abort_upload`; without a slot; when `receive_ack` exits or reads a NULL head |
| `Retransmit`, `SendNew`, `SendNothing` | `send_data_packets` |
| `UploadTimeout`, `KeepUpload` | `clean_upload_timeout` |
| `ReceiveData`, `IgnoreData` | case DATA, with `save_chunk` and the new GET when a chunk does not verify |
| `DownloadTimeout` | `clean_download_timeout`, `download_peer_crash` |
| `LoseGet`, `ReorderData`, `ReorderAcks`, `Sent` | the links |

Data is abstracted to what the code's tests can tell apart. A packet is its sequence number. The
chunk's buffer is the list `saved` of the packets copied into it, and the hash matches exactly
when that list is 1..N. A copy past the end of the buffer is undefined in C; `overrun` records
it and the byte count stops at one more than a chunk, which the code never compares equal to
BT_CHUNK_SIZE again. Time is abstracted to expiry: `due` says the fast retransmit has set the
head's time stamp back, `quiet` counts RTO periods without an ACK up to ABORT_COEFF. RTT
estimation has no other effect than the moment of expiry and is left out. The window is an
unbounded number (`unsigned` in C, which a chunk's 354 packets of at most 1484 bytes cannot overflow).

### Session

`slots` are the upload tables, a record per slot with its peer, its chunk and the `UploadStream`
and `CongestionControl` rows; `turn` is the slot `send_data_packets` has come to. Each downloader
has a stream (`down`), the chunk it fetches (`wanted`) and two links. The point of the module
is `IndexOf`, `get_upload_index_by_id`: queue, timer, window and ACKs are those of the *first*
slot with the peer's id, while the chunk (`Content`) is that of the slot whose turn it is. A DATA
packet carries the chunk its bytes come from, which the downloader does not see; `pure` records
whether all it saved was of the chunk it wanted, and that decides whether the hash matches.

| action | code |
|---|---|
| `ReceiveGet` | case GET: `start_upload` in a free slot, if any, and `init_cwnd` |
| `ReceiveAckOf` | case ACK: `receive_ack`, `window_control`, `abort_upload`; or the process ends |
| `SkipFree`, `SendNew`, `SendNothing` | one turn of `send_data_packets` |
| `Retransmit`, `EarlyRetransmit` | the same, with an expired timer: rightly so, or while the answer is still under way |
| `UploadTimeout`, `KeepUploads` | `clean_upload_timeout`: the slot found silent, the peer's first slot closed |
| `ReceiveData`, `IgnoreData` | case DATA, with the ACK and the next GET in that order on one link |
| `DownloadTimeout` | `clean_download_timeout`, `download_peer_crash` |

| `LoseUp`, `LoseData` | the links |

`Mishaps` says for each downloader what may go wrong between it and the uploader: which kinds of
packets may be lost, and ("timer") whether a packet may be resent too early. `MaxMishaps` bounds how
often that happens. A slot also ages, up to ABORT_COEFF silent RTOs, when it has nothing to
resend: one behind the peer's first, or one whose window stays shut.

The list of peers and the list of chunks are made once before the loop over the slots; nothing
in the loop closes a slot, so reading the slots turn by turn is the same.

`SerialDelivery` sees of all this the chunk each downloader fetches, how many packets of it came in
order, and each slot's upload: whether it is open, to whom, of which chunk, and the last packet
known to have arrived (`Upload`). `ReceiveGet` is its `Open`, `ReceiveAckOf` its `Learn`,
`UploadTimeout` its `Abandon`; `ReceiveData` is `Receive`, or `GoOn` when the chunk is complete and
the next is asked for. Everything else, losses included, is invisible.

### Download

`request` and `chunks` are `current_request` and the states of its chunks, `file` what the output
file holds of each, `has` what `has_chunk_table` gained, `conns` the linked list of connections in its order, `slots` the
download tables, `ihaves` the IHAVE packets under way. `pc` is the place in the loop. A stream is
summarised by what `Transfer` establishes (a chunk is known by its index in the request, which the code
reads from the GET file as the chunk's id, `peer.c:142-146`; a request does not name a hash twice, see
`vulnerabilities.txt:2`): one whose GET was accepted (`served`) delivers its
chunk, and the chunk verifies as long as nothing else writes into the buffer (`Alone`); with two
streams of one peer, or two streams for one chunk, either outcome is possible. UserGet sends the
WHOHAS packets and has the answers of each peer queued at once, with any unreliable peer's lost;
the history variable `unheard` records that a peer already connected was among those.

| action | code |
|---|---|
| `ReceiveIHave` | case IHAVE: `update_connections`, `pick_a_chunk`, `mark_peer_state`, `start_download`, GET |
| `ReceiveChunk` | case DATA on the last packet: `save_chunk`, `write_file`, `update_ihave_table`, `abort_download`, `pick_a_new_chunk`, GET |
| `ReceiveNothing`, `NoInput`, `NoCrash` | the loop when nothing happens (other packets of a stream included) |
| `UserGet` | `process_get`, `whohas_flooding` |
| `RepeatGet` | `handle_user_input`: `create_file` on the file of the running request, then `process_get` returns |
| `CrashDownload` | `download_peer_crash_wrapper`, `download_peer_crash`, `clean_download_timeout` |
| `Finish` | `all_chunk_finished` and the freeing of the request |

Not in the model: a DENIED packet, which no peer of this code sends, and DATA on a stream that
outlived its request, which reads a NULL `current_request` (`peer.c:143`); `BooksAgree` shows
that the swarm of the run never gets there.

`ChunkRequest` sees of all this whether a request is open, the chunks it owns and the pairs of a
peer and the chunk it was asked for (`Fetches`, the open slots). `ReceiveChunk` is its `Deliver`,
together with the next GET to the same peer or to another; `CrashDownload` its `GiveUp`,
again with whom the chunk is handed to; `ReceiveIHave` its `Ask`, `UserGet` its `Begin` and `Finish` its `End`.

### Discovery

`iobuf` is the input buffer, byte by byte, `request` and `has` are chunk tables, `conns` the chunks
`connections` holds of each peer id, `wire` the packets under way and `i` the `unsigned char` that
`make_packet` counts with. A hash is an opaque value and a packet carries a set of them, since no
receiver looks at their order; a character is a key or the end of a line, an
address is a host and a port. The peer list is the set of the lines of its file that are no comments:
`bt_parse_peer_list` puts each in front of the ones before, so the first match is the last line. `heard`, `asked`, `unfinished` and `intact` record history for
the properties.

| action | code |
|---|---|
| `ProcessUserInput` | `process_user_input` with any number of bytes read, `handle_user_input`, `process_get`, `parse_has_get_chunk_file` |
| `LineTooLong` | its exit |
| `CountChunk`, `WhohasFlooding` | `make_packet` for WHOHAS, its first loop step by step; `whohas_flooding` |
| `ReceiveWhohas` | case WHOHAS at any peer: `make_packet` for IHAVE |
| `ReceiveIHave` | case IHAVE: `bt_peer_id`, `update_connections`, `pick_a_chunk`, GET |
| `ReceiveGet` | case GET at any peer: `find_chunk`, `get_chunk_id`, `start_upload` |
| `SaveChunkAt` | `update_ihave_table` at a peer that finishes a chunk of its own |
| `LosePacket` | the network |

Packets may overtake each other here (`wire` is a set). Slots are never short and streams never
end: admission is `Session`'s, what follows a stream's end is `Download`'s.

## Runs

| run | result | shows |
|---|---|---|
| `transfer_fifo` | pass | N = 3 packets, two losses, timers that may expire at any moment: window, ACKs, no idle slot, no exit, no chunk filled wrongly, a buffer overrun only by a repeated packet, refinement of `ChunkDelivery` |
| `transfer_unordered` | pass | N = 3 and one mishap, which may be that two packets of a link change places: what stays true even where late ACKs make the process exit (`keep_track.c:318`) |
| `transfer_timely` | pass | N = 7, two losses, timers long compared with the round trip: both streams end, every packet arrives, the chunk is owned unless its buffer was overrun |
| `session` | pass | two slots, two downloaders, two chunks and one, three mishaps: a packet lost except an ACK or a GET of the first, or a packet of the first resent too early, so that copies from its first chunk reach its second: one slot per peer, chunks not mixed, an upload closed as complete was complete, nobody waits for an upload that is gone, no exit, the serial download completes, refinement of `SerialDelivery` |
| `download_swarm` | pass | two requests, three peers, three chunks, two losses, a peer that may vanish: tables agree, saved chunks stay, no useful peer idle unless one known before went unheard, an unfinished request never stands still, every request ends, refinement of `ChunkRequest` |
| `discovery` | pass | two providers, three chunks, two to a packet: lines come out whole, answers are booked for their senders, every provider is heard, what is sent is what was asked for, the loop that makes the flood ends |
| `transfer_duplicate` | violation | a resent copy of the last packet in order is saved twice (`peer.c:150`, against its own comment) |
| `transfer_linear` | violation | the window grows exponentially above half its maximum (`congestion_control.c:31`) |
| `session_last_ack` | violation | one lost last ACK, and the next chunk of the same pair never arrives (`keep_track.c:200`, `keep_track.c:130-132`) |
| `download_packets` | violation | a request that needs two WHOHAS packets never ends with one provider (`tests.txt:5`) |
| `download_repeat` | violation | a second GET line for the same file damages a chunk already saved (`peer.c:248`, `tests.txt:10`) |
| `peer_id` | violation | of two hosts with one port, one gets the other's IHAVE booked (`bt_parse.c:72-73`) |

**Bounds.** N = 3 is the smallest chunk with a first, a middle and a last packet; N = 7 is what
the fast retransmit needs (a window of four: the lost packet and three duplicate ACKs) with
packets left to send after it.
Packet sizes are 2 and 1: all that the code compares is that the last packet is shorter and that
a chunk is full. Cap = N lets a link hold everything outstanding; retransmissions fill it and
exercise the drop; `transfer_unordered` takes Cap = 5, room for the four late copies of an ACK
that make the fast retransmit miss its head. MaxMishaps = 2 lets a loss hit the repair of another one. In `download_swarm`
every chunk has two providers, one of them reliable, and the peer with everything may vanish; a second
request finds the connections and states the first one left behind.

`session` has N = 2 and three mishaps. An ACK of one chunk reaches the upload of the next when a copy
of the old chunk's last packet, resent too early, reaches the new stream, which answers it with an ACK of
0. Three such copies give Ann's second upload the three duplicates that make a fast retransmit, before it has had
an ACK of its own. `receive_ack` finds the right head there; with an `abort_upload` that leaves the old
tail behind it would find none and the process end (a mutant of the run).
Three are also one fewer than the silent RTOs that close an upload (`StaysServed`). An
upload that outlives its download (Bob's, whose ACKs may be lost) and a slot that two downloaders use
in turn occur as well. `Garbage` is what `init_controller`'s `malloc` leaves in a window: 0 in the passing run,
where a slot never initialised would never send and be noticed. `discovery` has CHUNK_PER_PACKET = 2
for three chunks, so the second packet is not full; the ids in the has-files differ from those in
the master file, as in `cp1`; UCHAR_MAX = 3 puts the request of three chunks at the
counter's limit: one more and the loop of `make_packet` would not end. USERBUF_SIZE = 5 with Buffered = 3 keeps the proportion of a terminal's 4096 bytes to the
buffer's 8191 (2 * Buffered <= USERBUF_SIZE + 1): the end of a line lies among the first Buffered
bytes. Beyond that, bytes of an older line may follow what is read (`input_buffer.c:46`).

**Timely** (`transfer_timely` and the violations of `Transfer`): a timer
expires only while nothing is under way. In `Session` a retransmission timer may expire earlier, as a
mishap, but no stream is given up and no upload ages while a packet is under way. The RTO starts at 1.6 s and follows the measured round trip; with an
RTO shorter than the round trip a duplicate fills the buffer wrongly (`transfer_duplicate`) and
no liveness can be expected. The other runs of `Transfer` and all proofs about it do without it;
the proofs about `Session` rest on the weaker form, as the module does. Even so a window
of 8 and one loss give six duplicate ACKs, two fast retransmits and a packet saved twice, which
is why `ChunkIsOwned` and `SerialDownload` except an overrun buffer.

**Mishaps** (`Session`) says what may go wrong with the packets of a downloader. Where an ACK may be, its
next GET may take a second slot (`session_last_ack`), so in the passing run the downloader with
two chunks keeps its ACKs and GETs, and the one with a single chunk may lose anything. Early timers are those of the former, which has a next chunk
for their copies to reach.

**Stable, Reliable, Late** (`Download`): a stable peer answers a GET without a pause of
ABORT_COEFF RTOs; packets to and from a reliable one are not lost; from request `Late` + 1 on
the answers to WHOHAS are in before a stream may time out. Without the last, a known peer can
be given a chunk after a crash before its own IHAVE has arrived; that IHAVE then opens a second
stream with it, or marks it idle (a hazard in `PROJECT.json`; with `Late = 2` TLC shows it). A
new request likewise waits until the answers to the last one are in.

**Fairness.** The loop never blocks, so its idle steps are weakly fair. A packet in the socket's
buffer is read by one of the next iterations, though not necessarily by this one: strong
fairness of each receive action, whose guard holds only at "poll". An expired timer stays
expired until an iteration reaches the code that looks at it: strong fairness of
`Retransmit`, `UploadTimeout`, `CrashDownload`. Nothing makes a timer expire early: `EarlyRetransmit`
has no fairness. In `Session` each turn of `send_data_packets` is a step: a slot with room is reached again and again, hence strong fairness of `SendNew` too. In
`Discovery` only the loop in `make_packet` is fair; the user need not type. Nothing is assumed of the network beyond the bound on losses, nor
of an unstable peer. Deadlock is checked except where the process may exit (`transfer_unordered`, and `discovery` after
a line that is too long).

## Proofs

`tlapm` checks every leaf. What is assumed of the constants is in the modules' ASSUMEs
(`SizesAssumption`, `NetworkAssumption`, `SessionAssumption`, `DownloadAssumption`,
`BufferAssumption`, `TablesAssumption`, `DiscoveryAssumption`: their types, and that the last packet of a chunk is not empty and
shorter than the others), which TLC evaluates in the runs. Everything else is a
hypothesis of the theorem, stated by name and defined next to it; each is one the code really
needs, and below is what goes wrong without it.

| module | theorems | hypotheses |
|---|---|---|
| `Transfer` | `SafeInvHolds`, `TypeCorrect`, `WindowHolds`, `AckedHolds`, `NeverIdleHolds`, `NeverRefetchedHolds`, `OverrunNeedsRepeatHolds` | none |
| | `FastRetransmitHolds`, `FifoInvHolds`, `TransferImplementsDelivery` | `InOrder` |
| `Session` | `SessionTypes` | none |
| | `OneSlotEach`, `ChunksStayApart`, `UploaderStays`, `UploadsCompleted`, `SessionImplementsSerial` | `Reliable` |
| | `DownloadersStayServed` | `Reliable`, `Roomy`, `Patient` |
| `Download` | `DownloadTypes`, `FinishedChunksStay` | none |
| | `BooksAlwaysAgree`, `OwnedChunksStayOwned`, `NoProviderIdle`, `DownloadsImplementRequest` | `Orderly` |
| | `RequestKeepsWorking` | `Orderly`, `AllAnswer`, `Supplied` |
| `InputBuffer` | `LinesAreCut` | a line ends in the buffer's first half |
| `Discovery` | `DiscoveryTypes` | `Catalogued` |
| | `LinesComeWhole` | the same of `Buffered` |
| | `AnswersAttributed`, `AskedIsUploaded` | `Catalogued`, `OwnPort` |
| | `ProvidersHeard` | `Catalogued`, `OwnPort`, `OnLoopback` |

The hypotheses hold in the passing runs, with one exception: `download_swarm` checks
`KeepsWorking` where `AllAnswer` fails, a case the theorem does not cover.

### Transfer

The theorems hold for any chunk size, link capacity
and number of mishaps, and with timers expiring at any moment.

* `SafeInv` is the inductive invariant under any network. `WindowIsARun` alone is
  preserved by `receive_ack` only if ACKs are not of the future, `AckedWasReceived` needs the
  same of the ACKs under way (`InTransit`) and that DATA under way was sent; both need that
  nothing happens before the GET is accepted (`Unopened`); `NeverIdle` needs that an open upload
  is unfinished (`Unfinished`), or `send_data_packets` would have nothing to send. `Buffer` ties
  the bytes saved to the packets in order: a full buffer that was not filled in
  order is impossible, by divisibility (the last packet is shorter than a full one), even though
  duplicates may be saved.
* `OrderInv` is added under `InOrder` ("order" is not among the mishaps): ACKs under way ascend
  from the last one seen, which bounds the queue, so three duplicates always name the packet
  before the head. Without it the process may exit (`transfer_unordered`).
* `OverrunNeedsRepeatHolds`: under any network the buffer is overrun only in a step that saves a
  packet again, or after one. Without repetition the bytes saved are those of a run of packets
  within the chunk (`PacketsWithinChunk`), and these fit.
* `TransferImplementsDelivery`: each step is a step of `ChunkDelivery` or
  leaves its variables alone. `Delivery!Learn` needs that ACKs do not fall back, hence `OrderInv`.

`StreamProofs` holds the lemmas about the operators (a run with a prefix removed is a run; what
each function leaves of `Window` and of `Buffer`), which the proofs about `Session` cite as well;
`TransferProofs` has one lemma per action.

### Session

For any number of slots, downloaders, chunks, losses and early timers. `TypeInv` adds to `TypeOK` that each slot's
queue is a run of packets that ends at its tail, and empty once it is closed. `SessionInv` says of
each downloader (`Served`) that at most one slot serves it and how that slot, the two links and
the stream agree:

* `NextGet`: a GET under way is for the chunk being fetched, right behind the ACK that closes the
  slot of the chunk before, and no DATA of its chunk is under way yet.
* `OldData`: DATA of an earlier chunk comes before all of the current one and is never packet 1,
  which the new stream would take for its own. This is what keeps chunks apart, as
  a DATA packet does not say which chunk it is of.
* `FirstAlone` and `Opened` support it: until packet 1 is acknowledged the window is a single
  packet, so once another packet of the chunk was sent, packet 1 never is again.
* `Closing`, `Fetching`, `Climbing`: the open slot is the one of the chunk being fetched or one whose last
  ACK is under way; ACKs that arrive before a GET never go back.

`Reliable` asks for chunks of more than one packet and that the ACKs of those who fetch more
than one chunk arrive. With N = 1 a copy of a chunk's only packet, sent again by its timer, is
saved as the next chunk's. With a lost last ACK the next GET opens a second slot
(`session_last_ack`). GETs and DATA may be lost, and so may the ACKs of a downloader with one chunk.

`UploadsCompleted` and `SessionImplementsSerial` rest on `SerialInv`, which adds to `SessionInv` what
becomes of a slot after its upload: `Finished` (an upload is of no later chunk than its downloader
fetches, and of one it has when the last ACK closed it) and `Ending` (a stream with all packets in
order has ended, unless its buffer was overrun). Neither is preserved without `Served`: an ACK of the
last packet taken by the wrong slot would close an upload of an unfinished chunk. Each handler
has a lemma for its abstract step; `Learn` needs that the ACK in hand is no smaller than the last one
(`Climbing`) and no larger than what was received, `Open` that the peer has no slot, `GoOn` that the
filled chunk had exactly N - 1 packets in order before, which is the arithmetic of
`OverrunNeedsRepeat` again.

`DownloadersStayServed` is the safety half of `SerialDownload`. A GET is sent once, so an upload closed
too early leaves its downloader waiting for the rest of a chunk until it gives up. `KeptInv` counts: a slot has been silent for
no more RTOs than there were mishaps, and for one fewer when nothing is under way and packets wait
for their ACK (`Heard`). A slot that `clean_upload_timeout` finds silent has such packets
(`Loop`), so with fewer mishaps than RTOs that make it give up (`Patient`) only a downloader that has ended or given up
is dropped. A silence without any mishap has to be excluded first. Until the first one a stream is
`Straight` (DATA under way follows the last packet received, the newest ACK is of that one) and its slot is
`Ahead` (every ACK under way says more than those before it, and all that was sent is received or under
way); then the ACK in hand is never a duplicate, nothing is sent again, and an ACK that empties the
links empties the queue. `Roomy` gives every downloader a slot: the GET handler drops a GET that finds none. With
four losses (ABORT_COEFF), all of DATA, TLC finds `StaysServed` violated, so `Patient` cannot be weakened.

### Download

For any number of peers, chunks and requests. `BooksInv` is `TypeOK`, `Books` (streams and
RECEIVING chunks are paired, connections are WORKING exactly while their peer has a stream, no peer has
two connections) and `Answering` (an IHAVE under way is its sender's only one, and its sender has no stream; in the
first request it has no connection either, so that no timeout can pick it). Each helper
(`Pick`, `AbortDownload`, `Reset`, `Unlink`) has a lemma about the relations, stated of any tables, and
each handler a lemma that composes them.

`Orderly` has three parts. C <= PerPacket: a peer that answers two WHOHAS packets is given two
chunks at once (`download_packets`). Cardinality(Peers) <= MaxConn: a chunk picked while every slot is
taken is marked RECEIVING and never asked for (`peer.c:107`). Late <= 1: a timeout in a later request, before every
answer is in, hands a chunk to a peer whose IHAVE will then open a second stream (`peer.c:117`).

`NoProviderIdle` follows from `IdleFree`: an idle connection that lists a wanted chunk belongs to a
peer whose next IHAVE is under way. It needs `Truthful` (connections list what peers have)
and, per handler, that everyone idle found nothing wanted but the chunk just set free (`OnlyFor`). Both
the property and `IdleFree` except requests in which the answer of a peer already connected was lost
(`unheard`). Such a peer keeps its connection from the request before, idle, and nothing asks it again; a timeout may then give it
another chunk than the one set free, and the provider of that one is left out. Without the exception TLC finds
the property violated in `download_swarm`, with the first kind of idle provider.

`RequestKeepsWorking` is the safety half of `RequestCompletes`: while a chunk is missing, an IHAVE is under
way or a stream is open, and only these two ever lead to another GET. A moment without both would
be a request that hangs for ever. `Supplied` gives every chunk a provider that is stable and
loses nothing (`Lasting`). `WorkInv` says that a GET to such a peer was accepted (`Granted`), so its stream never times
out and its connection is never unlinked; hence it is connected or its IHAVE is under way (`Present`). In a state without
streams and answers all connections are idle by `BooksInv`, so the provider of the missing chunk
is idle and lists it (`Truthful`), which `IdleFree` excludes. `AllAnswer` asks that no packet is lost or that there
is a single request, and makes every request a heard one (`AllHeard`). The theorem is false without it, as TLC shows with four peers and three chunks: Ann and Dan own 1, Cy 2 and 3, Bob 3.
In the second request Bob's answer is lost, Dan fetches 1, Cy 2, and Bob is idle with the connection he had.
Dan vanishes: the timeout gives Bob chunk 3, not Ann the chunk set free. When Bob and Cy have
finished, 1 is missing, Ann is idle, and nothing is under way that would ever ask her.

`DownloadsImplementRequest` follows from the pairing: the fetch of a slot
determines the slot, so that closing and opening slots removes and adds exactly one pair.

### Discovery

For every peer list, all chunk files and any number of chunks in a packet.

* `LinesAreCut`: from a buffer that holds a text and then NULs (`Holds`), the loop of
  `process_user_input` hands out the lines of the text and leaves its unfinished rest. The induction over
  the turns of the loop is first-order: the set of turns after which the buffer holds what is left
  (`ReachedAfter`) contains 0 and with each turn the next. If a text that ends a line filled more than half the
  buffer, the bytes a `memmove` leaves behind could follow the rest. A terminal hands over at most 4096 bytes, the buffer has 8191.
* `TypeInv` adds to the types that IHAVEs under way and has-files say nothing that is not so (`Honest`,
  `Known`); `AskInv` that GETs go to owners and uploads answer GETs; `HeardInv` that each hash wanted of a provider has been heard or
  that a packet under way still tells of it (`Tells`, `Hears`).
* `ProvidersHeard` also rests on the arithmetic of `make_packet`: the rank of each chunk among those
  wanted lies in the share of exactly one packet, the last, shorter one included.
* `Catalogued`: the master file numbers its chunks and lists all that a has-file does. `get_chunk_id` finds no
  id for any other. `OwnPort`: no two peers of the list share a port, since `bt_peer_id` looks at nothing
  else (`peer_id`). `OnLoopback`: behind the simulated network all peers run on
  its host, as `hupsim.pl` sends to 127.0.0.1.

### Only model-checked

Liveness and what rests on fairness: `UploadEnds`, `DownloadEnds`, `EveryPacketArrives`, `ChunkIsOwned`, `SerialDownload`,
`RequestCompletes`, `FloodEnds`. `KeepsWorking` where answers of later requests may be lost. The
properties that runs show violated are counterexamples, with nothing to prove.

## What is left

* `RequestKeepsWorking` where only some peers' answers arrive: what can still be said needs a condition
  on what a silent peer's old connection lists. `BooksAlwaysAgree` in a first request with any `Late`.
* Liveness stays with TLC. Its safety halves are proved for a request (`RequestKeepsWorking`), a session
  (`DownloadersStayServed`) and an upload's sender (`NeverIdleHolds`).
* `StaysServed` and `KeepsWorking` joined: a session whose downloaders ask the next peer when an upload has failed.

## Not modelled

SHA-1 (`sha.c`, vendored) and hexadecimal conversion (`chunk.c`, `make_chunks.c`): data processing
without state; a hash is an opaque value that matches or does not. The command line and the
printing of the configuration (`bt_parse.c`): read once, then constant. Logging (`window_log.c`,
`debug.c`). The earlier connection layer and test programs (`connection.c`, `client.c`,
`server.c`, `test_input_buffer.c`), which the peer is not linked with. Rates and latencies of the simulated
network, and the estimation of RTT and RTO: a timer is represented by the moments at which it may expire.

Of what is modelled, three cases are outside the passing runs because the code fails there: more
downloads than slots (`peer.c:107`), an IHAVE that comes after its sender was given a chunk
(`peer.c:117`), a GET lost with no other provider (`peer.c:326`). `PROJECT.json` says so at the hazard.
