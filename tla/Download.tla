------------------------------- MODULE Download -------------------------------
(***************************************************************************)
(* The downloads of one peer: current_request and its chunks, the list of  *)
(* connections, the download slots, the output file, and the answers other *)
(* peers give to its WHOHAS and GET packets (peer.c, util.c, keep_track.c, *)
(* file.c).  How a chunk travels is left to Transfer: a stream whose GET   *)
(* was accepted delivers its chunk, and the chunk verifies                 *)
(* (Transfer!NeverRefetched), as long as nothing else writes into the same *)
(* buffer.                                                                 *)
(*                                                                         *)
(* A chunk is named by its index in the request.  The code takes the id in *)
(* its line of the GET file for that index (peer.c:142-146), and drops     *)
(* DATA when there is no such index: the GET files modelled number their   *)
(* chunks 0, 1, 2, ... in order, and their hashes differ (two equal ones   *)
(* are known to crash the program, vulnerabilities.txt:2).                 *)
(*                                                                         *)
(* The main loop handles at most one packet, then the user's line, then    *)
(* one timed out stream, then the end of the request: `pc' is its place.   *)
(***************************************************************************)
EXTENDS Naturals, SequencesExt

CONSTANTS C,           \* chunks of a request, in the order of its chunk file
          Peers,       \* the other peers
          Owns,        \* the chunks each of them has
          Stable,      \* peers that serve what they accepted without a long pause
          Reliable,    \* peers no packet to or from which is lost
          MaxLosses,   \* bound: answers and GETs the network loses
          MaxConn,     \* download slots (the -m option)
          PerPacket,   \* CHUNK_PER_PACKET: hashes in one WHOHAS
          MaxRequests, \* bound: GET lines the user enters
          Late,        \* in the first so many requests a stream may time out
                       \* before every IHAVE has arrived
          NoStream     \* a free download slot

Chunks == 1 .. C

ChunkStates == {"NOT_STARTED", "RECEIVING", "OWNED"}
Connections == [peer : Peers, state : {"WORKING", "NOT_WORKING"}, has : SUBSET Chunks]
Streams     == [peer : Peers, chunk : Chunks, served : BOOLEAN]

ASSUME DownloadAssumption == /\ C \in Nat \ {0} /\ MaxConn \in Nat \ {0}
                             /\ PerPacket \in Nat \ {0}
                             /\ MaxLosses \in Nat /\ MaxRequests \in Nat /\ Late \in Nat
                             /\ IsFiniteSet(Peers)
                             /\ Owns \in [Peers -> SUBSET Chunks]
                             /\ Stable \subseteq Peers /\ Reliable \subseteq Peers
                             /\ NoStream \notin Streams

VARIABLES request,  \* current_request is not NULL
          chunks,   \* the state of its chunks
          file,     \* what its output file holds of each
          has,      \* the chunks has_chunk_table has gained
          conns,    \* the list of connections, first one first
          slots,    \* download_id_map and download_chunk_map; `served' says that
                    \* the GET was accepted
          ihaves,   \* the IHAVE packets under way from each peer
          losses,   \* packets lost so far
          requests, \* GET lines entered so far
          unheard,  \* history: the answer to the request of a peer that is connected
                    \* since an earlier request was lost
          pc

vars == <<request, chunks, file, has, conns, slots, ihaves, losses, requests, unheard, pc>>

Init == /\ request = FALSE
        /\ chunks = [c \in Chunks |-> "OWNED"]
        /\ file = [c \in Chunks |-> "absent"]
        /\ has = {}
        /\ conns = << >>
        /\ slots = [i \in 1 .. MaxConn |-> NoStream]
        /\ ihaves = [p \in Peers |-> << >>]
        /\ losses = 0 /\ requests = 0 /\ unheard = FALSE
        /\ pc = "inbound"

-------------------------------------------------------------------------------
(* The helpers of util.c and keep_track.c.                                   *)

Lowest(S) == CHOOSE i \in S : \A j \in S : i <= j

\* The slots that hold a stream with p; every lookup takes the first of them.
SlotsOf(s, p) == {i \in DOMAIN s : s[i] # NoStream /\ s[i].peer = p}

\* start_download: does nothing when every slot is taken.
StartDownload(s, p, c, served) ==
    LET free == {i \in DOMAIN s : s[i] = NoStream}
    IN  IF free = {} THEN s
        ELSE [s EXCEPT ![Lowest(free)] = [peer |-> p, chunk |-> c, served |-> served]]

\* abort_download.
AbortDownload(s, p) ==
    IF SlotsOf(s, p) = {} THEN s ELSE [s EXCEPT ![Lowest(SlotsOf(s, p))] = NoStream]

\* Faulty variant of Wanted: a chunk already on its way is picked again.
WantedTwice(cs, offered) == {c \in offered : cs[c] # "OWNED"}

\* pick_a_chunk and pick_a_new_chunk choose the first of these.
Wanted(cs, offered) == {c \in offered : cs[c] = "NOT_STARTED"}

\* mark_peer_state.
MarkPeer(list, p, state) ==
    [k \in DOMAIN list |-> IF list[k].peer = p THEN [list[k] EXCEPT !.state = state]
                                               ELSE list[k]]

\* Faulty variant of UpdateConnections: a new connection gets a chunk's state.
UpdateConnectionsMislabels(list, p, offered) ==
    IF \E k \in DOMAIN list : list[k].peer = p
    THEN [k \in DOMAIN list |-> IF list[k].peer = p THEN [list[k] EXCEPT !.has = offered]
                                                    ELSE list[k]]
    ELSE <<[peer |-> p, state |-> "NOT_STARTED", has |-> offered]>> \o list

\* update_connections: a known peer's chunk table is replaced, a new peer goes
\* to the front of the list.
UpdateConnections(list, p, offered) ==
    IF \E k \in DOMAIN list : list[k].peer = p
    THEN [k \in DOMAIN list |-> IF list[k].peer = p THEN [list[k] EXCEPT !.has = offered]
                                                    ELSE list[k]]
    ELSE <<[peer |-> p, state |-> "NOT_WORKING", has |-> offered]>> \o list

\* Faulty variant of Known: the walk along the list stops at its head.
KnownOfHead(list, p) == UNION {list[k].has : k \in {j \in DOMAIN list : j = 1 /\ list[j].peer = p}}

\* The chunks p is known to have (peer_contain_chunk).
Known(list, p) == UNION {list[k].has : k \in {j \in DOMAIN list : list[j].peer = p}}

\* A GET to p is on its way: accepted, or lost.
SentGet(p, served) == \/ served /\ UNCHANGED losses
                      \/ ~served /\ p \notin Reliable /\ losses < MaxLosses
                         /\ losses' = losses + 1

\* The chunk picked for p is marked and asked for; with no free slot it is
\* marked, and no GET is sent.
Pick(list, s, cs, p, c) ==
    /\ chunks' = [cs EXCEPT ![c] = "RECEIVING"]
    /\ conns' = MarkPeer(list, p, "WORKING")
    /\ \E served \in BOOLEAN :
         /\ slots' = StartDownload(s, p, c, served)
         /\ IF slots' = s THEN served /\ UNCHANGED losses ELSE SentGet(p, served)

\* Faulty variant of CreateFile: the file is truncated.
CreateFileTruncates(f) == [c \in Chunks |-> "absent"]

\* create_file zeroes the last byte of the file's first chunk, taken to be another
\* byte in the chunk itself; write_file puts a chunk in its place.
CreateFile(f)   == [f EXCEPT ![1] = IF f[1] = "saved" THEN "damaged" ELSE f[1]]
WriteFile(f, c) == [f EXCEPT ![c] = "saved"]

-------------------------------------------------------------------------------
(* Packets.                                                                  *)

\* The IHAVE handler.
ReceiveIHave(p) ==
    /\ pc = "inbound" /\ ihaves[p] # << >>
    /\ ihaves' = [ihaves EXCEPT ![p] = Tail(ihaves[p])]
    /\ LET offered == Head(ihaves[p])
           list    == UpdateConnections(conns, p, offered)
       IN  CASE request /\ Wanted(chunks, offered) # {} ->
                  Pick(list, slots, chunks, p, Lowest(Wanted(chunks, offered)))
             [] request /\ Wanted(chunks, offered) = {} ->
                  /\ conns' = MarkPeer(list, p, "NOT_WORKING")
                  /\ UNCHANGED <<chunks, slots, losses>>
             [] OTHER -> conns' = list /\ UNCHANGED <<chunks, slots, losses>>
    /\ pc' = "input"
    /\ UNCHANGED <<request, file, has, requests, unheard>>

\* Nothing but p's stream in slot i writes into its chunk's buffer.
Alone(i) == \A j \in DOMAIN slots \ {i} :
               slots[j] = NoStream \/ (slots[j].peer # slots[i].peer
                                       /\ slots[j].chunk # slots[i].chunk)

\* The DATA handler, on the packet that fills the chunk: save_chunk verifies it,
\* the stream is closed and the next chunk is asked for from the same peer.
ReceiveChunk(p) ==
    /\ pc = "inbound" /\ request
    /\ \E i \in SlotsOf(slots, p) : slots[i].served
    /\ LET i == Lowest(SlotsOf(slots, p))
           c == slots[i].chunk
           s == AbortDownload(slots, p)
       IN  /\ chunks[c] = "RECEIVING"
           /\ \E verified \in BOOLEAN :
                LET cs    == [chunks EXCEPT ![c] = IF verified THEN "OWNED" ELSE "NOT_STARTED"]
                    known == Known(conns, p)
                IN  /\ Alone(i) => verified
                    /\ has' = IF verified THEN has \union {c} ELSE has
                    /\ file' = IF verified THEN WriteFile(file, c) ELSE file
                    /\ IF Wanted(cs, known) # {}
                       THEN Pick(conns, s, cs, p, Lowest(Wanted(cs, known)))
                       ELSE /\ chunks' = cs /\ slots' = s
                            /\ conns' = MarkPeer(conns, p, "NOT_WORKING")
                            /\ UNCHANGED losses
    /\ pc' = "input"
    /\ UNCHANGED <<request, ihaves, requests, unheard>>

ReceiveNothing == /\ pc = "inbound" /\ pc' = "input"
                  /\ UNCHANGED <<request, chunks, file, has, conns, slots, ihaves, losses, requests, unheard>>

-------------------------------------------------------------------------------
(* The user's GET line.                                                      *)

\* The hashes of the jth WHOHAS packet, and what p answers to the packets: it
\* stays silent about those of which it has nothing.
InPacket(j) == {c \in Chunks : (j - 1) * PerPacket < c /\ c <= j * PerPacket}
Asked(p)    == {j \in Chunks : Owns[p] \cap InPacket(j) # {}}
Answers(p)  ==
    LET packet(n) == CHOOSE j \in Asked(p) : Cardinality({i \in Asked(p) : i < j}) = n - 1
    IN  [n \in 1 .. Cardinality(Asked(p)) |-> Owns[p] \cap InPacket(packet(n))]

\* process_get and whohas_flooding, once the answers to the last request are in.
\* Some peers' packets may be lost.
UserGet ==
    /\ pc = "input" /\ ~request
    /\ requests < MaxRequests
    /\ \A p \in Peers : ihaves[p] = << >>
    /\ request' = TRUE
    /\ chunks' = [c \in Chunks |-> "NOT_STARTED"]
    /\ file' = [c \in Chunks |-> "absent"]
    /\ \E silent \in SUBSET (Peers \ Reliable) :
         /\ losses + Cardinality(silent) <= MaxLosses
         /\ losses' = losses + Cardinality(silent)
         /\ ihaves' = [p \in Peers |-> IF p \in silent THEN << >> ELSE Answers(p)]
         /\ unheard' = \E k \in DOMAIN conns : conns[k].peer \in silent
    /\ requests' = requests + 1
    /\ pc' = "crash"
    /\ UNCHANGED <<has, conns, slots>>

\* The running request's output file is named in a line once more: handle_user_input
\* creates the file, and then process_get ignores the line.
RepeatGet == /\ pc = "input" /\ request
             /\ file' = CreateFile(file)
             /\ pc' = "crash"
             /\ UNCHANGED <<request, chunks, has, conns, slots, ihaves, losses, requests, unheard>>

\* No line, or one with another output file while a request is running.
NoInput == /\ pc = "input" /\ pc' = "crash"
           /\ UNCHANGED <<request, chunks, file, has, conns, slots, ihaves, losses, requests, unheard>>

-------------------------------------------------------------------------------
(* Timeouts and the end of the request.                                      *)

\* Faulty variant of Idle: the walk along the list stops at its head.
IdleHead(list, cs) == {k \in DOMAIN list : /\ k = 1
                                           /\ list[k].state = "NOT_WORKING"
                                           /\ Wanted(cs, Known(list, list[k].peer)) # {}}

\* pick_a_chunk_after_crash: the first idle connection that has a wanted chunk.
Idle(list, cs) == {k \in DOMAIN list : /\ list[k].state = "NOT_WORKING"
                                       /\ Wanted(cs, Known(list, list[k].peer)) # {}}

\* Faulty variant of Reset: the hash is not compared.
ResetAll(cs, c) == [x \in DOMAIN cs |-> "NOT_STARTED"]

\* download_peer_crash unlinks the first connection with p.
Unlink(list, p) ==
    LET mine == {k \in DOMAIN list : list[k].peer = p}
    IN  IF mine = {} THEN list ELSE RemoveAt(list, Lowest(mine))

\* Faulty variant of Reset: the chunk stays RECEIVING.
ResetNothing(cs, c) == cs

\* download_peer_crash: the chunk of a stream that timed out.
Reset(cs, c) == [cs EXCEPT ![c] = "NOT_STARTED"]

\* download_peer_crash_wrapper: slot i timed out.  Its chunk goes back to
\* NOT_STARTED, but abort_download closes the peer's first stream.
CrashDownload(i) ==
    /\ pc = "crash" /\ slots[i] # NoStream
    /\ ~slots[i].served \/ slots[i].peer \notin Stable
    /\ requests <= Late \/ \A p \in Peers : ihaves[p] = << >>
    /\ LET p    == slots[i].peer
           s    == AbortDownload(slots, p)
           cs   == Reset(chunks, slots[i].chunk)
           list == Unlink(conns, p)
           k    == Lowest(Idle(list, cs))
       IN  IF ~request \/ conns = << >>
           THEN slots' = s /\ UNCHANGED <<chunks, conns, losses>>
           ELSE IF list # conns /\ Idle(list, cs) # {}
           THEN Pick(list, s, cs, list[k].peer,
                     Lowest(Wanted(cs, Known(list, list[k].peer))))
           ELSE chunks' = cs /\ slots' = s /\ conns' = list /\ UNCHANGED losses
    /\ pc' = "finish"
    /\ UNCHANGED <<request, file, has, ihaves, requests, unheard>>

NoCrash == /\ pc = "crash" /\ pc' = "finish"
           /\ UNCHANGED <<request, chunks, file, has, conns, slots, ihaves, losses, requests, unheard>>

\* all_chunk_finished, and the end of the request.
Finish == /\ pc = "finish" /\ pc' = "inbound"
          /\ request' = (request /\ \E c \in Chunks : chunks[c] # "OWNED")
          /\ UNCHANGED <<chunks, file, has, conns, slots, ihaves, losses, requests, unheard>>

Next == \/ \E p \in Peers : ReceiveIHave(p) \/ ReceiveChunk(p)
        \/ ReceiveNothing
        \/ UserGet \/ RepeatGet \/ NoInput
        \/ \E i \in 1 .. MaxConn : CrashDownload(i)
        \/ NoCrash \/ Finish

Spec == Init /\ [][Next]_vars

\* The loop never blocks; a packet in the socket's buffer is read by some later
\* iteration; a peer that serves a GET without a long pause delivers the chunk;
\* a stream that stays silent is found by some later iteration.
FairSpec ==
    /\ Spec
    /\ WF_vars(ReceiveNothing \/ NoInput \/ NoCrash \/ Finish)
    /\ \A p \in Peers : SF_vars(ReceiveIHave(p))
    /\ \A p \in Stable : SF_vars(ReceiveChunk(p))
    /\ \A i \in 1 .. MaxConn : SF_vars(CrashDownload(i))

-------------------------------------------------------------------------------
(* Properties.                                                               *)

\* The values the downloader's tables may hold.
TypeOK == /\ request \in BOOLEAN
          /\ chunks \in [Chunks -> ChunkStates]
          /\ file \in [Chunks -> {"absent", "saved", "damaged"}]
          /\ has \subseteq Chunks
          /\ conns \in Seq(Connections)
          /\ slots \in [1 .. MaxConn -> Streams \union {NoStream}]
          /\ ihaves \in [Peers -> Seq(SUBSET Chunks)]
          /\ losses \in 0 .. MaxLosses /\ requests \in 0 .. MaxRequests
          /\ unheard \in BOOLEAN
          /\ pc \in {"inbound", "input", "crash", "finish"}

\* The three tables the handlers keep side by side agree: a stream is open for
\* exactly the chunks that are RECEIVING, from exactly the peers marked WORKING,
\* one stream for each.  A stream left over would make the next DATA packet read
\* a NULL request (peer.c:143) or write to a NULL buffer (util.c:275); a chunk
\* left RECEIVING without a stream is never asked for again.
StreamsMatchChunks ==
    /\ \A i \in DOMAIN slots : slots[i] # NoStream =>
         /\ request /\ chunks[slots[i].chunk] = "RECEIVING"
         /\ \A j \in DOMAIN slots \ {i} :
              slots[j] # NoStream => /\ slots[j].chunk # slots[i].chunk
                                     /\ slots[j].peer # slots[i].peer
    /\ \A c \in Chunks : chunks[c] = "RECEIVING" =>
         \E i \in DOMAIN slots : slots[i] # NoStream /\ slots[i].chunk = c
WorkingMeansStream ==
    /\ \A k \in DOMAIN conns : conns[k].state = "WORKING" <=> SlotsOf(slots, conns[k].peer) # {}
    /\ \A i \in DOMAIN slots : slots[i] # NoStream =>
         \E k \in DOMAIN conns : conns[k].peer = slots[i].peer
BooksAgree == StreamsMatchChunks /\ WorkingMeansStream

\* No connected peer that has a chunk still wanted stands idle: whoever finishes,
\* crashes or answers late, each event hands out exactly the work it sets free.
\* Exempt is a request to which the answer of a peer connected since an earlier one
\* was lost: process_get keeps that connection and nothing asks the peer again, so it
\* stays idle until a stream of another peer times out, and may then be given
\* another chunk than the one set free, whose providers stay idle in their turn.
NoIdleProvider ==
    request /\ ~unheard =>
       \A k \in DOMAIN conns :
          (conns[k].state = "NOT_WORKING" /\ Wanted(chunks, conns[k].has) # {}) =>
             ihaves[conns[k].peer] # << >>

\* A request with chunks still missing never comes to a standstill: a stream is open
\* or an answer is on its way.  Otherwise no packet and no timeout would ever ask for
\* them, for nothing but those two, and the chunk that fills a stream, sends GETs.
KeepsWorking ==
    request /\ (\E c \in Chunks : chunks[c] # "OWNED") =>
       (\E i \in DOMAIN slots : slots[i] # NoStream) \/ (\E p \in Peers : ihaves[p] # << >>)

\* A chunk once owned is not downloaded again while its request runs.
OwnedStaysOwned ==
    [][request /\ request' => \A c \in Chunks : chunks[c] = "OWNED" => chunks'[c] = "OWNED"]_vars

\* The downloads of a request keep the promise of ChunkRequest, whatever the order
\* of answers, data and timeouts.
Fetches(s) == {<<s[i].peer, s[i].chunk>> : i \in {j \in DOMAIN s : s[j] # NoStream}}
Request == INSTANCE ChunkRequest WITH
             open <- request,
             owned <- {c \in Chunks : chunks[c] = "OWNED"},
             fetches <- Fetches(slots)
ImplementsRequest == Request!Spec

\* What has been written of a request stays in its output file whatever the user
\* types, except for the byte create_file touches.
LaterChunksStay ==
    request => \A c \in Chunks \ {1} : chunks[c] = "OWNED" => file[c] = "saved"

\* Every request ends: each chunk is received and the request freed.
RequestCompletes == request ~> ~request

\* tests.txt:10, "illegal use case for example passing one more request before the
\* previous one finish", tested: every chunk owned is whole in the output file.
OwnedChunksInFile == request => \A c \in Chunks : chunks[c] = "OWNED" => file[c] = "saved"
================================================================================
