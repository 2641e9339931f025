------------------------------- MODULE Discovery -------------------------------
(***************************************************************************)
(* How a peer finds out who has the chunks it wants: a GET line typed at   *)
(* it, the WHOHAS packets it sends to every peer of its list, their IHAVE  *)
(* answers, and the GETs that follow; with the lookups between ids and     *)
(* addresses of bt_parse.c and the source addresses spiffy.c reports.      *)
(*                                                                         *)
(* What happens between GET and the chunk's end is Transfer's, and what a  *)
(* stream's end changes in the tables is Download's: here every stream     *)
(* finds a free slot and none ends.                                        *)
(***************************************************************************)
EXTENDS InputBuffer, ChunkTables, Functions

CONSTANTS Nodes,         \* the peers' ids
          Me,            \* the one that downloads
          Address,       \* where each of them is: [ip, port]
          AnyIP, Loopback,  \* 0.0.0.0 and 127.0.0.1
          Spiffy,        \* all packets pass through the simulated network
          MapFile,       \* the peer list, line by line
          MasterFile, HasFile,
          GetFile,       \* the chunk files a GET line may name, by line
          UCHAR_MAX,     \* of the unsigned char that counts a request's chunks
          Buffered,      \* bound: a line ends among so many bytes
          MaxLosses      \* bound: packets the network loses

Addresses == [ip : Nat, port : Nat]

ASSUME DiscoveryAssumption ==
    /\ Nodes \subseteq Nat \ {0} /\ Me \in Nodes
    /\ Address \in [Nodes -> Addresses] /\ AnyIP \in Nat /\ Loopback \in Nat /\ Spiffy \in BOOLEAN
    /\ MapFile \in Seq([comment : BOOLEAN, id : Nat, addr : Addresses])
    /\ \A l \in DOMAIN MapFile : MapFile[l].comment \/ MapFile[l].id \in Nodes
    /\ \A p \in Nodes : \E l \in DOMAIN MapFile :
         ~MapFile[l].comment /\ MapFile[l].id = p /\ MapFile[l].addr = Address[p]
    /\ MasterFile \in Seq(Lines) /\ HasFile \in [Nodes -> Seq(Lines)]
    /\ GetFile \in [DOMAIN GetFile -> Seq(Lines)]
    /\ UCHAR_MAX \in Nat /\ Buffered \in Nat /\ MaxLosses \in Nat

VARIABLES iobuf,      \* the user_iobuf
          unfinished, \* what was typed since the last end of a line
          intact,     \* every line handled was a line typed, and none was missed
          pc,         \* "loop", "count" (in make_packet's loop), or "exited"
          i,          \* that loop's counter
          request,    \* current_request's table; empty for NULL
          has,        \* each peer's has_chunk_table
          wire,       \* packets under way
          conns,      \* connections: what each peer id is known to have
          heard,      \* what it ever said it had
          asked,      \* GETs sent
          uploads,    \* streams start_upload opened
          losses

vars == <<iobuf, unfinished, intact, pc, i, request, has, wire, conns, heard, asked, uploads, losses>>
user == <<iobuf, unfinished, intact>>
mine == <<conns, heard, asked>>

Unknown == -1
Ids     == Nodes \union {Unknown}
Total   == ParseMasterFile(MasterFile)
HashesOf(table) == {table[k].hash : k \in DOMAIN table}

Init == /\ iobuf = CreateUserbuf /\ unfinished = << >> /\ intact = TRUE
        /\ pc = "loop" /\ i = 0
        /\ request = << >>
        /\ has = [p \in Nodes |-> ParseChunkFile(HasFile[p], "OWNED")]
        /\ wire = {}
        /\ conns = [p \in Ids |-> {}] /\ heard = [p \in Ids |-> {}]
        /\ asked = {} /\ uploads = {} /\ losses = 0

-------------------------------------------------------------------------------
(* Ids and addresses.                                                        *)

\* Faulty variant of PeerList: the first line is taken for a heading.
PeerListSkipsFirst == {l \in DOMAIN MapFile : l > 1 /\ ~MapFile[l].comment}

\* bt_parse_peer_list: the lines that are no comments; every one goes to the front
\* of the list.
PeerList == {l \in DOMAIN MapFile : ~MapFile[l].comment}

\* bt_peer_id: the first of the list, which is the last line, with the sender's port.
PeerId(from) ==
    LET found == {l \in PeerList : MapFile[l].addr.port = from.port}
    IN  IF found = {} THEN Unknown
        ELSE MapFile[CHOOSE l \in found : \A j \in found : j <= l].id

\* spiffy_recvfrom reports the address in the header spiffy_sendto wrote, which is
\* the one the socket was bound to.
Source(p) == IF Spiffy THEN [ip |-> AnyIP, port |-> Address[p].port] ELSE Address[p]

\* hupsim's recv.
Routed(addr) == IF Spiffy /\ addr.ip = AnyIP THEN [addr EXCEPT !.ip = Loopback] ELSE addr

\* send_packet.
Sent(p, addr, kind, hashes) ==
    {[kind |-> kind, src |-> p, dst |-> q, hashes |-> hashes] :
       q \in {n \in Nodes : Address[n] = Routed(addr)}}

Arrived(kind, p) == {w \in wire : w.kind = kind /\ w.dst = p}

-------------------------------------------------------------------------------
(* The user.                                                                 *)

Inputs == UNION {[1 .. n -> Chars \union {EOL}] : n \in 1 .. USERBUF_SIZE - iobuf.cur}

\* process_user_input, with handle_user_input and process_get: the first line that
\* names a chunk file makes a request of it, unless there is one.
ProcessUserInput(bytes) ==
    /\ pc = "loop" /\ ~BufferFull(iobuf)
    /\ EOL \in Range(bytes) => iobuf.cur + Len(bytes) <= Buffered
    /\ LET cut  == CutLines(ReadInto(iobuf, bytes))
           gets == {k \in DOMAIN cut.lines : cut.lines[k] \in DOMAIN GetFile}
           get  == CHOOSE k \in gets : \A j \in gets : k <= j
           text == unfinished \o bytes
       IN  /\ iobuf' = cut.left
           /\ unfinished' = Split(text).rest
           /\ intact' = (intact /\ cut.lines = Split(text).lines)
           /\ IF gets # {} /\ request = << >>
              THEN request' = ParseChunkFile(GetFile[cut.lines[get]], "NOT_STARTED") /\ pc' = "count"
              ELSE UNCHANGED <<request, pc>>
    /\ UNCHANGED <<i, has, wire, mine, uploads, losses>>

\* The user types on a line that is longer than the buffer.
LineTooLong == /\ pc = "loop" /\ BufferFull(iobuf)
               /\ pc' = "exited"
               /\ UNCHANGED <<user, i, request, has, wire, mine, uploads, losses>>

-------------------------------------------------------------------------------
(* The flood.                                                                *)

\* Faulty variant of Increment: a narrower counter.
IncrementNarrow(n) == (n + 1) % ((UCHAR_MAX + 1) \div 2)
Increment(n)       == (n + 1) % (UCHAR_MAX + 1)

\* One iteration of make_packet's first loop; what it counts, MakeWhohas knows.
CountChunk == /\ pc = "count" /\ i < Len(request)
              /\ i' = Increment(i)
              /\ UNCHANGED <<user, pc, request, has, wire, mine, uploads, losses>>

\* The rest of make_packet, and whohas_flooding.
WhohasFlooding ==
    /\ pc = "count" /\ i >= Len(request)
    /\ wire' = wire \union
         UNION {Sent(Me, MapFile[l].addr, "whohas", packet) :
                  l \in {k \in PeerList : MapFile[k].id # Me}, packet \in MakeWhohas(request)}
    /\ pc' = "loop" /\ i' = 0
    /\ UNCHANGED <<user, request, has, mine, uploads, losses>>

-------------------------------------------------------------------------------
(* The handlers of process_inbound_udp.                                      *)

ReceiveWhohas(p) ==
    \E w \in Arrived("whohas", p) :
      LET answer == MakeIHave(has[p], w.hashes) IN
      /\ wire' = (wire \ {w}) \union
                   IF answer = {} THEN {} ELSE Sent(p, Source(w.src), "ihave", answer)
      /\ UNCHANGED <<user, pc, i, request, has, mine, uploads, losses>>

\* update_connections replaces what was known of the peer; pick_a_chunk takes the
\* first chunk of the packet that nobody sends.
ReceiveIHave ==
    \E w \in Arrived("ihave", Me) :
      LET from    == Source(w.src)
          offered == Offered(request, w.hashes)
          pick    == CHOOSE k \in offered : \A j \in offered : k <= j
      IN  /\ pc = "loop"
          /\ conns' = [conns EXCEPT ![PeerId(from)] = w.hashes]
          /\ heard' = [heard EXCEPT ![PeerId(from)] = @ \union w.hashes]
          /\ IF offered = {} THEN wire' = wire \ {w} /\ UNCHANGED <<request, asked>>
             ELSE LET gets == Sent(Me, from, "get", {request[pick].hash}) IN
                  /\ request' = [request EXCEPT ![pick].state = "RECEIVING"]
                  /\ wire' = (wire \ {w}) \union gets
                  /\ asked' = asked \union gets
          /\ UNCHANGED <<user, pc, i, has, uploads, losses>>

\* Faulty variant of UploadId: the id of the has-file, which need not be the place
\* of the chunk in the master file.
UploadIdFromHas(p, hash) == GetChunkId(hash, has[p])
UploadId(p, hash)        == GetChunkId(hash, Total)

ReceiveGet(p) ==
    \E w \in Arrived("get", p) : \E hash \in w.hashes :
      /\ wire' = wire \ {w}
      /\ IF FindChunk(hash, has[p])
         THEN uploads' = uploads \union {[at |-> p, peer |-> PeerId(Source(w.src)),
                                          chunk |-> UploadId(p, hash)]}
         ELSE UNCHANGED uploads
      /\ UNCHANGED <<user, pc, i, request, has, mine, losses>>

\* Another peer saves a chunk of a request of its own.
SaveChunkAt(p, hash) ==
    /\ p # Me /\ ~FindChunk(hash, has[p])
    /\ has' = [has EXCEPT ![p] = UpdateIHaveTable(@, hash, Total)]
    /\ UNCHANGED <<user, pc, i, request, wire, mine, uploads, losses>>

LosePacket == /\ losses < MaxLosses /\ losses' = losses + 1
              /\ \E w \in wire : wire' = wire \ {w}
              /\ UNCHANGED <<user, pc, i, request, has, mine, uploads>>

-------------------------------------------------------------------------------
Next == \/ \E bytes \in Inputs : ProcessUserInput(bytes)
        \/ LineTooLong \/ CountChunk \/ WhohasFlooding \/ ReceiveIHave \/ LosePacket
        \/ \E p \in Nodes : \/ ReceiveWhohas(p) \/ ReceiveGet(p)
                            \/ \E hash \in HashesOf(Total) : SaveChunkAt(p, hash)

Spec == Init /\ [][Next]_vars

\* make_packet's loop runs on.
FairSpec == Spec /\ WF_vars(CountChunk \/ WhohasFlooding)

-------------------------------------------------------------------------------
(* Properties.                                                               *)

\* The values the tables may hold; every packet's sender is on the peer list.
TypeOK == /\ iobuf \in Buffers /\ pc \in {"loop", "count", "exited"}
          /\ i \in 0 .. UCHAR_MAX
          /\ request \in Tables /\ has \in [Nodes -> Tables]
          /\ conns \in [Ids -> SUBSET Hashes] /\ conns[Unknown] = {}
          /\ uploads \subseteq [at : Nodes, peer : Nodes, chunk : Nat]

\* The lines cut out of the buffer are the lines typed, whatever pieces of them
\* each read() returned (the shift at input_buffer.c:46-48).
InputIntact == intact

\* What the tables say a peer has, that peer has, and no GET goes to a peer that
\* has not got the chunk: an IHAVE is booked for the peer that sent it, although
\* bt_peer_id (bt_parse.c:73) looks at the port alone and the simulated network
\* hides the rest of the address.
Attributed == /\ \A p \in Nodes : conns[p] \subseteq HashesOf(has[p])
              /\ \A g \in asked : g.hashes \subseteq HashesOf(has[g.dst])

\* A flood whose packets and answers all arrive reaches every provider with every
\* chunk wanted, however the hashes are dealt out to packets (network.c:85-116).
EveryProviderHeard ==
    /\ request # << >> /\ pc = "loop" /\ losses = 0
    /\ \A w \in wire : w.kind = "get"
    => \A p \in Nodes \ {Me} :
         HashesOf(request) \intersect HashesOf(ParseChunkFile(HasFile[p], "OWNED")) \subseteq heard[p]

\* An upload sends the asker the chunk it asked for: the id a peer keeps for it,
\* in its own has-file or another, is not what counts (peer.c:130).
UploadsWhatWasAsked ==
    \A u \in uploads : \E g \in asked, l \in 3 .. Len(MasterFile) :
      g.dst = u.at /\ g.src = u.peer /\ MasterFile[l].id = u.chunk /\ MasterFile[l].hash \in g.hashes

\* The loop over the chunks of a request ends (network.c:79).
FloodEnds == pc = "count" ~> pc = "loop"
================================================================================
