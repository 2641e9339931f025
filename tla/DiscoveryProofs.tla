---------------------------- MODULE DiscoveryProofs ----------------------------
(***************************************************************************)
(* Proofs about Discovery, for every peer list, all chunk files and every  *)
(* number of chunks in a packet.                                           *)
(***************************************************************************)
EXTENDS Discovery, InputProofs, FiniteSetTheorems

\* The master file lists chunks by numbers, does not begin with a comment, and has
\* all the chunks any peer has.
Catalogued ==
    /\ Unset \notin HashesOf(Total)
    /\ \A l \in 3 .. Len(MasterFile) : MasterFile[l].comment \/ MasterFile[l].id \in Nat
    /\ \A p \in Nodes : HashesOf(ParseChunkFile(HasFile[p], "OWNED")) \subseteq HashesOf(Total)

\* No two peers of the list have the same port (cf. the run with one port).
OwnPort ==
    \A l \in PeerList, p \in Nodes : MapFile[l].addr.port = Address[p].port => MapFile[l].id = p

-------------------------------------------------------------------------------
(* Chunk files.                                                              *)

HashValues == Hashes \union {Unset}

LEMMA TableFields ==
    ASSUME NEW table \in Tables
    PROVE  /\ Len(table) \in Nat /\ DOMAIN table = 1 .. Len(table)
           /\ \A k \in DOMAIN table : table[k] \in Entries
           /\ HashesOf(table) \subseteq HashValues
<1>1. Len(table) \in Nat /\ DOMAIN table = 1 .. Len(table) /\ \A k \in DOMAIN table : table[k] \in Entries
  BY DEF Tables
<1>2. \A e \in Entries : e.hash \in HashValues
  BY DEF Entries, HashValues
<1>3. HashesOf(table) \subseteq HashValues
  BY <1>1, <1>2 DEF HashesOf
<1> QED
  BY <1>1, <1>3

\* The fields of a line.
LEMMA LineFields ==
    ASSUME NEW lines \in Seq(Lines), NEW l \in 1 .. Len(lines)
    PROVE  /\ lines[l].comment \in BOOLEAN /\ lines[l].id \in Int \union {Unset}
           /\ lines[l].hash \in HashValues
<1>1. lines[l] \in Lines
  OBVIOUS
<1> QED
  BY <1>1 DEF Lines, HashValues

LEMMA PlainFacts ==
    ASSUME NEW lines \in Seq(Lines)
    PROVE  /\ Plain(lines) \subseteq 1 .. Len(lines) /\ Plain(lines) \in SUBSET Nat
           /\ IsFiniteSet(Plain(lines)) /\ Cardinality(Plain(lines)) \in 0 .. Len(lines)
<1>1. Len(lines) \in Nat /\ Plain(lines) \subseteq 1 .. Len(lines)
  BY DEF Plain
<1>2. IsFiniteSet(1 .. Len(lines)) /\ Cardinality(1 .. Len(lines)) = Len(lines)
  <2>1. /\ IsFiniteSet(1 .. Len(lines))
        /\ Cardinality(1 .. Len(lines)) = IF 1 > Len(lines) THEN 0 ELSE Len(lines) - 1 + 1
    BY <1>1, FS_Interval
  <2> QED
    BY <1>1, <2>1
<1>3. IsFiniteSet(Plain(lines)) /\ Cardinality(Plain(lines)) <= Len(lines)
  BY <1>1, <1>2, FS_Subset
<1>4. Cardinality(Plain(lines)) \in Nat
  BY <1>3, FS_CardinalityType
<1> QED
  BY <1>1, <1>3, <1>4

\* The hash read last is that of the last line before that is no comment.
LEMMA LastRead ==
    ASSUME NEW lines \in Seq(Lines), NEW l \in Nat
    PROVE  \/ PlainUpTo(lines, l) = {} /\ HashRead(lines, l) = Unset
           \/ \E k \in PlainUpTo(lines, l) : /\ \A j \in PlainUpTo(lines, l) : j <= k
                                             /\ HashRead(lines, l) = lines[k].hash
<1>1. CASE PlainUpTo(lines, l) = {}
  BY <1>1 DEF HashRead
<1>2. CASE PlainUpTo(lines, l) # {}
  <2>1. PlainUpTo(lines, l) \in SUBSET Nat /\ \A k \in PlainUpTo(lines, l) : k <= l
    BY PlainFacts DEF PlainUpTo
  <2>2. \E k \in PlainUpTo(lines, l) : \A j \in PlainUpTo(lines, l) : j <= k
    BY <1>2, <2>1, GreatestOf
  <2> DEFINE m == CHOOSE k \in PlainUpTo(lines, l) : \A j \in PlainUpTo(lines, l) : j <= k
  <2>3. m \in PlainUpTo(lines, l) /\ \A j \in PlainUpTo(lines, l) : j <= m
    BY <2>2
  <2>4. HashRead(lines, l) = lines[m].hash
    BY <1>2 DEF HashRead
  <2> QED
    BY <2>3, <2>4
<1> QED
  BY <1>1, <1>2

LEMMA HashReadType ==
    ASSUME NEW lines \in Seq(Lines), NEW l \in Nat
    PROVE  HashRead(lines, l) \in HashValues
<1>1. \A k \in 1 .. Len(lines) : lines[k].hash \in HashValues
  BY LineFields
<1>2. \A k \in PlainUpTo(lines, l) : k \in 1 .. Len(lines)
  BY PlainFacts DEF PlainUpTo
<1>3. Unset \in HashValues
  BY DEF HashValues
<1> QED
  BY <1>1, <1>2, <1>3, LastRead

LEMMA ParsedTable ==
    ASSUME NEW lines \in Seq(Lines), NEW s \in States
    PROVE  /\ ParseChunkFile(lines, s) \in Tables
           /\ DOMAIN ParseChunkFile(lines, s) = 1 .. Cardinality(Plain(lines))
           /\ \A k \in DOMAIN ParseChunkFile(lines, s) : ParseChunkFile(lines, s)[k].state = s
<1> DEFINE n == Cardinality(Plain(lines))
           entry(l) == [id |-> IF l \in Plain(lines) THEN lines[l].id ELSE Unset,
                        hash |-> HashRead(lines, l), state |-> s]
<1>1. n \in Nat
  BY PlainFacts
<1>2. \A l \in 1 .. n : entry(l) \in Entries
  <2> SUFFICES ASSUME NEW l \in 1 .. n PROVE entry(l) \in Entries
    OBVIOUS
  <2>1. HashRead(lines, l) \in HashValues
    BY <1>1, HashReadType
  <2>2. (IF l \in Plain(lines) THEN lines[l].id ELSE Unset) \in Int \union {Unset}
    <3>1. \A k \in 1 .. Len(lines) : lines[k].id \in Int \union {Unset}
      BY LineFields
    <3>2. Plain(lines) \subseteq 1 .. Len(lines)
      BY PlainFacts
    <3> QED
      BY <3>1, <3>2
  <2> QED
    BY <2>1, <2>2 DEF Entries, HashValues
<1>3. ParseChunkFile(lines, s) = [l \in 1 .. n |-> entry(l)]
  BY DEF ParseChunkFile
<1> HIDE DEF n, entry
<1>4. [l \in 1 .. n |-> entry(l)] \in Seq(Entries)
  BY <1>1, <1>2
<1>5. ParseChunkFile(lines, s) \in Tables /\ DOMAIN ParseChunkFile(lines, s) = 1 .. n
  BY <1>3, <1>4 DEF Tables
<1>6. \A k \in 1 .. n : ParseChunkFile(lines, s)[k].state = s
  BY <1>3 DEF entry
<1> QED
  BY <1>5, <1>6 DEF n

-------------------------------------------------------------------------------
(* Lookups by hash.                                                          *)

First(table, hash) == CHOOSE k \in DOMAIN table : /\ table[k].hash = hash
                                                  /\ \A j \in 1 .. k - 1 : table[j].hash # hash

LEMMA FirstFound ==
    ASSUME NEW table \in Tables, NEW hash, FindChunk(hash, table)
    PROVE  /\ First(table, hash) \in DOMAIN table /\ table[First(table, hash)].hash = hash
           /\ \A j \in 1 .. First(table, hash) - 1 : table[j].hash # hash
           /\ GetChunkId(hash, table) = table[First(table, hash)].id
<1> DEFINE S == {k \in DOMAIN table : table[k].hash = hash}
<1>1. S \in SUBSET Nat /\ S # {}
  <2>1. DOMAIN table \subseteq Nat
    BY TableFields
  <2>2. \E k \in DOMAIN table : table[k].hash = hash
    BY DEF FindChunk
  <2> QED
    BY <2>1, <2>2
<1>2. PICK k \in S : \A j \in S : k <= j
  <2> HIDE DEF S
  <2> QED
    BY <1>1, LeastOf
<1>3. \A j \in 1 .. k - 1 : table[j].hash # hash
  <2> SUFFICES ASSUME NEW j \in 1 .. k - 1, table[j].hash = hash PROVE FALSE
    OBVIOUS
  <2>1. k \in Nat /\ j \in DOMAIN table /\ j < k
    BY TableFields, <1>1
  <2>2. k <= j
    BY <2>1, <1>2
  <2> QED
    BY <2>1, <2>2
<1>4. /\ First(table, hash) \in DOMAIN table /\ table[First(table, hash)].hash = hash
      /\ \A j \in 1 .. First(table, hash) - 1 : table[j].hash # hash
  BY <1>3 DEF First
<1>5. GetChunkId(hash, table) = table[First(table, hash)].id
  BY DEF GetChunkId, First
<1> QED
  BY <1>4, <1>5

LEMMA FindChunkIs == \A hash, table : FindChunk(hash, table) <=> hash \in HashesOf(table)
BY DEF FindChunk, HashesOf

-------------------------------------------------------------------------------
(* The master file's table.                                                  *)

LEMMA TotalType ==
    Total \in Tables /\ SubSeq(MasterFile, 3, Len(MasterFile)) \in Seq(Lines)
<1>1. MasterFile \in Seq(Lines) /\ Len(MasterFile) \in Nat
  BY DiscoveryAssumption DEF DiscoveryAssumption
<1>2. SubSeq(MasterFile, 3, Len(MasterFile)) \in Seq(Lines)
  <2>1. \A k \in 3 .. Len(MasterFile) : MasterFile[k] \in Lines
    BY <1>1
  <2> QED
    BY <1>1, <2>1
<1>3. "OWNED" \in States
  BY DEF States
<1> QED
  BY <1>2, <1>3, ParsedTable DEF Total, ParseMasterFile

\* The chunk id get_chunk_id finds in the master file's table belongs to a line of the
\* file with that hash: a comment's entry has the hash of a line before it.
LEMMA MasterId ==
    ASSUME Catalogued, NEW hash \in HashesOf(Total)
    PROVE  \E l \in 3 .. Len(MasterFile) : /\ ~MasterFile[l].comment /\ MasterFile[l].hash = hash
                                           /\ MasterFile[l].id = GetChunkId(hash, Total)
<1> DEFINE lines == SubSeq(MasterFile, 3, Len(MasterFile))
           f == First(Total, hash)
<1>1. Total \in Tables /\ lines \in Seq(Lines) /\ Total = ParseChunkFile(lines, "OWNED")
  BY TotalType DEF Total, ParseMasterFile
<1>2. /\ f \in DOMAIN Total /\ Total[f].hash = hash /\ \A j \in 1 .. f - 1 : Total[j].hash # hash
      /\ GetChunkId(hash, Total) = Total[f].id
  BY <1>1, FindChunkIs, FirstFound
<1>3. /\ Len(MasterFile) \in Nat
      /\ \A l \in 1 .. Len(lines) : l + 2 \in 3 .. Len(MasterFile) /\ lines[l] = MasterFile[l + 2]
  <2>1. MasterFile \in Seq(Lines) /\ Len(MasterFile) \in Nat
    BY DiscoveryAssumption DEF DiscoveryAssumption
  <2>2. Len(lines) = IF 3 <= Len(MasterFile) THEN Len(MasterFile) - 2 ELSE 0
    BY <2>1
  <2>3. \A l \in 1 .. Len(lines) : lines[l] = MasterFile[3 + l - 1]
    BY <2>1, <2>2
  <2> HIDE DEF lines
  <2>4. ASSUME NEW l \in 1 .. Len(lines)
        PROVE  l + 2 \in 3 .. Len(MasterFile) /\ lines[l] = MasterFile[l + 2]
    <3>1. 3 + l - 1 = l + 2
      BY <2>1, <2>2
    <3> QED
      BY <3>1, <2>1, <2>2, <2>3
  <2> QED
    BY <2>1, <2>4
<1> HIDE DEF lines, f
<1>4. /\ DOMAIN Total = 1 .. Cardinality(Plain(lines)) /\ Cardinality(Plain(lines)) \in 0 .. Len(lines)
      /\ Plain(lines) \subseteq 1 .. Len(lines) /\ Len(lines) \in Nat
  <2>1. "OWNED" \in States
    BY DEF States
  <2> QED
    BY <1>1, <2>1, ParsedTable, PlainFacts
<1>5. \A l \in DOMAIN Total : /\ Total[l].hash = HashRead(lines, l)
                              /\ Total[l].id = IF l \in Plain(lines) THEN lines[l].id ELSE Unset
  BY <1>1, <1>4 DEF ParseChunkFile
<1>6. f \in Nat /\ f \in 1 .. Len(lines) /\ HashRead(lines, f) = hash
  BY <1>2, <1>4, <1>5
<1>7. PICK k \in PlainUpTo(lines, f) : /\ \A j \in PlainUpTo(lines, f) : j <= k
                                       /\ HashRead(lines, f) = lines[k].hash
  <2>1. hash # Unset
    BY DEF Catalogued
  <2> QED
    BY <1>1, <1>6, <2>1, LastRead
<1>8. k \in Plain(lines) /\ k <= f /\ k \in 1 .. Len(lines) /\ k \in Nat
  BY <1>4, <1>7 DEF PlainUpTo
<1>9. k = f
  <2> SUFFICES ASSUME k < f PROVE FALSE
    BY <1>6, <1>8
  <2>1. k \in 1 .. f - 1 /\ k \in DOMAIN Total
    BY <1>2, <1>4, <1>6, <1>8
  <2>2. HashRead(lines, k) = lines[k].hash
    <3>1. k \in PlainUpTo(lines, k)
      BY <1>8 DEF PlainUpTo
    <3>2. PICK m \in PlainUpTo(lines, k) : /\ \A j \in PlainUpTo(lines, k) : j <= m
                                           /\ HashRead(lines, k) = lines[m].hash
      BY <1>1, <1>8, <3>1, LastRead
    <3>3. m <= k /\ k <= m /\ m \in Nat
      BY <1>4, <3>1, <3>2 DEF PlainUpTo
    <3>4. m = k
      BY <3>3, <1>8
    <3> QED
      BY <3>2, <3>4
  <2>3. Total[k].hash = hash
    BY <1>5, <1>6, <1>7, <2>1, <2>2
  <2> QED
    BY <1>2, <2>1, <2>3
<1>10. /\ f + 2 \in 3 .. Len(MasterFile) /\ lines[f] = MasterFile[f + 2]
       /\ f \in Plain(lines) /\ f \in DOMAIN Total
  BY <1>2, <1>3, <1>6, <1>8, <1>9
<1>11. ~lines[f].comment /\ lines[f].hash = hash /\ lines[f].id = GetChunkId(hash, Total)
  BY <1>2, <1>5, <1>6, <1>7, <1>9, <1>10 DEF Plain
<1> QED
  BY <1>10, <1>11

\* So it is a number.
LEMMA MasterIdIsNat ==
    ASSUME Catalogued, NEW hash \in HashesOf(Total)
    PROVE  GetChunkId(hash, Total) \in Nat /\ hash \in Hashes
<1>1. GetChunkId(hash, Total) \in Nat
  BY MasterId DEF Catalogued
<1>2. hash \in HashValues /\ hash # Unset
  BY TotalType, TableFields DEF Catalogued
<1> QED
  BY <1>1, <1>2 DEF HashValues

-------------------------------------------------------------------------------
(* Ids and addresses.                                                        *)

LEMMA AddressFacts ==
    ASSUME NEW p \in Nodes
    PROVE  /\ p \in Nat /\ p # Unknown
           /\ Address[p].ip \in Nat /\ Address[p].port \in Nat
           /\ Address[p] = [ip |-> Address[p].ip, port |-> Address[p].port]
           /\ Source(p).port = Address[p].port
<1>1. p \in Nat /\ p # Unknown
  BY DiscoveryAssumption DEF DiscoveryAssumption, Unknown
<1>2. Address[p] \in Addresses
  BY DiscoveryAssumption DEF DiscoveryAssumption
<1>3. Source(p).port = Address[p].port
  BY DEF Source
<1> QED
  BY <1>1, <1>2, <1>3 DEF Addresses

\* Every peer is listed.
LEMMA EveryoneListed ==
    ASSUME NEW p \in Nodes
    PROVE  \E l \in PeerList : MapFile[l].id = p /\ MapFile[l].addr = Address[p]
BY DiscoveryAssumption DEF DiscoveryAssumption, PeerList

\* bt_peer_id finds a peer with the sender's port.
LEMMA PeerIdFound ==
    ASSUME NEW p \in Nodes
    PROVE  /\ PeerId(Source(p)) \in Nodes
           /\ \E l \in PeerList : /\ MapFile[l].addr.port = Address[p].port
                                  /\ MapFile[l].id = PeerId(Source(p))
<1> DEFINE found == {l \in PeerList : MapFile[l].addr.port = Source(p).port}
           pick  == CHOOSE l \in found : \A j \in found : j <= l
<1>1. /\ MapFile \in Seq([comment : BOOLEAN, id : Nat, addr : Addresses])
      /\ \A l \in DOMAIN MapFile : MapFile[l].comment \/ MapFile[l].id \in Nodes
  BY DiscoveryAssumption DEF DiscoveryAssumption
<1>2. Len(MapFile) \in Nat /\ found \in SUBSET Nat /\ \A l \in found : l <= Len(MapFile)
  <2>1. Len(MapFile) \in Nat /\ DOMAIN MapFile = 1 .. Len(MapFile)
    BY <1>1
  <2> QED
    BY <2>1 DEF PeerList
<1>3. found # {}
  <2>1. PICK l \in PeerList : MapFile[l].id = p /\ MapFile[l].addr = Address[p]
    BY EveryoneListed
  <2>2. MapFile[l].addr.port = Source(p).port
    BY <2>1, AddressFacts
  <2> QED
    BY <2>2
<1>4. \E l \in found : \A j \in found : j <= l
  <2> HIDE DEF found
  <2> QED
    BY <1>2, <1>3, GreatestOf
<1>5. pick \in found
  <2> HIDE DEF found
  <2> QED
    BY <1>4
<1>6. PeerId(Source(p)) = MapFile[pick].id
  BY <1>3 DEF PeerId
<1> HIDE DEF pick
<1>7. pick \in PeerList /\ MapFile[pick].addr.port = Address[p].port
  BY <1>5, AddressFacts
<1>8. MapFile[pick].id \in Nodes
  BY <1>1, <1>7 DEF PeerList
<1> QED
  BY <1>6, <1>7, <1>8

\* With a port each, bt_peer_id finds the sender.
LEMMA PeerIdIsSender ==
    ASSUME OwnPort, NEW p \in Nodes
    PROVE  PeerId(Source(p)) = p
BY PeerIdFound DEF OwnPort

\* With a port each, only one peer can get a packet sent to an address reported.
LEMMA OnlyReceiver ==
    ASSUME OwnPort, NEW p \in Nodes, NEW q \in Nodes, Address[q] = Routed(Source(p))
    PROVE  q = p
<1>1. Routed(Source(p)).port = Address[p].port
  <2>1. Source(p) = IF Spiffy THEN [ip |-> AnyIP, port |-> Address[p].port] ELSE Address[p]
    BY DEF Source
  <2>2. Routed(Source(p)).port = Source(p).port
    <3>1. CASE Spiffy
      <4>1. Source(p) = [ip |-> AnyIP, port |-> Address[p].port]
        BY <2>1, <3>1
      <4> QED
        BY <3>1, <4>1 DEF Routed
    <3>2. CASE ~Spiffy
      BY <3>2 DEF Routed
    <3> QED
      BY <3>1, <3>2
  <2> QED
    BY <2>2, AddressFacts
<1>2. Address[q].port = Address[p].port
  BY <1>1
<1>3. PICK l \in PeerList : MapFile[l].id = q /\ MapFile[l].addr = Address[q]
  BY EveryoneListed
<1> QED
  BY <1>2, <1>3 DEF OwnPort

-------------------------------------------------------------------------------
(* Packets.                                                                  *)

Packets == [kind : {"whohas", "ihave", "get"}, src : Nodes, dst : Nodes, hashes : SUBSET HashValues]

LEMMA SentPackets ==
    ASSUME NEW p \in Nodes, NEW addr, NEW kind \in {"whohas", "ihave", "get"},
           NEW hashes \in SUBSET HashValues
    PROVE  /\ Sent(p, addr, kind, hashes) \subseteq Packets
           /\ \A w \in Sent(p, addr, kind, hashes) :
                /\ w.kind = kind /\ w.src = p /\ w.hashes = hashes
                /\ w.dst \in Nodes /\ Address[w.dst] = Routed(addr)
<1> SUFFICES ASSUME NEW w \in Sent(p, addr, kind, hashes)
             PROVE  /\ w \in Packets
                    /\ w.kind = kind /\ w.src = p /\ w.hashes = hashes
                    /\ w.dst \in Nodes /\ Address[w.dst] = Routed(addr)
  OBVIOUS
<1>1. PICK q \in Nodes : /\ Address[q] = Routed(addr)
                         /\ w = [kind |-> kind, src |-> p, dst |-> q, hashes |-> hashes]
  BY DEF Sent
<1>2. /\ w.kind = kind /\ w.src = p /\ w.dst = q /\ w.hashes = hashes
      /\ w \in Packets
  BY <1>1 DEF Packets
<1> QED
  BY <1>1, <1>2

LEMMA PacketFields ==
    ASSUME NEW w \in Packets
    PROVE  w.src \in Nodes /\ w.dst \in Nodes /\ w.hashes \in SUBSET HashValues
BY DEF Packets

\* The hashes asked for are hashes of the table.
LEMMA AskedHashes ==
    ASSUME NEW table \in Tables, NEW packet \in MakeWhohas(table)
    PROVE  packet \in SUBSET HashValues
<1>1. packet \subseteq HashesOf(table)
  <2>1. \A h \in packet : \E k \in Wanted(table) : h = table[k].hash
    BY DEF MakeWhohas
  <2> QED
    BY <2>1 DEF Wanted, HashesOf
<1> QED
  BY <1>1, TableFields

-------------------------------------------------------------------------------
(* Types.                                                                    *)

\* What the peers say they have they have; and what they have is in the master file.
Honest(ws, h) == \A w \in ws : w.kind = "ihave" => w.hashes \subseteq HashesOf(h[w.src])
Known(h)      == \A p \in Nodes : HashesOf(h[p]) \subseteq HashesOf(Total)

TypeInv ==
    /\ iobuf \in Buffers /\ pc \in {"loop", "count", "exited"} /\ i \in 0 .. UCHAR_MAX
    /\ request \in Tables /\ has \in [Nodes -> Tables] /\ Known(has)
    /\ wire \subseteq Packets /\ Honest(wire, has)
    /\ conns \in [Ids -> SUBSET Hashes] /\ conns[Unknown] = {}
    /\ uploads \subseteq [at : Nodes, peer : Nodes, chunk : Nat]

LEMMA FilesParsed ==
    /\ \A p \in Nodes : ParseChunkFile(HasFile[p], "OWNED") \in Tables
    /\ \A line \in DOMAIN GetFile :
         /\ ParseChunkFile(GetFile[line], "NOT_STARTED") \in Tables
         /\ \A k \in DOMAIN ParseChunkFile(GetFile[line], "NOT_STARTED") :
              ParseChunkFile(GetFile[line], "NOT_STARTED")[k].state = "NOT_STARTED"
<1>1. /\ \A p \in Nodes : HasFile[p] \in Seq(Lines)
      /\ \A line \in DOMAIN GetFile : GetFile[line] \in Seq(Lines)
  BY DiscoveryAssumption DEF DiscoveryAssumption
<1>2. "OWNED" \in States /\ "NOT_STARTED" \in States
  BY DEF States
<1>3. \A p \in Nodes : ParseChunkFile(HasFile[p], "OWNED") \in Tables
  BY <1>1, <1>2, ParsedTable
<1>4. ASSUME NEW line \in DOMAIN GetFile
      PROVE  /\ ParseChunkFile(GetFile[line], "NOT_STARTED") \in Tables
             /\ \A k \in DOMAIN ParseChunkFile(GetFile[line], "NOT_STARTED") :
                  ParseChunkFile(GetFile[line], "NOT_STARTED")[k].state = "NOT_STARTED"
  BY <1>1, <1>2, ParsedTable
<1> QED
  BY <1>3, <1>4

LEMMA CreatedBuffer ==
    CreateUserbuf \in Buffers /\ Holds(CreateUserbuf, << >>, 0) /\ << >> \in Texts
<1>1. /\ \A k \in Places : CreateUserbuf.buf[k] = NUL
      /\ CreateUserbuf.cur = 0
  BY DEF CreateUserbuf
<1>2. CreateUserbuf \in Buffers
  BY BufferAssumption, SizeIsNat DEF CreateUserbuf, Buffers
<1>3. << >> \in Texts /\ Len(<< >>) = 0
  BY DEF Texts
<1>4. 0 \in 0 .. Len(<< >>) /\ CreateUserbuf.cur = Len(<< >>) - 0 /\ CreateUserbuf.cur <= USERBUF_SIZE
  BY <1>1, <1>3, BufferAssumption, SizeIsNat
<1>5. /\ \A k \in 0 .. CreateUserbuf.cur - 1 : CreateUserbuf.buf[k] = << >>[0 + 1 + k]
      /\ \A k \in CreateUserbuf.cur .. USERBUF_SIZE : CreateUserbuf.buf[k] = NUL
  BY <1>1 DEF Places
<1> QED
  BY <1>2, <1>3, <1>4, <1>5 DEF Holds

LEMMA TypeInit == Catalogued /\ Init => TypeInv
<1> SUFFICES ASSUME Catalogued, Init PROVE TypeInv
  OBVIOUS
<1>1. iobuf \in Buffers /\ pc \in {"loop", "count", "exited"} /\ i \in 0 .. UCHAR_MAX
  BY CreatedBuffer, DiscoveryAssumption DEF Init, DiscoveryAssumption
<1>2. request \in Tables
  BY DEF Init, Tables
<1>3. has = [p \in Nodes |-> ParseChunkFile(HasFile[p], "OWNED")]
  BY DEF Init
<1>4. has \in [Nodes -> Tables] /\ Known(has)
  BY <1>3, FilesParsed DEF Catalogued, Known
<1>5. wire \subseteq Packets /\ Honest(wire, has)
  BY DEF Init, Honest
<1>6. conns \in [Ids -> SUBSET Hashes] /\ conns[Unknown] = {}
  BY DEF Init, Ids
<1>7. uploads \subseteq [at : Nodes, peer : Nodes, chunk : Nat]
  BY DEF Init
<1> QED
  BY <1>1, <1>2, <1>4, <1>5, <1>6, <1>7 DEF TypeInv

\* What the user types.
LEMMA InputFacts ==
    ASSUME iobuf \in Buffers, NEW bytes \in Inputs
    PROVE  bytes \in Texts /\ bytes \in Seq(Bytes) /\ iobuf.cur + Len(bytes) <= USERBUF_SIZE
<1>1. iobuf.cur \in Nat /\ USERBUF_SIZE \in Nat
  BY BufferAssumption, BufferFields, SizeIsNat
<1>2. PICK n \in 1 .. USERBUF_SIZE - iobuf.cur : bytes \in [1 .. n -> Chars \union {EOL}]
  BY DEF Inputs
<1>3. bytes \in Seq(Chars \union {EOL}) /\ Len(bytes) = n
  BY <1>1, <1>2
<1>4. bytes \in Seq(Bytes)
  BY <1>1, <1>2 DEF Bytes
<1> QED
  BY <1>1, <1>3, <1>4 DEF Texts

\* A line that makes a request names a chunk file.
LEMMA NewRequest ==
    ASSUME iobuf \in Buffers, NEW bytes \in Inputs, ProcessUserInput(bytes)
    PROVE  \/ request' = request /\ pc' = pc
           \/ /\ pc = "loop" /\ pc' = "count"
              /\ \E line \in DOMAIN GetFile :
                   request' = ParseChunkFile(GetFile[line], "NOT_STARTED")
<1> DEFINE cut == CutLines(ReadInto(iobuf, bytes))
           gets == {k \in DOMAIN cut.lines : cut.lines[k] \in DOMAIN GetFile}
           get  == CHOOSE k \in gets : \A j \in gets : k <= j
           line == cut.lines[get]
<1>1. /\ pc = "loop"
      /\ \/ /\ gets # {} /\ pc' = "count"
            /\ request' = ParseChunkFile(GetFile[line], "NOT_STARTED")
         \/ request' = request /\ pc' = pc
  BY DEF ProcessUserInput
<1>2. cut.lines \in Seq(Seq(Bytes))
  BY BufferAssumption, InputFacts, ReadIntoType, CutLinesType
<1> HIDE DEF cut
<1>3. gets \in SUBSET Nat
  BY <1>2
<1>4. ASSUME gets # {} PROVE line \in DOMAIN GetFile
  <2>1. get \in gets
    <3> HIDE DEF gets
    <3>1. \E k \in gets : \A j \in gets : k <= j
      BY <1>3, <1>4, LeastOf
    <3> QED
      BY <3>1
  <2> HIDE DEF get
  <2> QED
    BY <2>1
<1> HIDE DEF line, gets
<1> QED
  BY <1>1, <1>4

LEMMA TypeInput ==
    ASSUME TypeInv, NEW bytes \in Inputs, ProcessUserInput(bytes)
    PROVE  TypeInv'
<1> DEFINE cut == CutLines(ReadInto(iobuf, bytes))
<1>1. ReadInto(iobuf, bytes) \in Buffers
  BY BufferAssumption, InputFacts, ReadIntoType DEF TypeInv
<1>2. cut.left \in Buffers
  BY BufferAssumption, <1>1, CutLinesType
<1>3. /\ iobuf' = cut.left
      /\ i' = i /\ has' = has /\ wire' = wire /\ conns' = conns /\ uploads' = uploads
  BY DEF ProcessUserInput, mine
<1> HIDE DEF cut
<1>4. \/ request' = request /\ pc' = pc
      \/ /\ pc = "loop" /\ pc' = "count"
         /\ \E line \in DOMAIN GetFile :
              request' = ParseChunkFile(GetFile[line], "NOT_STARTED")
  BY NewRequest DEF TypeInv
<1>5. request' \in Tables /\ pc' \in {"loop", "count", "exited"}
  BY <1>4, FilesParsed DEF TypeInv
<1> QED
  BY <1>2, <1>3, <1>5 DEF TypeInv

LEMMA TypeTooLong == ASSUME TypeInv, LineTooLong PROVE TypeInv'
<1>1. /\ pc' = "exited" /\ iobuf' = iobuf /\ i' = i /\ request' = request /\ has' = has
      /\ wire' = wire /\ conns' = conns /\ uploads' = uploads
  BY DEF LineTooLong, user, mine
<1> QED
  BY <1>1 DEF TypeInv

LEMMA TypeCount == ASSUME TypeInv, CountChunk PROVE TypeInv'
<1>1. /\ i' = (i + 1) % (UCHAR_MAX + 1)
      /\ pc' = pc /\ iobuf' = iobuf /\ request' = request /\ has' = has
      /\ wire' = wire /\ conns' = conns /\ uploads' = uploads
  BY DEF CountChunk, Increment, user, mine
<1>2. i + 1 \in Int /\ UCHAR_MAX \in Nat
  BY DiscoveryAssumption DEF DiscoveryAssumption, TypeInv
<1>3. i' \in 0 .. UCHAR_MAX
  BY <1>1, <1>2, ModBelow
<1> QED
  BY <1>1, <1>3 DEF TypeInv

\* The packets of a flood.
Flooded == UNION {Sent(Me, MapFile[l].addr, "whohas", packet) :
                    l \in {k \in PeerList : MapFile[k].id # Me}, packet \in MakeWhohas(request)}

LEMMA FloodedPackets ==
    ASSUME request \in Tables
    PROVE  Flooded \subseteq Packets /\ \A w \in Flooded : w.kind = "whohas" /\ w.src = Me
<1>1. Me \in Nodes
  BY DiscoveryAssumption DEF DiscoveryAssumption
<1> SUFFICES ASSUME NEW w \in Flooded
             PROVE  w \in Packets /\ w.kind = "whohas" /\ w.src = Me
  OBVIOUS
<1>2. PICK l \in PeerList, packet \in MakeWhohas(request) :
         w \in Sent(Me, MapFile[l].addr, "whohas", packet)
  BY DEF Flooded
<1>3. packet \in SUBSET HashValues
  BY AskedHashes
<1> DEFINE addr == MapFile[l].addr
<1>4. w \in Sent(Me, addr, "whohas", packet)
  BY <1>2
<1> HIDE DEF addr
<1>5. "whohas" \in {"whohas", "ihave", "get"}
  OBVIOUS
<1> QED
  BY <1>1, <1>3, <1>4, <1>5, SentPackets

LEMMA TypeFlooding == ASSUME TypeInv, WhohasFlooding PROVE TypeInv'
<1>1. /\ wire' = wire \union Flooded
      /\ pc' = "loop" /\ i' = 0 /\ iobuf' = iobuf /\ request' = request /\ has' = has
      /\ conns' = conns /\ uploads' = uploads
  BY DEF WhohasFlooding, Flooded, user, mine
<1>2. Flooded \subseteq Packets /\ \A w \in Flooded : w.kind # "ihave"
  BY FloodedPackets DEF TypeInv
<1>3. wire' \subseteq Packets /\ Honest(wire', has)
  BY <1>1, <1>2 DEF TypeInv, Honest
<1>4. 0 \in 0 .. UCHAR_MAX
  BY DiscoveryAssumption DEF DiscoveryAssumption
<1> QED
  BY <1>1, <1>3, <1>4 DEF TypeInv

\* The packets of an answer.
Answer(p, w) == IF MakeIHave(has[p], w.hashes) = {} THEN {}
                ELSE Sent(p, Source(w.src), "ihave", MakeIHave(has[p], w.hashes))

LEMMA AnswerPackets ==
    ASSUME NEW p \in Nodes, NEW w \in Packets
    PROVE  /\ Answer(p, w) \subseteq Packets
           /\ \A a \in Answer(p, w) : /\ a.kind = "ihave" /\ a.src = p
                                      /\ a.hashes = w.hashes \intersect HashesOf(has[p])
                                      /\ Address[a.dst] = Routed(Source(w.src))
<1>1. MakeIHave(has[p], w.hashes) = w.hashes \intersect HashesOf(has[p])
  BY FindChunkIs DEF MakeIHave
<1>2. w.hashes \intersect HashesOf(has[p]) \in SUBSET HashValues
  BY PacketFields
<1> DEFINE answer == MakeIHave(has[p], w.hashes)
<1>3. CASE answer = {}
  BY <1>3 DEF Answer
<1>4. CASE answer # {}
  <2>1. Answer(p, w) = Sent(p, Source(w.src), "ihave", answer)
    BY <1>4 DEF Answer
  <2>2. answer \in SUBSET HashValues
    BY <1>1, <1>2
  <2> HIDE DEF answer
  <2>3. /\ Answer(p, w) \subseteq Packets
        /\ \A a \in Answer(p, w) : /\ a.kind = "ihave" /\ a.src = p /\ a.hashes = answer
                                   /\ Address[a.dst] = Routed(Source(w.src))
    BY <2>1, <2>2, SentPackets
  <2> QED
    BY <1>1, <2>3 DEF answer
<1> QED
  BY <1>3, <1>4

LEMMA TypeWhohas == ASSUME TypeInv, NEW p \in Nodes, ReceiveWhohas(p) PROVE TypeInv'
<1>1. PICK w \in wire : /\ wire' = (wire \ {w}) \union Answer(p, w)
                        /\ pc' = pc /\ i' = i /\ iobuf' = iobuf /\ request' = request /\ has' = has
                        /\ conns' = conns /\ uploads' = uploads
  BY DEF ReceiveWhohas, Answer, Arrived, user, mine
<1>2. w \in Packets
  BY DEF TypeInv
<1>3. /\ Answer(p, w) \subseteq Packets
      /\ \A a \in Answer(p, w) : a.src = p /\ a.hashes \subseteq HashesOf(has[p])
  BY <1>2, AnswerPackets
<1>4. Honest(wire', has)
  BY <1>1, <1>3 DEF TypeInv, Honest
<1>5. wire' \subseteq Packets
  BY <1>1, <1>3 DEF TypeInv
<1> QED
  BY <1>1, <1>4, <1>5 DEF TypeInv

\* What ReceiveIHave does, field by field.
Pick(w) == CHOOSE k \in Offered(request, w.hashes) : \A j \in Offered(request, w.hashes) : k <= j
Gets(w) == Sent(Me, Source(w.src), "get", {request[Pick(w)].hash})

LEMMA IHaveStep ==
    ASSUME ReceiveIHave
    PROVE  \E w \in wire :
             /\ w.kind = "ihave" /\ w.dst = Me /\ pc = "loop"
             /\ conns' = [conns EXCEPT ![PeerId(Source(w.src))] = w.hashes]
             /\ heard' = [heard EXCEPT ![PeerId(Source(w.src))] = @ \union w.hashes]
             /\ \/ wire' = wire \ {w} /\ request' = request /\ asked' = asked
                \/ /\ Offered(request, w.hashes) # {}
                   /\ request' = [request EXCEPT ![Pick(w)].state = "RECEIVING"]
                   /\ wire' = (wire \ {w}) \union Gets(w)
                   /\ asked' = asked \union Gets(w)
             /\ UNCHANGED <<iobuf, unfinished, intact, pc, i, has, uploads, losses>>
BY Zenon DEF ReceiveIHave, Arrived, Pick, Gets, user

LEMMA Picked ==
    ASSUME request \in Tables, NEW w \in Packets, Offered(request, w.hashes) # {}
    PROVE  /\ Pick(w) \in DOMAIN request /\ request[Pick(w)].hash \in w.hashes
           /\ Gets(w) \subseteq Packets
           /\ \A g \in Gets(w) : /\ g.kind = "get" /\ g.src = Me /\ g.hashes = {request[Pick(w)].hash}
                                 /\ Address[g.dst] = Routed(Source(w.src))
<1> DEFINE S == Offered(request, w.hashes)
<1>1. S \in SUBSET Nat /\ S # {}
  <2>1. DOMAIN request \subseteq Nat
    BY TableFields
  <2> QED
    BY <2>1 DEF Offered, Wanted
<1>2. Pick(w) \in S
  <2>1. \E k \in S : \A j \in S : k <= j
    <3> HIDE DEF S
    <3> QED
      BY <1>1, LeastOf
  <2> QED
    BY <2>1 DEF Pick
<1>3. Pick(w) \in DOMAIN request /\ request[Pick(w)].hash \in w.hashes
  BY <1>2 DEF Offered, Wanted
<1>4. {request[Pick(w)].hash} \in SUBSET HashValues /\ Me \in Nodes
  BY <1>3, PacketFields, DiscoveryAssumption DEF DiscoveryAssumption
<1> QED
  BY <1>3, <1>4, SentPackets DEF Gets

LEMMA RequestChanged ==
    ASSUME request \in Tables, NEW k \in DOMAIN request
    PROVE  /\ [request EXCEPT ![k].state = "RECEIVING"] \in Tables
           /\ DOMAIN [request EXCEPT ![k].state = "RECEIVING"] = DOMAIN request
           /\ \A j \in DOMAIN request : [request EXCEPT ![k].state = "RECEIVING"][j].hash = request[j].hash
<1> DEFINE e == [request[k] EXCEPT !.state = "RECEIVING"]
           r == [request EXCEPT ![k].state = "RECEIVING"]
<1>1. request \in Seq(Entries) /\ request[k] \in Entries
  BY DEF Tables
<1>2. e \in Entries /\ e.hash = request[k].hash
  BY <1>1 DEF Entries, States
<1>3. r = [request EXCEPT ![k] = e]
  OBVIOUS
<1> HIDE DEF e, r
<1>4. r \in Seq(Entries) /\ DOMAIN r = DOMAIN request
  BY <1>1, <1>2, <1>3
<1>5. \A j \in DOMAIN request : r[j] = IF j = k THEN e ELSE request[j]
  BY <1>1, <1>3
<1>6. \A j \in DOMAIN request : r[j].hash = request[j].hash
  BY <1>2, <1>5
<1> QED
  BY <1>4, <1>6 DEF Tables, r

LEMMA TypeIHave == ASSUME Catalogued, TypeInv, ReceiveIHave PROVE TypeInv'
<1>1. PICK w \in wire :
             /\ w.kind = "ihave" /\ w.dst = Me /\ pc = "loop"
             /\ conns' = [conns EXCEPT ![PeerId(Source(w.src))] = w.hashes]
             /\ \/ wire' = wire \ {w} /\ request' = request
                \/ /\ Offered(request, w.hashes) # {}
                   /\ request' = [request EXCEPT ![Pick(w)].state = "RECEIVING"]
                   /\ wire' = (wire \ {w}) \union Gets(w)
             /\ pc' = pc /\ iobuf' = iobuf /\ i' = i /\ has' = has /\ uploads' = uploads
  BY IHaveStep
<1>2. w \in Packets /\ w.src \in Nodes /\ w.hashes \in SUBSET HashValues
  BY PacketFields DEF TypeInv
<1>3. w.hashes \in SUBSET Hashes
  <2>1. w.hashes \subseteq HashesOf(Total)
    BY <1>1, <1>2 DEF TypeInv, Honest, Known
  <2> QED
    BY <2>1, MasterIdIsNat
<1>4. conns' \in [Ids -> SUBSET Hashes] /\ conns'[Unknown] = {}
  <2>1. PeerId(Source(w.src)) \in Nodes
    BY <1>2, PeerIdFound
  <2> DEFINE q == PeerId(Source(w.src))
  <2> HIDE DEF q
  <2>2. q \in Ids /\ q # Unknown
    BY <2>1, AddressFacts DEF Ids, q
  <2>3. conns' = [conns EXCEPT ![q] = w.hashes]
    BY <1>1 DEF q
  <2>4. conns \in [Ids -> SUBSET Hashes] /\ conns[Unknown] = {}
    BY DEF TypeInv
  <2> QED
    BY <1>3, <2>2, <2>3, <2>4
<1>5. CASE wire' = wire \ {w} /\ request' = request
  <2>1. wire' \subseteq Packets /\ Honest(wire', has)
    BY <1>5 DEF TypeInv, Honest
  <2>2. request' \in Tables
    BY <1>5 DEF TypeInv
  <2> QED
    BY <1>1, <1>4, <2>1, <2>2 DEF TypeInv
<1>6. CASE /\ Offered(request, w.hashes) # {}
           /\ request' = [request EXCEPT ![Pick(w)].state = "RECEIVING"]
           /\ wire' = (wire \ {w}) \union Gets(w)
  <2>1. request \in Tables
    BY DEF TypeInv
  <2>2. /\ Pick(w) \in DOMAIN request /\ Gets(w) \subseteq Packets
        /\ \A g \in Gets(w) : g.kind = "get"
    BY <1>2, <1>6, <2>1, Picked
  <2>3. request' \in Tables
    BY <1>6, <2>1, <2>2, RequestChanged
  <2>4. wire' \subseteq Packets /\ Honest(wire', has)
    BY <1>6, <2>2 DEF TypeInv, Honest
  <2> QED
    BY <1>1, <1>4, <2>3, <2>4 DEF TypeInv
<1> QED
  BY <1>1, <1>5, <1>6

\* What ReceiveGet does, field by field.
GotGet(p, w, hash) ==
    /\ wire' = wire \ {w}
    /\ \/ /\ FindChunk(hash, has[p])
          /\ uploads' = uploads \union {[at |-> p, peer |-> PeerId(Source(w.src)),
                                         chunk |-> UploadId(p, hash)]}
       \/ uploads' = uploads
    /\ UNCHANGED <<iobuf, unfinished, intact, pc, i, request, has, conns, heard, asked, losses>>

LEMMA GetStep ==
    ASSUME NEW p \in Nodes, ReceiveGet(p)
    PROVE  \E w \in wire : w.kind = "get" /\ w.dst = p /\ \E hash \in w.hashes : GotGet(p, w, hash)
BY Zenon DEF ReceiveGet, Arrived, GotGet, user, mine

LEMMA TypeGet == ASSUME Catalogued, TypeInv, NEW p \in Nodes, ReceiveGet(p) PROVE TypeInv'
<1>1. PICK w \in wire : \E hash \in w.hashes : GotGet(p, w, hash)
  BY GetStep
<1>2. w \in Packets /\ w.src \in Nodes
  BY PacketFields DEF TypeInv
<1>3. PICK hash \in w.hashes : GotGet(p, w, hash)
  BY <1>1
<1>4. uploads' \subseteq [at : Nodes, peer : Nodes, chunk : Nat]
  <2>1. CASE uploads' = uploads
    BY <2>1 DEF TypeInv
  <2>2. CASE /\ FindChunk(hash, has[p])
             /\ uploads' = uploads \union {[at |-> p, peer |-> PeerId(Source(w.src)),
                                            chunk |-> UploadId(p, hash)]}
    <3>1. hash \in HashesOf(Total)
      BY <2>2, FindChunkIs DEF TypeInv, Known
    <3>2. UploadId(p, hash) \in Nat
      BY <3>1, MasterIdIsNat DEF UploadId
    <3>3. PeerId(Source(w.src)) \in Nodes
      BY <1>2, PeerIdFound
    <3> QED
      BY <2>2, <3>2, <3>3 DEF TypeInv
  <2> QED
    BY <1>3, <2>1, <2>2 DEF GotGet
<1>5. /\ wire' = wire \ {w} /\ pc' = pc /\ iobuf' = iobuf /\ i' = i /\ has' = has
      /\ request' = request /\ conns' = conns
  BY <1>3 DEF GotGet
<1>6. wire' \subseteq Packets /\ Honest(wire', has)
  BY <1>5 DEF TypeInv, Honest
<1> QED
  BY <1>4, <1>5, <1>6 DEF TypeInv

\* A table a chunk has joined.
LEMMA Joined ==
    ASSUME Catalogued, NEW table \in Tables, NEW hash \in HashesOf(Total), ~FindChunk(hash, table)
    PROVE  /\ UpdateIHaveTable(table, hash, Total) \in Tables
           /\ HashesOf(UpdateIHaveTable(table, hash, Total)) = HashesOf(table) \union {hash}
<1> DEFINE e == [id |-> GetChunkId(hash, Total), hash |-> hash, state |-> "OWNED"]
           t == UpdateIHaveTable(table, hash, Total)
<1>1. GetChunkId(hash, table) = -1
  BY DEF GetChunkId
<1>2. t = Append(table, e)
  BY <1>1 DEF UpdateIHaveTable
<1>3. e \in Entries /\ e.hash = hash
  BY MasterIdIsNat DEF Entries, States
<1> HIDE DEF e, t
<1>4. table \in Seq(Entries) /\ Len(table) \in Nat /\ DOMAIN table = 1 .. Len(table)
  BY DEF Tables
<1>5. /\ t \in Seq(Entries) /\ DOMAIN t = 1 .. Len(table) + 1
      /\ t[Len(table) + 1] = e /\ \A k \in 1 .. Len(table) : t[k] = table[k]
  BY <1>2, <1>3, <1>4
<1>6. HashesOf(t) = HashesOf(table) \union {hash}
  <2>1. ASSUME NEW h \in HashesOf(t) PROVE h \in HashesOf(table) \union {hash}
    <3>1. PICK k \in 1 .. Len(table) + 1 : h = t[k].hash
      BY <1>5 DEF HashesOf
    <3>2. k = Len(table) + 1 \/ k \in 1 .. Len(table)
      BY <1>4
    <3> QED
      BY <1>3, <1>4, <1>5, <3>1, <3>2 DEF HashesOf
  <2>2. ASSUME NEW h \in HashesOf(table) PROVE h \in HashesOf(t)
    <3>1. PICK k \in 1 .. Len(table) : h = table[k].hash
      BY <1>4 DEF HashesOf
    <3>2. k \in DOMAIN t /\ h = t[k].hash
      BY <1>4, <1>5, <3>1
    <3> QED
      BY <3>2 DEF HashesOf
  <2>3. hash \in HashesOf(t)
    <3>1. Len(table) + 1 \in DOMAIN t
      BY <1>4, <1>5
    <3> QED
      BY <1>3, <1>5, <3>1 DEF HashesOf
  <2> QED
    BY <2>1, <2>2, <2>3
<1> QED
  BY <1>5, <1>6 DEF t, Tables

\* Tables only grow, and with chunks of the master file.
LEMMA TablesGrow ==
    ASSUME Catalogued, has \in [Nodes -> Tables], Known(has),
           NEW p \in Nodes, NEW hash \in HashesOf(Total), SaveChunkAt(p, hash)
    PROVE  /\ has' \in [Nodes -> Tables] /\ Known(has')
           /\ \A q \in Nodes : HashesOf(has[q]) \subseteq HashesOf(has'[q])
<1> DEFINE t == UpdateIHaveTable(has[p], hash, Total)
<1>1. has' = [has EXCEPT ![p] = t] /\ ~FindChunk(hash, has[p])
  BY DEF SaveChunkAt
<1>2. t \in Tables /\ HashesOf(t) = HashesOf(has[p]) \union {hash}
  BY <1>1, Joined
<1> HIDE DEF t
<1>3. has' \in [Nodes -> Tables] /\ \A q \in Nodes : has'[q] = IF q = p THEN t ELSE has[q]
  BY <1>1, <1>2
<1>4. \A q \in Nodes : HashesOf(has[q]) \subseteq HashesOf(has'[q])
  BY <1>2, <1>3
<1>5. Known(has')
  BY <1>2, <1>3 DEF Known
<1> QED
  BY <1>3, <1>4, <1>5

LEMMA TypeSave ==
    ASSUME Catalogued, TypeInv, NEW p \in Nodes, NEW hash \in HashesOf(Total), SaveChunkAt(p, hash)
    PROVE  TypeInv'
<1>1. /\ pc' = pc /\ iobuf' = iobuf /\ i' = i /\ request' = request
      /\ wire' = wire /\ conns' = conns /\ uploads' = uploads
  BY DEF SaveChunkAt, user, mine
<1>2. /\ has' \in [Nodes -> Tables] /\ Known(has')
      /\ \A q \in Nodes : HashesOf(has[q]) \subseteq HashesOf(has'[q])
  BY TablesGrow DEF TypeInv
<1>3. Honest(wire, has')
  <2>1. \A w \in wire : w.src \in Nodes
    BY PacketFields DEF TypeInv
  <2>2. Honest(wire, has)
    BY DEF TypeInv
  <2> QED
    BY <1>2, <2>1, <2>2 DEF Honest
<1> QED
  BY <1>1, <1>2, <1>3 DEF TypeInv

LEMMA TypeLose == ASSUME TypeInv, LosePacket PROVE TypeInv'
<1>1. /\ pc' = pc /\ iobuf' = iobuf /\ i' = i /\ request' = request /\ has' = has
      /\ conns' = conns /\ uploads' = uploads /\ wire' \subseteq wire
  BY DEF LosePacket, user, mine
<1>2. wire' \subseteq Packets /\ Honest(wire', has)
  BY <1>1 DEF TypeInv, Honest
<1> QED
  BY <1>1, <1>2 DEF TypeInv

LEMMA TypeStep == ASSUME Catalogued, TypeInv, [Next]_vars PROVE TypeInv'
<1>1. CASE UNCHANGED vars
  BY <1>1 DEF TypeInv, vars
<1>2. ASSUME NEW bytes \in Inputs, ProcessUserInput(bytes) PROVE TypeInv'
  BY <1>2, TypeInput
<1>3. ASSUME NEW p \in Nodes, NEW hash \in HashesOf(Total), SaveChunkAt(p, hash) PROVE TypeInv'
  BY <1>3, TypeSave
<1>4. ASSUME NEW p \in Nodes, ReceiveWhohas(p) \/ ReceiveGet(p) PROVE TypeInv'
  BY <1>4, TypeWhohas, TypeGet
<1>5. CASE LineTooLong \/ CountChunk \/ WhohasFlooding \/ ReceiveIHave \/ LosePacket
  BY <1>5, TypeTooLong, TypeCount, TypeFlooding, TypeIHave, TypeLose
<1> QED
  BY <1>1, <1>2, <1>3, <1>4, <1>5 DEF Next

LEMMA TypeHolds == ASSUME Catalogued PROVE Spec => []TypeInv
<1>1. Init => TypeInv
  BY TypeInit
<1>2. TypeInv /\ [Next]_vars => TypeInv'
  BY TypeStep
<1> QED
  BY <1>1, <1>2, PTL DEF Spec

\* If the master file lists all chunks, the tables hold what they may, every IHAVE is
\* booked for some peer of the list, and every upload is of a chunk with a number.
THEOREM DiscoveryTypes == ASSUME Catalogued PROVE Spec => []TypeOK
<1>1. TypeInv => TypeOK
  BY DEF TypeInv, TypeOK
<1> QED
  BY <1>1, TypeHolds, PTL

-------------------------------------------------------------------------------
(* Lines come out whole.                                                     *)

InputInv == /\ intact = TRUE /\ unfinished \in Texts /\ ~HasLine(unfinished)
            /\ Holds(iobuf, unfinished, 0)

LEMMA InputInit == Init => InputInv
<1> SUFFICES ASSUME Init PROVE InputInv
  OBVIOUS
<1>1. ~HasLine(<< >>)
  BY DEF HasLine
<1> QED
  BY <1>1, CreatedBuffer DEF Init, InputInv

LEMMA InputTyped ==
    ASSUME 2 * Buffered <= USERBUF_SIZE + 1, InputInv,
           NEW bytes \in Inputs, ProcessUserInput(bytes)
    PROVE  InputInv'
<1> DEFINE text == unfinished \o bytes
           b == ReadInto(iobuf, bytes)
           split == Split(text)
<1>1. /\ iobuf \in Buffers /\ iobuf.cur = Len(unfinished) /\ unfinished \in Texts
      /\ Len(unfinished) \in Nat /\ ~HasLine(unfinished) /\ intact = TRUE /\ Holds(iobuf, unfinished, 0)
  BY BufferAssumption, TextFacts DEF InputInv, Holds
<1>2. bytes \in Texts /\ iobuf.cur + Len(bytes) <= USERBUF_SIZE /\ Len(bytes) \in Nat
  BY <1>1, InputFacts, BufferAssumption, TextFacts
<1>3. text \in Texts /\ Holds(b, text, 0)
  BY <1>1, <1>2, BufferAssumption, TextIsRead
<1>4. Len(text) = Len(unfinished) + Len(bytes)
  BY <1>1, <1>2 DEF Texts
<1>5. HasLine(text) => 2 * Len(text) <= USERBUF_SIZE + 1
  <2> SUFFICES ASSUME NEW k \in 1 .. Len(text), text[k] = EOL
               PROVE  2 * Len(text) <= USERBUF_SIZE + 1
    BY DEF HasLine
  <2>1. text[k] = IF k <= Len(unfinished) THEN unfinished[k] ELSE bytes[k - Len(unfinished)]
    BY <1>1, <1>2, <1>4 DEF Texts
  <2>2. ~(k <= Len(unfinished))
    BY <1>1, <1>4, <2>1 DEF HasLine
  <2>3. k - Len(unfinished) \in 1 .. Len(bytes)
    BY <1>1, <1>2, <1>4, <2>2
  <2>4. bytes[k - Len(unfinished)] = EOL
    BY <2>1, <2>2
  <2>5. EOL \in Range(bytes)
    <3>1. k - Len(unfinished) \in DOMAIN bytes
      BY <1>2, <2>3 DEF Texts
    <3> QED
      BY <2>4, <3>1 DEF Range
  <2>6. iobuf.cur + Len(bytes) <= Buffered
    BY <2>5 DEF ProcessUserInput
  <2>7. Buffered \in Nat /\ USERBUF_SIZE \in Nat
    BY BufferAssumption, SizeIsNat, DiscoveryAssumption DEF DiscoveryAssumption
  <2>8. Len(text) <= Buffered /\ Len(text) \in Nat
    BY <1>1, <1>2, <1>4, <2>6
  <2> HIDE DEF text
  <2> QED
    BY <2>7, <2>8
<1>6. /\ iobuf' = CutLines(b).left /\ unfinished' = split.rest
      /\ intact' = (intact /\ CutLines(b).lines = split.lines)
  BY DEF ProcessUserInput
<1> HIDE DEF text, b
<1>7. /\ CutLines(b).lines = split.lines
      /\ split.rest \in Texts /\ ~HasLine(split.rest)
      /\ Holds(CutLines(b).left, split.rest, 0)
  BY <1>3, <1>5, BufferAssumption, LinesAreCut
<1>8. intact' = TRUE
  BY <1>1, <1>6, <1>7
<1> HIDE DEF split
<1> QED
  BY <1>6, <1>7, <1>8 DEF InputInv

LEMMA InputStep ==
    ASSUME 2 * Buffered <= USERBUF_SIZE + 1, InputInv, [Next]_vars
    PROVE  InputInv'
<1>1. CASE UNCHANGED user
  <2>1. iobuf' = iobuf /\ unfinished' = unfinished /\ intact' = intact
    BY <1>1 DEF user
  <2> QED
    BY <2>1 DEF InputInv
<1>2. ASSUME NEW bytes \in Inputs, ProcessUserInput(bytes) PROVE InputInv'
  BY <1>2, InputTyped
<1>3. ASSUME NEW p \in Nodes, NEW hash \in HashesOf(Total), SaveChunkAt(p, hash) PROVE UNCHANGED user
  BY <1>3 DEF SaveChunkAt
<1>4. ASSUME NEW p \in Nodes, ReceiveWhohas(p) \/ ReceiveGet(p) PROVE UNCHANGED user
  BY <1>4 DEF ReceiveWhohas, ReceiveGet
<1>5. ASSUME LineTooLong \/ CountChunk \/ WhohasFlooding \/ ReceiveIHave \/ LosePacket
      PROVE  UNCHANGED user
  <2>1. CASE LineTooLong \/ CountChunk \/ LosePacket
    BY <2>1 DEF LineTooLong, CountChunk, LosePacket
  <2>2. CASE WhohasFlooding
    BY <2>2 DEF WhohasFlooding
  <2>3. CASE ReceiveIHave
    BY <2>3, IHaveStep DEF user
  <2> QED
    BY <1>5, <2>1, <2>2, <2>3
<1>6. CASE UNCHANGED vars
  BY <1>1, <1>6 DEF vars, user
<1> QED
  BY <1>1, <1>2, <1>3, <1>4, <1>5, <1>6 DEF Next

\* As long as every line ends in the first half of the buffer, the lines handled are
\* the lines typed, however read() cuts up what is typed: process_user_input
\* (input_buffer.c:46-52) never takes what a shift leaves behind for input.
THEOREM LinesComeWhole ==
    ASSUME 2 * Buffered <= USERBUF_SIZE + 1
    PROVE  Spec => []InputIntact
<1>1. Init => InputInv
  BY InputInit
<1>2. InputInv /\ [Next]_vars => InputInv'
  BY InputStep
<1>3. InputInv => InputIntact
  BY DEF InputInv, InputIntact
<1> QED
  BY <1>1, <1>2, <1>3, PTL DEF Spec

-------------------------------------------------------------------------------
(* Answers are booked for those who sent them.                               *)

\* An upload of the chunk some GET asked for.
AskedFor(u, as) ==
    \E g \in as : /\ g.dst = u.at /\ g.src = u.peer
                  /\ \E h \in g.hashes : h \in HashesOf(Total) /\ u.chunk = GetChunkId(h, Total)

AskInv ==
    /\ \A w \in wire : w.kind = "get" => w \in asked
    /\ asked \subseteq Packets
    /\ \A g \in asked : g.src = Me /\ g.hashes \subseteq HashesOf(has[g.dst])
    /\ \A p \in Nodes : conns[p] \subseteq HashesOf(has[p])
    /\ \A u \in uploads : AskedFor(u, asked)

LEMMA AskInit == Init => AskInv
<1> SUFFICES ASSUME Init PROVE AskInv
  OBVIOUS
<1>1. wire = {} /\ asked = {} /\ uploads = {} /\ \A p \in Nodes : conns[p] = {}
  BY DEF Init, Ids
<1> QED
  BY <1>1 DEF AskInv

\* Steps that send no GET and change no book.
LEMMA AskQuiet ==
    ASSUME AskInv, UNCHANGED <<asked, conns, uploads>>,
           \A w \in wire' : w.kind = "get" => w \in wire,
           \A q \in Nodes : HashesOf(has[q]) \subseteq HashesOf(has'[q])
    PROVE  AskInv'
<1>1. \A g \in asked : g.dst \in Nodes
  BY PacketFields DEF AskInv
<1>2. \A g \in asked : g.src = Me /\ g.hashes \subseteq HashesOf(has'[g.dst])
  BY <1>1 DEF AskInv
<1>3. \A p \in Nodes : conns[p] \subseteq HashesOf(has'[p])
  BY DEF AskInv
<1>4. \A w \in wire' : w.kind = "get" => w \in asked
  BY DEF AskInv
<1> QED
  BY <1>2, <1>3, <1>4 DEF AskInv

LEMMA AskIHave == ASSUME OwnPort, TypeInv, AskInv, ReceiveIHave PROVE AskInv'
<1>1. PICK w \in wire :
             /\ w.kind = "ihave"
             /\ conns' = [conns EXCEPT ![PeerId(Source(w.src))] = w.hashes]
             /\ \/ wire' = wire \ {w} /\ asked' = asked
                \/ /\ Offered(request, w.hashes) # {}
                   /\ wire' = (wire \ {w}) \union Gets(w)
                   /\ asked' = asked \union Gets(w)
             /\ has' = has /\ uploads' = uploads
  BY IHaveStep
<1>2. w \in Packets /\ w.src \in Nodes /\ w.hashes \subseteq HashesOf(has[w.src])
  BY <1>1, PacketFields DEF TypeInv, Honest
<1>3. \A p \in Nodes : conns'[p] \subseteq HashesOf(has[p])
  <2>1. conns' = [conns EXCEPT ![w.src] = w.hashes]
    BY <1>1, <1>2, PeerIdIsSender
  <2> DEFINE q == w.src
             hs == w.hashes
  <2>2. conns' = [conns EXCEPT ![q] = hs] /\ hs \subseteq HashesOf(has[q])
    BY <1>2, <2>1
  <2> HIDE DEF q, hs
  <2>3. conns \in [Ids -> SUBSET Hashes] /\ \A p \in Nodes : p \in Ids /\ conns[p] \subseteq HashesOf(has[p])
    BY DEF TypeInv, AskInv, Ids
  <2> QED
    BY <2>2, <2>3
<1>4. CASE wire' = wire \ {w} /\ asked' = asked
  BY <1>1, <1>3, <1>4 DEF AskInv
<1>5. CASE /\ Offered(request, w.hashes) # {}
           /\ wire' = (wire \ {w}) \union Gets(w)
           /\ asked' = asked \union Gets(w)
  <2>1. request \in Tables
    BY DEF TypeInv
  <2>2. /\ request[Pick(w)].hash \in w.hashes /\ Gets(w) \subseteq Packets
        /\ \A g \in Gets(w) : /\ g.kind = "get" /\ g.src = Me /\ g.hashes = {request[Pick(w)].hash}
                              /\ Address[g.dst] = Routed(Source(w.src))
    BY <1>2, <1>5, <2>1, Picked
  <2>3. \A g \in Gets(w) : g.dst = w.src
    <3> SUFFICES ASSUME NEW g \in Gets(w) PROVE g.dst = w.src
      OBVIOUS
    <3>1. g.dst \in Nodes /\ Address[g.dst] = Routed(Source(w.src))
      BY <2>2, PacketFields
    <3> QED
      BY <1>2, <3>1, OnlyReceiver
  <2>4. \A g \in Gets(w) : g.src = Me /\ g.hashes \subseteq HashesOf(has[g.dst])
    BY <1>2, <2>2, <2>3
  <2>5. \A g \in asked' : g.src = Me /\ g.hashes \subseteq HashesOf(has[g.dst])
    BY <1>5, <2>4 DEF AskInv
  <2>6. asked' \subseteq Packets /\ \A v \in wire' : v.kind = "get" => v \in asked'
    BY <1>5, <2>2 DEF AskInv
  <2>7. \A u \in uploads : AskedFor(u, asked')
    BY <1>5 DEF AskInv, AskedFor
  <2> QED
    BY <1>1, <1>3, <2>5, <2>6, <2>7 DEF AskInv
<1> QED
  BY <1>1, <1>4, <1>5

LEMMA AskGet == ASSUME OwnPort, TypeInv, AskInv, NEW p \in Nodes, ReceiveGet(p) PROVE AskInv'
<1>1. PICK w \in wire : /\ w.kind = "get" /\ w.dst = p
                        /\ \E hash \in w.hashes : GotGet(p, w, hash)
  BY GetStep
<1>2. PICK hash \in w.hashes : GotGet(p, w, hash)
  BY <1>1
<1>3. w \in asked /\ w.src \in Nodes
  BY <1>1, PacketFields DEF TypeInv, AskInv
<1>4. wire' = wire \ {w} /\ asked' = asked /\ conns' = conns /\ has' = has
  BY <1>2 DEF GotGet
<1>5. \A u \in uploads' : AskedFor(u, asked)
  <2>1. CASE uploads' = uploads
    BY <2>1 DEF AskInv
  <2>2. CASE /\ FindChunk(hash, has[p])
             /\ uploads' = uploads \union {[at |-> p, peer |-> PeerId(Source(w.src)),
                                            chunk |-> UploadId(p, hash)]}
    <3> DEFINE new == [at |-> p, peer |-> PeerId(Source(w.src)), chunk |-> UploadId(p, hash)]
    <3>1. new.at = p /\ new.peer = w.src /\ new.chunk = GetChunkId(hash, Total)
      BY <1>3, PeerIdIsSender DEF UploadId
    <3>2. hash \in HashesOf(Total)
      BY <2>2, FindChunkIs DEF TypeInv, Known
    <3>3. uploads' = uploads \union {new}
      BY <2>2
    <3> HIDE DEF new
    <3>4. AskedFor(new, asked)
      BY <1>1, <1>3, <3>1, <3>2 DEF AskedFor
    <3> QED
      BY <3>3, <3>4 DEF AskInv
  <2> QED
    BY <1>2, <2>1, <2>2 DEF GotGet
<1> QED
  BY <1>4, <1>5 DEF AskInv

LEMMA AskStep == ASSUME Catalogued, OwnPort, TypeInv, AskInv, [Next]_vars PROVE AskInv'
<1>1. CASE UNCHANGED vars
  BY <1>1, AskQuiet DEF vars
<1>2. ASSUME NEW bytes \in Inputs, ProcessUserInput(bytes) PROVE AskInv'
  <2>1. asked' = asked /\ conns' = conns /\ uploads' = uploads /\ wire' = wire /\ has' = has
    BY <1>2 DEF ProcessUserInput, mine
  <2> QED
    BY <2>1, AskQuiet
<1>3. ASSUME NEW p \in Nodes, NEW hash \in HashesOf(Total), SaveChunkAt(p, hash) PROVE AskInv'
  <2>1. asked' = asked /\ conns' = conns /\ uploads' = uploads /\ wire' = wire
    BY <1>3 DEF SaveChunkAt, mine
  <2>2. \A q \in Nodes : HashesOf(has[q]) \subseteq HashesOf(has'[q])
    BY <1>3, TablesGrow DEF TypeInv
  <2> QED
    BY <2>1, <2>2, AskQuiet
<1>4. ASSUME NEW p \in Nodes, ReceiveWhohas(p) PROVE AskInv'
  <2>1. PICK w \in wire : /\ wire' = (wire \ {w}) \union Answer(p, w)
                          /\ asked' = asked /\ conns' = conns /\ uploads' = uploads /\ has' = has
    BY <1>4 DEF ReceiveWhohas, Answer, Arrived, mine
  <2>2. \A a \in Answer(p, w) : a.kind # "get"
    BY AnswerPackets DEF TypeInv
  <2> QED
    BY <2>1, <2>2, AskQuiet
<1>5. ASSUME NEW p \in Nodes, ReceiveGet(p) PROVE AskInv'
  BY <1>5, AskGet
<1>6. CASE ReceiveIHave
  BY <1>6, AskIHave
<1>7. CASE WhohasFlooding
  <2>1. /\ wire' = wire \union Flooded
        /\ asked' = asked /\ conns' = conns /\ uploads' = uploads /\ has' = has
    BY <1>7 DEF WhohasFlooding, Flooded, mine
  <2>2. \A w \in Flooded : w.kind # "get"
    BY FloodedPackets DEF TypeInv
  <2> QED
    BY <2>1, <2>2, AskQuiet
<1>8. CASE LineTooLong \/ CountChunk \/ LosePacket
  <2>1. /\ wire' \subseteq wire
        /\ asked' = asked /\ conns' = conns /\ uploads' = uploads /\ has' = has
    BY <1>8 DEF LineTooLong, CountChunk, LosePacket, mine
  <2> QED
    BY <2>1, AskQuiet
<1> QED
  BY <1>1, <1>2, <1>3, <1>4, <1>5, <1>6, <1>7, <1>8 DEF Next

LEMMA AskHolds == ASSUME Catalogued, OwnPort PROVE Spec => [](TypeInv /\ AskInv)
<1>1. Init => TypeInv /\ AskInv
  BY TypeInit, AskInit
<1>2. TypeInv /\ AskInv /\ [Next]_vars => TypeInv' /\ AskInv'
  BY TypeStep, AskStep
<1> QED
  BY <1>1, <1>2, PTL DEF Spec

\* With a port for each peer, what an IHAVE says is booked for the peer that said it,
\* with and without the simulated network, and no GET goes to a peer that has not got
\* the chunk (bt_parse.c:68-78, peer.c:91-121).
THEOREM AnswersAttributed == ASSUME Catalogued, OwnPort PROVE Spec => []Attributed
<1>1. AskInv => Attributed
  BY DEF AskInv, Attributed
<1> QED
  BY <1>1, AskHolds, PTL

\* And every upload is of the chunk asked for, under the id the master file gives it,
\* whatever ids the peers' own files use (peer.c:122-134).
THEOREM AskedIsUploaded == ASSUME Catalogued, OwnPort PROVE Spec => []UploadsWhatWasAsked
<1>1. ASSUME AskInv PROVE UploadsWhatWasAsked
  <2> SUFFICES ASSUME NEW u \in uploads
               PROVE  \E g \in asked, l \in 3 .. Len(MasterFile) :
                        /\ g.dst = u.at /\ g.src = u.peer
                        /\ MasterFile[l].id = u.chunk /\ MasterFile[l].hash \in g.hashes
    BY DEF UploadsWhatWasAsked
  <2>1. PICK g \in asked : /\ g.dst = u.at /\ g.src = u.peer
                           /\ \E h \in g.hashes : h \in HashesOf(Total) /\ u.chunk = GetChunkId(h, Total)
    BY <1>1 DEF AskInv, AskedFor
  <2>2. PICK h \in g.hashes : h \in HashesOf(Total) /\ u.chunk = GetChunkId(h, Total)
    BY <2>1
  <2>3. PICK l \in 3 .. Len(MasterFile) : MasterFile[l].hash = h /\ MasterFile[l].id = GetChunkId(h, Total)
    BY <2>2, MasterId
  <2> QED
    BY <2>1, <2>2, <2>3
<1> QED
  BY <1>1, AskHolds, PTL

-------------------------------------------------------------------------------
(* Every provider is heard.                                                  *)

\* The simulated network knows one host (hupsim.pl sends what is for 0.0.0.0 to
\* 127.0.0.1): peers that use it run there.
OnLoopback == Spiffy => AnyIP # Loopback /\ \A p \in Nodes : Address[p].ip = Loopback

\* So what is sent to an address of the list, or to one reported, arrives there.
LEMMA Reachable ==
    ASSUME OnLoopback, NEW p \in Nodes
    PROVE  Routed(Address[p]) = Address[p] /\ Routed(Source(p)) = Address[p]
<1>1. CASE ~Spiffy
  BY <1>1 DEF Routed, Source
<1>2. CASE Spiffy
  <2>1. Address[p] = [ip |-> Loopback, port |-> Address[p].port] /\ Address[p].ip # AnyIP
    BY <1>2, AddressFacts DEF OnLoopback
  <2>2. Routed(Address[p]) = Address[p]
    BY <2>1 DEF Routed
  <2>3. Source(p) = [ip |-> AnyIP, port |-> Address[p].port]
    BY <1>2 DEF Source
  <2>4. Routed(Source(p)) = [ip |-> Loopback, port |-> Address[p].port]
    BY <1>2, <2>3 DEF Routed
  <2> QED
    BY <2>1, <2>2, <2>4
<1> QED
  BY <1>1, <1>2

LEMMA DivFacts ==
    \A a \in Nat, c \in Nat \ {0} :
      a \div c \in Nat /\ a % c \in 0 .. c - 1 /\ a = c * (a \div c) + (a % c)
  OBVIOUS
LEMMA Cancelled == \A c \in Nat \ {0}, a, b \in Nat : c * a < c * b => a < b
  OBVIOUS

\* The packets make_packet counts have room for all wanted chunks.
LEMMA RoomForAll ==
    ASSUME NEW n \in Nat, NEW r \in Nat, r < n
    PROVE  (r \div CHUNK_PER_PACKET) + 1 \in 1 .. PacketCount(n)
<1> DEFINE c == CHUNK_PER_PACKET
           q == r \div c
           full == n \div c
<1>1. c \in Nat \ {0}
  BY TablesAssumption DEF TablesAssumption
<1>2. /\ q \in Nat /\ full \in Nat /\ r % c \in 0 .. c - 1 /\ n % c \in 0 .. c - 1
      /\ r = c * q + (r % c) /\ n = c * full + (n % c)
  BY <1>1, DivFacts
<1>3. PacketCount(n) = IF n % c = 0 THEN full ELSE full + 1
  BY DEF PacketCount
<1> HIDE DEF c, q, full
<1>4. CASE n % c = 0
  <2>1. c * q < c * full
    BY <1>1, <1>2, <1>4
  <2>2. q < full
    BY <1>1, <1>2, <2>1, Cancelled
  <2> QED
    BY <1>2, <1>3, <1>4, <2>2 DEF q, c
<1>5. CASE n % c # 0
  <2>1. c * (full + 1) = c * full + c
    BY <1>1, <1>2
  <2>2. c * q < c * (full + 1)
    BY <1>1, <1>2, <2>1
  <2>3. q < full + 1
    BY <1>1, <1>2, <2>2, Cancelled
  <2> QED
    BY <1>2, <1>3, <1>5, <2>3 DEF q, c
<1> QED
  BY <1>4, <1>5

\* So each of them is in one.
LEMMA AllDealtOut ==
    ASSUME NEW table \in Tables, NEW k \in Wanted(table)
    PROVE  \E packet \in MakeWhohas(table) : table[k].hash \in packet
<1> DEFINE W == Wanted(table)
           below == {j \in W : j < k}
           rank == Rank(k, table)
           n == Cardinality(W)
<1>1. IsFiniteSet(W) /\ k \in W /\ k \in Nat
  <2>1. Len(table) \in Nat /\ W \subseteq 1 .. Len(table)
    BY TableFields DEF Wanted
  <2>2. IsFiniteSet(1 .. Len(table))
    BY <2>1, FS_Interval
  <2> QED
    BY <2>1, <2>2, FS_Subset
<1>2. below \in SUBSET W /\ below # W
  BY <1>1
<1>3. rank \in Nat /\ n \in Nat /\ rank < n
  <2>1. rank = Cardinality(below)
    BY DEF Rank
  <2> HIDE DEF below, W
  <2>2. IsFiniteSet(below) /\ Cardinality(below) <= n /\ Cardinality(below) # n
    BY <1>1, <1>2, FS_Subset
  <2>3. Cardinality(below) \in Nat /\ n \in Nat
    BY <1>1, <2>2, FS_CardinalityType
  <2> HIDE DEF n
  <2> QED
    BY <2>1, <2>2, <2>3
<1> DEFINE j == (rank \div CHUNK_PER_PACKET) + 1
           packet == {table[l].hash : l \in {m \in Wanted(table) : Rank(m, table) \div CHUNK_PER_PACKET = j - 1}}
<1>4. j \in 1 .. PacketCount(n)
  <2> HIDE DEF rank, n
  <2> QED
    BY <1>3, RoomForAll
<1>5. rank \div CHUNK_PER_PACKET = j - 1
  <2>1. rank \div CHUNK_PER_PACKET \in Nat
    <3> HIDE DEF rank
    <3> QED
      BY <1>3, DivFacts, TablesAssumption DEF TablesAssumption
  <2> QED
    BY <2>1
<1>6. packet \in MakeWhohas(table)
  BY <1>4 DEF MakeWhohas
<1> HIDE DEF j
<1>7. table[k].hash \in packet
  BY <1>5
<1> QED
  BY <1>6, <1>7

\* What a peer has from the start; that a packet will, or could, still tell of a hash;
\* and that the hash has been heard of or will be.
Owned(p)        == HashesOf(ParseChunkFile(HasFile[p], "OWNED"))
Tells(w, p, h)  == /\ h \in w.hashes
                   /\ \/ w.kind = "whohas" /\ w.src = Me /\ w.dst = p
                      \/ w.kind = "ihave" /\ w.src = p /\ w.dst = Me
Hears(p, h, ws) == h \in heard[p] \/ \E w \in ws : Tells(w, p, h)
AllHeard        == \A p \in Nodes \ {Me} : \A h \in HashesOf(request) \intersect Owned(p) : Hears(p, h, wire)

HeardInv ==
    /\ losses \in Nat /\ heard \in [Ids -> SUBSET HashValues]
    /\ \A p \in Nodes : Owned(p) \subseteq HashesOf(has[p])
    /\ pc = "count" => \A k \in DOMAIN request : request[k].state = "NOT_STARTED"
    /\ request # << >> /\ pc = "loop" /\ losses = 0 => AllHeard

LEMMA HeardInit == Init => HeardInv
<1> SUFFICES ASSUME Init PROVE HeardInv
  OBVIOUS
<1>1. losses \in Nat /\ request = << >> /\ pc = "loop" /\ heard \in [Ids -> SUBSET HashValues]
  BY DEF Init
<1>2. \A p \in Nodes : Owned(p) \subseteq HashesOf(has[p])
  BY DEF Init, Owned
<1> QED
  BY <1>1, <1>2 DEF HeardInv

\* Steps that change no request, answer nothing and hear nothing.
LEMMA HeardQuiet ==
    ASSUME HeardInv, UNCHANGED <<request, heard, losses>>, wire \subseteq wire',
           pc' = pc \/ pc' = "exited",
           \A q \in Nodes : HashesOf(has[q]) \subseteq HashesOf(has'[q])
    PROVE  HeardInv'
<1>1. \A p \in Nodes : Owned(p) \subseteq HashesOf(has'[p])
  BY DEF HeardInv
<1>2. AllHeard => AllHeard'
  BY DEF AllHeard, Hears, Tells
<1> QED
  BY <1>1, <1>2 DEF HeardInv, Owned

LEMMA HeardInput ==
    ASSUME TypeInv, HeardInv, NEW bytes \in Inputs, ProcessUserInput(bytes)
    PROVE  HeardInv'
<1>1. has' = has /\ wire' = wire /\ heard' = heard /\ losses' = losses
  BY DEF ProcessUserInput, mine
<1>2. CASE request' = request /\ pc' = pc
  BY <1>1, <1>2, HeardQuiet
<1>3. CASE /\ pc = "loop" /\ pc' = "count"
           /\ \E line \in DOMAIN GetFile :
                request' = ParseChunkFile(GetFile[line], "NOT_STARTED")
  <2>1. \A k \in DOMAIN request' : request'[k].state = "NOT_STARTED"
    BY <1>3, FilesParsed
  <2> QED
    BY <1>1, <1>3, <2>1 DEF HeardInv, Owned
<1> QED
  BY <1>2, <1>3, NewRequest DEF TypeInv

\* The flood asks every peer of the list for every chunk of the request.
LEMMA HeardFlooding ==
    ASSUME OnLoopback, TypeInv, HeardInv, WhohasFlooding
    PROVE  HeardInv'
<1>1. /\ pc = "count" /\ wire' = wire \union Flooded
      /\ pc' = "loop" /\ request' = request /\ has' = has /\ heard' = heard /\ losses' = losses
  BY DEF WhohasFlooding, Flooded, user, mine
<1>2. ASSUME NEW p \in Nodes \ {Me}, NEW h \in HashesOf(request)
      PROVE  \E w \in Flooded : Tells(w, p, h)
  <2>1. PICK k \in DOMAIN request : request[k].hash = h
    BY DEF HashesOf
  <2>2. k \in Wanted(request)
    BY <1>1, <2>1 DEF HeardInv, Wanted
  <2>3. PICK packet \in MakeWhohas(request) : h \in packet
    <3>1. request \in Tables
      BY DEF TypeInv
    <3> QED
      BY <2>1, <2>2, <3>1, AllDealtOut
  <2>4. PICK l \in PeerList : MapFile[l].id = p /\ MapFile[l].addr = Address[p]
    BY EveryoneListed
  <2> DEFINE w == [kind |-> "whohas", src |-> Me, dst |-> p, hashes |-> packet]
  <2>5. w \in Sent(Me, Address[p], "whohas", packet)
    <3>1. Address[p] = Routed(Address[p])
      BY Reachable
    <3> QED
      BY <3>1 DEF Sent
  <2>6. w \in Flooded
    <3>1. l \in {m \in PeerList : MapFile[m].id # Me}
      BY <2>4
    <3>2. w \in Sent(Me, MapFile[l].addr, "whohas", packet)
      BY <2>4, <2>5
    <3> HIDE DEF w
    <3> QED
      BY <2>3, <3>1, <3>2 DEF Flooded
  <2>7. Tells(w, p, h)
    BY <2>3 DEF Tells
  <2> QED
    BY <2>6, <2>7
<1>3. AllHeard'
  <2>1. \A p \in Nodes \ {Me}, h \in HashesOf(request) : \E w \in wire' : Tells(w, p, h)
    BY <1>1, <1>2
  <2> QED
    BY <1>1, <2>1 DEF AllHeard, Hears
<1>4. pc' # "count"
  BY <1>1
<1> QED
  BY <1>1, <1>3, <1>4 DEF HeardInv, Owned

\* A peer asked answers, before it forgets the question.
LEMMA HeardWhohas ==
    ASSUME OnLoopback, TypeInv, HeardInv, NEW p \in Nodes, ReceiveWhohas(p)
    PROVE  HeardInv'
<1>1. PICK w \in wire : /\ w.dst = p /\ wire' = (wire \ {w}) \union Answer(p, w)
                        /\ pc' = pc /\ request' = request /\ has' = has
                        /\ heard' = heard /\ losses' = losses
                        /\ w.kind = "whohas"
  BY DEF ReceiveWhohas, Answer, Arrived, user, mine
<1>2. w \in Packets /\ w.src \in Nodes /\ w.hashes \in SUBSET HashValues
  BY PacketFields DEF TypeInv
<1>3. ASSUME NEW q \in Nodes \ {Me}, NEW h \in Owned(q), Tells(w, q, h)
      PROVE  \E a \in Answer(p, w) : Tells(a, q, h)
  <2>1. q = p /\ w.src = Me /\ h \in w.hashes
    BY <1>1, <1>3 DEF Tells
  <2>2. h \in HashesOf(has[p])
    BY <2>1 DEF HeardInv
  <2> DEFINE answer == MakeIHave(has[p], w.hashes)
             a == [kind |-> "ihave", src |-> p, dst |-> Me, hashes |-> answer]
  <2>3. h \in answer
    BY <2>1, <2>2, FindChunkIs DEF MakeIHave
  <2>4. Answer(p, w) = Sent(p, Source(Me), "ihave", answer)
    BY <2>1, <2>3 DEF Answer
  <2> HIDE DEF answer
  <2>5. Me \in Nodes /\ Address[Me] = Routed(Source(Me))
    BY Reachable, DiscoveryAssumption DEF DiscoveryAssumption
  <2>6. a \in Answer(p, w)
    BY <2>4, <2>5 DEF Sent
  <2>7. Tells(a, q, h)
    BY <2>1, <2>3 DEF Tells
  <2> QED
    BY <2>6, <2>7
<1>4. AllHeard => AllHeard'
  <2> SUFFICES ASSUME AllHeard, NEW q \in Nodes \ {Me}, NEW h \in HashesOf(request) \intersect Owned(q)
               PROVE  h \in heard[q] \/ \E v \in wire' : Tells(v, q, h)
    BY <1>1 DEF AllHeard, Hears, Owned
  <2>1. CASE h \in heard[q]
    BY <2>1
  <2>2. ASSUME NEW v \in wire, Tells(v, q, h) PROVE \E x \in wire' : Tells(x, q, h)
    BY <1>1, <1>3, <2>2
  <2> QED
    BY <2>1, <2>2 DEF AllHeard, Hears
<1> QED
  BY <1>1, <1>4 DEF HeardInv, Owned

\* What is heard is booked for the peer that said it.
LEMMA HeardIHave ==
    ASSUME OwnPort, TypeInv, HeardInv, ReceiveIHave
    PROVE  HeardInv'
<1>1. PICK w \in wire :
             /\ w.kind = "ihave" /\ w.dst = Me /\ pc = "loop" /\ pc' = pc
             /\ heard' = [heard EXCEPT ![PeerId(Source(w.src))] = @ \union w.hashes]
             /\ \/ wire' = wire \ {w} /\ request' = request
                \/ /\ Offered(request, w.hashes) # {}
                   /\ request' = [request EXCEPT ![Pick(w)].state = "RECEIVING"]
                   /\ wire' = (wire \ {w}) \union Gets(w)
             /\ has' = has /\ losses' = losses
  BY IHaveStep
<1>2. w \in Packets /\ w.src \in Nodes /\ w.hashes \in SUBSET HashValues
  BY PacketFields DEF TypeInv
<1> DEFINE from == w.src
           hs == w.hashes
<1>3. /\ heard' = [heard EXCEPT ![from] = @ \union hs]
      /\ from \in Ids /\ hs \in SUBSET HashValues
  BY <1>1, <1>2, PeerIdIsSender DEF Ids
<1>4. heard \in [Ids -> SUBSET HashValues] /\ \A q \in Nodes : q \in Ids
  BY DEF HeardInv, Ids
<1>5. /\ heard' \in [Ids -> SUBSET HashValues]
      /\ \A q \in Nodes : heard[q] \subseteq heard'[q]
      /\ hs \subseteq heard'[from]
  <2> HIDE DEF from, hs
  <2> QED
    BY <1>3, <1>4
<1>6. /\ HashesOf(request') = HashesOf(request)
      /\ request' = << >> => request = << >>
  <2>1. CASE request' = request
    BY <2>1
  <2>2. CASE /\ Offered(request, w.hashes) # {}
             /\ request' = [request EXCEPT ![Pick(w)].state = "RECEIVING"]
    <3>1. request \in Tables
      BY DEF TypeInv
    <3>2. Pick(w) \in DOMAIN request
      BY <1>2, <2>2, <3>1, Picked
    <3>3. DOMAIN request' = DOMAIN request /\ \A j \in DOMAIN request : request'[j].hash = request[j].hash
      BY <2>2, <3>1, <3>2, RequestChanged
    <3>4. HashesOf(request') = HashesOf(request)
      BY <3>3 DEF HashesOf
    <3>5. DOMAIN request' # {}
      BY <3>2, <3>3
    <3> QED
      BY <3>4, <3>5
  <2> QED
    BY <1>1, <2>1, <2>2
<1>7. AllHeard => AllHeard'
  <2> SUFFICES ASSUME AllHeard, NEW q \in Nodes \ {Me}, NEW h \in HashesOf(request) \intersect Owned(q)
               PROVE  h \in heard'[q] \/ \E v \in wire' : Tells(v, q, h)
    BY <1>6 DEF AllHeard, Hears, Owned
  <2>1. CASE h \in heard[q]
    BY <1>5, <2>1
  <2>2. ASSUME NEW v \in wire, Tells(v, q, h)
        PROVE  h \in heard'[q] \/ \E x \in wire' : Tells(x, q, h)
    <3>1. CASE v = w
      <4>1. q = from /\ h \in hs
        BY <1>1, <2>2, <3>1 DEF Tells
      <4> QED
        BY <1>5, <4>1
    <3>2. CASE v # w
      BY <1>1, <2>2, <3>2
    <3> QED
      BY <3>1, <3>2
  <2> QED
    BY <2>1, <2>2 DEF AllHeard, Hears
<1>8. pc' # "count" /\ losses' \in Nat
  BY <1>1 DEF HeardInv
<1>9. \A q \in Nodes : Owned(q) \subseteq HashesOf(has'[q])
  BY <1>1 DEF HeardInv
<1>10. request' # << >> /\ pc' = "loop" /\ losses' = 0 => AllHeard'
  BY <1>1, <1>6, <1>7 DEF HeardInv
<1> QED
  BY <1>5, <1>8, <1>9, <1>10 DEF HeardInv, Owned

LEMMA HeardGet ==
    ASSUME HeardInv, NEW p \in Nodes, ReceiveGet(p)
    PROVE  HeardInv'
<1>1. PICK w \in wire : w.kind = "get" /\ \E hash \in w.hashes : GotGet(p, w, hash)
  BY GetStep
<1>2. /\ wire' = wire \ {w} /\ heard' = heard /\ request' = request /\ losses' = losses
      /\ pc' = pc /\ has' = has
  BY <1>1 DEF GotGet
<1>3. AllHeard => AllHeard'
  <2>1. \A q, h : ~Tells(w, q, h)
    BY <1>1 DEF Tells
  <2>2. \A v \in wire : v # w => v \in wire'
    BY <1>2
  <2> SUFFICES ASSUME AllHeard, NEW q \in Nodes \ {Me}, NEW h \in HashesOf(request) \intersect Owned(q)
               PROVE  h \in heard[q] \/ \E v \in wire' : Tells(v, q, h)
    BY <1>2 DEF AllHeard, Hears, Owned
  <2> QED
    BY <2>1, <2>2 DEF AllHeard, Hears
<1> QED
  BY <1>2, <1>3 DEF HeardInv, Owned

LEMMA HeardStep ==
    ASSUME Catalogued, OwnPort, OnLoopback, TypeInv, HeardInv, [Next]_vars
    PROVE  HeardInv'
<1>1. CASE UNCHANGED vars
  BY <1>1, HeardQuiet DEF vars
<1>2. ASSUME NEW bytes \in Inputs, ProcessUserInput(bytes) PROVE HeardInv'
  BY <1>2, HeardInput
<1>3. ASSUME NEW p \in Nodes, NEW hash \in HashesOf(Total), SaveChunkAt(p, hash) PROVE HeardInv'
  <2>1. request' = request /\ heard' = heard /\ losses' = losses /\ wire' = wire /\ pc' = pc
    BY <1>3 DEF SaveChunkAt, mine
  <2>2. \A q \in Nodes : HashesOf(has[q]) \subseteq HashesOf(has'[q])
    BY <1>3, TablesGrow DEF TypeInv
  <2> QED
    BY <2>1, <2>2, HeardQuiet
<1>4. ASSUME NEW p \in Nodes, ReceiveWhohas(p) PROVE HeardInv'
  BY <1>4, HeardWhohas
<1>5. ASSUME NEW p \in Nodes, ReceiveGet(p) PROVE HeardInv'
  BY <1>5, HeardGet
<1>6. CASE ReceiveIHave
  BY <1>6, HeardIHave
<1>7. CASE WhohasFlooding
  BY <1>7, HeardFlooding
<1>8. CASE LineTooLong \/ CountChunk
  <2>1. /\ request' = request /\ heard' = heard /\ losses' = losses /\ wire' = wire /\ has' = has
        /\ pc' = pc \/ pc' = "exited"
    BY <1>8 DEF LineTooLong, CountChunk, mine
  <2> QED
    BY <2>1, HeardQuiet
<1>9. CASE LosePacket
  <2>1. /\ request' = request /\ heard' = heard /\ losses' = losses + 1 /\ pc' = pc /\ has' = has
    BY <1>9 DEF LosePacket, mine
  <2>2. losses' \in Nat /\ losses' # 0
    BY <2>1 DEF HeardInv
  <2> QED
    BY <2>1, <2>2 DEF HeardInv, Owned
<1> QED
  BY <1>1, <1>2, <1>3, <1>4, <1>5, <1>6, <1>7, <1>8, <1>9 DEF Next

\* A flood none of whose packets and answers is lost is answered by everyone that had a
\* chunk asked for, however many packets it takes: the chunks make_packet counts all
\* find a place in its packets (network.c:78-116), and what comes back is booked for
\* its sender.
THEOREM ProvidersHeard ==
    ASSUME Catalogued, OwnPort, OnLoopback
    PROVE  Spec => []EveryProviderHeard
<1>1. Init => TypeInv /\ HeardInv
  BY TypeInit, HeardInit
<1>2. TypeInv /\ HeardInv /\ [Next]_vars => TypeInv' /\ HeardInv'
  BY TypeStep, HeardStep
<1>3. ASSUME HeardInv PROVE EveryProviderHeard
  <2> SUFFICES ASSUME request # << >> /\ pc = "loop" /\ losses = 0,
                      \A w \in wire : w.kind = "get",
                      NEW p \in Nodes \ {Me}, NEW h \in HashesOf(request) \intersect Owned(p)
               PROVE  h \in heard[p]
    BY DEF EveryProviderHeard, Owned
  <2>1. Hears(p, h, wire)
    BY <1>3 DEF HeardInv, AllHeard
  <2>2. \A w \in wire : ~Tells(w, p, h)
    BY DEF Tells
  <2> QED
    BY <2>1, <2>2 DEF Hears
<1> QED
  BY <1>1, <1>2, <1>3, PTL DEF Spec
================================================================================
