------------------------------ MODULE ChunkTables ------------------------------
(***************************************************************************)
(* The chunk tables of a peer (struct Request) and the packets made from   *)
(* them: parsing of chunk files, lookups by hash, WHOHAS, IHAVE and GET    *)
(* (util.c, network.c).  A hash is an opaque value; a line of a chunk file *)
(* is a comment or an id and a hash.                                       *)
(***************************************************************************)
EXTENDS Integers, Sequences, FiniteSets

CONSTANTS Hashes,
          CHUNK_PER_PACKET,  \* hashes that fit into one packet
          Unset              \* what memory holds that nobody wrote

ASSUME TablesAssumption == CHUNK_PER_PACKET \in Nat \ {0}

\* A line of a chunk file, as sscanf reads it.
Lines   == [comment : BOOLEAN, id : Int \union {Unset}, hash : Hashes \union {Unset}]

States  == {"OWNED", "RECEIVING", "NOT_STARTED"}
Entries == [id : Int \union {Unset}, hash : Hashes \union {Unset}, state : States]
Tables  == Seq(Entries)

\* parse_has_get_chunk_file: the table has a place for every line that is not a
\* comment, but every line is written to the next place; for a comment sscanf
\* leaves the id unset and the hash of the line before in place.  What does not
\* fit is written past the end, and no lookup finds it.
Plain(lines)        == {l \in DOMAIN lines : ~lines[l].comment}
PlainUpTo(lines, l) == {k \in Plain(lines) : k <= l}
HashRead(lines, l)  == IF PlainUpTo(lines, l) = {} THEN Unset
                       ELSE lines[CHOOSE k \in PlainUpTo(lines, l) :
                                    \A j \in PlainUpTo(lines, l) : j <= k].hash
ParseChunkFile(lines, state) ==
    [l \in 1 .. Cardinality(Plain(lines)) |->
       [id |-> IF l \in Plain(lines) THEN lines[l].id ELSE Unset,
        hash |-> HashRead(lines, l), state |-> state]]

\* parse_total_chunk_file: the same after two lines of heading.
ParseMasterFile(lines) == ParseChunkFile(SubSeq(lines, 3, Len(lines)), "OWNED")

\* find_chunk and get_chunk_id: the first entry with the hash; -1 for none.
FindChunk(hash, table)  == \E i \in DOMAIN table : table[i].hash = hash
GetChunkId(hash, table) ==
    IF FindChunk(hash, table)
    THEN table[CHOOSE i \in DOMAIN table : /\ table[i].hash = hash
                                           /\ \A j \in 1 .. i - 1 : table[j].hash # hash].id
    ELSE -1

\* Faulty variant of UpdateIHaveTable: the copy stops before the last entry.
UpdateIHaveTableDrops(table, hash, total) ==
    IF GetChunkId(hash, table) # -1 THEN table
    ELSE [table EXCEPT ![Len(table)] =
            [id |-> GetChunkId(hash, total), hash |-> hash, state |-> "OWNED"]]

\* update_ihave_table: a chunk just saved joins the table.
UpdateIHaveTable(table, hash, total) ==
    IF GetChunkId(hash, table) # -1 THEN table
    ELSE Append(table, [id |-> GetChunkId(hash, total), hash |-> hash, state |-> "OWNED"])

\* Faulty variant of PacketCount: a last packet that is not full is forgotten.
PacketCountFloor(n) == n \div CHUNK_PER_PACKET

\* make_packet(WHOHAS): how many packets n wanted chunks need, and the hashes of
\* each; the wanted chunks are dealt out in the order of the table.
PacketCount(n) ==
    IF n % CHUNK_PER_PACKET = 0 THEN n \div CHUNK_PER_PACKET ELSE n \div CHUNK_PER_PACKET + 1
Wanted(table)  == {i \in DOMAIN table : table[i].state = "NOT_STARTED"}
Rank(i, table) == Cardinality({k \in Wanted(table) : k < i})
MakeWhohas(table) ==
    {{table[i].hash : i \in {k \in Wanted(table) : Rank(k, table) \div CHUNK_PER_PACKET = j - 1}} :
       j \in 1 .. PacketCount(Cardinality(Wanted(table)))}

\* Faulty variant of MakeIHave: it answers with the question.
MakeIHaveEchoes(table, asked) == asked

\* make_packet(IHAVE): the hashes asked for that find_chunk finds.
MakeIHave(table, asked) == {h \in asked : FindChunk(h, table)}

\* pick_a_chunk: the wanted entries a packet contains (packet_contain_chunk).
Offered(table, packet) == {i \in Wanted(table) : table[i].hash \in packet}
================================================================================
