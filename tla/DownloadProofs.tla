---------------------------- MODULE DownloadProofs ----------------------------
(***************************************************************************)
(* Proofs about Download.  First the tables' operators, then the types,    *)
(* then the inductive invariant that ties streams, chunks and connections  *)
(* together, and what follows from it.                                     *)
(***************************************************************************)
EXTENDS Download, SequenceTheorems, FiniteSetTheorems, WellFoundedInduction, TLAPS

SlotTables  == [1 .. MaxConn -> Streams \union {NoStream}]
ChunkTables == [Chunks -> ChunkStates]
ConnLists   == Seq(Connections)

LEMMA Sizes == C \in Nat \ {0} /\ MaxConn \in Nat \ {0} /\ PerPacket \in Nat \ {0}
BY DownloadAssumption DEF DownloadAssumption

\* The first of a set of places is one of them.
LEMMA LowestIn ==
    ASSUME NEW S \in SUBSET Nat, S # {}
    PROVE  Lowest(S) \in S
<1>1. PICK x \in S : \A y \in S : ~(<<y, x>> \in OpToRel(<, Nat))
  BY NatLessThanWellFounded, WFMin, Zenon
<1>2. \A y \in Nat : y < x => <<y, x>> \in OpToRel(<, Nat)
  BY DEF OpToRel
<1>3. \A y \in S : ~(y < x)
  BY <1>1, <1>2, Zenon
<1>4. \A y \in S : x <= y
  BY <1>3
<1> QED
  BY <1>4 DEF Lowest

\* A chunk that is picked is one that is still wanted.
LEMMA LowestWanted ==
    ASSUME NEW cs \in ChunkTables, NEW offered \in SUBSET Chunks, Wanted(cs, offered) # {}
    PROVE  /\ Lowest(Wanted(cs, offered)) \in Chunks
           /\ Lowest(Wanted(cs, offered)) \in offered
           /\ cs[Lowest(Wanted(cs, offered))] = "NOT_STARTED"
<1>1. Wanted(cs, offered) \in SUBSET Nat
  <2>1. \A c \in Wanted(cs, offered) : c \in Nat
    BY Sizes DEF Wanted, Chunks
  <2> QED
    BY <2>1
<1>2. Lowest(Wanted(cs, offered)) \in Wanted(cs, offered)
  BY <1>1, LowestIn
<1> QED
  BY <1>2 DEF Wanted

LEMMA ConnFields ==
    ASSUME NEW list \in ConnLists
    PROVE  /\ Len(list) \in Nat /\ DOMAIN list = 1 .. Len(list)
           /\ \A k \in 1 .. Len(list) :
                /\ list[k] \in Connections /\ list[k].peer \in Peers
                /\ list[k].state \in {"WORKING", "NOT_WORKING"}
                /\ list[k].has \in SUBSET Chunks
<1>1. /\ Len(list) \in Nat /\ DOMAIN list = 1 .. Len(list)
      /\ \A k \in 1 .. Len(list) : list[k] \in Connections
  BY DEF ConnLists
<1> QED
  BY <1>1 DEF Connections

\* mark_peer_state changes one peer's state and nothing else.
LEMMA MarkPeerFacts ==
    ASSUME NEW list \in ConnLists, NEW p \in Peers, NEW state \in {"WORKING", "NOT_WORKING"}
    PROVE  /\ MarkPeer(list, p, state) \in ConnLists
           /\ Len(MarkPeer(list, p, state)) = Len(list)
           /\ \A k \in 1 .. Len(list) :
                /\ MarkPeer(list, p, state)[k].peer = list[k].peer
                /\ MarkPeer(list, p, state)[k].has = list[k].has
                /\ MarkPeer(list, p, state)[k].state = IF list[k].peer = p THEN state
                                                       ELSE list[k].state
<1> DEFINE new == [k \in 1 .. Len(list) |->
                     IF list[k].peer = p THEN [list[k] EXCEPT !.state = state] ELSE list[k]]
<1>1. MarkPeer(list, p, state) = new
  <2>1. DOMAIN list = 1 .. Len(list)
    BY DEF ConnLists
  <2> QED
    BY <2>1, Zenon DEF MarkPeer
<1>2. \A k \in 1 .. Len(list) : list[k] \in Connections
  BY DEF ConnLists
<1>3. \A k \in 1 .. Len(list) : new[k] \in Connections
  BY <1>2 DEF Connections
<1>4. new \in Seq(Connections) /\ Len(new) = Len(list)
  BY <1>3 DEF ConnLists
<1>5. \A k \in 1 .. Len(list) :
         /\ new[k].peer = list[k].peer
         /\ new[k].has = list[k].has
         /\ new[k].state = IF list[k].peer = p THEN state ELSE list[k].state
  BY <1>2 DEF Connections
<1> HIDE DEF new
<1> QED
  BY <1>1, <1>4, <1>5 DEF ConnLists

\* update_connections on a peer that has a connection.
LEMMA UpdateKnown ==
    ASSUME NEW list \in ConnLists, NEW p \in Peers, NEW offered \in SUBSET Chunks,
           \E k \in 1 .. Len(list) : list[k].peer = p
    PROVE  /\ UpdateConnections(list, p, offered) \in ConnLists
           /\ Len(UpdateConnections(list, p, offered)) = Len(list)
           /\ \A k \in 1 .. Len(list) :
                /\ UpdateConnections(list, p, offered)[k].peer = list[k].peer
                /\ UpdateConnections(list, p, offered)[k].state = list[k].state
                /\ UpdateConnections(list, p, offered)[k].has = IF list[k].peer = p THEN offered
                                                                ELSE list[k].has
<1> DEFINE new == [k \in 1 .. Len(list) |->
                     IF list[k].peer = p THEN [list[k] EXCEPT !.has = offered] ELSE list[k]]
<1>1. UpdateConnections(list, p, offered) = new
  <2>1. DOMAIN list = 1 .. Len(list)
    BY DEF ConnLists
  <2> QED
    BY <2>1, Zenon DEF UpdateConnections
<1>2. \A k \in 1 .. Len(list) : list[k] \in Connections
  BY DEF ConnLists
<1>3. \A k \in 1 .. Len(list) : new[k] \in Connections
  BY <1>2 DEF Connections
<1>4. new \in Seq(Connections) /\ Len(new) = Len(list)
  BY <1>3 DEF ConnLists
<1>5. \A k \in 1 .. Len(list) :
         /\ new[k].peer = list[k].peer
         /\ new[k].state = list[k].state
         /\ new[k].has = IF list[k].peer = p THEN offered ELSE list[k].has
  BY <1>2 DEF Connections
<1> HIDE DEF new
<1> QED
  BY <1>1, <1>4, <1>5 DEF ConnLists

\* update_connections on a new peer: its connection becomes the first.
LEMMA UpdateNew ==
    ASSUME NEW list \in ConnLists, NEW p \in Peers, NEW offered \in SUBSET Chunks,
           ~ \E k \in 1 .. Len(list) : list[k].peer = p
    PROVE  /\ UpdateConnections(list, p, offered) \in ConnLists
           /\ Len(UpdateConnections(list, p, offered)) = Len(list) + 1
           /\ UpdateConnections(list, p, offered)[1]
                = [peer |-> p, state |-> "NOT_WORKING", has |-> offered]
           /\ \A k \in 1 .. Len(list) : UpdateConnections(list, p, offered)[k + 1] = list[k]
<1> DEFINE new == [peer |-> p, state |-> "NOT_WORKING", has |-> offered]
<1>1. UpdateConnections(list, p, offered) = <<new>> \o list
  BY DEF UpdateConnections, ConnLists
<1>2. <<new>> \in Seq(Connections) /\ Len(<<new>>) = 1 /\ <<new>>[1] = new
  BY DEF Connections
<1>3. list \in Seq(Connections)
  BY DEF ConnLists
<1> HIDE DEF new
<1>4. /\ <<new>> \o list \in Seq(Connections)
      /\ Len(<<new>> \o list) = 1 + Len(list)
      /\ \A i \in 1 .. 1 + Len(list) :
           (<<new>> \o list)[i] = IF i <= 1 THEN <<new>>[i] ELSE list[i - 1]
  BY <1>2, <1>3, ConcatProperties
<1>5. \A k \in 1 .. Len(list) : (<<new>> \o list)[k + 1] = list[k]
  BY <1>3, <1>4
<1>6. (<<new>> \o list)[1] = new
  BY <1>2, <1>3, <1>4
<1> QED
  BY <1>1, <1>3, <1>4, <1>5, <1>6 DEF ConnLists, new

\* Unlinking takes one connection with p out of the list and leaves the others
\* in their order.
LEMMA UnlinkFacts ==
    ASSUME NEW list \in ConnLists, NEW p \in Peers,
           \E k \in 1 .. Len(list) : list[k].peer = p
    PROVE  \E m \in 1 .. Len(list) :
             /\ list[m].peer = p
             /\ Unlink(list, p) \in ConnLists
             /\ Len(Unlink(list, p)) = Len(list) - 1
             /\ \A j \in 1 .. Len(list) - 1 :
                  Unlink(list, p)[j] = IF j < m THEN list[j] ELSE list[j + 1]
<1> DEFINE mine == {k \in DOMAIN list : list[k].peer = p}
           m    == Lowest(mine)
<1>1. list \in Seq(Connections) /\ Len(list) \in Nat /\ DOMAIN list = 1 .. Len(list)
  BY DEF ConnLists
<1>2. mine # {} /\ mine \in SUBSET Nat
  BY <1>1
<1>3. m \in mine
  BY <1>2, LowestIn
<1>4. m \in 1 .. Len(list) /\ list[m].peer = p
  BY <1>1, <1>3
<1>5. Unlink(list, p) = SubSeq(list, 1, m - 1) \o SubSeq(list, m + 1, Len(list))
  BY <1>2 DEF Unlink, RemoveAt
<1> HIDE DEF m
<1> DEFINE s == SubSeq(list, 1, m - 1)
           t == SubSeq(list, m + 1, Len(list))
<1>6. /\ s \in Seq(Connections) /\ Len(s) = m - 1
      /\ \A i \in 1 .. m - 1 : s[i] = list[i]
  BY <1>1, <1>4, SubSeqProperties
<1>7. /\ t \in Seq(Connections) /\ Len(t) = Len(list) - m
      /\ \A i \in 1 .. Len(list) - m : t[i] = list[m + i]
  <2>1. m + 1 \in 1 .. Len(list) + 1 /\ Len(list) \in m + 1 - 1 .. Len(list)
    BY <1>1, <1>4
  <2>2. /\ t \in Seq(Connections)
        /\ Len(t) = IF m + 1 <= Len(list) THEN Len(list) - (m + 1) + 1 ELSE 0
        /\ \A i \in 1 .. Len(list) - (m + 1) + 1 : t[i] = list[m + 1 + i - 1]
    BY <1>1, <2>1, SubSeqProperties
  <2> HIDE DEF t
  <2> QED
    <3>1. Len(t) = Len(list) - m
      <4>1. Len(t) = IF m + 1 <= Len(list) THEN Len(list) - (m + 1) + 1 ELSE 0
        BY <2>2, Zenon
      <4>2. m \in Nat /\ Len(list) \in Nat /\ m <= Len(list)
        BY <1>1, <1>4
      <4> QED
        BY <4>1, <4>2
    <3>2. ASSUME NEW i \in 1 .. Len(list) - m
          PROVE  t[i] = list[m + i]
      <4>1. i \in 1 .. Len(list) - (m + 1) + 1 /\ m + 1 + i - 1 = m + i
        BY <1>1, <1>4
      <4> QED
        BY <2>2, <4>1
    <3> QED
      BY <2>2, <3>1, <3>2
<1> HIDE DEF s, t
<1>8. /\ s \o t \in Seq(Connections)
      /\ Len(s \o t) = Len(s) + Len(t)
      /\ \A i \in 1 .. Len(s) + Len(t) : (s \o t)[i] = IF i <= Len(s) THEN s[i] ELSE t[i - Len(s)]
  BY <1>6, <1>7, ConcatProperties
<1>9. ASSUME NEW j \in 1 .. Len(list) - 1
      PROVE  (s \o t)[j] = IF j < m THEN list[j] ELSE list[j + 1]
  <2>1. CASE j < m
    BY <1>1, <1>4, <1>6, <1>7, <1>8, <2>1
  <2>2. CASE j >= m
    <3>1. j - (m - 1) \in 1 .. Len(list) - m /\ m + (j - (m - 1)) = j + 1
      BY <1>1, <1>4, <2>2
    <3>2. (s \o t)[j] = t[j - (m - 1)]
      BY <1>1, <1>4, <1>6, <1>7, <1>8, <2>2
    <3> QED
      BY <1>1, <1>4, <1>7, <2>2, <3>1, <3>2
  <2>3. j < m \/ j >= m
    BY <1>1, <1>4
  <2> QED
    BY <2>1, <2>2, <2>3
<1>10. Unlink(list, p) = s \o t
  BY <1>5 DEF s, t
<1>11. Len(s \o t) = Len(list) - 1
  BY <1>1, <1>4, <1>6, <1>7, <1>8
<1> QED
  BY <1>4, <1>8, <1>9, <1>10, <1>11 DEF ConnLists
-------------------------------------------------------------------------------
(* The relations between the tables that the handlers keep, stated of any     *)
(* tables so that each helper has a lemma of its own.                         *)

\* A stream has a peer and a chunk of its own, and is open for exactly the
\* chunks that are RECEIVING.
Distinct(s) == \A i, j \in 1 .. MaxConn :
                  s[i] # NoStream /\ s[j] # NoStream /\ i # j =>
                     s[i].chunk # s[j].chunk /\ s[i].peer # s[j].peer
Paired(s, cs) ==
    /\ Distinct(s)
    /\ \A i \in 1 .. MaxConn : s[i] # NoStream => cs[s[i].chunk] = "RECEIVING"
    /\ \A c \in Chunks : cs[c] = "RECEIVING" =>
         \E i \in 1 .. MaxConn : s[i] # NoStream /\ s[i].chunk = c

Busy(s, p)      == \E i \in 1 .. MaxConn : s[i] # NoStream /\ s[i].peer = p
Listed(list, p) == \E k \in 1 .. Len(list) : list[k].peer = p
OneEach(list)   == \A j, k \in 1 .. Len(list) : list[j].peer = list[k].peer => j = k

\* The connections whose peers are in P are WORKING exactly while their peer has a
\* stream, and a stream's peer has a connection.
Marked(list, s, P) ==
    /\ \A k \in 1 .. Len(list) :
         list[k].peer \in P => (list[k].state = "WORKING" <=> Busy(s, list[k].peer))
    /\ \A i \in 1 .. MaxConn : s[i] # NoStream => Listed(list, s[i].peer)

LEMMA SlotsOfBusy ==
    ASSUME NEW s \in SlotTables, NEW p \in Peers
    PROVE  SlotsOf(s, p) # {} <=> Busy(s, p)
BY DEF SlotsOf, Busy, SlotTables

\* abort_download closes the one stream a peer has.
LEMMA AbortFacts ==
    ASSUME NEW s \in SlotTables, Distinct(s), NEW i \in 1 .. MaxConn, s[i] # NoStream
    PROVE  /\ SlotsOf(s, s[i].peer) = {i}
           /\ Lowest(SlotsOf(s, s[i].peer)) = i
           /\ AbortDownload(s, s[i].peer) = [s EXCEPT ![i] = NoStream]
<1>1. SlotsOf(s, s[i].peer) = {i}
  BY DEF SlotsOf, SlotTables, Distinct
<1>2. Lowest({i}) = i
  BY LowestIn, Sizes
<1> QED
  BY <1>1, <1>2, Zenon DEF AbortDownload

\* With a slot for every peer, a peer without a stream finds one free: the
\* peers of the open streams are distinct and do not include it.
LEMMA FreeSlot ==
    ASSUME Cardinality(Peers) <= MaxConn,
           NEW s \in SlotTables, Distinct(s), NEW p \in Peers, ~Busy(s, p)
    PROVE  \E i \in 1 .. MaxConn : s[i] = NoStream
<1> SUFFICES ASSUME \A i \in 1 .. MaxConn : s[i] # NoStream
             PROVE  FALSE
  OBVIOUS
<1> DEFINE f == [i \in 1 .. MaxConn |-> s[i].peer]
<1>1. f \in [1 .. MaxConn -> Peers \ {p}]
  <2>1. \A i \in 1 .. MaxConn : s[i].peer \in Peers \ {p}
    BY DEF Busy, SlotTables, Streams
  <2> QED
    BY <2>1
<1>2. IsFiniteSet(1 .. MaxConn) /\ Cardinality(1 .. MaxConn) = MaxConn
  BY Sizes, FS_Interval
<1>3. /\ IsFiniteSet(Peers \ {p})
      /\ Cardinality(Peers \ {p}) = Cardinality(Peers) - 1
      /\ Cardinality(Peers) \in Nat
  BY FS_RemoveElement, FS_CardinalityType, DownloadAssumption DEF DownloadAssumption
<1>4. Cardinality(Peers \ {p}) < Cardinality(1 .. MaxConn)
  BY <1>2, <1>3, Sizes
<1>5. \E i, j \in 1 .. MaxConn : i # j /\ f[i] = f[j]
  <2> DEFINE places == 1 .. MaxConn
             others == Peers \ {p}
  <2>1. /\ IsFiniteSet(places) /\ IsFiniteSet(others) /\ f \in [places -> others]
        /\ Cardinality(others) < Cardinality(places)
    BY <1>1, <1>2, <1>3, <1>4
  <2> HIDE DEF f, places, others
  <2>2. \E i, j \in places : i # j /\ f[i] = f[j]
    BY <2>1, FS_PigeonHole
  <2> QED
    BY <2>2 DEF places
<1> QED
  BY <1>5 DEF Distinct

\* start_download puts the stream into a free slot.
LEMMA StartFacts ==
    ASSUME NEW s \in SlotTables, \E i \in 1 .. MaxConn : s[i] = NoStream,
           NEW p \in Peers, NEW c \in Chunks, NEW served \in BOOLEAN
    PROVE  \E i \in 1 .. MaxConn :
             /\ s[i] = NoStream
             /\ StartDownload(s, p, c, served)
                  = [s EXCEPT ![i] = [peer |-> p, chunk |-> c, served |-> served]]
<1> DEFINE free == {i \in DOMAIN s : s[i] = NoStream}
<1>1. DOMAIN s = 1 .. MaxConn
  BY DEF SlotTables
<1>2. free # {} /\ free \in SUBSET Nat
  BY <1>1, Sizes
<1>3. Lowest(free) \in free
  BY <1>2, LowestIn
<1>4. StartDownload(s, p, c, served)
        = [s EXCEPT ![Lowest(free)] = [peer |-> p, chunk |-> c, served |-> served]]
  BY <1>2, Zenon DEF StartDownload
<1> QED
  BY <1>1, <1>3, <1>4

\* Closing a stream and giving its chunk another state keeps streams and chunks
\* paired.
LEMMA CloseStream ==
    ASSUME NEW s \in SlotTables, NEW cs \in ChunkTables, Paired(s, cs),
           NEW i \in 1 .. MaxConn, s[i] # NoStream,
           NEW state \in {"NOT_STARTED", "OWNED"}
    PROVE  LET s2 == [s EXCEPT ![i] = NoStream]
               cs2 == [cs EXCEPT ![s[i].chunk] = state]
           IN  /\ s2 \in SlotTables /\ cs2 \in ChunkTables
               /\ s[i].chunk \in Chunks /\ s[i].peer \in Peers
               /\ Paired(s2, cs2)
               /\ ~Busy(s2, s[i].peer)
               /\ \A q \in Peers \ {s[i].peer} : Busy(s2, q) <=> Busy(s, q)
               /\ \A j \in 1 .. MaxConn : s2[j] # NoStream => s[j] = s2[j]
<1> DEFINE s2 == [s EXCEPT ![i] = NoStream]
           cs2 == [cs EXCEPT ![s[i].chunk] = state]
<1>1. s[i].chunk \in Chunks /\ s[i].peer \in Peers
  BY DEF SlotTables, Streams
<1>2. s2 \in SlotTables /\ cs2 \in ChunkTables
  BY <1>1 DEF SlotTables, ChunkTables, ChunkStates
<1>3. /\ s2[i] = NoStream
      /\ \A j \in 1 .. MaxConn : j # i => s2[j] = s[j]
  BY DEF SlotTables
<1>4. /\ cs2[s[i].chunk] = state
      /\ \A c \in Chunks : c # s[i].chunk => cs2[c] = cs[c]
  BY <1>1 DEF ChunkTables
<1> HIDE DEF s2, cs2
<1>5. Distinct(s2)
  BY <1>3 DEF Paired, Distinct
<1>6. \A j \in 1 .. MaxConn : s2[j] # NoStream => cs2[s2[j].chunk] = "RECEIVING"
  <2>1. \A j \in 1 .. MaxConn : s[j] # NoStream => s[j].chunk \in Chunks
    BY DEF SlotTables, Streams
  <2> QED
    BY <1>3, <1>4, <2>1 DEF Paired, Distinct
<1>7. \A c \in Chunks : cs2[c] = "RECEIVING" =>
         \E j \in 1 .. MaxConn : s2[j] # NoStream /\ s2[j].chunk = c
  BY <1>1, <1>3, <1>4 DEF Paired
<1>8. ~Busy(s2, s[i].peer) /\ \A q \in Peers \ {s[i].peer} : Busy(s2, q) <=> Busy(s, q)
  BY <1>3 DEF Paired, Distinct, Busy
<1> QED
  BY <1>1, <1>2, <1>3, <1>5, <1>6, <1>7, <1>8 DEF Paired, s2, cs2

\* Opening a stream with a peer that has none, for a chunk that is wanted, keeps
\* streams and chunks paired.
LEMMA OpenStream ==
    ASSUME NEW s \in SlotTables, NEW cs \in ChunkTables, Paired(s, cs),
           NEW i \in 1 .. MaxConn, s[i] = NoStream,
           NEW p \in Peers, ~Busy(s, p), NEW c \in Chunks, cs[c] = "NOT_STARTED",
           NEW s2 \in SlotTables, s2[i] # NoStream, s2[i].peer = p, s2[i].chunk = c,
           \A j \in 1 .. MaxConn : j # i => s2[j] = s[j],
           NEW cs2 \in ChunkTables, cs2[c] = "RECEIVING",
           \A d \in Chunks : d # c => cs2[d] = cs[d]
    PROVE  /\ Paired(s2, cs2) /\ Busy(s2, p)
           /\ \A q \in Peers \ {p} : Busy(s2, q) <=> Busy(s, q)
<1>1. \A j \in 1 .. MaxConn : s[j] # NoStream => s[j].chunk \in Chunks /\ s[j].chunk # c
                                                /\ s[j].peer # p
  BY DEF SlotTables, Streams, Paired, Busy
<1>2. Distinct(s2)
  BY <1>1 DEF Paired, Distinct
<1>3. \A j \in 1 .. MaxConn : s2[j] # NoStream => cs2[s2[j].chunk] = "RECEIVING"
  BY <1>1 DEF Paired
<1>4. \A d \in Chunks : cs2[d] = "RECEIVING" =>
         \E j \in 1 .. MaxConn : s2[j] # NoStream /\ s2[j].chunk = d
  BY DEF Paired
<1>5. Busy(s2, p) /\ \A q \in Peers \ {p} : Busy(s2, q) <=> Busy(s, q)
  BY DEF Busy
<1> QED
  BY <1>2, <1>3, <1>4, <1>5 DEF Paired

\* mark_peer_state keeps one connection for each peer and the same peers, and
\* makes a peer's mark right when it is given the state its streams call for.
LEMMA MarkBooks ==
    ASSUME NEW list \in ConnLists, NEW s \in SlotTables, NEW p \in Peers,
           NEW s2 \in SlotTables, Marked(list, s, Peers \ {p}), OneEach(list), Listed(list, p),
           \A q \in Peers \ {p} : Busy(s2, q) <=> Busy(s, q),
           NEW state \in {"WORKING", "NOT_WORKING"}, state = "WORKING" <=> Busy(s2, p)
    PROVE  /\ Marked(MarkPeer(list, p, state), s2, Peers)
           /\ OneEach(MarkPeer(list, p, state))
           /\ \A q \in Peers : Listed(MarkPeer(list, p, state), q) <=> Listed(list, q)
<1> DEFINE new == MarkPeer(list, p, state)
<1>1. /\ new \in ConnLists /\ Len(new) = Len(list)
      /\ \A k \in 1 .. Len(list) :
           /\ new[k].peer = list[k].peer
           /\ new[k].state = IF list[k].peer = p THEN state ELSE list[k].state
  BY MarkPeerFacts
<1> HIDE DEF new
<1>2. \A q \in Peers : Listed(new, q) <=> Listed(list, q)
  BY <1>1 DEF Listed
<1>3. OneEach(new)
  BY <1>1 DEF OneEach
<1>4. \A k \in 1 .. Len(list) : list[k].peer \in Peers
  BY ConnFields
<1>5. \A k \in 1 .. Len(new) : new[k].state = "WORKING" <=> Busy(s2, new[k].peer)
  <2> SUFFICES ASSUME NEW k \in 1 .. Len(list)
               PROVE  new[k].state = "WORKING" <=> Busy(s2, list[k].peer)
    BY <1>1
  <2>1. CASE list[k].peer = p
    BY <1>1, <2>1
  <2>2. CASE list[k].peer # p
    BY <1>1, <1>4, <2>2 DEF Marked
  <2> QED
    BY <2>1, <2>2
<1>6. \A i \in 1 .. MaxConn : s2[i] # NoStream => Listed(new, s2[i].peer)
  <2> SUFFICES ASSUME NEW i \in 1 .. MaxConn, s2[i] # NoStream
               PROVE  Listed(list, s2[i].peer)
    <3>1. \A j \in 1 .. MaxConn : s2[j] # NoStream => s2[j].peer \in Peers
      BY DEF SlotTables, Streams
    <3> QED
      BY <1>2, <3>1
  <2>1. s2[i].peer \in Peers
    BY DEF SlotTables, Streams
  <2>2. CASE s2[i].peer # p
    <3>1. Busy(s, s2[i].peer)
      BY <2>1, <2>2 DEF Busy
    <3>2. PICK j \in 1 .. MaxConn : s[j] # NoStream /\ s[j].peer = s2[i].peer
      BY <3>1 DEF Busy
    <3> QED
      BY <3>2 DEF Marked
  <2> QED
    BY <2>2
<1> QED
  BY <1>1, <1>2, <1>3, <1>5, <1>6 DEF Marked, new

\* update_connections with a peer that has no stream: its connection, old or new,
\* is not marked WORKING.
LEMMA UpdateBooks ==
    ASSUME NEW list \in ConnLists, NEW s \in SlotTables, NEW p \in Peers,
           NEW offered \in SUBSET Chunks,
           Marked(list, s, Peers), OneEach(list), ~Busy(s, p)
    PROVE  LET new == UpdateConnections(list, p, offered)
           IN  /\ new \in ConnLists
               /\ Marked(new, s, Peers) /\ OneEach(new) /\ Listed(new, p)
               /\ \A q \in Peers \ {p} : Listed(new, q) <=> Listed(list, q)
<1> DEFINE new == UpdateConnections(list, p, offered)
<1>1. CASE Listed(list, p)
  <2>1. /\ new \in ConnLists /\ Len(new) = Len(list)
        /\ \A k \in 1 .. Len(list) :
             new[k].peer = list[k].peer /\ new[k].state = list[k].state
    BY <1>1, UpdateKnown DEF Listed
  <2> HIDE DEF new
  <2>2. \A q \in Peers : Listed(new, q) <=> Listed(list, q)
    BY <2>1 DEF Listed
  <2>3. OneEach(new)
    BY <2>1 DEF OneEach
  <2>4. Marked(new, s, Peers)
    BY <2>1 DEF Marked, Listed
  <2> QED
    BY <1>1, <2>1, <2>2, <2>3, <2>4 DEF new
<1>2. CASE ~Listed(list, p)
  <2>1. /\ new \in ConnLists /\ Len(new) = Len(list) + 1
        /\ new[1] = [peer |-> p, state |-> "NOT_WORKING", has |-> offered]
        /\ \A k \in 1 .. Len(list) : new[k + 1] = list[k]
    BY <1>2, UpdateNew DEF Listed
  <2> HIDE DEF new
  <2>2. Len(list) \in Nat
    BY ConnFields
  <2>3. new[1].peer = p /\ new[1].state = "NOT_WORKING" /\ 1 \in 1 .. Len(new)
    BY <2>1, <2>2
  <2>4. \A k \in 1 .. Len(new) : k = 1 \/ (k - 1 \in 1 .. Len(list) /\ new[k] = list[k - 1])
    <3> SUFFICES ASSUME NEW k \in 1 .. Len(new), k # 1
                 PROVE  k - 1 \in 1 .. Len(list) /\ new[k] = list[k - 1]
      OBVIOUS
    <3>1. k - 1 \in 1 .. Len(list) /\ (k - 1) + 1 = k
      BY <2>1, <2>2
    <3> QED
      BY <2>1, <3>1
  <2>5. \A k \in 1 .. Len(list) : k + 1 \in 1 .. Len(new)
    BY <2>1, <2>2
  <2>6. \A q \in Peers : Listed(list, q) => Listed(new, q)
    BY <2>1, <2>5 DEF Listed
  <2>7. \A q \in Peers : Listed(new, q) => q = p \/ Listed(list, q)
    BY <2>3, <2>4 DEF Listed
  <2>8. OneEach(new)
    <3> SUFFICES ASSUME NEW j \in 1 .. Len(new), NEW k \in 1 .. Len(new),
                        new[j].peer = new[k].peer
                 PROVE  j = k
      BY DEF OneEach
    <3>1. CASE j = 1
      BY <1>2, <2>3, <2>4, <3>1 DEF Listed
    <3>2. CASE k = 1
      BY <1>2, <2>3, <2>4, <3>2 DEF Listed
    <3>3. CASE j # 1 /\ k # 1
      <4>1. j - 1 = k - 1
        BY <2>4, <3>3 DEF OneEach
      <4> QED
        BY <4>1
    <3> QED
      BY <3>1, <3>2, <3>3
  <2>9. Marked(new, s, Peers)
    <3>1. \A k \in 1 .. Len(new) : new[k].peer \in Peers =>
             (new[k].state = "WORKING" <=> Busy(s, new[k].peer))
      BY <2>3, <2>4 DEF Marked
    <3>2. \A i \in 1 .. MaxConn : s[i] # NoStream => Listed(new, s[i].peer)
      <4>1. \A i \in 1 .. MaxConn : s[i] # NoStream => s[i].peer \in Peers
        BY DEF SlotTables, Streams
      <4> QED
        BY <2>6, <4>1 DEF Marked
    <3> QED
      BY <3>1, <3>2 DEF Marked
  <2>10. Listed(new, p)
    BY <2>3 DEF Listed
  <2> QED
    BY <2>1, <2>6, <2>7, <2>8, <2>9, <2>10 DEF new
<1> QED
  BY <1>1, <1>2

\* Unlinking the connection of a peer that has no stream any more.
LEMMA UnlinkBooks ==
    ASSUME NEW list \in ConnLists, NEW s \in SlotTables, NEW p \in Peers,
           Marked(list, s, Peers \ {p}), OneEach(list), Listed(list, p), ~Busy(s, p)
    PROVE  LET new == Unlink(list, p)
           IN  /\ new \in ConnLists /\ new # list
               /\ Marked(new, s, Peers) /\ OneEach(new)
               /\ \A q \in Peers : Listed(new, q) <=> q # p /\ Listed(list, q)
               /\ \A k \in 1 .. Len(new) : \E j \in 1 .. Len(list) : new[k] = list[j]
<1> DEFINE new == Unlink(list, p)
<1>1. PICK m \in 1 .. Len(list) :
         /\ list[m].peer = p
         /\ new \in ConnLists /\ Len(new) = Len(list) - 1
         /\ \A j \in 1 .. Len(list) - 1 : new[j] = IF j < m THEN list[j] ELSE list[j + 1]
  BY UnlinkFacts DEF Listed
<1> HIDE DEF new
<1>2. Len(list) \in Nat /\ \A k \in 1 .. Len(list) : list[k].peer \in Peers
  BY ConnFields
<1>3. new # list
  BY <1>1, <1>2
<1> DEFINE old(j) == IF j < m THEN j ELSE j + 1
<1>4. \A j \in 1 .. Len(new) : old(j) \in 1 .. Len(list) /\ old(j) # m /\ new[j] = list[old(j)]
  BY <1>1, <1>2
<1>5. \A k \in 1 .. Len(list) : k # m => \E j \in 1 .. Len(new) : old(j) = k
  <2> SUFFICES ASSUME NEW k \in 1 .. Len(list), k # m
               PROVE  \E j \in 1 .. Len(new) : old(j) = k
    OBVIOUS
  <2>1. CASE k < m
    <3>1. k \in 1 .. Len(new) /\ old(k) = k
      BY <1>1, <1>2, <2>1
    <3> QED
      BY <3>1
  <2>2. CASE k > m
    <3>1. k - 1 \in 1 .. Len(new) /\ old(k - 1) = k
      BY <1>1, <1>2, <2>2
    <3> QED
      BY <3>1
  <2> QED
    BY <1>1, <1>2, <2>1, <2>2
<1>6. \A j, k \in 1 .. Len(new) : old(j) = old(k) => j = k
  BY <1>1, <1>2
<1> HIDE DEF old
<1>7. \A k \in 1 .. Len(list) : k # m => list[k].peer # p
  BY <1>1 DEF OneEach
<1>8. \A q \in Peers : Listed(new, q) <=> q # p /\ Listed(list, q)
  <2> SUFFICES ASSUME NEW q \in Peers
               PROVE  Listed(new, q) <=> q # p /\ Listed(list, q)
    OBVIOUS
  <2>1. ASSUME Listed(new, q) PROVE q # p /\ Listed(list, q)
    BY <1>4, <1>7, <2>1 DEF Listed
  <2>2. ASSUME q # p, Listed(list, q) PROVE Listed(new, q)
    <3>1. PICK k \in 1 .. Len(list) : list[k].peer = q
      BY <2>2 DEF Listed
    <3>2. PICK j \in 1 .. Len(new) : old(j) = k
      BY <1>1, <1>5, <2>2, <3>1
    <3> QED
      BY <1>4, <3>1, <3>2 DEF Listed
  <2> QED
    BY <2>1, <2>2
<1>9. OneEach(new)
  BY <1>4, <1>6 DEF OneEach
<1>10. \A k \in 1 .. Len(new) : new[k].peer \in Peers =>
          (new[k].state = "WORKING" <=> Busy(s, new[k].peer))
  BY <1>2, <1>4, <1>7 DEF Marked
<1>11. \A i \in 1 .. MaxConn : s[i] # NoStream => Listed(new, s[i].peer)
  <2>1. \A i \in 1 .. MaxConn : s[i] # NoStream => s[i].peer \in Peers /\ s[i].peer # p
    BY DEF SlotTables, Streams, Busy
  <2> QED
    BY <1>8, <2>1 DEF Marked
<1> QED
  BY <1>1, <1>3, <1>4, <1>8, <1>9, <1>10, <1>11 DEF Marked, new

-------------------------------------------------------------------------------
(* Types.                                                                     *)

LEMMA KnownType ==
    ASSUME NEW list \in ConnLists, NEW p \in Peers
    PROVE  Known(list, p) \in SUBSET Chunks
<1>1. \A k \in DOMAIN list : list[k].has \in SUBSET Chunks
  BY ConnFields
<1> QED
  BY <1>1 DEF Known

LEMMA AbortType ==
    ASSUME NEW s \in SlotTables, NEW p \in Peers
    PROVE  AbortDownload(s, p) \in SlotTables
BY DEF AbortDownload, SlotTables

LEMMA StartType ==
    ASSUME NEW s \in SlotTables, NEW p \in Peers, NEW c \in Chunks, NEW served \in BOOLEAN
    PROVE  StartDownload(s, p, c, served) \in SlotTables
<1> DEFINE new == [peer |-> p, chunk |-> c, served |-> served]
<1>1. new \in Streams
  BY DEF Streams
<1> HIDE DEF new
<1>2. \A i : [s EXCEPT ![i] = new] \in SlotTables
  BY <1>1 DEF SlotTables
<1> QED
  BY <1>2 DEF StartDownload, new

LEMMA PickType ==
    ASSUME NEW list \in ConnLists, NEW s \in SlotTables, NEW cs \in ChunkTables,
           NEW p \in Peers, NEW c \in Chunks, losses \in 0 .. MaxLosses,
           Pick(list, s, cs, p, c)
    PROVE  /\ conns' \in ConnLists /\ slots' \in SlotTables /\ chunks' \in ChunkTables
           /\ losses' \in 0 .. MaxLosses
<1>1. MaxLosses \in Nat
  BY DownloadAssumption DEF DownloadAssumption
<1>2. conns' \in ConnLists
  BY MarkPeerFacts DEF Pick
<1>3. chunks' \in ChunkTables
  BY DEF Pick, ChunkTables, ChunkStates
<1>4. slots' \in SlotTables /\ losses' \in 0 .. MaxLosses
  <2>1. PICK served \in BOOLEAN :
           /\ slots' = StartDownload(s, p, c, served)
           /\ IF slots' = s THEN served /\ UNCHANGED losses ELSE SentGet(p, served)
    BY DEF Pick
  <2>2. losses' = losses \/ (losses < MaxLosses /\ losses' = losses + 1)
    BY <2>1 DEF SentGet
  <2> QED
    BY <1>1, <2>1, <2>2, StartType
<1> QED
  BY <1>2, <1>3, <1>4

\* The first idle connection that has something to do.
LEMMA IdleFacts ==
    ASSUME NEW list \in ConnLists, NEW cs \in ChunkTables, Idle(list, cs) # {}
    PROVE  LET k == Lowest(Idle(list, cs))
           IN  /\ k \in 1 .. Len(list)
               /\ list[k].peer \in Peers
               /\ list[k].state = "NOT_WORKING"
               /\ Known(list, list[k].peer) \in SUBSET Chunks
               /\ Wanted(cs, Known(list, list[k].peer)) # {}
<1>1. Idle(list, cs) \in SUBSET Nat
  <2>1. \A k \in Idle(list, cs) : k \in Nat
    BY ConnFields DEF Idle
  <2> QED
    BY <2>1
<1> DEFINE k == Lowest(Idle(list, cs))
<1>2. k \in Idle(list, cs)
  BY <1>1, LowestIn
<1> HIDE DEF k
<1>3. k \in 1 .. Len(list) /\ list[k].state = "NOT_WORKING"
      /\ Wanted(cs, Known(list, list[k].peer)) # {}
  BY <1>2, ConnFields DEF Idle
<1>4. list[k].peer \in Peers
  BY <1>3, ConnFields
<1> QED
  BY <1>3, <1>4, KnownType DEF k

LEMMA AnswersType ==
    ASSUME NEW p \in Peers
    PROVE  /\ Answers(p) \in Seq(SUBSET Chunks)
           /\ Len(Answers(p)) = Cardinality(Asked(p))
           /\ \A n \in 1 .. Len(Answers(p)) : Answers(p)[n] \subseteq Owns[p]
<1>1. IsFiniteSet(Asked(p)) /\ Cardinality(Asked(p)) \in Nat
  <2>1. IsFiniteSet(Chunks)
    BY Sizes, FS_Interval DEF Chunks
  <2>2. Asked(p) \subseteq Chunks
    BY DEF Asked
  <2> QED
    BY <2>1, <2>2, FS_Subset, FS_CardinalityType
<1>2. Owns[p] \in SUBSET Chunks
  BY DownloadAssumption DEF DownloadAssumption
<1> DEFINE packet(n) == CHOOSE j \in Asked(p) : Cardinality({i \in Asked(p) : i < j}) = n - 1
           len == Cardinality(Asked(p))
<1>3. Answers(p) = [n \in 1 .. len |-> Owns[p] \cap InPacket(packet(n))]
  BY Zenon DEF Answers
<1> HIDE DEF packet, len
<1>4. \A n \in 1 .. len : Owns[p] \cap InPacket(packet(n)) \in SUBSET Chunks
  BY <1>2
<1>5. len \in Nat
  BY <1>1 DEF len
<1>6. /\ Answers(p) \in Seq(SUBSET Chunks) /\ Len(Answers(p)) = len
      /\ \A n \in 1 .. len : Answers(p)[n] = Owns[p] \cap InPacket(packet(n))
  BY <1>3, <1>4, <1>5
<1>7. \A n \in 1 .. len : Answers(p)[n] \subseteq Owns[p]
  BY <1>6
<1> QED
  BY <1>6, <1>7 DEF len

\* The stream a lookup of p finds.
LEMMA FirstStream ==
    ASSUME NEW s \in SlotTables, NEW p \in Peers, SlotsOf(s, p) # {}
    PROVE  LET i == Lowest(SlotsOf(s, p))
           IN  /\ i \in 1 .. MaxConn /\ s[i] # NoStream
               /\ s[i].peer = p /\ s[i].chunk \in Chunks
<1>1. SlotsOf(s, p) \in SUBSET Nat
  <2>1. \A i \in SlotsOf(s, p) : i \in Nat
    BY Sizes DEF SlotsOf, SlotTables
  <2> QED
    BY <2>1
<1> DEFINE i == Lowest(SlotsOf(s, p))
<1>2. i \in SlotsOf(s, p)
  BY <1>1, LowestIn
<1> HIDE DEF i
<1>3. i \in 1 .. MaxConn /\ s[i] # NoStream /\ s[i].peer = p
  BY <1>2 DEF SlotsOf, SlotTables
<1>4. s[i].chunk \in Chunks
  BY <1>3 DEF SlotTables, Streams
<1> QED
  BY <1>3, <1>4 DEF i

LEMMA UpdateType ==
    ASSUME NEW list \in ConnLists, NEW p \in Peers, NEW offered \in SUBSET Chunks
    PROVE  UpdateConnections(list, p, offered) \in ConnLists
BY UpdateKnown, UpdateNew

LEMMA UnlinkType ==
    ASSUME NEW list \in ConnLists, NEW p \in Peers
    PROVE  Unlink(list, p) \in ConnLists
<1>1. CASE \E k \in 1 .. Len(list) : list[k].peer = p
  BY <1>1, UnlinkFacts
<1>2. CASE ~ \E k \in 1 .. Len(list) : list[k].peer = p
  <2>1. {k \in DOMAIN list : list[k].peer = p} = {}
    BY <1>2, ConnFields
  <2> QED
    BY <2>1, Zenon DEF Unlink
<1> QED
  BY <1>1, <1>2

\* What an IHAVE of p leads to.
LEMMA ReceiveIHaveCases ==
    ASSUME TypeOK, NEW p \in Peers, ReceiveIHave(p)
    PROVE  LET offered == Head(ihaves[p])
               list    == UpdateConnections(conns, p, offered)
           IN  /\ offered \in SUBSET Chunks /\ list \in ConnLists
               /\ \/ request /\ \E c \in Chunks : /\ c \in offered /\ chunks[c] = "NOT_STARTED"
                                                 /\ Pick(list, slots, chunks, p, c)
                  \/ /\ request /\ Wanted(chunks, offered) = {}
                     /\ conns' = MarkPeer(list, p, "NOT_WORKING")
                     /\ UNCHANGED <<chunks, slots, losses>>
                  \/ ~request /\ conns' = list /\ UNCHANGED <<chunks, slots, losses>>
<1> DEFINE offered == Head(ihaves[p])
           list    == UpdateConnections(conns, p, offered)
<1>1. offered \in SUBSET Chunks
  BY DEF ReceiveIHave, TypeOK
<1>2. conns \in ConnLists /\ chunks \in ChunkTables
  BY DEF TypeOK, ConnLists, ChunkTables
<1>3. list \in ConnLists
  BY <1>1, <1>2, UpdateType
<1>4. request \in BOOLEAN
  BY DEF TypeOK
<1>5. CASE request /\ Wanted(chunks, offered) # {}
  <2>1. Pick(list, slots, chunks, p, Lowest(Wanted(chunks, offered)))
    BY <1>5 DEF ReceiveIHave
  <2>2. /\ Lowest(Wanted(chunks, offered)) \in Chunks
        /\ Lowest(Wanted(chunks, offered)) \in offered
        /\ chunks[Lowest(Wanted(chunks, offered))] = "NOT_STARTED"
    BY <1>1, <1>2, <1>5, LowestWanted
  <2> HIDE DEF list, offered
  <2>3. \E c \in Chunks : /\ c \in offered /\ chunks[c] = "NOT_STARTED"
                          /\ Pick(list, slots, chunks, p, c)
    BY <2>1, <2>2
  <2> QED
    BY <1>1, <1>3, <1>5, <2>3 DEF list, offered
<1>6. CASE request /\ Wanted(chunks, offered) = {}
  <2>1. conns' = MarkPeer(list, p, "NOT_WORKING") /\ UNCHANGED <<chunks, slots, losses>>
    BY <1>6, Zenon DEF ReceiveIHave
  <2> QED
    BY <1>1, <1>3, <1>6, <2>1
<1>7. CASE ~request
  <2>1. conns' = list /\ UNCHANGED <<chunks, slots, losses>>
    BY <1>7, Zenon DEF ReceiveIHave
  <2> QED
    BY <1>1, <1>3, <1>7, <2>1
<1> QED
  BY <1>4, <1>5, <1>6, <1>7

\* What the packet that fills a chunk leads to.
LEMMA ReceiveChunkCases ==
    ASSUME TypeOK, NEW p \in Peers, ReceiveChunk(p)
    PROVE  LET i == Lowest(SlotsOf(slots, p))
               c == slots[i].chunk
               s == AbortDownload(slots, p)
           IN  /\ i \in 1 .. MaxConn /\ slots[i] # NoStream /\ slots[i].peer = p
               /\ c \in Chunks /\ s \in SlotTables
               /\ \E verified \in BOOLEAN :
                    LET cs == [chunks EXCEPT ![c] = IF verified THEN "OWNED" ELSE "NOT_STARTED"]
                    IN  /\ Alone(i) => verified
                        /\ has' = IF verified THEN has \union {c} ELSE has
                        /\ file' = IF verified THEN WriteFile(file, c) ELSE file
                        /\ cs \in ChunkTables
                        /\ \/ \E d \in Chunks : /\ d \in Known(conns, p) /\ cs[d] = "NOT_STARTED"
                                                /\ Pick(conns, s, cs, p, d)
                           \/ /\ Wanted(cs, Known(conns, p)) = {}
                              /\ chunks' = cs /\ slots' = s /\ UNCHANGED losses
                              /\ conns' = MarkPeer(conns, p, "NOT_WORKING")
<1> DEFINE i == Lowest(SlotsOf(slots, p))
           c == slots[i].chunk
           s == AbortDownload(slots, p)
           cs(verified) == [chunks EXCEPT ![c] = IF verified THEN "OWNED" ELSE "NOT_STARTED"]
           known == Known(conns, p)
<1>1. slots \in SlotTables /\ conns \in ConnLists /\ chunks \in ChunkTables
  BY DEF TypeOK, SlotTables, ConnLists, ChunkTables
<1>2. SlotsOf(slots, p) # {}
  BY DEF ReceiveChunk
<1>3. i \in 1 .. MaxConn /\ slots[i] # NoStream /\ slots[i].peer = p /\ c \in Chunks
  BY <1>1, <1>2, FirstStream
<1>4. s \in SlotTables /\ known \in SUBSET Chunks
  BY <1>1, AbortType, KnownType
<1>5. PICK verified \in BOOLEAN :
         /\ Alone(i) => verified
         /\ has' = IF verified THEN has \union {c} ELSE has
         /\ file' = IF verified THEN WriteFile(file, c) ELSE file
         /\ IF Wanted(cs(verified), known) # {}
            THEN Pick(conns, s, cs(verified), p, Lowest(Wanted(cs(verified), known)))
            ELSE /\ chunks' = cs(verified) /\ slots' = s
                 /\ conns' = MarkPeer(conns, p, "NOT_WORKING")
                 /\ UNCHANGED losses
  BY Zenon DEF ReceiveChunk
<1> HIDE DEF i, c, s, known
<1>6. cs(verified) \in ChunkTables
  BY <1>1, <1>3 DEF ChunkTables, ChunkStates
<1> HIDE DEF cs
<1>7. \/ \E d \in Chunks : /\ d \in known /\ cs(verified)[d] = "NOT_STARTED"
                          /\ Pick(conns, s, cs(verified), p, d)
      \/ /\ Wanted(cs(verified), known) = {}
         /\ chunks' = cs(verified) /\ slots' = s /\ UNCHANGED losses
         /\ conns' = MarkPeer(conns, p, "NOT_WORKING")
  <2>1. CASE Wanted(cs(verified), known) # {}
    <3> DEFINE d == Lowest(Wanted(cs(verified), known))
    <3>1. d \in Chunks /\ d \in known /\ cs(verified)[d] = "NOT_STARTED"
      BY <1>4, <1>6, <2>1, LowestWanted
    <3>2. Pick(conns, s, cs(verified), p, d)
      BY <1>5, <2>1
    <3> QED
      BY <3>1, <3>2
  <2>2. CASE Wanted(cs(verified), known) = {}
    BY <1>5, <2>2
  <2> QED
    BY <2>1, <2>2
<1> QED
  BY <1>3, <1>4, <1>5, <1>6, <1>7, Zenon DEF i, c, s, cs, known

\* What a stream that timed out leads to.
LEMMA CrashDownloadCases ==
    ASSUME TypeOK, NEW i \in 1 .. MaxConn, CrashDownload(i)
    PROVE  LET p    == slots[i].peer
               s    == AbortDownload(slots, p)
               cs   == Reset(chunks, slots[i].chunk)
               list == Unlink(conns, p)
           IN  /\ slots[i] # NoStream /\ p \in Peers /\ slots[i].chunk \in Chunks
               /\ s \in SlotTables /\ cs \in ChunkTables /\ list \in ConnLists
               /\ \/ /\ ~request \/ conns = << >>
                     /\ slots' = s /\ UNCHANGED <<chunks, conns, losses>>
                  \/ /\ request
                     /\ list # conns
                     /\ \E k \in 1 .. Len(list), d \in Chunks :
                          /\ list[k].peer \in Peers /\ list[k].state = "NOT_WORKING"
                          /\ d \in Known(list, list[k].peer) /\ cs[d] = "NOT_STARTED"
                          /\ Pick(list, s, cs, list[k].peer, d)
                  \/ /\ request
                     /\ list = conns \/ Idle(list, cs) = {}
                     /\ chunks' = cs /\ slots' = s /\ conns' = list /\ UNCHANGED losses
<1> DEFINE p    == slots[i].peer
           s    == AbortDownload(slots, p)
           cs   == Reset(chunks, slots[i].chunk)
           list == Unlink(conns, p)
           k    == Lowest(Idle(list, cs))
           known == Known(list, list[k].peer)
           d    == Lowest(Wanted(cs, known))
<1>1. /\ slots \in SlotTables /\ conns \in ConnLists /\ chunks \in ChunkTables
      /\ request \in BOOLEAN
  BY DEF TypeOK, SlotTables, ConnLists, ChunkTables
<1>2. slots[i] # NoStream
  BY DEF CrashDownload
<1>3. p \in Peers /\ slots[i].chunk \in Chunks
  BY <1>1, <1>2 DEF SlotTables, Streams
<1>4. s \in SlotTables /\ list \in ConnLists
  BY <1>1, <1>3, AbortType, UnlinkType
<1>5. cs \in ChunkTables
  BY <1>1, <1>3 DEF Reset, ChunkTables, ChunkStates
<1>6. IF ~request \/ conns = << >>
      THEN slots' = s /\ UNCHANGED <<chunks, conns, losses>>
      ELSE IF list # conns /\ Idle(list, cs) # {}
      THEN Pick(list, s, cs, list[k].peer, d)
      ELSE chunks' = cs /\ slots' = s /\ conns' = list /\ UNCHANGED losses
  BY Zenon DEF CrashDownload
<1>7. ASSUME Idle(list, cs) # {}
      PROVE  /\ k \in 1 .. Len(list) /\ d \in Chunks
             /\ list[k].peer \in Peers /\ list[k].state = "NOT_WORKING"
             /\ d \in known /\ cs[d] = "NOT_STARTED"
  <2> HIDE DEF list, cs
  <2>1. /\ k \in 1 .. Len(list) /\ list[k].peer \in Peers /\ list[k].state = "NOT_WORKING"
        /\ known \in SUBSET Chunks /\ Wanted(cs, known) # {}
    BY <1>4, <1>5, <1>7, IdleFacts
  <2> HIDE DEF k, known
  <2> QED
    BY <1>5, <2>1, LowestWanted
<1> HIDE DEF s, cs, list, k, known, d
<1>8. CASE ~request \/ conns = << >>
  BY <1>2, <1>3, <1>4, <1>5, <1>6, <1>8, Zenon DEF s, cs, list
<1>9. CASE request /\ conns # << >> /\ list # conns /\ Idle(list, cs) # {}
  <2>1. Pick(list, s, cs, list[k].peer, d)
    BY <1>6, <1>9, Zenon
  <2>2. \E k_1 \in 1 .. Len(list), d_1 \in Chunks :
           /\ list[k_1].peer \in Peers /\ list[k_1].state = "NOT_WORKING"
           /\ d_1 \in Known(list, list[k_1].peer) /\ cs[d_1] = "NOT_STARTED"
           /\ Pick(list, s, cs, list[k_1].peer, d_1)
    BY <1>7, <1>9, <2>1, Zenon DEF known
  <2> QED
    BY <1>2, <1>3, <1>4, <1>5, <1>9, <2>2, Zenon DEF s, cs, list
<1>10. CASE request /\ conns # << >> /\ ~(list # conns /\ Idle(list, cs) # {})
  <2>1. chunks' = cs /\ slots' = s /\ conns' = list /\ UNCHANGED losses
    BY <1>6, <1>10, Zenon
  <2> QED
    BY <1>2, <1>3, <1>4, <1>5, <1>10, <2>1, Zenon DEF s, cs, list
<1> QED
  BY <1>1, <1>8, <1>9, <1>10, Zenon

-------------------------------------------------------------------------------
\* The types are kept by every action.
LEMMA TypeStep ==
    ASSUME TypeOK, [Next]_vars
    PROVE  TypeOK'
<1> USE DEF TypeOK
<1>1. ASSUME NEW p \in Peers, ReceiveIHave(p) PROVE TypeOK'
  <2>1. /\ slots \in SlotTables /\ conns \in ConnLists /\ chunks \in ChunkTables
        /\ losses \in 0 .. MaxLosses
    BY DEF SlotTables, ConnLists, ChunkTables
  <2>2. /\ conns' \in ConnLists /\ slots' \in SlotTables /\ chunks' \in ChunkTables
        /\ losses' \in 0 .. MaxLosses
    <3> DEFINE offered == Head(ihaves[p])
               list    == UpdateConnections(conns, p, offered)
    <3>1. /\ list \in ConnLists
          /\ \/ \E c \in Chunks : Pick(list, slots, chunks, p, c)
             \/ /\ conns' = MarkPeer(list, p, "NOT_WORKING")
                /\ UNCHANGED <<chunks, slots, losses>>
             \/ conns' = list /\ UNCHANGED <<chunks, slots, losses>>
      BY <1>1, ReceiveIHaveCases, Zenon
    <3> HIDE DEF list
    <3>2. ASSUME NEW c \in Chunks, Pick(list, slots, chunks, p, c)
          PROVE  /\ conns' \in ConnLists /\ slots' \in SlotTables /\ chunks' \in ChunkTables
                 /\ losses' \in 0 .. MaxLosses
      BY <2>1, <3>1, <3>2, PickType
    <3>3. CASE conns' = MarkPeer(list, p, "NOT_WORKING") /\ UNCHANGED <<chunks, slots, losses>>
      BY <2>1, <3>1, <3>3, MarkPeerFacts
    <3> QED
      BY <2>1, <3>1, <3>2, <3>3
  <2>3. ihaves' \in [Peers -> Seq(SUBSET Chunks)]
    BY <1>1 DEF ReceiveIHave
  <2> QED
    BY <1>1, <2>2, <2>3 DEF ReceiveIHave, SlotTables, ConnLists, ChunkTables
<1>2. ASSUME NEW p \in Peers, ReceiveChunk(p) PROVE TypeOK'
  <2>1. /\ slots \in SlotTables /\ conns \in ConnLists /\ chunks \in ChunkTables
        /\ losses \in 0 .. MaxLosses
    BY DEF SlotTables, ConnLists, ChunkTables
  <2>2. /\ conns' \in ConnLists /\ slots' \in SlotTables /\ chunks' \in ChunkTables
        /\ losses' \in 0 .. MaxLosses
    <3> DEFINE s == AbortDownload(slots, p)
               cs(verified) == [chunks EXCEPT ![slots[Lowest(SlotsOf(slots, p))].chunk]
                                  = IF verified THEN "OWNED" ELSE "NOT_STARTED"]
    <3>1. s \in SlotTables
      BY <1>2, ReceiveChunkCases, Zenon
    <3>2. PICK verified \in BOOLEAN :
             /\ cs(verified) \in ChunkTables
             /\ \/ \E d \in Chunks : Pick(conns, s, cs(verified), p, d)
                \/ /\ chunks' = cs(verified) /\ slots' = s /\ UNCHANGED losses
                   /\ conns' = MarkPeer(conns, p, "NOT_WORKING")
      BY <1>2, ReceiveChunkCases, Zenon
    <3> HIDE DEF s, cs
    <3> QED
      BY <2>1, <3>1, <3>2, PickType, MarkPeerFacts
  <2>3. \E c \in Chunks, verified \in BOOLEAN :
           /\ has' = IF verified THEN has \union {c} ELSE has
           /\ file' = IF verified THEN WriteFile(file, c) ELSE file
    BY <1>2, ReceiveChunkCases
  <2>4. has' \subseteq Chunks /\ file' \in [Chunks -> {"absent", "saved", "damaged"}]
    BY <2>3 DEF WriteFile
  <2> QED
    BY <1>2, <2>2, <2>4 DEF ReceiveChunk, SlotTables, ConnLists, ChunkTables
<1>3. ASSUME UserGet PROVE TypeOK'
  <2>1. PICK silent \in SUBSET (Peers \ Reliable) :
           /\ losses + Cardinality(silent) <= MaxLosses
           /\ losses' = losses + Cardinality(silent)
           /\ ihaves' = [p \in Peers |-> IF p \in silent THEN << >> ELSE Answers(p)]
    BY <1>3 DEF UserGet
  <2>2. IsFiniteSet(silent) /\ Cardinality(silent) \in Nat
    <3>1. IsFiniteSet(Peers) /\ silent \in SUBSET Peers
      BY DownloadAssumption DEF DownloadAssumption
    <3> QED
      BY <3>1, FS_Subset, FS_CardinalityType
  <2>3. losses' \in 0 .. MaxLosses
    BY <2>1, <2>2, DownloadAssumption DEF DownloadAssumption
  <2>4. ihaves' \in [Peers -> Seq(SUBSET Chunks)]
    BY <2>1, AnswersType
  <2>5. requests' \in 0 .. MaxRequests
    BY <1>3, DownloadAssumption DEF DownloadAssumption, UserGet
  <2> QED
    BY <1>3, <2>3, <2>4, <2>5 DEF UserGet, ChunkStates
<1>4. ASSUME NEW i \in 1 .. MaxConn, CrashDownload(i) PROVE TypeOK'
  <2>1. /\ slots \in SlotTables /\ conns \in ConnLists /\ chunks \in ChunkTables
        /\ losses \in 0 .. MaxLosses
    BY DEF SlotTables, ConnLists, ChunkTables
  <2>2. /\ conns' \in ConnLists /\ slots' \in SlotTables /\ chunks' \in ChunkTables
        /\ losses' \in 0 .. MaxLosses
    BY <1>4, <2>1, CrashDownloadCases, PickType
  <2> QED
    BY <1>4, <2>2 DEF CrashDownload, SlotTables, ConnLists, ChunkTables
<1>5. ASSUME RepeatGet PROVE TypeOK'
  <2>1. file' \in [Chunks -> {"absent", "saved", "damaged"}]
    BY <1>5 DEF RepeatGet, CreateFile
  <2> QED
    BY <1>5, <2>1 DEF RepeatGet
<1>6. CASE ReceiveNothing \/ NoInput \/ NoCrash \/ Finish
  BY <1>6 DEF ReceiveNothing, NoInput, NoCrash, Finish
<1>7. CASE UNCHANGED vars
  BY <1>7 DEF vars
<1> QED
  BY <1>1, <1>2, <1>3, <1>4, <1>5, <1>6, <1>7 DEF Next

LEMMA InitTypes == Init => TypeOK
<1> SUFFICES ASSUME Init PROVE TypeOK
  OBVIOUS
<1>1. conns \in Seq(Connections) /\ ihaves \in [Peers -> Seq(SUBSET Chunks)]
  BY DEF Init
<1>2. slots \in [1 .. MaxConn -> Streams \union {NoStream}]
  BY DEF Init
<1>3. losses \in 0 .. MaxLosses /\ requests \in 0 .. MaxRequests
  BY DownloadAssumption DEF Init, DownloadAssumption
<1> QED
  BY <1>1, <1>2, <1>3 DEF Init, TypeOK, ChunkStates

\* Every value the downloader's tables ever hold is of its type, whatever the
\* number of peers, chunks and slots.
THEOREM DownloadTypes == Spec => []TypeOK
BY InitTypes, TypeStep, PTL DEF Spec

-------------------------------------------------------------------------------
(* The output file.                                                           *)

\* Picking a chunk makes none OWNED, and takes none that is.
LEMMA PickOwned ==
    ASSUME NEW list, NEW s, NEW cs \in ChunkTables, NEW p, NEW c \in Chunks,
           cs[c] = "NOT_STARTED", Pick(list, s, cs, p, c), NEW x \in Chunks
    PROVE  chunks'[x] = "OWNED" <=> cs[x] = "OWNED"
BY DEF Pick, ChunkTables

\* An IHAVE and a timeout make no chunk OWNED.
LEMMA IHaveOwned ==
    ASSUME TypeOK, NEW p \in Peers, ReceiveIHave(p), NEW x \in Chunks
    PROVE  chunks'[x] = "OWNED" <=> chunks[x] = "OWNED"
<1>1. chunks \in ChunkTables
  BY DEF TypeOK, ChunkTables
<1> DEFINE list == UpdateConnections(conns, p, Head(ihaves[p]))
<1>2. \/ \E c \in Chunks : chunks[c] = "NOT_STARTED" /\ Pick(list, slots, chunks, p, c)
      \/ chunks' = chunks
  BY ReceiveIHaveCases, Zenon
<1> QED
  BY <1>1, <1>2, PickOwned

LEMMA CrashOwned ==
    ASSUME TypeOK, NEW i \in 1 .. MaxConn, CrashDownload(i), NEW x \in Chunks
    PROVE  chunks'[x] = "OWNED" => chunks[x] = "OWNED"
<1> DEFINE cs == Reset(chunks, slots[i].chunk)
<1>1. slots[i].chunk \in Chunks /\ cs \in ChunkTables
  BY CrashDownloadCases, Zenon
<1>2. cs[x] = "OWNED" => chunks[x] = "OWNED"
  BY <1>1 DEF Reset, TypeOK
<1> DEFINE list == Unlink(conns, slots[i].peer)
           s    == AbortDownload(slots, slots[i].peer)
<1>3. \/ \E k \in 1 .. Len(list), d \in Chunks :
            cs[d] = "NOT_STARTED" /\ Pick(list, s, cs, list[k].peer, d)
      \/ chunks' = cs \/ chunks' = chunks
  BY CrashDownloadCases, Zenon
<1> HIDE DEF cs, list, s
<1> QED
  BY <1>1, <1>2, <1>3, PickOwned

\* The packet that fills a chunk makes only that chunk OWNED, and only once it
\* is in the file.
LEMMA ChunkOwned ==
    ASSUME TypeOK, NEW p \in Peers, ReceiveChunk(p), NEW x \in Chunks
    PROVE  LET c == slots[Lowest(SlotsOf(slots, p))].chunk
           IN  /\ x # c => (chunks'[x] = "OWNED" <=> chunks[x] = "OWNED") /\ file'[x] = file[x]
               /\ x = c /\ chunks'[x] = "OWNED" => file'[x] = "saved"
<1> DEFINE c == slots[Lowest(SlotsOf(slots, p))].chunk
           s == AbortDownload(slots, p)
           cs(verified) == [chunks EXCEPT ![c] = IF verified THEN "OWNED" ELSE "NOT_STARTED"]
<1>1. c \in Chunks
  BY ReceiveChunkCases, Zenon
<1>2. PICK verified \in BOOLEAN :
         /\ file' = IF verified THEN WriteFile(file, c) ELSE file
         /\ cs(verified) \in ChunkTables
         /\ \/ \E d \in Chunks : cs(verified)[d] = "NOT_STARTED" /\ Pick(conns, s, cs(verified), p, d)
            \/ chunks' = cs(verified)
  BY ReceiveChunkCases, Zenon
<1> HIDE DEF c, s
<1>3. /\ x # c => cs(verified)[x] = chunks[x]
      /\ cs(verified)[c] = "OWNED" => verified
  BY <1>1 DEF TypeOK
<1>4. /\ x # c => file'[x] = file[x]
      /\ verified => file'[c] = "saved"
  BY <1>1, <1>2 DEF TypeOK, WriteFile
<1> HIDE DEF cs
<1>5. chunks'[x] = "OWNED" <=> cs(verified)[x] = "OWNED"
  BY <1>2, PickOwned
<1>6. x # c => (chunks'[x] = "OWNED" <=> chunks[x] = "OWNED") /\ file'[x] = file[x]
  BY <1>3, <1>4, <1>5
<1>7. x = c /\ chunks'[x] = "OWNED" => file'[x] = "saved"
  BY <1>3, <1>4, <1>5
<1> QED
  BY <1>6, <1>7 DEF c

\* Whatever the user types while a request runs, its finished chunks stay whole
\* in the output file, all but the one that holds the byte create_file zeroes.
THEOREM FinishedChunksStay == Spec => []LaterChunksStay
<1>1. Init => LaterChunksStay
  BY DEF Init, LaterChunksStay
<1>2. ASSUME TypeOK, LaterChunksStay, [Next]_vars
      PROVE  LaterChunksStay'
  <2> SUFFICES ASSUME request', NEW x \in Chunks \ {1}, chunks'[x] = "OWNED"
               PROVE  file'[x] = "saved"
    BY DEF LaterChunksStay
  <2>1. request => (chunks[x] = "OWNED" => file[x] = "saved")
    BY <1>2 DEF LaterChunksStay
  <2>2. ASSUME NEW p \in Peers, ReceiveIHave(p) PROVE file'[x] = "saved"
    BY <1>2, <2>1, <2>2, IHaveOwned DEF ReceiveIHave
  <2>3. ASSUME NEW p \in Peers, ReceiveChunk(p) PROVE file'[x] = "saved"
    BY <1>2, <2>1, <2>3, ChunkOwned DEF ReceiveChunk
  <2>4. ASSUME NEW i \in 1 .. MaxConn, CrashDownload(i) PROVE file'[x] = "saved"
    BY <1>2, <2>1, <2>4, CrashOwned DEF CrashDownload
  <2>5. CASE UserGet
    BY <2>5 DEF UserGet
  <2>6. CASE RepeatGet
    BY <1>2, <2>1, <2>6, Sizes DEF RepeatGet, CreateFile, TypeOK, Chunks
  <2>7. CASE ReceiveNothing \/ NoInput \/ NoCrash \/ Finish \/ UNCHANGED vars
    BY <2>1, <2>7 DEF ReceiveNothing, NoInput, NoCrash, Finish, vars
  <2> QED
    BY <1>2, <2>2, <2>3, <2>4, <2>5, <2>6, <2>7 DEF Next
<1> QED
  BY <1>1, <1>2, DownloadTypes, PTL DEF Spec

-------------------------------------------------------------------------------
(* The books of a download.                                                   *)

\* The circumstances in which the tables agree.  Without each of them the code
\* loses track: a peer that answers two WHOHAS packets is given two chunks at
\* once; a chunk picked while every slot is taken is marked RECEIVING and never
\* asked for; and a timeout in a later request, before every answer is in, picks
\* a connection of an earlier request whose peer is about to be given another
\* chunk when its IHAVE arrives.
Orderly == /\ C <= PerPacket
           /\ Cardinality(Peers) <= MaxConn
           /\ Late <= 1

Books == /\ Paired(slots, chunks)
         /\ Marked(conns, slots, Peers)
         /\ OneEach(conns)
         /\ \A i \in 1 .. MaxConn : slots[i] # NoStream => request

\* An IHAVE under way is the only one of its peer, which has no stream yet; in
\* the first request it has no connection either, so no timeout can pick it.
Answering == /\ \A p \in Peers : Len(ihaves[p]) <= 1 /\ (ihaves[p] # << >> => ~Busy(slots, p))
             /\ requests <= 1 => \A p \in Peers : ihaves[p] # << >> => ~Listed(conns, p)
             /\ requests = 0 => conns = << >> /\ \A p \in Peers : ihaves[p] = << >>

BooksInv == TypeOK /\ Books /\ Answering

LEMMA BooksGive ==
    ASSUME BooksInv
    PROVE  BooksAgree
<1>1. slots \in SlotTables /\ conns \in ConnLists /\ DOMAIN slots = 1 .. MaxConn
  BY DEF BooksInv, TypeOK, SlotTables, ConnLists
<1>2. StreamsMatchChunks
  BY <1>1 DEF BooksInv, Books, Paired, Distinct, StreamsMatchChunks
<1>3. \A k \in DOMAIN conns : conns[k].state = "WORKING" <=> SlotsOf(slots, conns[k].peer) # {}
  <2> SUFFICES ASSUME NEW k \in 1 .. Len(conns)
               PROVE  conns[k].state = "WORKING" <=> SlotsOf(slots, conns[k].peer) # {}
    BY <1>1, ConnFields
  <2>1. conns[k].peer \in Peers
    BY <1>1, ConnFields
  <2>2. conns[k].state = "WORKING" <=> Busy(slots, conns[k].peer)
    BY <2>1 DEF BooksInv, Books, Marked
  <2>3. SlotsOf(slots, conns[k].peer) # {} <=> Busy(slots, conns[k].peer)
    BY <1>1, <2>1, SlotsOfBusy
  <2> QED
    BY <2>2, <2>3
<1>4. \A i \in DOMAIN slots : slots[i] # NoStream =>
         \E k \in DOMAIN conns : conns[k].peer = slots[i].peer
  BY <1>1, ConnFields DEF BooksInv, Books, Marked, Listed
<1> QED
  BY <1>2, <1>3, <1>4 DEF BooksAgree, WorkingMeansStream

\* Giving a chunk that is wanted to a connected peer without a stream.
LEMMA PickBooks ==
    ASSUME Cardinality(Peers) <= MaxConn,
           NEW list \in ConnLists, NEW s \in SlotTables, NEW cs \in ChunkTables,
           NEW p \in Peers, NEW c \in Chunks, cs[c] = "NOT_STARTED", Pick(list, s, cs, p, c),
           Paired(s, cs), ~Busy(s, p),
           Marked(list, s, Peers \ {p}), OneEach(list), Listed(list, p)
    PROVE  /\ Paired(slots', chunks') /\ Marked(conns', slots', Peers) /\ OneEach(conns')
           /\ \A q \in Peers : Listed(conns', q) <=> Listed(list, q)
           /\ \A q \in Peers : Busy(slots', q) <=> q = p \/ Busy(s, q)
<1>1. PICK served \in BOOLEAN : slots' = StartDownload(s, p, c, served)
  BY DEF Pick
<1>2. \E i \in 1 .. MaxConn : s[i] = NoStream
  BY FreeSlot DEF Paired
<1>3. PICK i \in 1 .. MaxConn :
         /\ s[i] = NoStream
         /\ slots' = [s EXCEPT ![i] = [peer |-> p, chunk |-> c, served |-> served]]
  BY <1>1, <1>2, StartFacts
<1>4. chunks' = [cs EXCEPT ![c] = "RECEIVING"] /\ conns' = MarkPeer(list, p, "WORKING")
  BY DEF Pick
<1>5. /\ slots' \in SlotTables /\ Paired(slots', chunks') /\ Busy(slots', p)
      /\ \A q \in Peers \ {p} : Busy(slots', q) <=> Busy(s, q)
  <2> DEFINE new == [peer |-> p, chunk |-> c, served |-> served]
  <2>1. new \in Streams /\ new # NoStream /\ new.peer = p /\ new.chunk = c
    BY DownloadAssumption DEF Streams, DownloadAssumption
  <2>2. slots' = [s EXCEPT ![i] = new]
    BY <1>3
  <2> HIDE DEF new
  <2>3. /\ slots' \in SlotTables /\ s[i] = NoStream
        /\ slots'[i] # NoStream /\ slots'[i].peer = p /\ slots'[i].chunk = c
        /\ \A j \in 1 .. MaxConn : j # i => slots'[j] = s[j]
    BY <1>3, <2>1, <2>2 DEF SlotTables
  <2>4. /\ chunks' \in ChunkTables /\ chunks'[c] = "RECEIVING"
        /\ \A d \in Chunks : d # c => chunks'[d] = cs[d]
    BY <1>4 DEF ChunkTables, ChunkStates
  <2> QED
    BY <2>3, <2>4, OpenStream
<1>6. /\ Marked(conns', slots', Peers) /\ OneEach(conns')
      /\ \A q \in Peers : Listed(conns', q) <=> Listed(list, q)
  BY <1>4, <1>5, MarkBooks
<1>7. \A q \in Peers : Busy(slots', q) <=> q = p \/ Busy(s, q)
  BY <1>5
<1> QED
  BY <1>5, <1>6, <1>7

\* The books after p's stream, in slot i, was closed: all in order but p's mark.
LEMMA ClosedBooks ==
    ASSUME BooksInv, NEW i \in 1 .. MaxConn, slots[i] # NoStream,
           NEW state \in {"NOT_STARTED", "OWNED"}
    PROVE  LET p  == slots[i].peer
               s  == AbortDownload(slots, p)
               cs == [chunks EXCEPT ![slots[i].chunk] = state]
           IN  /\ request /\ p \in Peers /\ s \in SlotTables /\ cs \in ChunkTables
               /\ Paired(s, cs) /\ ~Busy(s, p) /\ ihaves[p] = << >>
               /\ Marked(conns, s, Peers \ {p}) /\ Listed(conns, p)
               /\ \A q \in Peers \ {p} : Busy(s, q) <=> Busy(slots, q)
<1> DEFINE p  == slots[i].peer
           s  == [slots EXCEPT ![i] = NoStream]
           cs == [chunks EXCEPT ![slots[i].chunk] = state]
<1>1. slots \in SlotTables /\ chunks \in ChunkTables /\ Paired(slots, chunks)
  BY DEF BooksInv, Books, TypeOK, SlotTables, ChunkTables
<1>2. AbortDownload(slots, p) = s
  BY <1>1, AbortFacts DEF Paired
<1>3. /\ s \in SlotTables /\ cs \in ChunkTables /\ p \in Peers /\ Paired(s, cs)
      /\ ~Busy(s, p) /\ \A q \in Peers \ {p} : Busy(s, q) <=> Busy(slots, q)
      /\ \A j \in 1 .. MaxConn : s[j] # NoStream => slots[j] = s[j]
  BY <1>1, CloseStream
<1>4. Busy(slots, p)
  BY DEF Busy
<1>5. ihaves[p] = << >>
  BY <1>3, <1>4 DEF BooksInv, Answering
<1> HIDE DEF s, cs
<1>6. Marked(conns, s, Peers \ {p})
  BY <1>3 DEF BooksInv, Books, Marked
<1>7. request /\ Listed(conns, p)
  BY DEF BooksInv, Books, Marked
<1> QED
  BY <1>2, <1>3, <1>5, <1>6, <1>7 DEF s, cs

\* A request that fits one WHOHAS packet is asked for in the first.
LEMMA OnePacket ==
    ASSUME C <= PerPacket, NEW p \in Peers
    PROVE  Asked(p) \subseteq {1}
<1>1. ASSUME NEW j \in Asked(p) PROVE j = 1
  <2>1. j \in 1 .. C /\ InPacket(j) # {}
    BY DEF Asked, Chunks
  <2>2. PICK c \in 1 .. C : (j - 1) * PerPacket < c
    BY <2>1 DEF InPacket, Chunks
  <2>3. (j - 1) * PerPacket < PerPacket
    <3>1. (j - 1) * PerPacket \in Nat
      BY <2>1, Sizes
    <3> QED
      BY <2>2, <3>1, Sizes
  <2>4. ASSUME j >= 2 PROVE FALSE
    <3>1. PICK k \in Nat : j - 1 = k + 1
      <4>1. j - 2 \in Nat /\ j - 1 = (j - 2) + 1
        BY <2>1, <2>4, Sizes
      <4> QED
        BY <4>1
    <3>2. (k + 1) * PerPacket = k * PerPacket + PerPacket /\ k * PerPacket \in Nat
      BY <3>1, Sizes
    <3> QED
      BY <2>3, <3>1, <3>2, Sizes
  <2> QED
    BY <2>1, <2>4, Sizes
<1> QED
  BY <1>1

\* It has one answer at most.
LEMMA OneAnswer ==
    ASSUME C <= PerPacket, NEW p \in Peers
    PROVE  Len(Answers(p)) <= 1
<1>1. Cardinality(Asked(p)) <= 1
  <2>1. IsFiniteSet({1}) /\ Cardinality({1}) = 1
    BY FS_Singleton
  <2> QED
    BY <2>1, OnePacket, FS_Subset
<1> QED
  BY <1>1, AnswersType

\* And the answer lists all the peer has.
LEMMA WholeAnswer ==
    ASSUME C <= PerPacket, NEW p \in Peers, NEW n \in 1 .. Len(Answers(p))
    PROVE  Answers(p)[n] = Owns[p]
<1> DEFINE packet(k) == CHOOSE j \in Asked(p) : Cardinality({i \in Asked(p) : i < j}) = k - 1
           len == Cardinality(Asked(p))
<1>1. Answers(p) = [k \in 1 .. len |-> Owns[p] \cap InPacket(packet(k))]
  BY Zenon DEF Answers
<1>2. Len(Answers(p)) = len /\ Len(Answers(p)) <= 1 /\ len \in Nat
  BY AnswersType, OneAnswer
<1>3. n = 1 /\ len = 1
  BY <1>2
<1>4. Asked(p) = {1}
  <2>1. Cardinality({}) = 0
    BY FS_EmptySet
  <2> QED
    BY <1>3, <2>1, OnePacket
<1>5. packet(1) = 1
  <2>1. {i \in {1} : i < 1} = {} /\ Cardinality({}) = 1 - 1
    BY FS_EmptySet
  <2> QED
    BY <1>4, <2>1
<1> HIDE DEF packet, len
<1>6. Answers(p)[n] = Owns[p] \cap InPacket(1)
  BY <1>1, <1>3, <1>5
<1>7. Owns[p] \subseteq InPacket(1)
  <2>1. Owns[p] \subseteq Chunks
    BY DownloadAssumption DEF DownloadAssumption
  <2>2. \A c \in Chunks : c \in InPacket(1)
    BY Sizes DEF InPacket, Chunks
  <2> QED
    BY <2>1, <2>2
<1> QED
  BY <1>6, <1>7

LEMMA UserGetBooks ==
    ASSUME Orderly, BooksInv, UserGet
    PROVE  Books' /\ Answering'
<1>1. TypeOK
  BY DEF BooksInv
<1>2. \A i \in 1 .. MaxConn : slots[i] = NoStream
  BY DEF BooksInv, Books, UserGet
<1>3. \A p \in Peers : ~Busy(slots, p)
  BY <1>2 DEF Busy
<1>4. slots' = slots /\ conns' = conns /\ request' /\ requests' = requests + 1
      /\ chunks' = [c \in Chunks |-> "NOT_STARTED"]
  BY DEF UserGet
<1>5. Paired(slots', chunks')
  BY <1>2, <1>4 DEF Paired, Distinct
<1>6. Books'
  BY <1>2, <1>4, <1>5 DEF BooksInv, Books
<1>7. \A p \in Peers : Len(ihaves'[p]) <= 1
  <2>1. PICK silent : ihaves' = [p \in Peers |-> IF p \in silent THEN << >> ELSE Answers(p)]
    BY DEF UserGet
  <2>2. \A p \in Peers : Len(Answers(p)) <= 1
    BY OneAnswer DEF Orderly
  <2> QED
    BY <2>1, <2>2
<1>8. requests' <= 1 => conns' = << >>
  BY <1>1, <1>4 DEF BooksInv, Answering, TypeOK
<1>9. requests' # 0
  BY <1>1, <1>4 DEF TypeOK
<1> QED
  BY <1>3, <1>4, <1>6, <1>7, <1>8, <1>9 DEF Answering, Listed

LEMMA ReceiveIHaveBooks ==
    ASSUME Orderly, BooksInv, NEW p \in Peers, ReceiveIHave(p)
    PROVE  Books' /\ Answering'
<1> DEFINE offered == Head(ihaves[p])
           list    == UpdateConnections(conns, p, offered)
<1>1. /\ slots \in SlotTables /\ conns \in ConnLists /\ chunks \in ChunkTables
      /\ ihaves \in [Peers -> Seq(SUBSET Chunks)]
  BY DEF BooksInv, TypeOK, SlotTables, ConnLists, ChunkTables
<1>2. /\ ihaves[p] # << >> /\ ihaves' = [ihaves EXCEPT ![p] = Tail(ihaves[p])]
      /\ request' = request /\ requests' = requests
  BY DEF ReceiveIHave
<1>3. ~Busy(slots, p) /\ Len(ihaves[p]) <= 1
  BY <1>2 DEF BooksInv, Answering
<1>4. offered \in SUBSET Chunks
  BY ReceiveIHaveCases DEF BooksInv
<1>5. /\ list \in ConnLists /\ Marked(list, slots, Peers) /\ OneEach(list) /\ Listed(list, p)
      /\ \A q \in Peers \ {p} : Listed(list, q) <=> Listed(conns, q)
  BY <1>1, <1>3, <1>4, UpdateBooks DEF BooksInv, Books
<1>6. Marked(list, slots, Peers \ {p})
  BY <1>5 DEF Marked
<1>7. \/ request /\ \E c \in Chunks : chunks[c] = "NOT_STARTED" /\ Pick(list, slots, chunks, p, c)
      \/ conns' = MarkPeer(list, p, "NOT_WORKING") /\ chunks' = chunks /\ slots' = slots
      \/ conns' = list /\ chunks' = chunks /\ slots' = slots
  BY ReceiveIHaveCases, Zenon DEF BooksInv
<1> HIDE DEF offered, list
<1>8. /\ Paired(slots', chunks') /\ Marked(conns', slots', Peers) /\ OneEach(conns')
      /\ \A q \in Peers \ {p} : Listed(conns', q) <=> Listed(conns, q)
      /\ \A q \in Peers \ {p} : Busy(slots', q) <=> Busy(slots, q)
      /\ request \/ slots' = slots
  <2>1. CASE request /\ \E c \in Chunks : chunks[c] = "NOT_STARTED" /\ Pick(list, slots, chunks, p, c)
    BY <1>1, <1>3, <1>5, <1>6, <2>1, PickBooks DEF Orderly, BooksInv, Books
  <2>2. CASE conns' = MarkPeer(list, p, "NOT_WORKING") /\ chunks' = chunks /\ slots' = slots
    BY <1>1, <1>3, <1>5, <1>6, <2>2, MarkBooks DEF BooksInv, Books
  <2>3. CASE conns' = list /\ chunks' = chunks /\ slots' = slots
    BY <1>5, <2>3 DEF BooksInv, Books
  <2> QED
    BY <1>7, <2>1, <2>2, <2>3
<1>9. Books'
  BY <1>2, <1>8 DEF BooksInv, Books
<1>10. ihaves'[p] = << >> /\ \A q \in Peers \ {p} : ihaves'[q] = ihaves[q]
  BY <1>1, <1>2, <1>3
<1>11. requests # 0
  BY <1>2 DEF BooksInv, Answering
<1>12. \A q \in Peers : Len(ihaves'[q]) <= 1 /\ (ihaves'[q] # << >> => ~Busy(slots', q))
  BY <1>8, <1>10 DEF BooksInv, Answering
<1>13. requests' <= 1 => \A q \in Peers : ihaves'[q] # << >> => ~Listed(conns', q)
  BY <1>2, <1>8, <1>10 DEF BooksInv, Answering
<1> QED
  BY <1>2, <1>9, <1>11, <1>12, <1>13 DEF Answering

LEMMA ReceiveChunkBooks ==
    ASSUME Orderly, BooksInv, NEW p \in Peers, ReceiveChunk(p)
    PROVE  Books' /\ Answering'
<1> DEFINE i == Lowest(SlotsOf(slots, p))
           c == slots[i].chunk
           s == AbortDownload(slots, p)
           cs(state) == [chunks EXCEPT ![c] = state]
<1>1. /\ slots \in SlotTables /\ conns \in ConnLists /\ chunks \in ChunkTables
      /\ ihaves \in [Peers -> Seq(SUBSET Chunks)]
  BY DEF BooksInv, TypeOK, SlotTables, ConnLists, ChunkTables
<1>2. request /\ request' /\ ihaves' = ihaves /\ requests' = requests
  BY DEF ReceiveChunk
<1>3. i \in 1 .. MaxConn /\ slots[i] # NoStream /\ slots[i].peer = p
  BY ReceiveChunkCases, Zenon DEF BooksInv
<1>4. PICK state \in {"NOT_STARTED", "OWNED"} :
         \/ \E d \in Chunks : cs(state)[d] = "NOT_STARTED" /\ Pick(conns, s, cs(state), p, d)
         \/ chunks' = cs(state) /\ slots' = s /\ conns' = MarkPeer(conns, p, "NOT_WORKING")
  BY ReceiveChunkCases, Zenon DEF BooksInv
<1>5. /\ s \in SlotTables /\ cs(state) \in ChunkTables
      /\ Paired(s, cs(state)) /\ ~Busy(s, p) /\ ihaves[p] = << >>
      /\ Marked(conns, s, Peers \ {p}) /\ Listed(conns, p)
      /\ \A q \in Peers \ {p} : Busy(s, q) <=> Busy(slots, q)
  BY <1>3, ClosedBooks, Zenon
<1> HIDE DEF i, c, s, cs
<1>6. /\ Paired(slots', chunks') /\ Marked(conns', slots', Peers) /\ OneEach(conns')
      /\ \A q \in Peers : Listed(conns', q) <=> Listed(conns, q)
      /\ \A q \in Peers \ {p} : Busy(slots', q) <=> Busy(slots, q)
  <2>1. CASE \E d \in Chunks : cs(state)[d] = "NOT_STARTED" /\ Pick(conns, s, cs(state), p, d)
    BY <1>1, <1>5, <2>1, PickBooks DEF Orderly, BooksInv, Books
  <2>2. CASE chunks' = cs(state) /\ slots' = s /\ conns' = MarkPeer(conns, p, "NOT_WORKING")
    BY <1>1, <1>5, <2>2, MarkBooks DEF BooksInv, Books
  <2> QED
    BY <1>4, <2>1, <2>2
<1>7. Books'
  BY <1>2, <1>6 DEF Books
<1>8. \A q \in Peers : Len(ihaves'[q]) <= 1 /\ (ihaves'[q] # << >> => ~Busy(slots', q))
  BY <1>2, <1>5, <1>6 DEF BooksInv, Answering
<1>9. requests' <= 1 => \A q \in Peers : ihaves'[q] # << >> => ~Listed(conns', q)
  BY <1>2, <1>6 DEF BooksInv, Answering
<1>10. requests # 0
  <2>1. requests = 0 => conns = << >>
    BY DEF BooksInv, Answering
  <2> QED
    BY <1>5, <2>1 DEF Listed
<1> QED
  BY <1>2, <1>7, <1>8, <1>9, <1>10 DEF Answering

LEMMA CrashDownloadBooks ==
    ASSUME Orderly, BooksInv, NEW i \in 1 .. MaxConn, CrashDownload(i)
    PROVE  Books' /\ Answering'
<1> DEFINE p    == slots[i].peer
           s    == AbortDownload(slots, p)
           cs   == [chunks EXCEPT ![slots[i].chunk] = "NOT_STARTED"]
           list == Unlink(conns, p)
<1>1. /\ slots \in SlotTables /\ conns \in ConnLists /\ chunks \in ChunkTables
      /\ requests \in Nat
  BY DEF BooksInv, TypeOK, SlotTables, ConnLists, ChunkTables
<1>2. request' = request /\ ihaves' = ihaves /\ requests' = requests /\ slots[i] # NoStream
  BY DEF CrashDownload
<1>3. /\ request /\ p \in Peers /\ s \in SlotTables /\ cs \in ChunkTables
      /\ Paired(s, cs) /\ ~Busy(s, p) /\ ihaves[p] = << >>
      /\ Marked(conns, s, Peers \ {p}) /\ Listed(conns, p)
      /\ \A q \in Peers \ {p} : Busy(s, q) <=> Busy(slots, q)
  BY <1>2, ClosedBooks, Zenon
<1>4. conns # << >>
  BY <1>3 DEF Listed
<1>5. /\ list \in ConnLists /\ list # conns /\ Marked(list, s, Peers) /\ OneEach(list)
      /\ \A q \in Peers : Listed(list, q) <=> q # p /\ Listed(conns, q)
  BY <1>1, <1>3, UnlinkBooks DEF BooksInv, Books
<1>6. \/ \E k \in 1 .. Len(list), d \in Chunks :
            /\ list[k].state = "NOT_WORKING" /\ cs[d] = "NOT_STARTED"
            /\ Pick(list, s, cs, list[k].peer, d)
      \/ chunks' = cs /\ slots' = s /\ conns' = list
  BY <1>3, <1>4, CrashDownloadCases, Zenon DEF BooksInv, Reset
<1>7. \A q \in Peers : Listed(conns, q) => ihaves[q] = << >>
  <2>1. requests <= 1 \/ \A q \in Peers : ihaves[q] = << >>
    <3>1. requests <= Late \/ \A q \in Peers : ihaves[q] = << >>
      BY DEF CrashDownload
    <3>2. Late \in Nat /\ Late <= 1
      BY DownloadAssumption DEF DownloadAssumption, Orderly
    <3> QED
      BY <1>1, <3>1, <3>2
  <2> QED
    BY <2>1 DEF BooksInv, Answering
<1> HIDE DEF p, s, cs, list
<1>8. /\ Paired(slots', chunks') /\ Marked(conns', slots', Peers) /\ OneEach(conns')
      /\ \A q \in Peers : Listed(conns', q) => Listed(conns, q)
      /\ \A q \in Peers : Busy(slots', q) => Listed(conns, q) \/ Busy(slots, q)
  <2>1. CASE chunks' = cs /\ slots' = s /\ conns' = list
    BY <1>3, <1>5, <2>1
  <2>2. ASSUME NEW k \in 1 .. Len(list), NEW d \in Chunks,
               list[k].state = "NOT_WORKING", cs[d] = "NOT_STARTED",
               Pick(list, s, cs, list[k].peer, d)
        PROVE  /\ Paired(slots', chunks') /\ Marked(conns', slots', Peers) /\ OneEach(conns')
               /\ \A q \in Peers : Listed(conns', q) => Listed(conns, q)
               /\ \A q \in Peers : Busy(slots', q) => Listed(conns, q) \/ Busy(slots, q)
    <3>1. list[k].peer \in Peers /\ Listed(list, list[k].peer)
      BY <1>5, ConnFields DEF Listed
    <3>2. ~Busy(s, list[k].peer)
      BY <1>5, <2>2, <3>1 DEF Marked
    <3>3. Marked(list, s, Peers \ {list[k].peer})
      BY <1>5 DEF Marked
    <3>4. /\ Paired(slots', chunks') /\ Marked(conns', slots', Peers) /\ OneEach(conns')
          /\ \A q \in Peers : Listed(conns', q) <=> Listed(list, q)
          /\ \A q \in Peers : Busy(slots', q) <=> q = list[k].peer \/ Busy(s, q)
      BY <1>3, <1>5, <2>2, <3>1, <3>2, <3>3, PickBooks DEF Orderly
    <3> QED
      BY <1>3, <1>5, <3>1, <3>4
  <2> QED
    BY <1>6, <2>1, <2>2
<1>9. Books'
  BY <1>2, <1>3, <1>8 DEF Books
<1>10. \A q \in Peers : Len(ihaves'[q]) <= 1 /\ (ihaves'[q] # << >> => ~Busy(slots', q))
  BY <1>2, <1>7, <1>8 DEF BooksInv, Answering
<1>11. requests' <= 1 => \A q \in Peers : ihaves'[q] # << >> => ~Listed(conns', q)
  BY <1>2, <1>7, <1>8
<1>12. requests # 0
  BY <1>4 DEF BooksInv, Answering
<1> QED
  BY <1>2, <1>9, <1>10, <1>11, <1>12 DEF Answering

\* The books survive every step.
LEMMA BooksStep ==
    ASSUME Orderly, BooksInv, [Next]_vars
    PROVE  BooksInv'
<1>1. TypeOK'
  BY TypeStep DEF BooksInv
<1>2. CASE UNCHANGED <<slots, chunks, conns, ihaves, requests, request>>
  <2>1. Books'
    BY <1>2 DEF BooksInv, Books
  <2>2. Answering'
    BY <1>2 DEF BooksInv, Answering
  <2> QED
    BY <1>1, <2>1, <2>2 DEF BooksInv
<1>3. CASE Finish
  <2>1. UNCHANGED <<slots, chunks, conns, ihaves, requests>>
    BY <1>3 DEF Finish
  <2>2. ASSUME NEW i \in 1 .. MaxConn, slots[i] # NoStream PROVE request'
    <3>1. request /\ chunks[slots[i].chunk] = "RECEIVING" /\ slots[i].chunk \in Chunks
      BY <2>2 DEF BooksInv, Books, Paired, TypeOK, Streams
    <3> QED
      BY <1>3, <3>1 DEF Finish
  <2>3. Books'
    BY <2>1, <2>2 DEF BooksInv, Books
  <2>4. Answering'
    BY <2>1 DEF BooksInv, Answering
  <2> QED
    BY <1>1, <2>3, <2>4 DEF BooksInv
<1>4. CASE ReceiveNothing \/ RepeatGet \/ NoInput \/ NoCrash \/ UNCHANGED vars
  BY <1>2, <1>4 DEF ReceiveNothing, RepeatGet, NoInput, NoCrash, vars
<1>5. CASE UserGet
  BY <1>1, <1>5, UserGetBooks DEF BooksInv
<1>6. ASSUME NEW p \in Peers, ReceiveIHave(p) \/ ReceiveChunk(p) PROVE BooksInv'
  BY <1>1, <1>6, ReceiveIHaveBooks, ReceiveChunkBooks DEF BooksInv
<1>7. ASSUME NEW i \in 1 .. MaxConn, CrashDownload(i) PROVE BooksInv'
  BY <1>1, <1>7, CrashDownloadBooks DEF BooksInv
<1> QED
  BY <1>3, <1>4, <1>5, <1>6, <1>7 DEF Next

LEMMA InitBooks == Init => BooksInv
<1> SUFFICES ASSUME Init PROVE BooksInv
  OBVIOUS
<1>1. \A i \in 1 .. MaxConn : slots[i] = NoStream
  BY DEF Init
<1>2. Len(conns) = 0 /\ \A p \in Peers : ihaves[p] = << >>
  BY DEF Init
<1>3. Books
  BY <1>1, <1>2 DEF Init, Books, Paired, Distinct, Marked, OneEach
<1>4. Answering
  BY <1>1, <1>2 DEF Init, Answering, Busy, Listed
<1> QED
  BY <1>3, <1>4, InitTypes DEF BooksInv

LEMMA BooksAlways == ASSUME Orderly PROVE Spec => []BooksInv
BY InitBooks, BooksStep, PTL DEF Spec

\* Streams, chunk states and connection marks agree at all times, in requests of
\* any size from any number of peers: no stream is left over when its request
\* ends, and no chunk is left RECEIVING that nobody sends.
THEOREM BooksAlwaysAgree == ASSUME Orderly PROVE Spec => []BooksAgree
BY BooksAlways, BooksGive, PTL

\* A chunk once owned is not downloaded again while its request runs, also when
\* peers vanish and their chunks are handed to others.
THEOREM OwnedChunksStayOwned == ASSUME Orderly PROVE Spec => OwnedStaysOwned
<1>1. ASSUME BooksInv, [Next]_vars
      PROVE  [request /\ request' => \A c \in Chunks : chunks[c] = "OWNED" => chunks'[c] = "OWNED"]_vars
  <2> SUFFICES ASSUME request, request', NEW x \in Chunks, chunks[x] = "OWNED"
               PROVE  chunks'[x] = "OWNED"
    OBVIOUS
  <2>1. TypeOK
    BY <1>1 DEF BooksInv
  <2>2. ASSUME NEW p \in Peers, ReceiveIHave(p) PROVE chunks'[x] = "OWNED"
    BY <2>1, <2>2, IHaveOwned
  <2>3. ASSUME NEW p \in Peers, ReceiveChunk(p) PROVE chunks'[x] = "OWNED"
    <3> DEFINE i == Lowest(SlotsOf(slots, p))
    <3>1. i \in 1 .. MaxConn /\ slots[i] # NoStream
      BY <2>1, <2>3, ReceiveChunkCases, Zenon
    <3>2. x # slots[i].chunk => chunks'[x] = "OWNED"
      BY <2>1, <2>3, ChunkOwned
    <3> HIDE DEF i
    <3>3. x # slots[i].chunk
      BY <1>1, <3>1 DEF BooksInv, Books, Paired
    <3> QED
      BY <3>2, <3>3
  <2>4. ASSUME NEW i \in 1 .. MaxConn, CrashDownload(i) PROVE chunks'[x] = "OWNED"
    <3> DEFINE cs == Reset(chunks, slots[i].chunk)
               list == Unlink(conns, slots[i].peer)
               s    == AbortDownload(slots, slots[i].peer)
    <3>1. slots[i] # NoStream /\ cs \in ChunkTables
      BY <2>1, <2>4, CrashDownloadCases, Zenon
    <3>2. x # slots[i].chunk
      BY <1>1, <3>1 DEF BooksInv, Books, Paired
    <3>3. cs[x] = "OWNED"
      BY <2>1, <3>2 DEF Reset, TypeOK
    <3>4. \/ \E k \in 1 .. Len(list), d \in Chunks :
                cs[d] = "NOT_STARTED" /\ Pick(list, s, cs, list[k].peer, d)
          \/ chunks' = cs \/ chunks' = chunks
      BY <2>1, <2>4, CrashDownloadCases, Zenon
    <3> HIDE DEF cs, list, s
    <3> QED
      BY <3>1, <3>3, <3>4, PickOwned
  <2>5. CASE UserGet
    BY <2>5 DEF UserGet
  <2>6. CASE RepeatGet \/ ReceiveNothing \/ NoInput \/ NoCrash \/ Finish \/ UNCHANGED vars
    BY <2>6 DEF RepeatGet, ReceiveNothing, NoInput, NoCrash, Finish, vars
  <2> QED
    BY <1>1, <2>2, <2>3, <2>4, <2>5, <2>6 DEF Next
<1> QED
  BY <1>1, BooksAlways, PTL DEF Spec, OwnedStaysOwned

-------------------------------------------------------------------------------
(* Nobody who has something wanted stands idle.                               *)

\* What a connection lists is all its peer has, and so is what an IHAVE lists.
Truthful == /\ \A k \in 1 .. Len(conns) : conns[k].has = Owns[conns[k].peer]
            /\ \A p \in Peers, n \in Nat :
                 n \in 1 .. Len(ihaves[p]) => ihaves[p][n] = Owns[p]

\* The connections of list that are idle while they list a wanted chunk belong to
\* peers whose next IHAVE is under way.
Employed(list, cs, packets) ==
    \A k \in 1 .. Len(list) :
       list[k].state = "NOT_WORKING" /\ Wanted(cs, list[k].has) # {} => packets[list[k].peer] # << >>

TruthInv == BooksInv /\ Truthful
IdleFree == request /\ ~unheard => Employed(conns, chunks, ihaves)

LEMMA IdleGives ==
    ASSUME TruthInv, IdleFree
    PROVE  NoIdleProvider
<1>1. DOMAIN conns = 1 .. Len(conns)
  BY ConnFields DEF TruthInv, BooksInv, TypeOK, ConnLists
<1> QED
  BY <1>1 DEF IdleFree, Employed, NoIdleProvider

\* The chunks known of a peer are those its one connection lists.
LEMMA KnownIs ==
    ASSUME NEW list \in ConnLists, OneEach(list), NEW k \in 1 .. Len(list)
    PROVE  Known(list, list[k].peer) = list[k].has
<1>1. {j \in DOMAIN list : list[j].peer = list[k].peer} = {k}
  BY ConnFields DEF OneEach
<1>2. Known(list, list[k].peer) = UNION {list[j].has : j \in {k}}
  BY <1>1, Zenon DEF Known
<1> QED
  BY <1>2

\* The entries of the list after update_connections and mark_peer_state.
LEMMA UpdateEntries ==
    ASSUME NEW list \in ConnLists, NEW p \in Peers, NEW offered \in SUBSET Chunks
    PROVE  LET new == UpdateConnections(list, p, offered)
           IN  \A k \in 1 .. Len(new) :
                 \/ new[k].peer = p /\ new[k].has = offered
                 \/ new[k].peer # p /\ \E j \in 1 .. Len(list) :
                       /\ new[k].peer = list[j].peer /\ new[k].state = list[j].state
                       /\ new[k].has = list[j].has
<1> DEFINE new == UpdateConnections(list, p, offered)
<1>1. CASE \E k \in 1 .. Len(list) : list[k].peer = p
  <2>1. /\ Len(new) = Len(list)
        /\ \A k \in 1 .. Len(list) :
             /\ new[k].peer = list[k].peer /\ new[k].state = list[k].state
             /\ new[k].has = IF list[k].peer = p THEN offered ELSE list[k].has
    BY <1>1, UpdateKnown
  <2> HIDE DEF new
  <2>2. ASSUME NEW k \in 1 .. Len(new)
        PROVE  \/ new[k].peer = p /\ new[k].has = offered
               \/ new[k].peer # p /\ \E j \in 1 .. Len(list) :
                     /\ new[k].peer = list[j].peer /\ new[k].state = list[j].state
                     /\ new[k].has = list[j].has
    BY <2>1
  <2> QED
    BY <2>2 DEF new
<1>2. CASE ~ \E k \in 1 .. Len(list) : list[k].peer = p
  <2>1. /\ Len(new) = Len(list) + 1
        /\ new[1] = [peer |-> p, state |-> "NOT_WORKING", has |-> offered]
        /\ \A k \in 1 .. Len(list) : new[k + 1] = list[k]
    BY <1>2, UpdateNew
  <2> HIDE DEF new
  <2>2. Len(list) \in Nat
    BY ConnFields
  <2>3. ASSUME NEW k \in 1 .. Len(new)
        PROVE  \/ new[k].peer = p /\ new[k].has = offered
               \/ new[k].peer # p /\ \E j \in 1 .. Len(list) :
                     /\ new[k].peer = list[j].peer /\ new[k].state = list[j].state
                     /\ new[k].has = list[j].has
    <3>1. CASE k = 1
      BY <2>1, <3>1
    <3>2. CASE k # 1
      <4>1. k - 1 \in 1 .. Len(list) /\ (k - 1) + 1 = k
        BY <2>1, <2>2, <3>2
      <4>2. new[k] = list[k - 1]
        BY <2>1, <4>1
      <4> QED
        BY <1>2, <4>1, <4>2
    <3> QED
      BY <3>1, <3>2
  <2> QED
    BY <2>3 DEF new
<1> QED
  BY <1>1, <1>2

\* Everybody but p who is idle finds at most c wanted.
OnlyFor(list, cs, p, c, packets) ==
    \A k \in 1 .. Len(list) :
       list[k].state = "NOT_WORKING" /\ list[k].peer # p =>
          packets[list[k].peer] # << >> \/ Wanted(cs, list[k].has) \subseteq {c}

\* After c is given to p, everybody else who is idle finds nothing wanted if c was
\* all there was for them.
LEMMA PickEmployed ==
    ASSUME NEW list \in ConnLists, NEW s, NEW cs \in ChunkTables, NEW p \in Peers,
           NEW c \in Chunks, Pick(list, s, cs, p, c), NEW packets,
           OnlyFor(list, cs, p, c, packets)
    PROVE  Employed(conns', chunks', packets)
<1>1. conns' = MarkPeer(list, p, "WORKING") /\ chunks' = [cs EXCEPT ![c] = "RECEIVING"]
  BY DEF Pick
<1>2. /\ Len(conns') = Len(list)
      /\ \A k \in 1 .. Len(list) :
           /\ conns'[k].peer = list[k].peer /\ conns'[k].has = list[k].has
           /\ conns'[k].state = IF list[k].peer = p THEN "WORKING" ELSE list[k].state
  BY <1>1, MarkPeerFacts
<1>3. \A offered \in SUBSET Chunks :
         Wanted(cs, offered) \subseteq {c} => Wanted(chunks', offered) = {}
  BY <1>1 DEF Wanted, ChunkTables
<1>4. ASSUME NEW k \in 1 .. Len(list),
             conns'[k].state = "NOT_WORKING", Wanted(chunks', conns'[k].has) # {}
      PROVE  packets[conns'[k].peer] # << >>
  <2>1. list[k].has \in SUBSET Chunks
    BY ConnFields
  <2> QED
    BY <1>2, <1>3, <1>4, <2>1 DEF OnlyFor
<1> QED
  BY <1>2, <1>4 DEF Employed

LEMMA PickHas ==
    ASSUME NEW list \in ConnLists, NEW s, NEW cs, NEW p \in Peers, NEW c, Pick(list, s, cs, p, c)
    PROVE  /\ Len(conns') = Len(list)
           /\ \A k \in 1 .. Len(list) :
                conns'[k].peer = list[k].peer /\ conns'[k].has = list[k].has
BY MarkPeerFacts DEF Pick

\* The IHAVE of p that is read lists what p has.
LEMMA HeadTruthful ==
    ASSUME TruthInv, NEW p \in Peers, ihaves[p] # << >>
    PROVE  Head(ihaves[p]) = Owns[p]
<1>1. ihaves[p] \in Seq(SUBSET Chunks)
  BY DEF TruthInv, BooksInv, TypeOK
<1>2. 1 \in 1 .. Len(ihaves[p]) /\ Head(ihaves[p]) = ihaves[p][1]
  BY <1>1
<1> QED
  BY <1>2 DEF TruthInv, Truthful

LEMMA ReceiveIHaveIdle ==
    ASSUME Orderly, TruthInv, NEW p \in Peers, ReceiveIHave(p)
    PROVE  Truthful' /\ (IdleFree => IdleFree')
<1> DEFINE offered == Head(ihaves[p])
           list    == UpdateConnections(conns, p, offered)
<1>1. /\ conns \in ConnLists /\ chunks \in ChunkTables
      /\ ihaves \in [Peers -> Seq(SUBSET Chunks)] /\ TypeOK
  BY DEF TruthInv, BooksInv, TypeOK, ConnLists, ChunkTables
<1>2. /\ ihaves[p] # << >> /\ ihaves' = [ihaves EXCEPT ![p] = Tail(ihaves[p])]
      /\ request' = request /\ unheard' = unheard
  BY DEF ReceiveIHave
<1>3. Len(ihaves[p]) <= 1
  BY DEF TruthInv, BooksInv, Answering
<1>4. offered \in SUBSET Chunks /\ list \in ConnLists
  BY <1>1, ReceiveIHaveCases, Zenon
<1>5. offered = Owns[p]
  BY <1>2, HeadTruthful
<1>6. \A k \in 1 .. Len(list) :
         \/ list[k].peer = p /\ list[k].has = offered
         \/ list[k].peer # p /\ \E j \in 1 .. Len(conns) :
               /\ list[k].peer = conns[j].peer /\ list[k].state = conns[j].state
               /\ list[k].has = conns[j].has
  BY <1>1, <1>4, UpdateEntries
<1>7. \/ request /\ \E c \in Chunks : Pick(list, slots, chunks, p, c)
      \/ /\ request /\ Wanted(chunks, offered) = {}
         /\ conns' = MarkPeer(list, p, "NOT_WORKING") /\ chunks' = chunks
      \/ ~request /\ conns' = list
  BY <1>1, ReceiveIHaveCases, Zenon
<1> HIDE DEF offered, list
<1>8. ihaves'[p] = << >> /\ \A q \in Peers \ {p} : ihaves'[q] = ihaves[q]
  BY <1>1, <1>2, <1>3
<1>9. \A k \in 1 .. Len(list) : list[k].has = Owns[list[k].peer]
  BY <1>5, <1>6 DEF TruthInv, Truthful
<1>10. /\ Len(conns') = Len(list)
       /\ \A k \in 1 .. Len(list) : conns'[k].peer = list[k].peer /\ conns'[k].has = list[k].has
  BY <1>4, <1>7, PickHas, MarkPeerFacts
<1>11. \A q \in Peers, n \in Nat : n \in 1 .. Len(ihaves'[q]) => ihaves'[q][n] = Owns[q]
  BY <1>8 DEF TruthInv, Truthful
<1>12. Truthful'
  BY <1>9, <1>10, <1>11 DEF Truthful
<1>13. \A k \in 1 .. Len(list) : list[k].peer \in Peers /\ list[k].has \in SUBSET Chunks
  BY <1>4, ConnFields
<1>14. ASSUME IdleFree, request, ~unheard,
              NEW k \in 1 .. Len(list), list[k].state = "NOT_WORKING", list[k].peer # p
       PROVE  ihaves'[list[k].peer] # << >> \/ Wanted(chunks, list[k].has) = {}
  BY <1>6, <1>8, <1>13, <1>14 DEF IdleFree, Employed
<1>15. ASSUME IdleFree, request, ~unheard PROVE Employed(conns', chunks', ihaves')
  <2>1. CASE \E c \in Chunks : Pick(list, slots, chunks, p, c)
    <3>1. PICK c \in Chunks : Pick(list, slots, chunks, p, c)
      BY <2>1
    <3>2. OnlyFor(list, chunks, p, c, ihaves')
      BY <1>14, <1>15 DEF OnlyFor
    <3> QED
      BY <1>1, <1>4, <3>1, <3>2, PickEmployed
  <2>2. CASE /\ Wanted(chunks, offered) = {}
             /\ conns' = MarkPeer(list, p, "NOT_WORKING") /\ chunks' = chunks
    <3>1. \A k \in 1 .. Len(list) :
             conns'[k].state = IF list[k].peer = p THEN "NOT_WORKING" ELSE list[k].state
      BY <1>4, <2>2, MarkPeerFacts
    <3>2. ASSUME NEW k \in 1 .. Len(list),
                 conns'[k].state = "NOT_WORKING", Wanted(chunks', conns'[k].has) # {}
          PROVE  ihaves'[conns'[k].peer] # << >>
      BY <1>6, <1>10, <1>14, <1>15, <2>2, <3>1, <3>2
    <3> QED
      BY <1>10, <3>2 DEF Employed
  <2> QED
    BY <1>7, <1>15, <2>1, <2>2
<1> QED
  BY <1>2, <1>12, <1>15 DEF IdleFree

LEMMA ReceiveChunkIdle ==
    ASSUME Orderly, TruthInv, NEW p \in Peers, ReceiveChunk(p)
    PROVE  Truthful' /\ (IdleFree /\ ~unheard => Employed(conns', chunks', ihaves'))
<1> DEFINE i == Lowest(SlotsOf(slots, p))
           c == slots[i].chunk
           s == AbortDownload(slots, p)
           cs == [chunks EXCEPT ![c] = "OWNED"]
<1>1. /\ conns \in ConnLists /\ chunks \in ChunkTables /\ slots \in SlotTables /\ TypeOK
  BY DEF TruthInv, BooksInv, TypeOK, ConnLists, ChunkTables, SlotTables
<1>2. request /\ ihaves' = ihaves
  BY DEF ReceiveChunk
<1>3. i \in 1 .. MaxConn /\ slots[i] # NoStream /\ slots[i].peer = p /\ c \in Chunks
  BY <1>1, ReceiveChunkCases, Zenon
<1>4. Alone(i)
  <2>1. DOMAIN slots = 1 .. MaxConn
    BY <1>1 DEF SlotTables
  <2> HIDE DEF i
  <2> QED
    BY <1>3, <2>1 DEF Alone, TruthInv, BooksInv, Books, Paired, Distinct
<1>5. /\ cs \in ChunkTables
      /\ \/ \E d \in Chunks : Pick(conns, s, cs, p, d)
         \/ /\ Wanted(cs, Known(conns, p)) = {}
            /\ chunks' = cs /\ conns' = MarkPeer(conns, p, "NOT_WORKING")
  <2> DEFINE all(verified) == [chunks EXCEPT ![c] = IF verified THEN "OWNED" ELSE "NOT_STARTED"]
  <2>1. PICK verified \in BOOLEAN :
           /\ Alone(i) => verified
           /\ all(verified) \in ChunkTables
           /\ \/ \E d \in Chunks : Pick(conns, s, all(verified), p, d)
              \/ /\ Wanted(all(verified), Known(conns, p)) = {}
                 /\ chunks' = all(verified) /\ conns' = MarkPeer(conns, p, "NOT_WORKING")
    BY <1>1, ReceiveChunkCases, Zenon
  <2>2. all(verified) = cs
    BY <1>4, <2>1
  <2> HIDE DEF all, cs, s
  <2> QED
    BY <2>1, <2>2
<1>6. \A offered : Wanted(cs, offered) \subseteq Wanted(chunks, offered)
  BY <1>1, <1>3 DEF Wanted, ChunkTables
<1> HIDE DEF i, c, s, cs
<1>7. /\ Len(conns') = Len(conns)
      /\ \A k \in 1 .. Len(conns) :
           conns'[k].peer = conns[k].peer /\ conns'[k].has = conns[k].has
  <2>1. ASSUME NEW d \in Chunks, Pick(conns, s, cs, p, d)
        PROVE  /\ Len(conns') = Len(conns)
               /\ \A k \in 1 .. Len(conns) :
                    conns'[k].peer = conns[k].peer /\ conns'[k].has = conns[k].has
    BY <1>1, <2>1, PickHas
  <2>2. ASSUME conns' = MarkPeer(conns, p, "NOT_WORKING")
        PROVE  /\ Len(conns') = Len(conns)
               /\ \A k \in 1 .. Len(conns) :
                    conns'[k].peer = conns[k].peer /\ conns'[k].has = conns[k].has
    <3>1. conns \in ConnLists /\ "NOT_WORKING" \in {"WORKING", "NOT_WORKING"}
      BY <1>1
    <3> QED
      BY ONLY <2>2, <3>1, p \in Peers, MarkPeerFacts
  <2> QED
    BY <1>5, <2>1, <2>2
<1>8. Truthful'
  BY <1>2, <1>7 DEF TruthInv, Truthful
<1> SUFFICES ASSUME IdleFree, ~unheard PROVE Employed(conns', chunks', ihaves')
  BY <1>8
<1>9. \A k \in 1 .. Len(conns) :
         conns[k].state = "NOT_WORKING" =>
            ihaves'[conns[k].peer] # << >> \/ Wanted(cs, conns[k].has) = {}
  BY <1>2, <1>6 DEF IdleFree, Employed
<1>10. CASE \E d \in Chunks : Pick(conns, s, cs, p, d)
  <2>1. PICK d \in Chunks : Pick(conns, s, cs, p, d)
    BY <1>10
  <2>2. OnlyFor(conns, cs, p, d, ihaves)
    BY <1>2, <1>9 DEF OnlyFor
  <2>3. Employed(conns', chunks', ihaves)
    BY <1>1, <1>5, <2>1, <2>2, PickEmployed
  <2> QED
    BY <1>2, <2>3
<1>11. CASE /\ Wanted(cs, Known(conns, p)) = {}
            /\ chunks' = cs /\ conns' = MarkPeer(conns, p, "NOT_WORKING")
  <2>1. \A k \in 1 .. Len(conns) :
           conns'[k].state = IF conns[k].peer = p THEN "NOT_WORKING" ELSE conns[k].state
    BY <1>1, <1>11, MarkPeerFacts
  <2>2. \A k \in 1 .. Len(conns) : conns[k].peer = p => Wanted(cs, conns[k].has) = {}
    BY <1>1, <1>11, KnownIs DEF TruthInv, BooksInv, Books
  <2> QED
    BY <1>7, <1>9, <1>11, <2>1, <2>2 DEF Employed
<1> QED
  BY <1>5, <1>10, <1>11

LEMMA CrashDownloadIdle ==
    ASSUME Orderly, TruthInv, NEW i \in 1 .. MaxConn, CrashDownload(i)
    PROVE  Truthful' /\ (IdleFree /\ ~unheard => Employed(conns', chunks', ihaves'))
<1> DEFINE p    == slots[i].peer
           c    == slots[i].chunk
           s    == AbortDownload(slots, p)
           cs   == [chunks EXCEPT ![c] = "NOT_STARTED"]
           list == Unlink(conns, p)
<1>1. /\ slots \in SlotTables /\ conns \in ConnLists /\ chunks \in ChunkTables
      /\ requests \in Nat /\ TypeOK /\ BooksInv
  BY DEF TruthInv, BooksInv, TypeOK, SlotTables, ConnLists, ChunkTables
<1>2. ihaves' = ihaves /\ slots[i] # NoStream
  BY DEF CrashDownload
<1>3. /\ request /\ p \in Peers /\ c \in Chunks /\ s \in SlotTables /\ cs \in ChunkTables
      /\ ~Busy(s, p) /\ Marked(conns, s, Peers \ {p}) /\ Listed(conns, p)
  BY <1>1, <1>2, ClosedBooks, CrashDownloadCases, Zenon
<1>4. conns # << >>
  BY <1>3 DEF Listed
<1>5. /\ list \in ConnLists /\ list # conns /\ OneEach(list)
      /\ \A k \in 1 .. Len(list) : \E j \in 1 .. Len(conns) : list[k] = conns[j]
  BY <1>1, <1>3, UnlinkBooks DEF BooksInv, Books
<1>6. \/ \E k \in 1 .. Len(list), d \in Chunks :
            /\ list[k].peer \in Peers /\ list[k].state = "NOT_WORKING"
            /\ d \in Known(list, list[k].peer) /\ cs[d] = "NOT_STARTED"
            /\ Pick(list, s, cs, list[k].peer, d)
      \/ Idle(list, cs) = {} /\ chunks' = cs /\ conns' = list
  BY <1>1, <1>3, <1>4, <1>5, CrashDownloadCases, Zenon DEF Reset
<1>7. \A q \in Peers : Listed(conns, q) => ihaves[q] = << >>
  <2>1. requests <= 1 \/ \A q \in Peers : ihaves[q] = << >>
    <3>1. requests <= Late \/ \A q \in Peers : ihaves[q] = << >>
      BY DEF CrashDownload
    <3>2. Late \in Nat /\ Late <= 1
      BY DownloadAssumption DEF DownloadAssumption, Orderly
    <3> QED
      BY <1>1, <3>1, <3>2
  <2> QED
    BY <1>1, <2>1 DEF BooksInv, Answering
<1>8. \A k \in 1 .. Len(conns) : conns[k].peer \in Peers /\ Listed(conns, conns[k].peer)
  BY <1>1, ConnFields DEF Listed
<1> HIDE DEF p, c, s, cs, list
<1>9. \A k \in 1 .. Len(list) : list[k].has = Owns[list[k].peer]
  BY <1>5 DEF TruthInv, Truthful
<1>10. Truthful'
  <2>1. ASSUME NEW k \in 1 .. Len(list), NEW d \in Chunks,
               list[k].peer \in Peers, Pick(list, s, cs, list[k].peer, d)
        PROVE  Truthful'
    <3>1. /\ Len(conns') = Len(list)
          /\ \A j \in 1 .. Len(list) :
               conns'[j].peer = list[j].peer /\ conns'[j].has = list[j].has
      BY <1>5, <2>1, PickHas
    <3> QED
      BY <1>2, <1>9, <3>1 DEF TruthInv, Truthful
  <2>2. CASE conns' = list
    BY <1>2, <1>9, <2>2 DEF TruthInv, Truthful
  <2> QED
    BY <1>6, <2>1, <2>2
<1> SUFFICES ASSUME IdleFree, ~unheard PROVE Employed(conns', chunks', ihaves')
  BY <1>10
<1>11. \A k \in 1 .. Len(conns) :
         conns[k].state = "NOT_WORKING" => Wanted(chunks, conns[k].has) = {}
  BY <1>3, <1>7, <1>8 DEF IdleFree, Employed
<1>12. \A offered \in SUBSET Chunks :
          Wanted(chunks, offered) = {} => Wanted(cs, offered) \subseteq {c}
  BY <1>1, <1>3 DEF Wanted, ChunkTables, cs
<1>13. \A k \in 1 .. Len(list) :
          list[k].state = "NOT_WORKING" => Wanted(cs, list[k].has) \subseteq {c}
  <2>1. \A k \in 1 .. Len(conns) : conns[k].has \in SUBSET Chunks
    BY <1>1, ConnFields
  <2> QED
    BY <1>5, <1>11, <1>12, <2>1
<1>14. CASE Idle(list, cs) = {} /\ chunks' = cs /\ conns' = list
  <2>1. ASSUME NEW k \in 1 .. Len(list), list[k].state = "NOT_WORKING"
        PROVE  Wanted(cs, list[k].has) = {}
    <3>1. Wanted(cs, Known(list, list[k].peer)) = {}
      BY <1>5, <1>14, <2>1, ConnFields DEF Idle
    <3> QED
      BY <1>5, <3>1, KnownIs
  <2> QED
    BY <1>14, <2>1 DEF Employed
<1>15. ASSUME NEW k \in 1 .. Len(list), NEW d \in Chunks,
              list[k].peer \in Peers, list[k].state = "NOT_WORKING",
              d \in Known(list, list[k].peer), cs[d] = "NOT_STARTED",
              Pick(list, s, cs, list[k].peer, d)
       PROVE  Employed(conns', chunks', ihaves')
  <2>1. d \in list[k].has
    BY <1>5, <1>15, KnownIs
  <2>2. d = c
    BY <1>13, <1>15, <2>1 DEF Wanted
  <2>3. OnlyFor(list, cs, list[k].peer, d, ihaves)
    BY <1>13, <2>2 DEF OnlyFor
  <2>4. Employed(conns', chunks', ihaves)
    BY <1>3, <1>5, <1>15, <2>3, PickEmployed
  <2> QED
    BY <1>2, <2>4
<1> QED
  BY <1>6, <1>14, <1>15

\* A peer that has a chunk answers a request that fits one packet.
LEMMA SomeAnswer ==
    ASSUME C <= PerPacket, NEW p \in Peers, Owns[p] # {}
    PROVE  Answers(p) # << >>
<1>1. Owns[p] \in SUBSET Chunks
  BY DownloadAssumption DEF DownloadAssumption
<1>2. 1 \in Asked(p)
  <2>1. PICK c \in Chunks : c \in Owns[p]
    BY <1>1
  <2>2. c \in InPacket(1)
    BY <2>1, Sizes DEF InPacket, Chunks
  <2> QED
    BY <2>1, <2>2, Sizes DEF Asked, Chunks
<1>3. IsFiniteSet(Asked(p))
  <2>1. IsFiniteSet(Chunks) /\ Asked(p) \subseteq Chunks
    BY Sizes, FS_Interval DEF Chunks, Asked
  <2> QED
    BY <2>1, FS_Subset
<1>4. Cardinality(Asked(p)) # 0
  BY <1>2, <1>3, FS_EmptySet
<1> QED
  BY <1>4, AnswersType

LEMMA UserGetIdle ==
    ASSUME Orderly, TruthInv, UserGet
    PROVE  Truthful' /\ (~unheard' => Employed(conns', chunks', ihaves'))
<1>1. conns' = conns
  BY DEF UserGet
<1>2. PICK silent \in SUBSET (Peers \ Reliable) :
         /\ ihaves' = [p \in Peers |-> IF p \in silent THEN << >> ELSE Answers(p)]
         /\ unheard' = \E k \in DOMAIN conns : conns[k].peer \in silent
  BY DEF UserGet
<1>3. Truthful'
  <2>1. \A p \in Peers : C <= PerPacket /\ Len(<< >>) = 0 /\ (ihaves'[p] = << >> \/ ihaves'[p] = Answers(p))
    BY <1>2 DEF Orderly
  <2>2. \A p \in Peers, n \in Nat : n \in 1 .. Len(ihaves'[p]) => ihaves'[p][n] = Owns[p]
    BY <2>1, WholeAnswer
  <2> QED
    BY <1>1, <2>2 DEF TruthInv, Truthful
<1> SUFFICES ASSUME ~unheard',
                    NEW k \in 1 .. Len(conns), Wanted(chunks', conns[k].has) # {}
             PROVE  ihaves'[conns[k].peer] # << >>
  BY <1>1, <1>3 DEF Employed
<1>4. conns[k].peer \in Peers /\ k \in DOMAIN conns
  BY ConnFields DEF TruthInv, BooksInv, TypeOK, ConnLists
<1>5. conns[k].has # {}
  BY DEF Wanted
<1>6. Owns[conns[k].peer] # {}
  BY <1>5 DEF TruthInv, Truthful
<1>7. ihaves'[conns[k].peer] = Answers(conns[k].peer)
  BY <1>2, <1>4
<1> QED
  BY <1>4, <1>6, <1>7, SomeAnswer DEF Orderly

LEMMA TruthStep ==
    ASSUME Orderly, TruthInv, [Next]_vars
    PROVE  TruthInv'
<1>1. BooksInv'
  BY BooksStep DEF TruthInv
<1>2. CASE RepeatGet \/ ReceiveNothing \/ NoInput \/ NoCrash \/ Finish \/ UNCHANGED vars
  <2>1. conns' = conns /\ ihaves' = ihaves
    BY <1>2 DEF RepeatGet, ReceiveNothing, NoInput, NoCrash, Finish, vars
  <2> QED
    BY <1>1, <2>1 DEF TruthInv, Truthful
<1> QED
  BY <1>1, <1>2, ReceiveIHaveIdle, ReceiveChunkIdle, CrashDownloadIdle, UserGetIdle
  DEF Next, TruthInv

LEMMA TruthInit == Init => TruthInv
<1> SUFFICES ASSUME Init PROVE Truthful
  BY InitBooks DEF TruthInv
<1>1. Len(conns) = 0 /\ \A p \in Peers : Len(ihaves[p]) = 0
  BY DEF Init
<1> QED
  BY <1>1 DEF Truthful

LEMMA TruthAlways == ASSUME Orderly PROVE Spec => []TruthInv
BY TruthInit, TruthStep, PTL DEF Spec

\* No connected peer that has a chunk still wanted stands idle, unless the answer of
\* one connected since an earlier request was lost: whoever finishes, vanishes or
\* answers late, each event hands out exactly the work it sets free.
THEOREM NoProviderIdle == ASSUME Orderly PROVE Spec => []NoIdleProvider
<1>1. Init => IdleFree
  BY DEF Init, IdleFree
<1>2. ASSUME TruthInv, IdleFree, [Next]_vars PROVE IdleFree'
  <2>1. ASSUME NEW p \in Peers, ReceiveIHave(p) PROVE IdleFree'
    BY <1>2, <2>1, ReceiveIHaveIdle
  <2>2. ASSUME NEW p \in Peers, ReceiveChunk(p) PROVE IdleFree'
    BY <1>2, <2>2, ReceiveChunkIdle DEF IdleFree, ReceiveChunk
  <2>3. ASSUME NEW i \in 1 .. MaxConn, CrashDownload(i) PROVE IdleFree'
    <3>1. unheard' = unheard /\ request' = request
      BY <2>3 DEF CrashDownload
    <3>2. CASE request
      BY <1>2, <2>3, <3>1, <3>2, CrashDownloadIdle DEF IdleFree
    <3> QED
      BY <3>1, <3>2 DEF IdleFree
  <2>4. CASE UserGet
    BY <1>2, <2>4, UserGetIdle DEF IdleFree
  <2>5. CASE RepeatGet \/ ReceiveNothing \/ NoInput \/ NoCrash \/ Finish \/ UNCHANGED vars
    <3>1. conns' = conns /\ chunks' = chunks /\ ihaves' = ihaves /\ unheard' = unheard
      BY <2>5 DEF RepeatGet, ReceiveNothing, NoInput, NoCrash, Finish, vars
    <3>2. request' => request
      BY <2>5, Zenon DEF RepeatGet, ReceiveNothing, NoInput, NoCrash, Finish, vars
    <3> QED
      BY <1>2, <3>1, <3>2 DEF IdleFree
  <2> QED
    BY <1>2, <2>1, <2>2, <2>3, <2>4, <2>5 DEF Next
<1> QED
  BY <1>1, <1>2, IdleGives, TruthAlways, PTL DEF Spec

-------------------------------------------------------------------------------
(* A request never comes to a standstill.                                     *)

\* Every chunk is owned by a peer that serves what it accepts without a long pause
\* and loses no packet.
Lasting  == Stable \cap Reliable
Supplied == \A c \in Chunks : \E p \in Lasting : c \in Owns[p]

\* A GET to a reliable peer was accepted, so no stream with a lasting one times out
\* and its connection is never unlinked.
Granted(s) == \A i \in 1 .. MaxConn : s[i] # NoStream /\ s[i].peer \in Reliable => s[i].served

\* A lasting peer that has something is connected or its IHAVE is under way.
Present(list, packets) ==
    \A p \in Lasting : Owns[p] # {} => Listed(list, p) \/ packets[p] # << >>

WorkInv == TruthInv /\ Granted(slots) /\ (request => Present(conns, ihaves))

LEMMA PickGranted ==
    ASSUME NEW list, NEW s \in SlotTables, Granted(s), NEW cs, NEW p \in Peers,
           NEW c \in Chunks, Pick(list, s, cs, p, c)
    PROVE  Granted(slots')
<1>1. PICK served \in BOOLEAN :
         /\ slots' = StartDownload(s, p, c, served)
         /\ IF slots' = s THEN served /\ UNCHANGED losses ELSE SentGet(p, served)
  BY DEF Pick
<1>2. CASE slots' = s
  BY <1>2 DEF Granted
<1>3. CASE slots' # s
  <2> DEFINE new == [peer |-> p, chunk |-> c, served |-> served]
             m   == Lowest({i \in DOMAIN s : s[i] = NoStream})
  <2>1. served \/ p \notin Reliable
    BY <1>1, <1>3 DEF SentGet
  <2>2. slots' = [s EXCEPT ![m] = new]
    BY <1>1, <1>3, Zenon DEF StartDownload
  <2>3. new.peer = p /\ new.served = served
    OBVIOUS
  <2> HIDE DEF new, m
  <2>4. \A i \in 1 .. MaxConn : slots'[i] = s[i] \/ slots'[i] = new
    BY <2>2 DEF SlotTables
  <2> QED
    BY <2>1, <2>3, <2>4 DEF Granted
<1> QED
  BY <1>2, <1>3

LEMMA AbortGranted ==
    ASSUME NEW s \in SlotTables, Granted(s), NEW p
    PROVE  Granted(AbortDownload(s, p))
<1> DEFINE m == Lowest(SlotsOf(s, p))
<1>1. AbortDownload(s, p) = s \/ AbortDownload(s, p) = [s EXCEPT ![m] = NoStream]
  BY Zenon DEF AbortDownload
<1> HIDE DEF m
<1>2. \A i \in 1 .. MaxConn : AbortDownload(s, p)[i] = s[i] \/ AbortDownload(s, p)[i] = NoStream
  BY <1>1 DEF SlotTables
<1> QED
  BY <1>2 DEF Granted

\* Marking a peer, or giving it a chunk, keeps the connections there are.
LEMMA MarkedListed ==
    ASSUME NEW list \in ConnLists, NEW p \in Peers,
           \/ conns' = MarkPeer(list, p, "NOT_WORKING")
           \/ \E s, cs, c : Pick(list, s, cs, p, c)
    PROVE  \A q : Listed(conns', q) <=> Listed(list, q)
<1>1. PICK state \in {"WORKING", "NOT_WORKING"} : conns' = MarkPeer(list, p, state)
  BY DEF Pick
<1>2. /\ Len(conns') = Len(list)
      /\ \A k \in 1 .. Len(list) : conns'[k].peer = list[k].peer
  BY <1>1, MarkPeerFacts
<1> QED
  BY <1>2 DEF Listed

LEMMA WorkIHave ==
    ASSUME WorkInv, NEW p \in Peers, ReceiveIHave(p)
    PROVE  Granted(slots') /\ (request' => Present(conns', ihaves'))
<1> DEFINE offered == Head(ihaves[p])
           list    == UpdateConnections(conns, p, offered)
<1>1. /\ conns \in ConnLists /\ slots \in SlotTables /\ ihaves \in [Peers -> Seq(SUBSET Chunks)]
      /\ TypeOK /\ BooksInv /\ Granted(slots)
  BY DEF WorkInv, TruthInv, BooksInv, TypeOK, ConnLists, SlotTables
<1>2. /\ ihaves[p] # << >> /\ ihaves' = [ihaves EXCEPT ![p] = Tail(ihaves[p])]
      /\ request' = request
  BY DEF ReceiveIHave
<1>3. offered \in SUBSET Chunks /\ list \in ConnLists
  BY <1>1, ReceiveIHaveCases, Zenon
<1>4. \/ \E c \in Chunks : Pick(list, slots, chunks, p, c)
      \/ conns' = MarkPeer(list, p, "NOT_WORKING") /\ slots' = slots
      \/ conns' = list /\ slots' = slots
  BY <1>1, ReceiveIHaveCases, Zenon
<1>5. Listed(list, p) /\ \A q \in Peers \ {p} : Listed(list, q) <=> Listed(conns, q)
  <2>1. ~Busy(slots, p) /\ Marked(conns, slots, Peers) /\ OneEach(conns)
    BY <1>1, <1>2 DEF BooksInv, Books, Answering
  <2> QED
    BY <1>1, <1>3, <2>1, UpdateBooks
<1> HIDE DEF offered, list
<1>6. Granted(slots')
  BY <1>1, <1>4, PickGranted
<1>7. \A q : Listed(conns', q) <=> Listed(list, q)
  BY <1>3, <1>4, MarkedListed
<1>8. ASSUME request, NEW q \in Lasting, Owns[q] # {}
      PROVE  Listed(conns', q) \/ ihaves'[q] # << >>
  <2>1. q \in Peers
    BY DownloadAssumption DEF DownloadAssumption, Lasting
  <2>2. CASE q = p
    BY <1>5, <1>7, <2>2
  <2>3. CASE q # p
    BY <1>1, <1>2, <1>5, <1>7, <1>8, <2>1, <2>3 DEF WorkInv, Present
  <2> QED
    BY <2>2, <2>3
<1> QED
  BY <1>2, <1>6, <1>8 DEF Present

LEMMA WorkChunk ==
    ASSUME WorkInv, NEW p \in Peers, ReceiveChunk(p)
    PROVE  Granted(slots') /\ (request' => Present(conns', ihaves'))
<1> DEFINE s == AbortDownload(slots, p)
<1>1. conns \in ConnLists /\ slots \in SlotTables /\ TypeOK /\ Granted(slots)
  BY DEF WorkInv, TruthInv, BooksInv, TypeOK, ConnLists, SlotTables
<1>2. ihaves' = ihaves /\ request
  BY DEF ReceiveChunk
<1>3. s \in SlotTables /\ Granted(s)
  BY <1>1, AbortType, AbortGranted
<1>4. \/ \E cs, d : d \in Chunks /\ Pick(conns, s, cs, p, d)
      \/ conns' = MarkPeer(conns, p, "NOT_WORKING") /\ slots' = s
  BY <1>1, ReceiveChunkCases, Zenon
<1> HIDE DEF s
<1>5. Granted(slots')
  BY <1>3, <1>4, PickGranted
<1>6. \A q : Listed(conns', q) <=> Listed(conns, q)
  BY <1>1, <1>4, MarkedListed
<1> QED
  BY <1>2, <1>5, <1>6 DEF WorkInv, Present

LEMMA WorkCrash ==
    ASSUME WorkInv, NEW i \in 1 .. MaxConn, CrashDownload(i)
    PROVE  Granted(slots') /\ (request' => Present(conns', ihaves'))
<1> DEFINE p    == slots[i].peer
           s    == AbortDownload(slots, p)
           cs   == Reset(chunks, slots[i].chunk)
           list == Unlink(conns, p)
<1>1. /\ conns \in ConnLists /\ slots \in SlotTables /\ TypeOK /\ BooksInv
      /\ Granted(slots)
  BY DEF WorkInv, TruthInv, BooksInv, TypeOK, ConnLists, SlotTables
<1>2. /\ ihaves' = ihaves /\ request' = request /\ slots[i] # NoStream
      /\ ~slots[i].served \/ p \notin Stable
  BY DEF CrashDownload
<1>3. p \notin Lasting
  BY <1>1, <1>2 DEF Granted, Lasting
<1>4. /\ request /\ p \in Peers /\ ~Busy(s, p)
      /\ Marked(conns, s, Peers \ {p}) /\ Listed(conns, p)
  BY <1>1, <1>2, ClosedBooks, CrashDownloadCases, Zenon
<1>5. s \in SlotTables /\ Granted(s)
  BY <1>1, <1>4, AbortType, AbortGranted
<1>6. /\ list \in ConnLists
      /\ \A q \in Peers : Listed(list, q) <=> q # p /\ Listed(conns, q)
  BY <1>1, <1>4, <1>5, UnlinkBooks DEF BooksInv, Books
<1>7. conns # << >>
  BY <1>4 DEF Listed
<1>8. \/ \E k \in 1 .. Len(list), d \in Chunks :
            list[k].peer \in Peers /\ Pick(list, s, cs, list[k].peer, d)
      \/ conns' = list /\ slots' = s
  BY <1>1, <1>4, <1>7, CrashDownloadCases, Zenon
<1> HIDE DEF p, s, cs, list
<1>9. Granted(slots')
  BY <1>5, <1>8, PickGranted
<1>10. \A q : Listed(conns', q) <=> Listed(list, q)
  BY <1>6, <1>8, MarkedListed
<1>11. \A q \in Lasting : q \in Peers /\ q # p
  BY <1>3, DownloadAssumption DEF DownloadAssumption, Lasting
<1> QED
  BY <1>2, <1>6, <1>9, <1>10, <1>11 DEF WorkInv, Present

LEMMA WorkUserGet ==
    ASSUME Orderly, WorkInv, UserGet
    PROVE  Granted(slots') /\ (request' => Present(conns', ihaves'))
<1>1. slots' = slots
  BY DEF UserGet
<1>2. PICK silent \in SUBSET (Peers \ Reliable) :
         ihaves' = [p \in Peers |-> IF p \in silent THEN << >> ELSE Answers(p)]
  BY DEF UserGet
<1>3. ASSUME NEW q \in Lasting, Owns[q] # {}
      PROVE  ihaves'[q] # << >>
  <2>1. q \in Peers /\ q \notin silent
    BY DownloadAssumption DEF DownloadAssumption, Lasting
  <2>2. ihaves'[q] = Answers(q)
    BY <1>2, <2>1
  <2> QED
    BY <1>3, <2>1, <2>2, SomeAnswer DEF Orderly
<1> QED
  BY <1>1, <1>3 DEF WorkInv, Present

LEMMA WorkAlways == ASSUME Orderly PROVE Spec => []WorkInv
<1>1. Init => WorkInv
  <2> SUFFICES ASSUME Init PROVE Granted(slots) /\ ~request
    BY TruthInit DEF WorkInv
  <2> QED
    BY DEF Init, Granted
<1>2. ASSUME WorkInv, [Next]_vars PROVE WorkInv'
  <2>1. TruthInv'
    BY <1>2, TruthStep DEF WorkInv
  <2>2. CASE RepeatGet \/ ReceiveNothing \/ NoInput \/ NoCrash \/ Finish \/ UNCHANGED vars
    <3>1. conns' = conns /\ slots' = slots /\ ihaves' = ihaves
      BY <2>2 DEF RepeatGet, ReceiveNothing, NoInput, NoCrash, Finish, vars
    <3>2. request' => request
      BY <2>2, Zenon DEF RepeatGet, ReceiveNothing, NoInput, NoCrash, Finish, vars
    <3> QED
      BY <1>2, <2>1, <3>1, <3>2 DEF WorkInv
  <2>3. CASE UserGet
    BY <1>2, <2>1, <2>3, WorkUserGet DEF WorkInv
  <2>4. ASSUME NEW p \in Peers, ReceiveIHave(p) PROVE WorkInv'
    BY <1>2, <2>1, <2>4, WorkIHave DEF WorkInv
  <2>5. ASSUME NEW p \in Peers, ReceiveChunk(p) PROVE WorkInv'
    BY <1>2, <2>1, <2>5, WorkChunk DEF WorkInv
  <2>6. ASSUME NEW i \in 1 .. MaxConn, CrashDownload(i) PROVE WorkInv'
    BY <1>2, <2>1, <2>6, WorkCrash DEF WorkInv
  <2> QED
    BY <1>2, <2>2, <2>3, <2>4, <2>5, <2>6 DEF Next
<1> QED
  BY <1>1, <1>2, PTL DEF Spec

\* No packet is lost, or there is only one request: then no connected peer leaves a
\* request unanswered.  Otherwise a timeout may give such a peer another chunk than
\* the one set free, and the lasting peer that has that one is left out.
AllAnswer == Reliable = Peers \/ MaxRequests <= 1

LEMMA AllHeard == ASSUME Orderly, AllAnswer PROVE Spec => []~unheard
<1>1. Init => ~unheard
  BY DEF Init
<1>2. ASSUME BooksInv, ~unheard, [Next]_vars PROVE ~unheard'
  <2>1. CASE UserGet
    <3>1. PICK silent \in SUBSET (Peers \ Reliable) :
             unheard' = \E k \in DOMAIN conns : conns[k].peer \in silent
      BY <2>1 DEF UserGet
    <3>2. CASE MaxRequests <= 1
      <4>1. requests = 0
        BY <1>2, <2>1, <3>2, DownloadAssumption DEF UserGet, BooksInv, TypeOK, DownloadAssumption
      <4>2. conns = << >>
        BY <1>2, <4>1 DEF BooksInv, Answering
      <4> QED
        BY <3>1, <4>2
    <3>3. CASE Reliable = Peers
      BY <3>1, <3>3
    <3> QED
      BY <3>2, <3>3 DEF AllAnswer
  <2>2. CASE ~UserGet
    <3>1. unheard' = unheard
      BY <1>2, <2>2 DEF Next, ReceiveIHave, ReceiveChunk, ReceiveNothing, RepeatGet, NoInput,
                        CrashDownload, NoCrash, Finish, vars
    <3> QED
      BY <1>2, <3>1
  <2> QED
    BY <2>1, <2>2
<1> QED
  BY <1>1, <1>2, BooksAlways, PTL DEF Spec

\* A request with chunks still missing has a stream open or an answer on its way, if
\* peers that stay and lose nothing have every chunk between them: no order of
\* answers, data and timeouts leaves a chunk that nothing will ask for.
THEOREM RequestKeepsWorking ==
    ASSUME Orderly, AllAnswer, Supplied
    PROVE  Spec => []KeepsWorking
<1>1. ASSUME WorkInv, NoIdleProvider, ~unheard, request, NEW c \in Chunks, chunks[c] # "OWNED",
             \A p \in Peers : ihaves[p] = << >>
      PROVE  \E i \in DOMAIN slots : slots[i] # NoStream
  <2>1. /\ chunks[c] \in ChunkStates /\ DOMAIN slots = 1 .. MaxConn
        /\ conns \in ConnLists /\ Books /\ Truthful
    BY <1>1 DEF WorkInv, TruthInv, BooksInv, TypeOK, ConnLists
  <2>2. CASE chunks[c] = "RECEIVING"
    BY <2>1, <2>2 DEF Books, Paired
  <2>3. CASE chunks[c] = "NOT_STARTED"
    <3>1. PICK p \in Lasting : c \in Owns[p]
      BY DEF Supplied
    <3>2. p \in Peers /\ p \in Reliable
      BY DownloadAssumption DEF DownloadAssumption, Lasting
    <3>3. PICK k \in 1 .. Len(conns) : conns[k].peer = p
      BY <1>1, <3>1, <3>2 DEF WorkInv, Present, Listed
    <3>4. conns[k].has = Owns[p]
      BY <2>1, <3>3 DEF Truthful
    <3>5. c \in Wanted(chunks, conns[k].has)
      BY <2>3, <3>1, <3>4 DEF Wanted
    <3>6. k \in DOMAIN conns /\ conns[k].state \in {"WORKING", "NOT_WORKING"}
      BY <2>1, ConnFields
    <3>7. conns[k].state = "WORKING"
      BY <1>1, <3>2, <3>3, <3>5, <3>6 DEF NoIdleProvider
    <3> QED
      BY <2>1, <3>2, <3>3, <3>7 DEF Books, Marked, Busy
  <2> QED
    BY <2>1, <2>2, <2>3, <1>1 DEF ChunkStates
<1>2. WorkInv /\ NoIdleProvider /\ ~unheard => KeepsWorking
  BY <1>1 DEF KeepsWorking
<1> QED
  BY <1>2, WorkAlways, NoProviderIdle, AllHeard, PTL
===============================================================================
