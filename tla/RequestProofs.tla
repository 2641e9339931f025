---------------------------- MODULE RequestProofs ----------------------------
(***************************************************************************)
(* The downloads of a request implement ChunkRequest: every step of        *)
(* Download is a step of the abstract specification, or leaves its three   *)
(* variables alone.                                                        *)
(***************************************************************************)
EXTENDS DownloadProofs

\* The chunks a chunk table says are received.
OwnedIn(cs) == {c \in Chunks : cs[c] = "OWNED"}

LEMMA RequestStutter ==
    ASSUME request' = request, chunks' = chunks, slots' = slots
    PROVE  UNCHANGED Request!vars
BY DEF Request!vars

\* Closing a stream ends its fetch and no other.
LEMMA CloseFetch ==
    ASSUME NEW s \in SlotTables, Distinct(s), NEW i \in 1 .. MaxConn, s[i] # NoStream
    PROVE  LET f == <<s[i].peer, s[i].chunk>>
           IN  /\ f \in Fetches(s)
               /\ Fetches([s EXCEPT ![i] = NoStream]) = Fetches(s) \ {f}
<1> DEFINE s2 == [s EXCEPT ![i] = NoStream]
           f  == <<s[i].peer, s[i].chunk>>
<1>1. DOMAIN s = 1 .. MaxConn /\ DOMAIN s2 = 1 .. MaxConn
  BY DEF SlotTables
<1>2. s2[i] = NoStream /\ \A j \in 1 .. MaxConn : j # i => s2[j] = s[j]
  BY DEF SlotTables
<1>3. f \in Fetches(s)
  BY <1>1 DEF Fetches
<1> HIDE DEF s2
<1>4. ASSUME NEW g \in Fetches(s2) PROVE g \in Fetches(s) \ {f}
  <2>1. PICK j \in 1 .. MaxConn : s2[j] # NoStream /\ g = <<s2[j].peer, s2[j].chunk>>
    BY <1>1 DEF Fetches
  <2>2. j # i /\ s[j] = s2[j]
    BY <1>2, <2>1
  <2>3. g \in Fetches(s)
    BY <1>1, <2>1, <2>2 DEF Fetches
  <2>4. g # f
    BY <2>1, <2>2 DEF Distinct
  <2> QED
    BY <2>3, <2>4
<1>5. ASSUME NEW g \in Fetches(s), g # f PROVE g \in Fetches(s2)
  <2>1. PICK j \in 1 .. MaxConn : s[j] # NoStream /\ g = <<s[j].peer, s[j].chunk>>
    BY <1>1 DEF Fetches
  <2>2. s2[j] = s[j]
    BY <1>2, <1>5, <2>1
  <2> QED
    BY <1>1, <2>1, <2>2 DEF Fetches
<1> QED
  BY <1>3, <1>4, <1>5 DEF s2

\* Opening a stream begins one fetch.
LEMMA OpenFetch ==
    ASSUME NEW s \in SlotTables, NEW s2 \in SlotTables,
           NEW i \in 1 .. MaxConn, s[i] = NoStream, s2[i] # NoStream,
           \A j \in 1 .. MaxConn : j # i => s2[j] = s[j]
    PROVE  Fetches(s2) = Fetches(s) \union {<<s2[i].peer, s2[i].chunk>>}
<1> DEFINE f == <<s2[i].peer, s2[i].chunk>>
<1>1. DOMAIN s = 1 .. MaxConn /\ DOMAIN s2 = 1 .. MaxConn
  BY DEF SlotTables
<1>2. ASSUME NEW g \in Fetches(s2) PROVE g \in Fetches(s) \union {f}
  <2>1. PICK j \in 1 .. MaxConn : s2[j] # NoStream /\ g = <<s2[j].peer, s2[j].chunk>>
    BY <1>1 DEF Fetches
  <2>2. CASE j = i
    BY <2>1, <2>2
  <2>3. CASE j # i
    BY <1>1, <2>1, <2>3 DEF Fetches
  <2> QED
    BY <2>2, <2>3
<1>3. f \in Fetches(s2)
  BY <1>1 DEF Fetches
<1>4. ASSUME NEW g \in Fetches(s) PROVE g \in Fetches(s2)
  <2>1. PICK j \in 1 .. MaxConn : s[j] # NoStream /\ g = <<s[j].peer, s[j].chunk>>
    BY <1>1 DEF Fetches
  <2>2. j # i
    BY <2>1
  <2> QED
    BY <1>1, <2>1, <2>2 DEF Fetches
<1> QED
  BY <1>2, <1>3, <1>4

\* A peer without a stream is given a chunk it has and nobody sends: ChunkRequest
\* allows it.
LEMMA PickFetch ==
    ASSUME Cardinality(Peers) <= MaxConn,
           NEW list, NEW s \in SlotTables, NEW cs \in ChunkTables,
           NEW p \in Peers, NEW c \in Chunks, cs[c] = "NOT_STARTED", Pick(list, s, cs, p, c),
           Paired(s, cs), ~Busy(s, p), c \in Owns[p]
    PROVE  /\ Fetches(slots') \in Request!MayAsk(Fetches(s), OwnedIn(cs))
           /\ OwnedIn(chunks') = OwnedIn(cs)
<1>1. PICK served \in BOOLEAN : slots' = StartDownload(s, p, c, served)
  BY DEF Pick
<1>2. PICK i \in 1 .. MaxConn :
         /\ s[i] = NoStream
         /\ slots' = [s EXCEPT ![i] = [peer |-> p, chunk |-> c, served |-> served]]
  <2>1. \E i \in 1 .. MaxConn : s[i] = NoStream
    BY FreeSlot DEF Paired
  <2> QED
    BY <1>1, <2>1, StartFacts
<1>3. Fetches(slots') = Fetches(s) \union {<<p, c>>}
  <2> DEFINE new == [peer |-> p, chunk |-> c, served |-> served]
  <2>1. new \in Streams /\ new.peer = p /\ new.chunk = c /\ new # NoStream
    BY DownloadAssumption DEF Streams, DownloadAssumption
  <2> HIDE DEF new
  <2>2. /\ s[i] = NoStream /\ slots' \in SlotTables /\ slots'[i] = new
        /\ \A j \in 1 .. MaxConn : j # i => slots'[j] = s[j]
    BY <1>2, <2>1 DEF SlotTables, new
  <2> QED
    BY <2>1, <2>2, OpenFetch
<1>4. \A f \in Fetches(s) : f[1] # p /\ f[2] # c
  BY DEF Fetches, SlotTables, Paired, Busy
<1>5. <<p, c>> \in Peers \X (Chunks \ OwnedIn(cs))
  BY DEF OwnedIn
<1>6. chunks' = [cs EXCEPT ![c] = "RECEIVING"]
  BY DEF Pick
<1>7. OwnedIn(chunks') = OwnedIn(cs)
  BY <1>6 DEF OwnedIn, ChunkTables
<1>8. ~Request!Asked(p, Fetches(s)) /\ ~Request!Fetched(c, Fetches(s))
  BY <1>4 DEF Request!Asked, Request!Fetched
<1> QED
  BY <1>3, <1>5, <1>7, <1>8 DEF Request!MayAsk

\* What is known of a peer is what it has, when every connection is truthful.
LEMMA KnownTruth ==
    ASSUME NEW list \in ConnLists, NEW p \in Peers,
           \A k \in 1 .. Len(list) : list[k].has \subseteq Owns[list[k].peer]
    PROVE  Known(list, p) \subseteq Owns[p]
<1>1. DOMAIN list = 1 .. Len(list)
  BY ConnFields
<1> QED
  BY <1>1 DEF Known

\* An IHAVE asks the peer that sent it for a chunk, or nothing changes.
LEMMA RequestIHave ==
    ASSUME Orderly, TruthInv, NEW p \in Peers, ReceiveIHave(p)
    PROVE  Request!Ask \/ UNCHANGED Request!vars
<1> DEFINE offered == Head(ihaves[p])
           list    == UpdateConnections(conns, p, offered)
<1>1. /\ TypeOK /\ slots \in SlotTables /\ chunks \in ChunkTables /\ Paired(slots, chunks)
  BY DEF TruthInv, BooksInv, Books, TypeOK, SlotTables, ChunkTables
<1>2. ihaves[p] # << >> /\ request' = request
  BY DEF ReceiveIHave
<1>3. ~Busy(slots, p) /\ offered \subseteq Owns[p]
  BY <1>2, HeadTruthful DEF TruthInv, BooksInv, Answering
<1>4. \/ request /\ \E c \in Chunks : /\ c \in offered /\ chunks[c] = "NOT_STARTED"
                                     /\ Pick(list, slots, chunks, p, c)
      \/ chunks' = chunks /\ slots' = slots
  BY <1>1, ReceiveIHaveCases, Zenon
<1> HIDE DEF offered, list
<1>5. ASSUME request, NEW c \in Chunks, c \in offered, chunks[c] = "NOT_STARTED",
             Pick(list, slots, chunks, p, c)
      PROVE  Request!Ask
  <2>1. /\ Fetches(slots') \in Request!MayAsk(Fetches(slots), OwnedIn(chunks))
        /\ OwnedIn(chunks') = OwnedIn(chunks)
    BY <1>1, <1>3, <1>5, PickFetch DEF Orderly
  <2> QED
    BY <1>2, <1>5, <2>1 DEF Request!Ask, OwnedIn
<1> QED
  BY <1>2, <1>4, <1>5, RequestStutter

\* The packet that fills a chunk delivers it and may ask for another.
LEMMA RequestChunk ==
    ASSUME Orderly, TruthInv, NEW p \in Peers, ReceiveChunk(p)
    PROVE  \E f \in Fetches(slots) : Request!Deliver(f)
<1> DEFINE i == Lowest(SlotsOf(slots, p))
           c == slots[i].chunk
           s == AbortDownload(slots, p)
           cs == [chunks EXCEPT ![c] = "OWNED"]
           f == <<p, c>>
<1>1. /\ TypeOK /\ slots \in SlotTables /\ chunks \in ChunkTables /\ conns \in ConnLists
      /\ Distinct(slots)
  BY DEF TruthInv, BooksInv, Books, Paired, TypeOK, SlotTables, ChunkTables, ConnLists
<1>2. request /\ request' = request
  BY DEF ReceiveChunk
<1>3. i \in 1 .. MaxConn /\ slots[i] # NoStream /\ slots[i].peer = p /\ c \in Chunks
  BY <1>1, ReceiveChunkCases, Zenon
<1>4. Alone(i)
  <2>1. DOMAIN slots = 1 .. MaxConn
    BY <1>1 DEF SlotTables
  <2> HIDE DEF i
  <2> QED
    BY <1>1, <1>3, <2>1 DEF Alone, Distinct
<1>5. \/ \E d \in Chunks : /\ d \in Known(conns, p) /\ cs[d] = "NOT_STARTED"
                           /\ Pick(conns, s, cs, p, d)
      \/ chunks' = cs /\ slots' = s
  <2> DEFINE all(verified) == [chunks EXCEPT ![c] = IF verified THEN "OWNED" ELSE "NOT_STARTED"]
  <2>1. PICK verified \in BOOLEAN :
           /\ Alone(i) => verified
           /\ \/ \E d \in Chunks : /\ d \in Known(conns, p) /\ all(verified)[d] = "NOT_STARTED"
                                   /\ Pick(conns, s, all(verified), p, d)
              \/ chunks' = all(verified) /\ slots' = s
    BY <1>1, ReceiveChunkCases, Zenon
  <2>2. all(verified) = cs
    BY <1>4, <2>1
  <2> HIDE DEF all, cs, s
  <2> QED
    BY <2>1, <2>2
<1>6. s \in SlotTables /\ cs \in ChunkTables /\ Paired(s, cs) /\ ~Busy(s, p)
  BY <1>3, ClosedBooks, Zenon DEF TruthInv
<1>7. f \in Fetches(slots) /\ f[2] = c /\ Fetches(s) = Fetches(slots) \ {f}
  <2>1. AbortDownload(slots, slots[i].peer) = [slots EXCEPT ![i] = NoStream]
    BY <1>1, <1>3, AbortFacts
  <2> HIDE DEF i
  <2> QED
    BY <1>1, <1>3, <2>1, CloseFetch
<1>8. OwnedIn(cs) = OwnedIn(chunks) \union {c}
  BY <1>1, <1>3 DEF OwnedIn, ChunkTables
<1>9. Known(conns, p) \subseteq Owns[p]
  BY <1>1, KnownTruth DEF TruthInv, Truthful
<1> HIDE DEF i, c, s, cs, f
<1>10. Fetches(slots') \in Request!MayAsk(Fetches(s), OwnedIn(cs)) /\ OwnedIn(chunks') = OwnedIn(cs)
  <2>1. CASE \E d \in Chunks : /\ d \in Known(conns, p) /\ cs[d] = "NOT_STARTED"
                               /\ Pick(conns, s, cs, p, d)
    BY <1>6, <1>9, <2>1, PickFetch DEF Orderly
  <2>2. CASE chunks' = cs /\ slots' = s
    BY <2>2 DEF Request!MayAsk
  <2> QED
    BY <1>5, <2>1, <2>2
<1>11. Request!Deliver(f)
  BY <1>2, <1>7, <1>8, <1>10 DEF Request!Deliver, OwnedIn
<1> QED
  BY <1>7, <1>11 DEF Request!Deliver

\* A stream that timed out gives its chunk up, and another peer may be asked for it.
LEMMA RequestCrash ==
    ASSUME Orderly, TruthInv, NEW i \in 1 .. MaxConn, CrashDownload(i)
    PROVE  \E f \in Fetches(slots) : Request!GiveUp(f)
<1> DEFINE p    == slots[i].peer
           c    == slots[i].chunk
           s    == AbortDownload(slots, p)
           cs   == [chunks EXCEPT ![c] = "NOT_STARTED"]
           list == Unlink(conns, p)
<1>1. /\ TypeOK /\ slots \in SlotTables /\ chunks \in ChunkTables /\ conns \in ConnLists
      /\ Paired(slots, chunks) /\ OneEach(conns) /\ BooksInv
  BY DEF TruthInv, BooksInv, Books, TypeOK, SlotTables, ChunkTables, ConnLists
<1>2. request' = request /\ slots[i] # NoStream
  BY DEF CrashDownload
<1>3. /\ request /\ p \in Peers /\ c \in Chunks /\ s \in SlotTables /\ cs \in ChunkTables
      /\ Paired(s, cs) /\ ~Busy(s, p) /\ Marked(conns, s, Peers \ {p}) /\ Listed(conns, p)
  BY <1>1, <1>2, ClosedBooks, CrashDownloadCases, Zenon
<1>4. conns # << >>
  BY <1>3 DEF Listed
<1>5. /\ list \in ConnLists /\ Marked(list, s, Peers)
      /\ \A k \in 1 .. Len(list) : \E j \in 1 .. Len(conns) : list[k] = conns[j]
  BY <1>1, <1>3, UnlinkBooks
<1>6. \/ \E k \in 1 .. Len(list), d \in Chunks :
            /\ list[k].peer \in Peers /\ list[k].state = "NOT_WORKING"
            /\ d \in Known(list, list[k].peer) /\ cs[d] = "NOT_STARTED"
            /\ Pick(list, s, cs, list[k].peer, d)
      \/ chunks' = cs /\ slots' = s
  BY <1>1, <1>3, <1>4, CrashDownloadCases, Zenon DEF Reset
<1>7. <<p, c>> \in Fetches(slots) /\ Fetches(s) = Fetches(slots) \ {<<p, c>>}
  <2>1. s = [slots EXCEPT ![i] = NoStream]
    BY <1>1, <1>2, AbortFacts DEF Paired
  <2> HIDE DEF s
  <2> QED
    BY <1>1, <1>2, <2>1, CloseFetch DEF Paired
<1>8. OwnedIn(cs) = OwnedIn(chunks)
  <2>1. chunks[c] # "OWNED"
    BY <1>1, <1>2 DEF Paired
  <2> QED
    BY <1>1, <1>3, <2>1 DEF OwnedIn, ChunkTables
<1> HIDE DEF p, c, s, cs, list
<1>9. \A k \in 1 .. Len(list) : list[k].has \subseteq Owns[list[k].peer]
  BY <1>5 DEF TruthInv, Truthful
<1>10. Fetches(slots') \in Request!MayAsk(Fetches(s), OwnedIn(cs)) /\ OwnedIn(chunks') = OwnedIn(cs)
  <2>1. ASSUME NEW k \in 1 .. Len(list), NEW d \in Chunks,
               list[k].peer \in Peers, list[k].state = "NOT_WORKING",
               d \in Known(list, list[k].peer), cs[d] = "NOT_STARTED",
               Pick(list, s, cs, list[k].peer, d)
        PROVE  /\ Fetches(slots') \in Request!MayAsk(Fetches(s), OwnedIn(cs))
               /\ OwnedIn(chunks') = OwnedIn(cs)
    <3>1. ~Busy(s, list[k].peer)
      BY <1>5, <2>1 DEF Marked
    <3>2. d \in Owns[list[k].peer]
      BY <1>5, <1>9, <2>1, KnownTruth
    <3> QED
      BY <1>3, <2>1, <3>1, <3>2, PickFetch DEF Orderly
  <2>2. CASE chunks' = cs /\ slots' = s
    BY <2>2 DEF Request!MayAsk
  <2> QED
    BY <1>6, <2>1, <2>2
<1>11. Request!GiveUp(<<p, c>>)
  BY <1>2, <1>3, <1>7, <1>8, <1>10 DEF Request!GiveUp, OwnedIn
<1> QED
  BY <1>7, <1>11

\* The user's line begins a request, with no fetch left over from the last one.
LEMMA RequestBegin ==
    ASSUME TruthInv, UserGet
    PROVE  Request!Begin
<1>1. /\ ~request /\ request' = TRUE /\ slots' = slots
      /\ chunks' = [c \in Chunks |-> "NOT_STARTED"]
  BY DEF UserGet
<1>2. \A i \in DOMAIN slots : slots[i] = NoStream
  BY <1>1 DEF TruthInv, BooksInv, Books, TypeOK
<1>3. Fetches(slots') = {}
  BY <1>1, <1>2 DEF Fetches
<1> QED
  BY <1>1, <1>3 DEF Request!Begin

\* The request is freed once every chunk is owned, and not before.
LEMMA RequestEnd ==
    ASSUME TruthInv, Finish
    PROVE  Request!End \/ UNCHANGED Request!vars
<1>1. /\ chunks' = chunks /\ slots' = slots /\ request \in BOOLEAN
      /\ request' = (request /\ \E c \in Chunks : chunks[c] # "OWNED")
  BY DEF Finish, TruthInv, BooksInv, TypeOK
<1>2. CASE request /\ \A c \in Chunks : chunks[c] = "OWNED"
  <2>1. OwnedIn(chunks) = Chunks /\ ~request'
    BY <1>1, <1>2 DEF OwnedIn
  <2> QED
    BY <1>1, <1>2, <2>1 DEF Request!End, OwnedIn
<1>3. CASE ~request \/ \E c \in Chunks : chunks[c] # "OWNED"
  BY <1>1, <1>3, RequestStutter
<1> QED
  BY <1>2, <1>3

LEMMA RequestStep ==
    ASSUME Orderly, TruthInv, [Next]_vars
    PROVE  [Request!Next]_(Request!vars)
<1>1. ASSUME NEW p \in Peers, ReceiveIHave(p) \/ ReceiveChunk(p)
      PROVE  [Request!Next]_(Request!vars)
  BY <1>1, RequestIHave, RequestChunk DEF Request!Next
<1>2. ASSUME NEW i \in 1 .. MaxConn, CrashDownload(i) PROVE Request!Next
  BY <1>2, RequestCrash DEF Request!Next
<1>3. CASE UserGet
  BY <1>3, RequestBegin DEF Request!Next
<1>4. CASE Finish
  BY <1>4, RequestEnd DEF Request!Next
<1>5. CASE RepeatGet \/ ReceiveNothing \/ NoInput \/ NoCrash \/ UNCHANGED vars
  BY <1>5, RequestStutter DEF RepeatGet, ReceiveNothing, NoInput, NoCrash, vars
<1> QED
  BY <1>1, <1>2, <1>3, <1>4, <1>5 DEF Next

\* The handlers of a peer's downloads, with late answers, lost packets and peers that
\* vanish, fetch each chunk from one peer at a time, one that has it, ask each peer
\* for one chunk at a time, keep what they received, and end the request only when
\* it is complete.
THEOREM DownloadsImplementRequest ==
    ASSUME Orderly
    PROVE  Spec => ImplementsRequest
<1>1. Init => Request!Init
  <2> SUFFICES ASSUME Init PROVE Request!Init
    OBVIOUS
  <2>1. OwnedIn(chunks) = Chunks /\ Fetches(slots) = {}
    BY DEF Init, OwnedIn, Fetches
  <2> QED
    BY <2>1 DEF Init, Request!Init, OwnedIn
<1>2. TruthInv /\ [Next]_vars => [Request!Next]_(Request!vars)
  BY RequestStep
<1> QED
  BY <1>1, <1>2, TruthAlways, PTL DEF Spec, ImplementsRequest, Request!Spec
================================================================================
