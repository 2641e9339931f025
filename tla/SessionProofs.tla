----------------------------- MODULE SessionProofs -----------------------------
(***************************************************************************)
(* Theorems about Session, for any number of downloaders, chunks, upload   *)
(* slots and mishaps.  TypeInv is inductive whatever is lost; SessionInv is *)
(* inductive when a chunk has more than one packet and the ACKs of the     *)
(* downloaders that fetch more than one chunk arrive; KeptInv when there   *)
(* is also a slot for each and mishaps are few.                             *)
(***************************************************************************)
EXTENDS Session, StreamProofs, FiniteSetTheorems, WellFoundedInduction

-------------------------------------------------------------------------------
(* The upload tables.                                                        *)

\* A controller whose window init_cwnd may not have set yet.
Rows == [policy : Policies, cwnd : Nat, max : Windows, acks : Nat]

SlotEntries == [peer : Downloaders, chunk : Nat, u : Slots, cc : Rows]
Tables      == [1 .. MaxConn -> SlotEntries]

\* A smallest number exists in every nonempty set of numbers.
LEMMA LowestIn ==
    ASSUME NEW S \in SUBSET Nat, S # {}
    PROVE  Lowest(S) \in S
<1>1. PICK x \in S : \A y \in S : ~(<<y, x>> \in OpToRel(<, Nat))
  BY NatLessThanWellFounded, WFMin, Zenon
<1>2. \A y \in Nat : y < x => <<y, x>> \in OpToRel(<, Nat)
  BY DEF OpToRel
<1>3. \A y \in S : ~(y < x)
  BY <1>1, <1>2, Zenon
<1>4. \A y \in S : x <= y
  BY <1>3
<1> QED
  BY <1>4 DEF Lowest

\* The slot get_upload_index_by_id finds is an open one of the peer.
LEMMA FoundSlot ==
    ASSUME NEW s \in Tables, NEW d, Of(s, d) # {}
    PROVE  /\ Lowest(Of(s, d)) \in 1 .. MaxConn
           /\ s[Lowest(Of(s, d))].u.active /\ s[Lowest(Of(s, d))].peer = d
<1>1. Of(s, d) \in SUBSET Nat
  <2>1. \A i \in Of(s, d) : i \in Nat
    BY SessionAssumption DEF Of, Tables
  <2> QED
    BY <2>1
<1>2. Lowest(Of(s, d)) \in Of(s, d)
  BY <1>1, LowestIn
<1> QED
  BY <1>2 DEF Of, Tables

\* The fields of a slot.
LEMMA EntryFields ==
    ASSUME NEW s \in Tables, NEW i \in 1 .. MaxConn
    PROVE  /\ s[i] \in SlotEntries /\ s[i].peer \in Downloaders /\ s[i].chunk \in Nat
           /\ s[i].u \in Slots /\ s[i].cc \in Rows
<1>1. s[i] \in SlotEntries
  BY DEF Tables
<1> QED
  BY <1>1 DEF SlotEntries

\* The slots of a table in which one has been changed.
LEMMA ChangedTable ==
    ASSUME NEW s \in Tables, NEW i \in 1 .. MaxConn, NEW e \in SlotEntries
    PROVE  /\ [s EXCEPT ![i] = e] \in Tables
           /\ [s EXCEPT ![i] = e][i] = e
           /\ \A j \in 1 .. MaxConn : j # i => [s EXCEPT ![i] = e][j] = s[j]
BY DEF Tables

\* window_control and window_timeout on any row: an ACK never shrinks the window,
\* and one that acknowledges nothing leaves an initial window alone.
LEMMA RowTypes ==
    /\ InitCwnd \in Rows /\ InitCwnd.cwnd = 1 /\ InitCwnd.max = 1
    /\ \A c \in Rows : /\ WindowTimeout(c) \in Rows
                       /\ WindowTimeout(c).cwnd = 1 /\ WindowTimeout(c).max = c.max
    /\ \A c \in Rows, k \in Nat :
         /\ WindowControl(c, k) \in Rows
         /\ WindowControl(c, k).cwnd >= c.cwnd
         /\ k = 0 /\ c.cwnd = 1 /\ c.max = 1 =>
              WindowControl(c, k).cwnd = 1 /\ WindowControl(c, k).max = 1
<1>1. /\ "slow_start" \in Policies /\ "congestion_avoidance" \in Policies /\ 1 \in Windows
      /\ \A w \in Nat, m \in Windows : Larger(w, m) \in Windows
      /\ Larger(1, 1) = 1
  BY DEF Windows, Policies, Larger
<1>2. InitCwnd \in Rows /\ InitCwnd.cwnd = 1 /\ InitCwnd.max = 1
  BY <1>1 DEF InitCwnd, Rows, INITIAL_WINDOW
<1>3. ASSUME NEW c \in Rows
      PROVE  /\ WindowTimeout(c) \in Rows
             /\ WindowTimeout(c).cwnd = 1 /\ WindowTimeout(c).max = c.max
  BY <1>1 DEF WindowTimeout, Rows, INITIAL_WINDOW
<1>4. ASSUME NEW c \in Rows, NEW k \in Nat
      PROVE  /\ WindowControl(c, k) \in Rows
             /\ WindowControl(c, k).cwnd >= c.cwnd
             /\ k = 0 /\ c.cwnd = 1 /\ c.max = 1 =>
                  WindowControl(c, k).cwnd = 1 /\ WindowControl(c, k).max = 1
  <2> DEFINE w == WindowControl(c, k)
  <2>1. c.cwnd \in Nat /\ c.max \in Windows /\ c.acks \in Nat /\ c.policy \in Policies
    BY DEF Rows
  <2>2. CASE c.policy = "slow_start"
    <3>1. w = [c EXCEPT !.cwnd = c.cwnd + k, !.max = Larger(c.cwnd + k, c.max)]
      BY <2>2 DEF WindowControl
    <3>2. /\ w \in Rows /\ w.cwnd = c.cwnd + k /\ w.max = Larger(c.cwnd + k, c.max)
      <4>1. c.cwnd + k \in Nat /\ Larger(c.cwnd + k, c.max) \in Windows
        BY <1>1, <2>1
      <4> HIDE DEF w
      <4> QED
        BY <3>1, <4>1 DEF Rows
    <3> HIDE DEF w
    <3>3. w.cwnd >= c.cwnd /\ (k = 0 /\ c.cwnd = 1 /\ c.max = 1 => w.cwnd = 1 /\ w.max = 1)
      BY <1>1, <2>1, <3>2
    <3> QED
      BY <3>2, <3>3 DEF w
  <2>3. CASE c.policy = "congestion_avoidance" /\ c.cwnd <= c.max \div 2
    <3>1. w = LinearGrowth(c, k)
      BY <2>3 DEF WindowControl
    <3>2. LinearGrowth(c, k) \in Rows /\ LinearGrowth(c, k).cwnd >= c.cwnd
      <4>1. CASE c.acks + k >= c.cwnd
        <5>1. LinearGrowth(c, k) = [c EXCEPT !.acks = c.acks + k - c.cwnd, !.cwnd = c.cwnd + 1]
          BY <4>1 DEF LinearGrowth
        <5>2. c.acks + k - c.cwnd \in Nat /\ c.cwnd + 1 \in Nat /\ c.cwnd + 1 >= c.cwnd
          BY <2>1, <4>1
        <5> QED
          BY <5>1, <5>2 DEF Rows
      <4>2. CASE ~(c.acks + k >= c.cwnd)
        <5>1. LinearGrowth(c, k) = [c EXCEPT !.acks = c.acks + k]
          BY <4>2 DEF LinearGrowth
        <5>2. c.acks + k \in Nat /\ c.cwnd >= c.cwnd
          BY <2>1
        <5> QED
          BY <5>1, <5>2 DEF Rows
      <4> QED
        BY <4>1, <4>2
    <3>3. ~(c.cwnd = 1 /\ c.max = 1)
      BY <2>3
    <3> QED
      BY <3>1, <3>2, <3>3
  <2>4. CASE ~(c.policy = "slow_start")
             /\ ~(c.policy = "congestion_avoidance" /\ c.cwnd <= c.max \div 2)
    <3>1. w = [c EXCEPT !.cwnd = c.cwnd + k]
      BY <2>4 DEF WindowControl
    <3>2. w \in Rows /\ w.cwnd = c.cwnd + k /\ w.max = c.max
      <4> HIDE DEF w
      <4> QED
        BY <2>1, <3>1 DEF Rows
    <3> HIDE DEF w
    <3>3. w.cwnd >= c.cwnd /\ (k = 0 /\ c.cwnd = 1 /\ c.max = 1 => w.cwnd = 1 /\ w.max = 1)
      BY <2>1, <3>2
    <3> QED
      BY <3>2, <3>3 DEF w
  <2> QED
    BY <2>2, <2>3, <2>4
<1> QED
  BY <1>2, <1>3, <1>4

\* What holds of the upload tables whatever is lost.
Sound(s) == s \in Tables /\ \A i \in 1 .. MaxConn : Window(s[i].u)

\* A table in which one slot has been changed.
OneChanged(s, r, i) == \A j \in 1 .. MaxConn : j # i => r[j] = s[j]

LEMMA ChangedSound ==
    ASSUME NEW s, Sound(s), NEW i \in 1 .. MaxConn, NEW e \in SlotEntries, Window(e.u)
    PROVE  LET r == [s EXCEPT ![i] = e] IN Sound(r) /\ r[i] = e /\ OneChanged(s, r, i)
<1> DEFINE r == [s EXCEPT ![i] = e]
<1>1. r \in Tables /\ r[i] = e /\ \A j \in 1 .. MaxConn : j # i => r[j] = s[j]
  BY ChangedTable DEF Sound
<1> HIDE DEF r
<1>2. \A j \in 1 .. MaxConn : Window(r[j].u)
  BY <1>1 DEF Sound
<1> QED
  BY <1>1, <1>2 DEF Sound, OneChanged, r

\* abort_upload closes the first slot of the peer.
LEMMA AbortedSlot ==
    ASSUME NEW s, Sound(s), NEW d, Of(s, d) # {}
    PROVE  LET i == Lowest(Of(s, d))
               r == AbortSlot(s, d)
           IN  /\ i \in 1 .. MaxConn /\ Sound(r) /\ ~r[i].u.active /\ OneChanged(s, r, i)
               /\ r[i].peer = d /\ r[i].chunk = s[i].chunk
               /\ s[i].u.active /\ r[i].u.lastAck = s[i].u.lastAck
<1> DEFINE i == Lowest(Of(s, d))
           e == [s[i] EXCEPT !.u = AbortUpload(s[i].u)]
           r == AbortSlot(s, d)
<1>1. s \in Tables /\ i \in 1 .. MaxConn /\ s[i].u.active /\ s[i].peer = d
  BY FoundSlot DEF Sound
<1> HIDE DEF i
<1>2. s[i] \in SlotEntries /\ s[i].u \in Slots
  BY <1>1, EntryFields
<1>3. /\ AbortUpload(s[i].u) \in Slots /\ Window(AbortUpload(s[i].u))
      /\ ~AbortUpload(s[i].u).active /\ AbortUpload(s[i].u).lastAck = s[i].u.lastAck
  BY <1>2, AbortUploadWindow
<1>4. /\ e \in SlotEntries /\ e.u = AbortUpload(s[i].u)
      /\ e.peer = s[i].peer /\ e.chunk = s[i].chunk
  BY <1>2, <1>3 DEF SlotEntries
<1>5. r = [s EXCEPT ![i] = e]
  BY <1>1 DEF AbortSlot, Tables, i
<1> HIDE DEF e, r
<1>6. Sound(r) /\ r[i] = e /\ OneChanged(s, r, i)
  <2>1. Sound(s) /\ i \in 1 .. MaxConn /\ e \in SlotEntries /\ Window(e.u)
    BY <1>1, <1>3, <1>4
  <2>2. LET x == [s EXCEPT ![i] = e] IN Sound(x) /\ x[i] = e /\ OneChanged(s, x, i)
    BY ONLY <2>1, ChangedSound, Zenon
  <2> QED
    BY <1>5, <2>2, Zenon
<1>7. /\ ~r[i].u.active /\ r[i].peer = d /\ r[i].chunk = s[i].chunk
      /\ s[i].u.active /\ r[i].u.lastAck = s[i].u.lastAck
  BY <1>1, <1>3, <1>4, <1>6
<1> QED
  BY <1>1, <1>6, <1>7 DEF i, r

\* receive_ack and window_control change the first slot of the peer, and the ACK
\* of the last packet closes it.
LEMMA AckedSlot ==
    ASSUME NEW s, Sound(s), NEW d, Of(s, d) # {}, NEW ack \in SeqNumbers
    PROVE  LET i == Lowest(Of(s, d))
               r == AckSlot(s, d, ack)
           IN  /\ i \in 1 .. MaxConn /\ Sound(r) /\ OneChanged(s, r, i)
               /\ s[i].peer = d /\ r[i].peer = d /\ r[i].chunk = s[i].chunk
               /\ r[i].u.lastAck = ack /\ (r[i].u.active <=> ack # N)
               /\ ack # N => /\ r[i].u = ReceiveAck(s[i].u, ack)
                             /\ r[i].cc = WindowControl(s[i].cc, AckedPrefix(s[i].u.queue, ack))
<1> DEFINE i == Lowest(Of(s, d))
           k == AckedPrefix(s[i].u.queue, ack)
           v == ReceiveAck(s[i].u, ack)
           e == [s[i] EXCEPT !.u = v, !.cc = WindowControl(s[i].cc, k)]
           t == [s EXCEPT ![i] = e]
           r == AckSlot(s, d, ack)
<1>1. s \in Tables /\ i \in 1 .. MaxConn /\ s[i].u.active /\ s[i].peer = d
  BY FoundSlot DEF Sound
<1>0. r = IF ack = N THEN AbortSlot(t, d) ELSE t
  <2>1. t = [s EXCEPT ![i].u = ReceiveAck(s[i].u, ack),
                      ![i].cc = WindowControl(s[i].cc, AckedPrefix(s[i].u.queue, ack))]
    <3> HIDE DEF i
    <3> QED
      BY <1>1 DEF Tables
  <2> HIDE DEF t, e, k, v
  <2> QED
    BY <2>1 DEF AckSlot
<1> HIDE DEF i
<1>2. s[i] \in SlotEntries /\ s[i].u \in Slots /\ s[i].cc \in Rows /\ Window(s[i].u)
  BY <1>1, EntryFields DEF Sound
<1>3. v \in Slots /\ Window(v) /\ v.active /\ v.lastAck = ack /\ k \in Nat
  <2>1. /\ v \in Slots /\ Window(v) /\ v.active /\ v.lastAck = ack
        /\ AckedOfRun(s[i].u.queue, Acked(s[i].u), ack) \in 0 .. Len(s[i].u.queue)
        /\ k = AckedOfRun(s[i].u.queue, Acked(s[i].u), ack)
    BY <1>1, <1>2, ReceiveAckWindow
  <2>2. Len(s[i].u.queue) \in Nat
    BY <1>2, SlotTypes
  <2> HIDE DEF v, k
  <2> QED
    BY <2>1, <2>2
<1>4. WindowControl(s[i].cc, k) \in Rows
  BY <1>2, <1>3, RowTypes
<1> HIDE DEF v, k
<1>5. /\ e \in SlotEntries /\ e.u = v /\ e.cc = WindowControl(s[i].cc, k)
      /\ e.peer = s[i].peer /\ e.chunk = s[i].chunk
  BY <1>2, <1>3, <1>4 DEF SlotEntries
<1> HIDE DEF e
<1>6. Sound(t) /\ t[i] = e /\ OneChanged(s, t, i)
  BY <1>1, <1>3, <1>5, ChangedSound
<1> HIDE DEF t, r
<1>7. CASE ack # N
  <2>1. r = t
    BY <1>0, <1>7
  <2> QED
    BY <1>1, <1>3, <1>5, <1>6, <1>7, <2>1 DEF i, r, v, k
<1>8. CASE ack = N
  <2>1. r = AbortSlot(t, d)
    BY <1>0, <1>8
  <2>2. Of(t, d) = Of(s, d)
    <3>1. \A j \in 1 .. MaxConn : (t[j].u.active <=> s[j].u.active) /\ t[j].peer = s[j].peer
      BY <1>1, <1>3, <1>5, <1>6 DEF OneChanged
    <3>2. DOMAIN t = 1 .. MaxConn /\ DOMAIN s = 1 .. MaxConn
      BY <1>1, <1>6 DEF Sound, Tables
    <3> QED
      BY <3>1, <3>2 DEF Of
  <2>3. /\ Sound(r) /\ ~r[i].u.active /\ OneChanged(t, r, i)
        /\ r[i].peer = d /\ r[i].chunk = t[i].chunk /\ r[i].u.lastAck = t[i].u.lastAck
    BY <1>6, <2>1, <2>2, AbortedSlot DEF i
  <2>4. OneChanged(s, r, i) /\ r[i].chunk = s[i].chunk /\ r[i].u.lastAck = ack
    BY <1>3, <1>5, <1>6, <2>3 DEF OneChanged
  <2> QED
    BY <1>1, <1>8, <2>3, <2>4 DEF i, r
<1> QED
  BY <1>7, <1>8

\* start_upload opens the first free slot, if there is one, and init_cwnd sets the
\* window of the peer's first slot: of the new one when the peer had none.
LEMMA StartedSlot ==
    ASSUME NEW s, Sound(s), NEW d \in Downloaders, NEW c \in Nat
    PROVE  LET r == StartSlot(s, d, c) IN
           /\ Sound(r)
           /\ Of(s, d) = {} =>
                \/ r = s /\ \A i \in 1 .. MaxConn : s[i].u.active
                \/ \E i \in 1 .. MaxConn :
                     /\ ~s[i].u.active /\ OneChanged(s, r, i)
                     /\ r[i].u = StartUpload(s[i].u) /\ r[i].cc = InitCwnd
                     /\ r[i].peer = d /\ r[i].chunk = c
<1> DEFINE free == {i \in DOMAIN s : ~s[i].u.active}
           i == Lowest(free)
           e == [peer |-> d, chunk |-> c, u |-> StartUpload(s[i].u), cc |-> s[i].cc]
           t == [s EXCEPT ![i] = e]
           r == StartSlot(s, d, c)
<1>1. CASE free = {}
  <2>1. r = s
    BY <1>1, Zenon DEF StartSlot
  <2>2. \A j \in 1 .. MaxConn : s[j].u.active
    BY <1>1 DEF Sound, Tables
  <2> QED
    BY <2>1, <2>2, Zenon
<1>2. CASE free # {}
  <2>0. r = InitWindow(t, d)
    BY <1>2 DEF StartSlot
  <2>1. s \in Tables /\ i \in 1 .. MaxConn /\ ~s[i].u.active
    <3>1. free \in SUBSET Nat /\ free \subseteq 1 .. MaxConn
      <4>1. \A j \in free : j \in Nat /\ j \in 1 .. MaxConn
        BY SessionAssumption DEF Sound, Tables
      <4> QED
        BY <4>1
    <3>2. i \in free
      BY <1>2, <3>1, LowestIn
    <3> QED
      BY <3>1, <3>2 DEF Sound
  <2> HIDE DEF free, i
  <2>2. s[i].u \in Slots /\ s[i].cc \in Rows /\ Window(s[i].u)
    BY <2>1, EntryFields DEF Sound
  <2>3. /\ StartUpload(s[i].u) \in Slots /\ Window(StartUpload(s[i].u))
        /\ StartUpload(s[i].u).active
    BY <2>1, <2>2, StartUploadWindow
  <2>4. /\ e \in SlotEntries /\ e.u = StartUpload(s[i].u)
        /\ e.peer = d /\ e.chunk = c
    BY <2>2, <2>3 DEF SlotEntries
  <2> HIDE DEF e
  <2>5. Sound(t) /\ t[i] = e /\ OneChanged(s, t, i)
    BY <2>1, <2>3, <2>4, ChangedSound
  <2> HIDE DEF t, r
  <2> DEFINE m == Lowest(Of(t, d))
             f == [t[m] EXCEPT !.cc = InitCwnd]
  <2>6. i \in Of(t, d) /\ DOMAIN t = 1 .. MaxConn /\ t \in Tables
    BY <2>1, <2>3, <2>4, <2>5 DEF Of, Sound, Tables
  <2>7. m \in 1 .. MaxConn
    BY <2>6, FoundSlot
  <2>8. r = [t EXCEPT ![m] = f]
    <3> HIDE DEF t
    <3> QED
      BY <2>0, <2>6, <2>7 DEF InitWindow, Tables
  <2>9. Of(s, d) = {} => m = i
    <3> SUFFICES ASSUME Of(s, d) = {}
                 PROVE  m = i
      OBVIOUS
    <3>1. \A j \in Of(t, d) : j = i
      BY <2>1, <2>5, <2>6 DEF Of, OneChanged, Sound, Tables
    <3>2. m \in Of(t, d)
      <4>1. t[m].u.active /\ t[m].peer = d
        BY <2>6, FoundSlot
      <4> QED
        BY <2>6, <2>7, <4>1 DEF Of
    <3> QED
      BY <3>1, <3>2
  <2> HIDE DEF m
  <2>10. t[m] \in SlotEntries /\ Window(t[m].u)
    BY <2>5, <2>7, EntryFields DEF Sound
  <2>11. /\ f \in SlotEntries /\ f.cc = InitCwnd
         /\ f.u = t[m].u /\ f.peer = t[m].peer /\ f.chunk = t[m].chunk
    BY <2>10, RowTypes DEF SlotEntries
  <2> HIDE DEF f
  <2>12. Sound(r) /\ r[m] = f /\ OneChanged(t, r, m)
    <3>1. Sound(t) /\ m \in 1 .. MaxConn /\ f \in SlotEntries /\ Window(f.u)
      BY <2>5, <2>7, <2>10, <2>11
    <3>2. LET x == [t EXCEPT ![m] = f] IN Sound(x) /\ x[m] = f /\ OneChanged(t, x, m)
      BY ONLY <3>1, ChangedSound, Zenon
    <3> QED
      BY <2>8, <3>2, Zenon
  <2>13. ASSUME Of(s, d) = {}
         PROVE  /\ OneChanged(s, r, i)
                /\ r[i].u = StartUpload(s[i].u) /\ r[i].cc = InitCwnd
                /\ r[i].peer = d /\ r[i].chunk = c
    <3>1. m = i
      BY <2>9, <2>13
    <3> QED
      BY <2>4, <2>5, <2>11, <2>12, <3>1 DEF OneChanged
  <2> QED
    BY <2>1, <2>12, <2>13 DEF r
<1> QED
  BY <1>1, <1>2

-------------------------------------------------------------------------------
(* The inductive invariants.                                                 *)

UpPackets   == [kind : {"get"}, chunk : Nat] \union [kind : {"ack"}, ack : {0} \union Packets]
DataPackets == [seq : Packets, chunk : Nat]

\* The types, the slots' windows and the downloaders' buffers, whatever is lost.
TypeInv == /\ TypeOK
           /\ \A i \in 1 .. MaxConn : Window(slots[i].u)
           /\ \A d \in Downloaders : Buffer(down[d])

\* Below, `last', `w', `U' and `D' are what one downloader has of its chunk, the
\* chunk it fetches, and what is under way to the uploader and from it.

\* A GET is under way to the uploader.
Pending(U) == \E g \in 1 .. Len(U) : U[g].kind = "get"

\* A GET under way is for the chunk being fetched, of which nothing has been sent
\* yet; but for the first it follows the ACK that closes the slot of the chunk
\* before, and what follows it are ACKs of packets of that chunk, which say 0.
NextGet(last, w, U, D) ==
    \A g \in 1 .. Len(U) : U[g].kind = "get" =>
      /\ U[g].chunk = w /\ last = 0
      /\ \A j \in 1 .. Len(U) : j > g => U[j] = Ack(0)
      /\ g > 1 => w > 1 /\ U[g - 1] = Ack(N)
      /\ \A j \in 1 .. Len(D) : D[j].chunk # w

\* DATA of an earlier chunk comes before all of the current one, and is never
\* packet 1, which would be taken for the first packet of the new stream.
OldData(last, w, D) ==
    \A j \in 1 .. Len(D) : D[j].chunk # w =>
      /\ D[j].seq >= 2 /\ last = 0
      /\ \A k \in 1 .. Len(D) : k < j => D[k].chunk # w

\* Packet 1 of a chunk is not sent any more once another of the chunk has been.
FirstAlone(w, D) ==
    \A j, k \in 1 .. Len(D) : j < k /\ D[k].seq = 1 /\ D[j].chunk = w => D[j].seq = 1

Link(last, w, U, D) == NextGet(last, w, U, D) /\ OldData(last, w, D) /\ FirstAlone(w, D)

\* An open slot has handled all ACKs up to lastAck, and until the first one its
\* window is a single packet.
Opened(s) == /\ Acked(s.u) = s.u.lastAck /\ s.u.lastAck < N /\ s.cc.cwnd > 0
             /\ s.u.lastAck = 0 => s.u.tail <= 1 /\ s.cc.cwnd = 1 /\ s.cc.max = 1

\* The slot of a downloader that has asked for the next chunk has sent all of the
\* one before, and the ACK that closes it arrives before the GET.
Closing(s, w, U) == /\ Len(U) > 0 => U[1].kind = "ack"
                    /\ Pending(U) => s.chunk # w /\ s.u.tail = N

\* Otherwise slot and stream are about the same chunk, and neither is ahead of
\* what the other has sent.
Fetching(s, last, w, U, D) ==
    ~Pending(U) => /\ s.chunk = w /\ s.u.lastAck <= last /\ last <= s.u.tail
                   /\ \A j \in 1 .. Len(D) : D[j].chunk = w => D[j].seq <= s.u.tail
                   /\ \A j \in 1 .. Len(U) : U[j].ack <= last

\* The ACKs that arrive before any GET never go back.
Climbing(s, U) ==
    \A j \in 1 .. Len(U) :
      (\A g \in 1 .. j : U[g].kind = "ack") =>
        s.u.lastAck <= U[j].ack /\ \A k \in 1 .. j : U[k].ack <= U[j].ack

Serving(s, last, w, U, D) ==
    Opened(s) /\ Closing(s, w, U) /\ Fetching(s, last, w, U, D) /\ Climbing(s, U)

\* Slot i serves downloader d.
Mine(i, d) == slots[i].u.active /\ slots[i].peer = d

Served(d) ==
    /\ pure[d]
    /\ Link(down[d].last, wanted[d], up[d], data[d])
    /\ \A i \in 1 .. MaxConn : Mine(i, d) =>
         /\ Serving(slots[i], down[d].last, wanted[d], up[d], data[d])
         /\ \A j \in 1 .. MaxConn : Mine(j, d) => i = j

\* The loop never exits, and outside of send_data_packets, and in it behind the
\* current turn, every open slot waits for an ACK.
Loop == /\ pc # "exited"
        /\ pc # "send" => turn = 1
        /\ \A i \in 1 .. MaxConn :
             slots[i].u.active /\ (pc # "send" \/ i < turn) => slots[i].u.queue # << >>

SessionInv == TypeInv /\ Loop /\ \A d \in Downloaders : Served(d)

\* What SessionInv rests on: chunks of several packets, and ACKs that arrive where
\* a downloader goes on to another chunk.
Reliable == N > 1 /\ \A d \in Downloaders : Wants[d] > 1 => "ack" \notin Mishaps[d]

-------------------------------------------------------------------------------
(* What packets that are sent and received do to Link and Serving.           *)

\* B is channel A without its oldest packet, or with one more.
Taken(A, B)    == /\ Len(A) \in Nat \ {0} /\ Len(B) = Len(A) - 1
                  /\ \A i \in 1 .. Len(B) : i + 1 \in 1 .. Len(A) /\ B[i] = A[i + 1]
Added(A, B, p) == /\ Len(A) \in Nat /\ Len(B) = Len(A) + 1 /\ B[Len(A) + 1] = p
                  /\ \A i \in 1 .. Len(A) : B[i] = A[i]

\* The oldest packet under way.
FirstData(D, seq, c) == D[1].seq = seq /\ D[1].chunk = c
FirstAck(U, a)       == U[1].kind = "ack" /\ U[1].ack = a
FirstGet(U, c)       == U[1].kind = "get" /\ U[1].chunk = c

\* Slot t is slot s but for the packets up to which it has sent and handled ACKs.
SlotAt(s, t, lastAck, tail) ==
    t.chunk = s.chunk /\ t.u.lastAck = lastAck /\ t.u.tail = tail

\* The fields of packets under way.
LEMMA PacketFields ==
    /\ \A p \in UpPackets : /\ p.kind \in {"get", "ack"}
                            /\ p.kind = "get" => p.chunk \in Nat
                            /\ p.kind = "ack" => p.ack \in 0 .. N /\ p.ack \in SeqNumbers
    /\ \A p \in DataPackets : p.seq \in Packets /\ p.seq \in 1 .. N /\ p.chunk \in Nat
    /\ \A a \in 0 .. N : Ack(a) \in UpPackets /\ Ack(a).kind = "ack" /\ Ack(a).ack = a
    /\ \A c \in Nat : Get(c) \in UpPackets /\ Get(c).kind = "get" /\ Get(c).chunk = c
    /\ \A seq \in 1 .. N, c \in Nat : /\ Data(seq, c) \in DataPackets
                                     /\ Data(seq, c).seq = seq /\ Data(seq, c).chunk = c
BY SizesAssumption DEF UpPackets, DataPackets, Ack, Get, Data, SeqNumbers, Packets

\* A packet that leaves either channel, received or lost.
LEMMA LinkReceived ==
    ASSUME NEW last, NEW w, NEW U, NEW D, NEW V, NEW E, Link(last, w, U, D),
           \/ V = U /\ E = D
           \/ Taken(U, V) /\ E = D
           \/ V = U /\ Taken(D, E)
    PROVE  Link(last, w, V, E)
<1>1. CASE V = U /\ E = D
  BY <1>1
<1>2. CASE Taken(U, V) /\ E = D
  <2>1. ASSUME NEW g \in 1 .. Len(V), V[g].kind = "get"
        PROVE  /\ V[g].chunk = w /\ last = 0
               /\ \A j \in 1 .. Len(V) : j > g => V[j] = Ack(0)
               /\ g > 1 => w > 1 /\ V[g - 1] = Ack(N)
               /\ \A j \in 1 .. Len(E) : E[j].chunk # w
    <3>1. g + 1 \in 1 .. Len(U) /\ U[g + 1].kind = "get" /\ V[g] = U[g + 1]
      BY <1>2, <2>1 DEF Taken
    <3>2. /\ U[g + 1].chunk = w /\ last = 0
          /\ \A j \in 1 .. Len(U) : j > g + 1 => U[j] = Ack(0)
          /\ g + 1 > 1 => w > 1 /\ U[g] = Ack(N)
          /\ \A j \in 1 .. Len(D) : D[j].chunk # w
      BY <3>1 DEF Link, NextGet
    <3>3. \A j \in 1 .. Len(V) : j > g => V[j] = Ack(0)
      BY <1>2, <3>2 DEF Taken
    <3>4. g > 1 => V[g - 1] = U[g]
      BY <1>2 DEF Taken
    <3> QED
      BY <1>2, <3>1, <3>2, <3>3, <3>4
  <2> QED
    BY <1>2, <2>1 DEF Link, NextGet
<1>3. CASE V = U /\ Taken(D, E)
  <2>1. NextGet(last, w, V, E)
    <3>1. \A g \in 1 .. Len(U) : U[g].kind = "get" => \A j \in 1 .. Len(E) : E[j].chunk # w
      BY <1>3 DEF Link, NextGet, Taken
    <3> QED
      BY <1>3, <3>1 DEF Link, NextGet
  <2>2. OldData(last, w, E)
    <3>1. ASSUME NEW j \in 1 .. Len(E), E[j].chunk # w
          PROVE  /\ E[j].seq >= 2 /\ last = 0
                 /\ \A k \in 1 .. Len(E) : k < j => E[k].chunk # w
      <4>1. j + 1 \in 1 .. Len(D) /\ D[j + 1].chunk # w /\ E[j] = D[j + 1]
        BY <1>3, <3>1 DEF Taken
      <4>2. /\ D[j + 1].seq >= 2 /\ last = 0
            /\ \A k \in 1 .. Len(D) : k < j + 1 => D[k].chunk # w
        BY <4>1 DEF Link, OldData
      <4>3. ASSUME NEW k \in 1 .. Len(E), k < j
            PROVE  E[k].chunk # w
        <5>1. k + 1 \in 1 .. Len(D) /\ k + 1 < j + 1 /\ E[k] = D[k + 1]
          BY <1>3, <4>3 DEF Taken
        <5> QED
          BY <4>2, <5>1
      <4> QED
        BY <4>1, <4>2, <4>3
    <3> QED
      BY <3>1 DEF OldData
  <2>3. FirstAlone(w, E)
    <3>1. ASSUME NEW j \in 1 .. Len(E), NEW k \in 1 .. Len(E),
                 j < k, E[k].seq = 1, E[j].chunk = w
          PROVE  E[j].seq = 1
      <4>1. /\ j + 1 \in 1 .. Len(D) /\ E[j] = D[j + 1]
            /\ k + 1 \in 1 .. Len(D) /\ E[k] = D[k + 1] /\ j + 1 < k + 1
        BY <1>3, <3>1 DEF Taken
      <4> QED
        BY <3>1, <4>1 DEF Link, FirstAlone
    <3> QED
      BY <3>1 DEF FirstAlone
  <2> QED
    BY <2>1, <2>2, <2>3 DEF Link
<1> QED
  BY <1>1, <1>2, <1>3

\* A packet of the chunk being fetched, or of the one before with the GET under
\* way, is sent behind the others.
LEMMA LinkSent ==
    ASSUME NEW last, NEW w, NEW U, NEW D, NEW E, NEW p, p.seq \in Nat, p.seq > 0,
           Link(last, w, U, D), Added(D, E, p),
           Pending(U) => p.chunk # w /\ p.seq >= 2,
           ~Pending(U) => p.chunk = w,
           ~Pending(U) /\ p.seq = 1 => \A j \in 1 .. Len(D) : D[j].chunk = w => D[j].seq = 1
    PROVE  Link(last, w, U, E)
<1>1. NextGet(last, w, U, E)
  <2>1. ASSUME NEW g \in 1 .. Len(U), U[g].kind = "get"
        PROVE  \A j \in 1 .. Len(E) : E[j].chunk # w
    <3>1. Pending(U) /\ \A j \in 1 .. Len(D) : D[j].chunk # w
      BY <2>1 DEF Pending, Link, NextGet
    <3> QED
      BY <3>1 DEF Added
  <2> QED
    BY <2>1 DEF Link, NextGet
<1>2. OldData(last, w, E)
  <2>1. ASSUME NEW j \in 1 .. Len(E), E[j].chunk # w
        PROVE  /\ E[j].seq >= 2 /\ last = 0
               /\ \A k \in 1 .. Len(E) : k < j => E[k].chunk # w
    <3>1. CASE j \in 1 .. Len(D)
      <4>1. E[j] = D[j] /\ D[j].chunk # w
        BY <2>1, <3>1 DEF Added
      <4>2. /\ D[j].seq >= 2 /\ last = 0
            /\ \A k \in 1 .. Len(D) : k < j => D[k].chunk # w
        BY <3>1, <4>1 DEF Link, OldData
      <4> QED
        BY <3>1, <4>1, <4>2 DEF Added
    <3>2. CASE j = Len(D) + 1
      <4>1. E[j] = p
        BY <3>2 DEF Added
      <4>2. Pending(U)
        BY <2>1, <4>1
      <4>3. last = 0 /\ \A k \in 1 .. Len(D) : D[k].chunk # w
        BY <4>2 DEF Pending, Link, NextGet
      <4>4. \A k \in 1 .. Len(E) : k < j => E[k].chunk # w
        BY <3>2, <4>3 DEF Added
      <4> QED
        BY <4>1, <4>2, <4>3, <4>4
    <3> QED
      BY <3>1, <3>2 DEF Added
  <2> QED
    BY <2>1 DEF OldData
<1>3. FirstAlone(w, E)
  <2>1. ASSUME NEW j \in 1 .. Len(E), NEW k \in 1 .. Len(E),
               j < k, E[k].seq = 1, E[j].chunk = w
        PROVE  E[j].seq = 1
    <3>1. j \in 1 .. Len(D) /\ E[j] = D[j]
      BY <2>1 DEF Added
    <3>2. CASE k \in 1 .. Len(D)
      <4>1. E[k] = D[k]
        BY <3>2 DEF Added
      <4> QED
        BY <2>1, <3>1, <3>2, <4>1 DEF Link, FirstAlone
    <3>3. CASE k = Len(D) + 1
      <4>1. E[k] = p /\ p.seq = 1
        BY <2>1, <3>3 DEF Added
      <4> QED
        BY <2>1, <3>1, <4>1
    <3> QED
      BY <3>2, <3>3 DEF Added
  <2> QED
    BY <2>1 DEF FirstAlone
<1> QED
  BY <1>1, <1>2, <1>3 DEF Link

\* DATA of the chunk being fetched is received: no GET is under way, and all DATA
\* is of that chunk.
LEMMA CurrentData ==
    ASSUME NEW last, NEW w, NEW U, NEW D, NEW E, NEW seq,
           Link(last, w, U, D), Taken(D, E), FirstData(D, seq, w)
    PROVE  ~Pending(U) /\ \A j \in 1 .. Len(D) : D[j].chunk = w
<1>1. 1 \in 1 .. Len(D)
  BY DEF Taken
<1>2. ~Pending(U)
  BY <1>1 DEF Pending, Link, NextGet, FirstData
<1>3. \A j \in 1 .. Len(D) : 1 < j => D[j].chunk = w
  BY <1>1 DEF Link, OldData, FirstData
<1> QED
  BY <1>2, <1>3 DEF FirstData

\* An ACK of a packet of the current chunk, new or not, joins the others.
LEMMA LinkAcked ==
    ASSUME NEW last, NEW w, NEW U, NEW D, NEW V, NEW E, NEW next, NEW a,
           NEW seq, Link(last, w, U, D), Taken(D, E), FirstData(D, seq, w), Added(U, V, Ack(a))
    PROVE  Link(next, w, V, E)
<1>1. ~Pending(U) /\ \A j \in 1 .. Len(D) : D[j].chunk = w
  BY CurrentData
<1>2. NextGet(next, w, V, E)
  <2>1. \A g \in 1 .. Len(V) : V[g].kind # "get"
    BY <1>1 DEF Pending, Added, Ack
  <2> QED
    BY <2>1 DEF NextGet
<1>3. OldData(next, w, E)
  BY <1>1 DEF OldData, Taken
<1>4. FirstAlone(w, E)
  BY LinkReceived DEF Link
<1> QED
  BY <1>2, <1>3, <1>4 DEF Link

\* An old packet is acknowledged with 0, whether a GET is under way or not.
LEMMA LinkIgnored ==
    ASSUME NEW w, NEW U, NEW D, NEW V, NEW E,
           Link(0, w, U, D), Taken(D, E), Added(U, V, Ack(0))
    PROVE  Link(0, w, V, E)
<1>1. Link(0, w, U, E)
  BY LinkReceived
<1>2. NextGet(0, w, V, E)
  <2>1. ASSUME NEW g \in 1 .. Len(V), V[g].kind = "get"
        PROVE  /\ V[g].chunk = w
               /\ \A j \in 1 .. Len(V) : j > g => V[j] = Ack(0)
               /\ g > 1 => w > 1 /\ V[g - 1] = Ack(N)
               /\ \A j \in 1 .. Len(E) : E[j].chunk # w
    <3>1. g \in 1 .. Len(U) /\ V[g] = U[g]
      BY <2>1 DEF Added, Ack
    <3>2. /\ U[g].chunk = w
          /\ \A j \in 1 .. Len(U) : j > g => U[j] = Ack(0)
          /\ g > 1 => w > 1 /\ U[g - 1] = Ack(N)
          /\ \A j \in 1 .. Len(E) : E[j].chunk # w
      BY <1>1, <2>1, <3>1 DEF Link, NextGet
    <3>3. \A j \in 1 .. Len(V) : j > g => V[j] = Ack(0)
      BY <3>2 DEF Added
    <3>4. g > 1 => V[g - 1] = U[g - 1]
      BY <3>1 DEF Added
    <3> QED
      BY <3>1, <3>2, <3>3, <3>4
  <2> QED
    BY <2>1 DEF NextGet
<1> QED
  BY <1>1, <1>2 DEF Link

\* The last packet is acknowledged and the next chunk asked for: what is left of
\* the old chunk's DATA has no packet 1 in it.
LEMMA LinkNext ==
    ASSUME NEW last, NEW w \in Nat \ {0}, NEW U, NEW D \in Seq(DataPackets), NEW V, NEW X,
           NEW E \in Seq(DataPackets), N > 1,
           Link(last, w, U, D), Taken(D, E), FirstData(D, N, w),
           Added(U, X, Ack(N)), Added(X, V, Get(w + 1))
    PROVE  Link(0, w + 1, V, E)
<1>1. ~Pending(U) /\ \A j \in 1 .. Len(D) : D[j].chunk = w
  BY CurrentData
<1>2. \A j \in 1 .. Len(E) : E[j].chunk = w /\ E[j].seq >= 2
  <2>1. ASSUME NEW j \in 1 .. Len(E)
        PROVE  E[j].chunk = w /\ E[j].seq >= 2
    <3>1. j + 1 \in 1 .. Len(D) /\ E[j] = D[j + 1] /\ 1 \in 1 .. Len(D) /\ 1 < j + 1
      BY <2>1 DEF Taken
    <3>2. D[j + 1].seq # 1
      BY <3>1, SizesAssumption DEF Link, FirstAlone, FirstData
    <3>3. D[j + 1].seq \in 1 .. N
      BY <3>1, ElementOfSeq, PacketFields
    <3> QED
      BY <1>1, <3>1, <3>2, <3>3, SizesAssumption
  <2> QED
    BY <2>1
<1>3. \A j \in 1 .. Len(E) : E[j].chunk # w + 1
  BY <1>2
<1>4. NextGet(0, w + 1, V, E)
  <2>1. ASSUME NEW g \in 1 .. Len(V), V[g].kind = "get"
        PROVE  g = Len(U) + 2
    BY <1>1, <2>1 DEF Pending, Added, Ack
  <2>2. /\ V[Len(U) + 2] = Get(w + 1) /\ V[Len(U) + 1] = Ack(N) /\ Len(V) = Len(U) + 2
        /\ Len(U) \in Nat
    BY DEF Added
  <2>3. Get(w + 1).chunk = w + 1 /\ w + 1 > 1
    BY DEF Get
  <2> QED
    BY <1>3, <2>1, <2>2, <2>3 DEF NextGet
<1>5. OldData(0, w + 1, E)
  BY <1>2, <1>3 DEF OldData
<1>6. FirstAlone(w + 1, E)
  BY <1>3 DEF FirstAlone
<1> QED
  BY <1>4, <1>5, <1>6 DEF Link

\* A DATA packet that leaves the network changes nothing for the slot.
LEMMA ServingReceived ==
    ASSUME NEW s, NEW last, NEW w, NEW U, NEW D, NEW E,
           Serving(s, last, w, U, D), Taken(D, E)
    PROVE  Serving(s, last, w, U, E)
<1>1. \A j \in 1 .. Len(E) : j + 1 \in 1 .. Len(D) /\ E[j] = D[j + 1]
  BY DEF Taken
<1>2. Fetching(s, last, w, U, E)
  BY <1>1 DEF Serving, Fetching
<1> QED
  BY <1>2 DEF Serving

\* A lost ACK of the current chunk is like one that was never sent.
LEMMA ServingLost ==
    ASSUME NEW s, NEW last, NEW w, NEW U, NEW D, NEW V,
           Serving(s, last, w, U, D), Taken(U, V), ~Pending(U),
           \A i \in 1 .. Len(U) : U[i].kind \in {"get", "ack"}
    PROVE  Serving(s, last, w, V, D)
<1>1. /\ \A j \in 1 .. Len(V) : j + 1 \in 1 .. Len(U) /\ V[j] = U[j + 1]
      /\ \A j \in 1 .. Len(U) : U[j].kind = "ack"
      /\ Len(U) \in Nat /\ Len(V) \in Nat
  BY DEF Taken, Pending
<1>2. ~Pending(V)
  BY <1>1 DEF Pending
<1>3. Closing(s, w, V)
  <2>1. Len(V) > 0 => V[1].kind = "ack"
    BY <1>1
  <2> QED
    BY <1>2, <2>1 DEF Closing
<1>4. Fetching(s, last, w, V, D)
  BY <1>1, <1>2 DEF Serving, Fetching
<1>5. Climbing(s, V)
  <2>1. ASSUME NEW j \in 1 .. Len(V)
        PROVE  s.u.lastAck <= V[j].ack /\ \A k \in 1 .. j : V[k].ack <= V[j].ack
    <3>1. j + 1 \in 1 .. Len(U) /\ V[j] = U[j + 1] /\ \A g \in 1 .. j + 1 : U[g].kind = "ack"
      BY <1>1, <2>1
    <3>2. s.u.lastAck <= U[j + 1].ack /\ \A k \in 1 .. j + 1 : U[k].ack <= U[j + 1].ack
      BY <3>1 DEF Serving, Climbing
    <3>3. \A k \in 1 .. j : k + 1 \in 1 .. j + 1 /\ k \in 1 .. Len(V)
      BY <1>1
    <3> QED
      BY <1>1, <3>1, <3>2, <3>3
  <2> QED
    BY <2>1 DEF Climbing
<1> QED
  BY <1>3, <1>4, <1>5 DEF Serving

\* An ACK that does not close the slot is handled: s turns into t.
LEMMA ServingAck ==
    ASSUME NEW s, NEW t, NEW last, NEW w, NEW U \in Seq(UpPackets), NEW D, NEW V, NEW a,
           Serving(s, last, w, U, D), Link(last, w, U, D), Taken(U, V), Opened(t),
           FirstAck(U, a), a # N, SlotAt(s, t, a, s.u.tail)
    PROVE  Serving(t, last, w, V, D)
<1>0. /\ \A i \in 1 .. Len(U) : U[i].kind \in {"get", "ack"}
      /\ Ack(N).ack = N /\ U[1].kind = "ack" /\ U[1].ack = a
      /\ t.chunk = s.chunk /\ t.u.tail = s.u.tail /\ t.u.lastAck = a
  BY ElementOfSeq, PacketFields DEF FirstAck, SlotAt, Ack
<1>1. /\ \A j \in 1 .. Len(V) : j + 1 \in 1 .. Len(U) /\ V[j] = U[j + 1]
      /\ Len(U) \in Nat \ {0} /\ Len(V) = Len(U) - 1
  BY DEF Taken
<1>2. Pending(V) <=> Pending(U)
  <2>1. ASSUME Pending(U) PROVE Pending(V)
    <3>1. PICK g \in 1 .. Len(U) : U[g].kind = "get"
      BY <2>1 DEF Pending
    <3>2. g # 1
      BY <1>0, <3>1
    <3>3. g - 1 \in 1 .. Len(V) /\ V[g - 1] = U[g - 1 + 1]
      BY <1>1, <3>1, <3>2
    <3>4. g - 1 + 1 = g
      BY <3>1
    <3> QED
      BY <3>1, <3>3, <3>4 DEF Pending
  <2> QED
    BY <1>1, <2>1 DEF Pending
<1>3. Closing(t, w, V)
  <2>1. ASSUME Len(V) > 0, V[1].kind # "ack"
        PROVE  FALSE
    <3>1. 2 \in 1 .. Len(U) /\ U[2].kind = "get"
      BY <1>0, <1>1, <2>1
    <3>2. U[2 - 1] = Ack(N)
      BY <3>1 DEF Link, NextGet
    <3> QED
      BY <1>0, <3>2
  <2> QED
    BY <1>0, <1>2, <2>1 DEF Serving, Closing
<1>4. Fetching(t, last, w, V, D)
  <2>1. 1 \in 1 .. Len(U)
    BY <1>1
  <2> QED
    BY <1>0, <1>1, <1>2, <2>1 DEF Serving, Fetching
<1>5. Climbing(t, V)
  <2>1. ASSUME NEW j \in 1 .. Len(V), \A g \in 1 .. j : V[g].kind = "ack"
        PROVE  t.u.lastAck <= V[j].ack /\ \A k \in 1 .. j : V[k].ack <= V[j].ack
    <3>1. \A g \in 1 .. j + 1 : U[g].kind = "ack"
      <4>1. ASSUME NEW g \in 1 .. j + 1, g # 1
            PROVE  U[g].kind = "ack"
        <5>1. g - 1 \in 1 .. j /\ g - 1 \in 1 .. Len(V) /\ g - 1 + 1 = g
          BY <1>1, <2>1, <4>1
        <5> QED
          BY <1>1, <2>1, <5>1
      <4> QED
        BY <1>0, <4>1
    <3>2. j + 1 \in 1 .. Len(U) /\ V[j] = U[j + 1]
      BY <1>1, <2>1
    <3>3. \A k \in 1 .. j + 1 : U[k].ack <= U[j + 1].ack
      BY <3>1, <3>2 DEF Serving, Climbing
    <3>4. \A k \in 1 .. j : k + 1 \in 1 .. j + 1 /\ k \in 1 .. Len(V)
      BY <1>1
    <3>5. 1 \in 1 .. j + 1
      BY <2>1
    <3> QED
      BY <1>0, <1>1, <3>2, <3>3, <3>4, <3>5
  <2> QED
    BY <2>1 DEF Climbing
<1> QED
  BY <1>3, <1>4, <1>5 DEF Serving

\* The slot of a GET that has arrived.
LEMMA ServingOpened ==
    ASSUME NEW s, NEW last, NEW w, NEW U, NEW D, NEW V,
           Link(last, w, U, D), Taken(U, V), FirstGet(U, w), Opened(s),
           s.chunk = w /\ s.u.lastAck = 0 /\ s.u.tail = 0
    PROVE  Serving(s, last, w, V, D)
<1>1. /\ \A j \in 1 .. Len(V) : j + 1 \in 1 .. Len(U) /\ V[j] = U[j + 1] /\ j + 1 > 1
      /\ 1 \in 1 .. Len(U) /\ Len(V) \in Nat
  BY DEF Taken
<1>2. /\ U[1].chunk = w /\ last = 0
      /\ \A j \in 1 .. Len(U) : j > 1 => U[j] = Ack(0)
      /\ \A j \in 1 .. Len(D) : D[j].chunk # w
  BY <1>1 DEF Link, NextGet, FirstGet
<1>3. \A j \in 1 .. Len(V) : V[j].kind = "ack" /\ V[j].ack = 0
  BY <1>1, <1>2 DEF Ack
<1>4. ~Pending(V)
  BY <1>3 DEF Pending
<1>5. Closing(s, w, V)
  BY <1>1, <1>3, <1>4 DEF Closing
<1>6. Fetching(s, last, w, V, D)
  BY <1>2, <1>3 DEF Fetching
<1>7. Climbing(s, V)
  BY <1>3 DEF Climbing
<1> QED
  BY <1>5, <1>6, <1>7 DEF Serving

\* A packet is sent from the slot, which turns from s into t.
LEMMA ServingSent ==
    ASSUME NEW s, NEW t, NEW last \in Nat, NEW w, NEW U, NEW D \in Seq(DataPackets),
           NEW E, NEW p,
           Serving(s, last, w, U, D), Opened(t), Added(D, E, p),
           NEW tail \in Nat, SlotAt(s, t, s.u.lastAck, tail),
           s.u.tail \in Nat, s.u.tail <= tail,
           Pending(U) => tail = N, p.seq \in Nat, p.seq <= tail
    PROVE  Serving(t, last, w, U, E)
<1>0. t.chunk = s.chunk /\ t.u.lastAck = s.u.lastAck /\ t.u.tail = tail
  BY DEF SlotAt
<1>1. Closing(t, w, U)
  BY <1>0 DEF Serving, Closing
<1>2. Fetching(t, last, w, U, E)
  <2> SUFFICES ASSUME ~Pending(U)
               PROVE  /\ t.chunk = w /\ t.u.lastAck <= last /\ last <= t.u.tail
                      /\ \A j \in 1 .. Len(E) : E[j].chunk = w => E[j].seq <= t.u.tail
                      /\ \A j \in 1 .. Len(U) : U[j].ack <= last
    BY DEF Fetching
  <2>1. /\ s.chunk = w /\ s.u.lastAck <= last /\ last <= s.u.tail
        /\ \A j \in 1 .. Len(D) : D[j].chunk = w => D[j].seq <= s.u.tail
        /\ \A j \in 1 .. Len(U) : U[j].ack <= last
    BY DEF Serving, Fetching
  <2>2. ASSUME NEW j \in 1 .. Len(E), E[j].chunk = w
        PROVE  E[j].seq <= t.u.tail
    <3>1. CASE j = Len(D) + 1
      BY <1>0, <3>1 DEF Added
    <3>2. CASE j \in 1 .. Len(D)
      <4>1. E[j] = D[j]
        BY <3>2 DEF Added
      <4>2. D[j].seq \in Nat
        <5>1. D[j].seq \in 1 .. N
          BY <3>2, ElementOfSeq, PacketFields
        <5> QED
          BY <5>1, SizesAssumption
      <4>3. D[j].seq <= s.u.tail
        BY <2>1, <2>2, <3>2, <4>1
      <4> QED
        BY <1>0, <4>1, <4>2, <4>3
    <3> QED
      BY <3>1, <3>2 DEF Added
  <2> QED
    BY <1>0, <2>1, <2>2
<1>3. Climbing(t, U)
  BY <1>0 DEF Serving, Climbing
<1> QED
  BY <1>1, <1>2, <1>3 DEF Serving

\* An ACK joins those under way while no GET does: it repeats the last one or
\* says one more.
LEMMA ServingAcked ==
    ASSUME NEW s, NEW last \in Nat, NEW w, NEW U \in Seq(UpPackets), NEW D, NEW V, NEW E,
           NEW next \in Nat,
           Serving(s, last, w, U, D), Taken(D, E), Added(U, V, Ack(next)), ~Pending(U),
           s.u.lastAck \in Nat, last <= next, next <= s.u.tail
    PROVE  Serving(s, next, w, V, E)
<1>1. /\ \A j \in 1 .. Len(U) : U[j].kind = "ack" /\ U[j].ack \in Nat
      /\ Len(U) \in Nat /\ Len(V) = Len(U) + 1
  <2>1. \A j \in 1 .. Len(U) : U[j] \in UpPackets
    BY ElementOfSeq
  <2> QED
    BY <2>1, PacketFields, SizesAssumption DEF Pending, Added
<1>2. /\ s.chunk = w /\ s.u.lastAck <= last
      /\ \A j \in 1 .. Len(D) : D[j].chunk = w => D[j].seq <= s.u.tail
      /\ \A j \in 1 .. Len(U) : U[j].ack <= last
  BY DEF Serving, Fetching
<1>3. \A j \in 1 .. Len(V) : /\ V[j].kind = "ack" /\ V[j].ack \in Nat /\ V[j].ack <= next
                             /\ j = Len(U) + 1 => V[j].ack = next
                             /\ j # Len(U) + 1 => j \in 1 .. Len(U) /\ V[j] = U[j]
  BY <1>1, <1>2 DEF Added, Ack
<1>4. ~Pending(V)
  BY <1>3 DEF Pending
<1>5. Closing(s, w, V)
  BY <1>1, <1>3, <1>4 DEF Closing
<1>6. Fetching(s, next, w, V, E)
  <2>1. \A j \in 1 .. Len(E) : j + 1 \in 1 .. Len(D) /\ E[j] = D[j + 1]
    BY DEF Taken
  <2>2. s.u.lastAck <= next
    BY <1>2
  <2> QED
    BY <1>2, <1>3, <2>1, <2>2 DEF Fetching
<1>7. Climbing(s, V)
  <2>1. ASSUME NEW j \in 1 .. Len(V)
        PROVE  s.u.lastAck <= V[j].ack /\ \A k \in 1 .. j : V[k].ack <= V[j].ack
    <3>1. CASE j = Len(U) + 1
      BY <1>1, <1>2, <1>3, <3>1
    <3>2. CASE j # Len(U) + 1
      <4>1. j \in 1 .. Len(U) /\ V[j] = U[j] /\ \A k \in 1 .. j : V[k] = U[k]
        BY <1>1, <1>3, <3>2
      <4>2. \A g \in 1 .. j : U[g].kind = "ack"
        BY <1>1, <4>1
      <4>3. s.u.lastAck <= U[j].ack /\ \A k \in 1 .. j : U[k].ack <= U[j].ack
        BY <4>1, <4>2 DEF Serving, Climbing
      <4> QED
        BY <4>1, <4>3
    <3> QED
      BY <3>1, <3>2
  <2> QED
    BY <2>1 DEF Climbing
<1> QED
  BY <1>5, <1>6, <1>7 DEF Serving

\* An old packet is acknowledged with 0: before the first packet of the current
\* chunk no ACK says more, and behind a GET it does not matter.
LEMMA ServingIgnored ==
    ASSUME NEW s, NEW w, NEW U \in Seq(UpPackets), NEW D, NEW V, NEW E,
           Serving(s, 0, w, U, D), Taken(D, E), Added(U, V, Ack(0)),
           s.u.lastAck \in Nat, s.u.tail \in Nat
    PROVE  Serving(s, 0, w, V, E)
<1>1. CASE ~Pending(U)
  BY <1>1, ServingAcked
<1>2. CASE Pending(U)
  <2>1. PICK g \in 1 .. Len(U) : U[g].kind = "get"
    BY <1>2 DEF Pending
  <2>2. /\ Len(U) \in Nat /\ Len(V) = Len(U) + 1 /\ \A j \in 1 .. Len(U) : V[j] = U[j]
        /\ g \in 1 .. Len(V) /\ V[g].kind = "get" /\ V[1] = U[1]
    BY <2>1 DEF Added
  <2>3. Pending(V)
    BY <2>2 DEF Pending
  <2>4. Closing(s, w, V) /\ Fetching(s, 0, w, V, E)
    BY <1>2, <2>1, <2>2, <2>3 DEF Serving, Closing, Fetching
  <2>5. Climbing(s, V)
    <3>1. ASSUME NEW j \in 1 .. Len(V), \A k \in 1 .. j : V[k].kind = "ack"
          PROVE  s.u.lastAck <= V[j].ack /\ \A k \in 1 .. j : V[k].ack <= V[j].ack
      <4>1. ~(g <= j)
        BY <2>2, <3>1
      <4>2. j \in 1 .. Len(U) /\ V[j] = U[j] /\ \A k \in 1 .. j : V[k] = U[k]
        BY <2>1, <2>2, <4>1
      <4>3. \A k \in 1 .. j : U[k].kind = "ack"
        BY <3>1, <4>2
      <4>4. s.u.lastAck <= U[j].ack /\ \A k \in 1 .. j : U[k].ack <= U[j].ack
        BY <4>2, <4>3 DEF Serving, Climbing
      <4> QED
        BY <4>2, <4>4
    <3> QED
      BY <3>1 DEF Climbing
  <2> QED
    BY <2>4, <2>5 DEF Serving
<1> QED
  BY <1>1, <1>2

\* The last packet is acknowledged and the next chunk asked for.
LEMMA ServingNext ==
    ASSUME NEW s, NEW last \in Nat, NEW w \in Nat, NEW U \in Seq(UpPackets), NEW D, NEW V,
           NEW X, NEW E, NEW any,
           Serving(s, last, w, U, D), Taken(D, E), ~Pending(U),
           Added(U, X, Ack(N)), Added(X, V, Get(w + 1)), last <= N,
           s.u.lastAck \in Nat, s.u.tail \in 0 .. N, N <= s.u.tail
    PROVE  Serving(s, any, w + 1, V, E)
<1>1. Serving(s, N, w, X, E)
  BY ServingAcked, SizesAssumption
<1>2. /\ Len(X) \in Nat \ {0} /\ Len(V) = Len(X) + 1 /\ V[Len(X) + 1] = Get(w + 1)
      /\ \A j \in 1 .. Len(X) : V[j] = X[j]
  BY DEF Added
<1>3. Pending(V)
  BY <1>2 DEF Pending, Get
<1>4. X[1].kind = "ack" /\ V[1] = X[1]
  BY <1>1, <1>2 DEF Serving, Closing
<1>5. s.chunk # w + 1
  BY DEF Serving, Fetching
<1>6. Closing(s, w + 1, V) /\ Fetching(s, any, w + 1, V, E)
  <2>1. s.u.tail = N
    BY SizesAssumption
  <2> QED
    BY <1>3, <1>4, <1>5, <2>1 DEF Closing, Fetching
<1>7. Climbing(s, V)
  <2>1. ASSUME NEW j \in 1 .. Len(V), \A k \in 1 .. j : V[k].kind = "ack"
        PROVE  s.u.lastAck <= V[j].ack /\ \A k \in 1 .. j : V[k].ack <= V[j].ack
    <3>1. j # Len(X) + 1
      BY <1>2, <2>1 DEF Get
    <3>2. j \in 1 .. Len(X) /\ V[j] = X[j] /\ \A k \in 1 .. j : V[k] = X[k]
      BY <1>2, <2>1, <3>1
    <3>3. \A k \in 1 .. j : X[k].kind = "ack"
      BY <2>1, <3>2
    <3>4. s.u.lastAck <= X[j].ack /\ \A k \in 1 .. j : X[k].ack <= X[j].ack
      BY <1>1, <3>2, <3>3 DEF Serving, Climbing
    <3> QED
      BY <3>2, <3>4
  <2> QED
    BY <2>1 DEF Climbing
<1> QED
  BY <1>1, <1>6, <1>7 DEF Serving

-------------------------------------------------------------------------------
(* Steps of the system.                                                      *)

\* Downloader d has come to stream dn of chunk w, with U and D under way and b for
\* `pure'; the others' variables stay.
Moves(d, dn, w, b, U, D) ==
    /\ down'[d] = dn /\ wanted'[d] = w /\ pure'[d] = b /\ up'[d] = U /\ data'[d] = D
    /\ \A e \in Downloaders : e # d =>
         /\ down'[e] = down[e] /\ wanted'[e] = wanted[e] /\ pure'[e] = pure[e]
         /\ up'[e] = up[e] /\ data'[e] = data[e]

\* Function g is f but for its value at d.
Put(f, g, d, x) == g = [f EXCEPT ![d] = x]

\* The types of what one downloader has.
LEMMA PeerTypes ==
    ASSUME TypeInv, NEW d \in Downloaders
    PROVE  /\ down[d] \in Streams /\ Buffer(down[d]) /\ down[d].last \in 0 .. N
           /\ down[d].stream \in BOOLEAN
           /\ wanted[d] \in 1 .. Wants[d] /\ wanted[d] \in Nat \ {0} /\ Wants[d] \in Nat \ {0}
           /\ pure[d] \in BOOLEAN
           /\ up[d] \in Seq(UpPackets) /\ data[d] \in Seq(DataPackets)
<1>1. /\ down[d] \in Streams /\ Buffer(down[d])
      /\ wanted[d] \in 1 .. Wants[d]
      /\ pure[d] \in BOOLEAN
  BY DEF TypeInv, TypeOK
<1>2. up[d] \in Seq(UpPackets)
  BY DEF TypeInv, TypeOK, UpPackets
<1>3. data[d] \in Seq(DataPackets)
  BY DEF TypeInv, TypeOK, DataPackets
<1>4. down[d].last \in 0 .. N /\ down[d].stream \in BOOLEAN
  BY <1>1 DEF Streams, SeqNumbers
<1>5. Wants[d] \in Nat \ {0}
  BY SessionAssumption
<1> QED
  BY <1>1, <1>2, <1>3, <1>4, <1>5

LEMMA TableTypes ==
    ASSUME TypeInv
    PROVE  /\ Sound(slots) /\ turn \in 1 .. MaxConn /\ MaxConn \in Nat \ {0}
           /\ pc \in {"poll", "send", "clean", "exited"} /\ mishaps \in 0 .. MaxMishaps
<1>1. slots \in Tables
  BY DEF TypeInv, TypeOK, Tables, SlotEntries, Rows
<1> QED
  BY <1>1, SessionAssumption DEF TypeInv, TypeOK, Sound

\* A step of at most one downloader.
LEMMA Moved ==
    ASSUME TypeInv, NEW d \in Downloaders,
           NEW dn \in Streams, Buffer(dn), NEW w \in 1 .. Wants[d], NEW b \in BOOLEAN,
           NEW U \in Seq(UpPackets), NEW D \in Seq(DataPackets),
           Put(down, down', d, dn), Put(wanted, wanted', d, w), Put(pure, pure', d, b),
           Put(up, up', d, U), Put(data, data', d, D),
           Sound(slots'), pc' \in {"poll", "send", "clean", "exited"},
           turn' \in 1 .. MaxConn, mishaps' \in 0 .. MaxMishaps
    PROVE  TypeInv' /\ Moves(d, dn, w, b, U, D)
<1>1. /\ down \in [Downloaders -> Streams] /\ wanted \in [Downloaders -> Nat]
      /\ pure \in [Downloaders -> BOOLEAN]
      /\ up \in [Downloaders -> Seq(UpPackets)] /\ data \in [Downloaders -> Seq(DataPackets)]
  BY DEF TypeInv, TypeOK, UpPackets, DataPackets
<1>2. w \in Nat
  BY SessionAssumption
<1>3. /\ down' \in [Downloaders -> Streams] /\ wanted' \in [Downloaders -> Nat]
      /\ pure' \in [Downloaders -> BOOLEAN]
      /\ up' \in [Downloaders -> Seq(UpPackets)] /\ data' \in [Downloaders -> Seq(DataPackets)]
  BY <1>1, <1>2 DEF Put
<1>4. Moves(d, dn, w, b, U, D)
  BY <1>1 DEF Moves, Put
<1>5. \A e \in Downloaders : wanted'[e] \in 1 .. Wants[e] /\ Buffer(down'[e])
  BY <1>4 DEF Moves, TypeInv, TypeOK
<1>6. /\ \A i \in 1 .. MaxConn : Window(slots'[i].u)
      /\ slots' \in [1 .. MaxConn -> [peer : Downloaders, chunk : Nat, u : Slots,
                                      cc : [policy : Policies, cwnd : Nat,
                                            max : Windows, acks : Nat]]]
  BY DEF Sound, Tables, SlotEntries, Rows
<1>7. TypeOK'
  BY <1>3, <1>5, <1>6 DEF TypeOK, UpPackets, DataPackets
<1> QED
  BY <1>4, <1>5, <1>6, <1>7 DEF TypeInv

\* Variables of a downloader that stay are changed to what they are.
LEMMA Unchanged ==
    ASSUME TypeInv, NEW d \in Downloaders
    PROVE  /\ UNCHANGED down => Put(down, down', d, down[d])
           /\ UNCHANGED wanted => Put(wanted, wanted', d, wanted[d])
           /\ UNCHANGED pure => Put(pure, pure', d, pure[d])
           /\ UNCHANGED up => Put(up, up', d, up[d])
           /\ UNCHANGED data => Put(data, data', d, data[d])
<1>1. /\ down \in [Downloaders -> Streams] /\ wanted \in [Downloaders -> Nat]
      /\ pure \in [Downloaders -> BOOLEAN]
      /\ up \in [Downloaders -> Seq(UpPackets)] /\ data \in [Downloaders -> Seq(DataPackets)]
  BY DEF TypeInv, TypeOK, UpPackets, DataPackets
<1> QED
  BY <1>1 DEF Put

\* The steps of the uploader and of the network, which leave streams alone.
LEMMA UplinkMoved ==
    ASSUME TypeInv, NEW d \in Downloaders,
           NEW U \in Seq(UpPackets), NEW D \in Seq(DataPackets),
           UNCHANGED <<down, wanted, pure>>, Put(up, up', d, U), Put(data, data', d, D),
           Sound(slots'), pc' \in {"poll", "send", "clean", "exited"},
           turn' \in 1 .. MaxConn, mishaps' \in 0 .. MaxMishaps
    PROVE  TypeInv' /\ Moves(d, down[d], wanted[d], pure[d], U, D)
<1>1. /\ Put(down, down', d, down[d]) /\ Put(wanted, wanted', d, wanted[d])
      /\ Put(pure, pure', d, pure[d])
  BY Unchanged
<1>2. /\ down[d] \in Streams /\ Buffer(down[d]) /\ wanted[d] \in 1 .. Wants[d]
      /\ pure[d] \in BOOLEAN
  BY PeerTypes
<1> QED
  BY <1>1, <1>2, Moved

\* The steps of the loop that neither send nor receive.
LEMMA TypeLoop ==
    ASSUME TypeInv, UNCHANGED <<slots, down, wanted, pure, up, data, mishaps>>,
           pc' \in {"poll", "send", "clean", "exited"}, turn' \in 1 .. MaxConn
    PROVE  TypeInv'
BY DEF TypeInv, TypeOK

\* send_data_packets goes on, or comes to its end.
LEMMA NextTurnTypes ==
    ASSUME TypeInv, NextTurn
    PROVE  /\ turn' \in 1 .. MaxConn /\ pc' \in {"send", "clean"}
           /\ pc' = "send" => turn' = turn + 1
           /\ pc' = "clean" => turn' = 1 /\ turn = MaxConn
BY TableTypes DEF NextTurn

\* A packet taken off a channel or put on it.
LEMMA TakenPacket ==
    ASSUME NEW S, NEW A \in Seq(S), A # << >>
    PROVE  Taken(A, Tail(A)) /\ Tail(A) \in Seq(S) /\ Head(A) = A[1] /\ Head(A) \in S
<1>1. /\ Head(A) \in S /\ Head(A) = A[1] /\ Tail(A) \in Seq(S) /\ Len(A) \in Nat \ {0}
      /\ Len(Tail(A)) = Len(A) - 1
      /\ \A i \in 1 .. Len(Tail(A)) : i + 1 \in 1 .. Len(A) /\ Tail(A)[i] = A[i + 1]
  BY ReceivedChannel
<1> QED
  BY <1>1 DEF Taken

LEMMA AddedPacket ==
    ASSUME NEW S, NEW A \in Seq(S), NEW p \in S
    PROVE  Added(A, Append(A, p), p) /\ Append(A, p) \in Seq(S)
<1>1. /\ Append(A, p) \in Seq(S) /\ Len(A) \in Nat /\ Len(Append(A, p)) = Len(A) + 1
      /\ Append(A, p)[Len(A) + 1] = p /\ \A i \in 1 .. Len(A) : Append(A, p)[i] = A[i]
  BY AppendProperties, LenProperties
<1> QED
  BY <1>1 DEF Added

\* A packet is lost.
LEMMA TypeLoseUp ==
    ASSUME TypeInv, NEW d \in Downloaders, LoseUp(d)
    PROVE  /\ TypeInv' /\ Moves(d, down[d], wanted[d], pure[d], Tail(up[d]), data[d])
           /\ Taken(up[d], Tail(up[d])) /\ Head(up[d]) = up[d][1] /\ Head(up[d]) \in UpPackets
<1>1. /\ up[d] # << >> /\ Put(up, up', d, Tail(up[d])) /\ mishaps' \in 0 .. MaxMishaps
      /\ UNCHANGED <<slots, pc, turn, down, wanted, pure, data>>
  BY TableTypes, SessionAssumption DEF LoseUp, Mishap, Put
<1>2. /\ Taken(up[d], Tail(up[d])) /\ Tail(up[d]) \in Seq(UpPackets)
      /\ Head(up[d]) = up[d][1] /\ Head(up[d]) \in UpPackets
  BY <1>1, PeerTypes, TakenPacket
<1>3. Put(data, data', d, data[d])
  BY <1>1, Unchanged
<1> QED
  BY <1>1, <1>2, <1>3, PeerTypes, TableTypes, UplinkMoved

LEMMA TypeLoseData ==
    ASSUME TypeInv, NEW d \in Downloaders, LoseData(d) \/ IgnoreData(d)
    PROVE  /\ TypeInv' /\ Moves(d, down[d], wanted[d], pure[d], up[d], Tail(data[d]))
           /\ Taken(data[d], Tail(data[d])) /\ UNCHANGED <<slots, pc, turn>>
<1>1. /\ data[d] # << >> /\ Put(data, data', d, Tail(data[d])) /\ mishaps' \in 0 .. MaxMishaps
      /\ UNCHANGED <<slots, pc, turn, down, wanted, pure, up>>
  BY TableTypes, SessionAssumption DEF LoseData, IgnoreData, Mishap, Put
<1>2. Taken(data[d], Tail(data[d])) /\ Tail(data[d]) \in Seq(DataPackets)
  BY <1>1, PeerTypes, TakenPacket
<1>3. Put(up, up', d, up[d])
  BY <1>1, Unchanged
<1> QED
  BY <1>1, <1>2, <1>3, PeerTypes, TableTypes, UplinkMoved

\* The GET handler.
LEMMA TypeReceiveGet ==
    ASSUME TypeInv, NEW d \in Downloaders, ReceiveGet(d)
    PROVE  /\ TypeInv' /\ Moves(d, down[d], wanted[d], pure[d], Tail(up[d]), data[d])
           /\ Taken(up[d], Tail(up[d])) /\ FirstGet(up[d], Head(up[d]).chunk)
           /\ Head(up[d]).chunk \in Nat
<1>1. /\ up[d] # << >> /\ Put(up, up', d, Tail(up[d])) /\ Head(up[d]).kind = "get"
      /\ slots' = StartSlot(slots, d, Head(up[d]).chunk) /\ pc' = "send"
      /\ UNCHANGED <<turn, down, wanted, pure, data, mishaps>>
  BY DEF ReceiveGet, Put
<1>2. /\ Taken(up[d], Tail(up[d])) /\ Tail(up[d]) \in Seq(UpPackets)
      /\ Head(up[d]) = up[d][1] /\ Head(up[d]) \in UpPackets
  BY <1>1, PeerTypes, TakenPacket
<1>3. Head(up[d]).chunk \in Nat
  BY <1>1, <1>2, PacketFields
<1>4. Sound(slots')
  BY <1>1, <1>3, TableTypes, StartedSlot
<1>5. Put(data, data', d, data[d])
  BY <1>1, Unchanged
<1>6. FirstGet(up[d], Head(up[d]).chunk)
  BY <1>1, <1>2 DEF FirstGet
<1> QED
  BY <1>1, <1>2, <1>3, <1>4, <1>5, <1>6, PeerTypes, TableTypes, UplinkMoved

\* The ACK handler.
LEMMA TypeReceiveAckOf ==
    ASSUME TypeInv, NEW d \in Downloaders, ReceiveAckOf(d)
    PROVE  /\ TypeInv' /\ Moves(d, down[d], wanted[d], pure[d], Tail(up[d]), data[d])
           /\ Taken(up[d], Tail(up[d])) /\ FirstAck(up[d], Head(up[d]).ack)
           /\ Head(up[d]).ack \in SeqNumbers
<1> DEFINE ack == Head(up[d]).ack
<1>1. /\ up[d] # << >> /\ Put(up, up', d, Tail(up[d])) /\ Head(up[d]).kind = "ack"
      /\ IF Fatal(slots, d, ack) THEN pc' = "exited" /\ UNCHANGED slots
         ELSE pc' = "send" /\ slots' = AckSlot(slots, d, ack)
      /\ UNCHANGED <<turn, down, wanted, pure, data, mishaps>>
  BY DEF ReceiveAckOf, Put
<1>2. /\ Taken(up[d], Tail(up[d])) /\ Tail(up[d]) \in Seq(UpPackets)
      /\ Head(up[d]) = up[d][1] /\ Head(up[d]) \in UpPackets
  BY <1>1, PeerTypes, TakenPacket
<1>3. ack \in SeqNumbers
  BY <1>1, <1>2, PacketFields
<1>4. Sound(slots')
  <2>1. Of(slots, d) = {} => AckSlot(slots, d, ack) = slots
    BY DEF AckSlot
  <2>2. Of(slots, d) # {} => Sound(AckSlot(slots, d, ack))
    BY <1>3, TableTypes, AckedSlot
  <2> QED
    BY <1>1, <2>1, <2>2, TableTypes
<1>5. Put(data, data', d, data[d])
  BY <1>1, Unchanged
<1>6. FirstAck(up[d], ack)
  BY <1>1, <1>2 DEF FirstAck
<1> QED
  BY <1>1, <1>2, <1>3, <1>4, <1>5, <1>6, PeerTypes, TableTypes, UplinkMoved

\* The slot whose turn it is makes its peer one that has a first slot.
LEMMA TurnSlot ==
    ASSUME TypeInv, NEW d \in Downloaders, slots[turn].u.active, slots[turn].peer = d
    PROVE  /\ turn \in Of(slots, d) /\ Of(slots, d) # {} /\ IndexOf(d) \in 1 .. MaxConn
           /\ slots[IndexOf(d)].u.active /\ slots[IndexOf(d)].peer = d
           /\ slots[IndexOf(d)].u \in Slots /\ slots[IndexOf(d)].cc \in Rows
           /\ Window(slots[IndexOf(d)].u) /\ slots[turn].chunk \in Nat
<1>1. slots \in Tables /\ turn \in 1 .. MaxConn
  BY TableTypes DEF Sound
<1>2. turn \in Of(slots, d)
  BY <1>1 DEF Of, Tables
<1>3. /\ IndexOf(d) \in 1 .. MaxConn
      /\ slots[IndexOf(d)].u.active /\ slots[IndexOf(d)].peer = d
  BY <1>1, <1>2, FoundSlot DEF IndexOf
<1>4. /\ slots[IndexOf(d)].u \in Slots /\ slots[IndexOf(d)].cc \in Rows
      /\ slots[turn].chunk \in Nat
  BY <1>1, <1>3, EntryFields
<1>5. Window(slots[IndexOf(d)].u)
  BY <1>3 DEF TypeInv
<1> QED
  BY <1>2, <1>3, <1>4, <1>5

\* The time that passes for some of the slots leaves all else as it is.
LEMMA AgedSound ==
    ASSUME NEW s, Sound(s), NEW S
    PROVE  Sound(Aged(s, S)) /\ \A i \in (1 .. MaxConn) \ S : Aged(s, S)[i] = s[i]
<1> DEFINE r == Aged(s, S)
<1>1. s \in Tables /\ DOMAIN s = 1 .. MaxConn
  BY DEF Sound, Tables
<1>2. /\ DOMAIN r = 1 .. MaxConn /\ r = [i \in 1 .. MaxConn |-> r[i]]
      /\ \A i \in 1 .. MaxConn :
           r[i] = IF i \in S /\ s[i].u.quiet < ABORT_COEFF
                  THEN [s[i] EXCEPT !.u.quiet = s[i].u.quiet + 1] ELSE s[i]
  BY <1>1 DEF Aged
<1> HIDE DEF r
<1>3. ASSUME NEW i \in 1 .. MaxConn
      PROVE  r[i] \in SlotEntries /\ Window(r[i].u)
  <2>1. s[i] \in SlotEntries /\ s[i].u \in Slots /\ Window(s[i].u)
    BY <1>1, EntryFields DEF Sound
  <2>2. CASE i \in S /\ s[i].u.quiet < ABORT_COEFF
    <3> DEFINE v == [s[i].u EXCEPT !.quiet = s[i].u.quiet + 1]
    <3>1. s[i].u.quiet + 1 \in QuietRTOs
      <4>1. s[i].u.quiet \in 0 .. 4
        BY <2>1, SlotTypes
      <4> QED
        BY <2>2, <4>1 DEF QuietRTOs, ABORT_COEFF
    <3>2. v \in Slots
      BY <2>1, <3>1 DEF Slots
    <3>3. /\ v.active = s[i].u.active /\ v.queue = s[i].u.queue
          /\ v.tail = s[i].u.tail /\ v.size = s[i].u.size /\ v.due = s[i].u.due
      BY <2>1 DEF Slots
    <3>4. r[i] = [s[i] EXCEPT !.u = v]
      BY <1>2, <2>1, <2>2 DEF SlotEntries
    <3> HIDE DEF v
    <3>5. Window(v)
      BY <2>1, <3>3 DEF Window, Acked
    <3>6. r[i] \in SlotEntries /\ r[i].u = v
      BY <2>1, <3>2, <3>4 DEF SlotEntries
    <3> QED
      BY <3>5, <3>6
  <2>3. CASE ~(i \in S /\ s[i].u.quiet < ABORT_COEFF)
    BY <1>2, <2>1, <2>3
  <2> QED
    BY <2>2, <2>3
<1>4. Sound(r)
  BY <1>2, <1>3 DEF Sound, Tables
<1>5. \A i \in (1 .. MaxConn) \ S : r[i] = s[i]
  BY <1>2
<1> QED
  BY <1>4, <1>5 DEF r

\* A retransmission: the head of the first slot's queue, with the bytes of the
\* slot whose turn it is.
LEMMA TypeRetransmit ==
    ASSUME TypeInv, NEW d \in Downloaders, Retransmit(d) \/ EarlyRetransmit(d)
    PROVE  LET i == IndexOf(d)
               p == Data(Head(slots[i].u.queue), slots[turn].chunk)
           IN  /\ TypeInv' /\ Moves(d, down[d], wanted[d], pure[d], up[d], Append(data[d], p))
               /\ slots[i].u.queue # << >> /\ Added(data[d], Append(data[d], p), p)
               /\ Head(slots[i].u.queue) \in 1 .. N
               /\ slots'[i].peer = d /\ slots'[i].chunk = slots[i].chunk
               /\ slots'[i].u = Restamp(slots[i].u) /\ slots'[i].cc = WindowTimeout(slots[i].cc)
               /\ Of(slots, d) = {i} => OneChanged(slots, slots', i)
<1> DEFINE i == IndexOf(d)
           h == Head(slots[i].u.queue)
           p == Data(h, slots[turn].chunk)
           g == IF slots[i].u.due THEN slots ELSE Aged(slots, Others(slots, d))
           e == [g[i] EXCEPT !.u = Restamp(g[i].u), !.cc = WindowTimeout(g[i].cc)]
<1>1. /\ slots[turn].u.active /\ slots[turn].peer = d /\ slots[i].u.queue # << >>
      /\ Put(data, data', d, Append(data[d], p))
      /\ slots' = [g EXCEPT ![i].u = Restamp(@), ![i].cc = WindowTimeout(@)]
      /\ NextTurn /\ UNCHANGED <<down, wanted, pure, up>> /\ mishaps' \in 0 .. MaxMishaps
  <2>1. Resend(d)
    BY DEF Retransmit, EarlyRetransmit
  <2>2. Put(data, data', d, Append(data[d], p))
    <3>1. data \in [Downloaders -> Seq(DataPackets)]
      BY DEF TypeInv, TypeOK, DataPackets
    <3> QED
      BY <2>1, <3>1 DEF Resend, Put, Content
  <2>3. mishaps' \in 0 .. MaxMishaps
    BY TableTypes, SessionAssumption DEF Retransmit, EarlyRetransmit, Mishap
  <2> QED
    BY <2>1, <2>2, <2>3 DEF Resend
<1>2. /\ Of(slots, d) # {} /\ i \in 1 .. MaxConn /\ slots[i].peer = d
      /\ slots[i].u \in Slots /\ slots[i].cc \in Rows /\ Window(slots[i].u)
      /\ slots[turn].chunk \in Nat
  BY <1>1, TurnSlot
<1>3. /\ Sound(g) /\ g[i] = slots[i]
      /\ Of(slots, d) = {i} => \A j \in 1 .. MaxConn : g[j] = slots[j]
  <2>1. i \notin Others(slots, d) /\ (Of(slots, d) = {i} => Others(slots, d) = {})
    BY DEF Others, IndexOf
  <2> QED
    BY <1>2, <2>1, AgedSound, TableTypes
<1>4. h \in 1 .. N
  <2>1. slots[i].u.queue \in Seq(Packets)
    BY <1>2, SlotTypes DEF PacketQueues
  <2> QED
    BY <1>1, <2>1, ReceivedChannel DEF Packets
<1>5. p \in DataPackets
  BY <1>2, <1>4, PacketFields
<1> HIDE DEF h, i, g
<1>6. /\ e \in SlotEntries /\ e.u = Restamp(slots[i].u) /\ Window(e.u)
      /\ e.cc = WindowTimeout(slots[i].cc) /\ e.peer = d /\ e.chunk = slots[i].chunk
  <2>1. Restamp(slots[i].u) \in Slots /\ Window(Restamp(slots[i].u))
    BY <1>2, RestampWindow
  <2>2. WindowTimeout(slots[i].cc) \in Rows
    BY <1>2, RowTypes
  <2>3. slots[i] \in SlotEntries
    BY <1>2, TableTypes, EntryFields DEF Sound
  <2>4. e = [slots[i] EXCEPT !.u = Restamp(slots[i].u), !.cc = WindowTimeout(slots[i].cc)]
    BY <1>3
  <2> HIDE DEF e
  <2> QED
    BY <1>2, <2>1, <2>2, <2>3, <2>4 DEF SlotEntries
<1>7. slots' = [g EXCEPT ![i] = e]
  BY <1>1, <1>2, <1>3 DEF Sound, Tables
<1> HIDE DEF e
<1>8. Sound(slots') /\ slots'[i] = e /\ OneChanged(g, slots', i)
  <2>1. Sound(g) /\ i \in 1 .. MaxConn /\ e \in SlotEntries /\ Window(e.u)
    BY <1>2, <1>3, <1>6
  <2>2. LET x == [g EXCEPT ![i] = e] IN Sound(x) /\ x[i] = e /\ OneChanged(g, x, i)
    BY ONLY <2>1, ChangedSound, Zenon
  <2> QED
    BY <1>7, <2>2, Zenon
<1>9. Of(slots, d) = {i} => OneChanged(slots, slots', i)
  BY <1>3, <1>8 DEF OneChanged
<1>10. Append(data[d], p) \in Seq(DataPackets) /\ Added(data[d], Append(data[d], p), p)
  BY <1>5, PeerTypes, AddedPacket
<1> HIDE DEF p
<1>11. turn' \in 1 .. MaxConn /\ pc' \in {"poll", "send", "clean", "exited"}
  BY <1>1, NextTurnTypes
<1>12. TypeInv' /\ Moves(d, down[d], wanted[d], pure[d], up[d], Append(data[d], p))
  <2>1. Put(up, up', d, up[d]) /\ mishaps' \in 0 .. MaxMishaps
    BY <1>1, Unchanged, TableTypes
  <2> QED
    BY <1>1, <1>8, <1>10, <1>11, <2>1, PeerTypes, UplinkMoved
<1> QED
  BY <1>1, <1>4, <1>6, <1>8, <1>9, <1>10, <1>12 DEF i, h, p

\* A new packet joins the first slot's queue.
LEMMA TypeSendNew ==
    ASSUME TypeInv, NEW d \in Downloaders, SendNew(d)
    PROVE  LET i == IndexOf(d)
               p == Data(slots[i].u.tail + 1, slots[turn].chunk)
           IN  /\ TypeInv' /\ Moves(d, down[d], wanted[d], pure[d], up[d], Append(data[d], p))
               /\ Added(data[d], Append(data[d], p), p)
               /\ slots[i].u.tail + 1 \in 1 .. N
               /\ slots'[i].peer = d /\ slots'[i].chunk = slots[i].chunk
               /\ slots'[i].u = WaitAck(slots[i].u, slots[i].u.tail + 1)
               /\ slots'[i].cc = slots[i].cc
               /\ OneChanged(slots, slots', i)
<1> DEFINE i == IndexOf(d)
           seq == slots[i].u.tail + 1
           p == Data(seq, slots[turn].chunk)
           e == [slots[i] EXCEPT !.u = WaitAck(slots[i].u, seq)]
<1>1. /\ slots[turn].u.active /\ slots[turn].peer = d
      /\ Put(data, data', d, Append(data[d], p)) /\ slots[i].u.tail < N
      /\ slots' = [slots EXCEPT ![i].u = WaitAck(@, seq)]
      /\ NextTurn /\ UNCHANGED <<down, wanted, pure, up, mishaps>>
  <2>1. Put(data, data', d, Append(data[d], p))
    <3>1. data \in [Downloaders -> Seq(DataPackets)]
      BY DEF TypeInv, TypeOK, DataPackets
    <3> QED
      BY <3>1 DEF SendNew, Put, Content
  <2> QED
    BY <2>1 DEF SendNew, RoomToSend
<1>2. /\ i \in 1 .. MaxConn /\ slots[i].peer = d /\ slots[i].u.active
      /\ slots[i].u \in Slots /\ slots[i].cc \in Rows /\ Window(slots[i].u)
      /\ slots[turn].chunk \in Nat
  BY <1>1, TurnSlot
<1> HIDE DEF i
<1>3. seq \in 1 .. N
  BY <1>1, <1>2, SlotTypes, SizesAssumption
<1>4. p \in DataPackets
  BY <1>2, <1>3, PacketFields
<1>5. WaitAck(slots[i].u, seq) \in Slots /\ Window(WaitAck(slots[i].u, seq))
  BY <1>1, <1>2, WaitAckWindow
<1> HIDE DEF seq
<1>6. /\ e \in SlotEntries /\ e.u = WaitAck(slots[i].u, seq) /\ Window(e.u)
      /\ e.cc = slots[i].cc /\ e.peer = d /\ e.chunk = slots[i].chunk
  <2>1. slots[i] \in SlotEntries
    BY <1>2, TableTypes, EntryFields DEF Sound
  <2> QED
    BY <1>2, <1>5, <2>1 DEF SlotEntries
<1>7. slots' = [slots EXCEPT ![i] = e]
  BY <1>1, <1>2, TableTypes DEF Sound, Tables
<1> HIDE DEF e
<1>8. Sound(slots') /\ slots'[i] = e /\ OneChanged(slots, slots', i)
  <2>1. Sound(slots) /\ i \in 1 .. MaxConn /\ e \in SlotEntries /\ Window(e.u)
    BY <1>2, <1>6, TableTypes
  <2>2. LET x == [slots EXCEPT ![i] = e] IN Sound(x) /\ x[i] = e /\ OneChanged(slots, x, i)
    BY <2>1, ChangedSound, Zenon
  <2> QED
    BY <1>7, <2>2, Zenon
<1>9. Append(data[d], p) \in Seq(DataPackets) /\ Added(data[d], Append(data[d], p), p)
  BY <1>4, PeerTypes, AddedPacket
<1> HIDE DEF p
<1>10. turn' \in 1 .. MaxConn /\ pc' \in {"poll", "send", "clean", "exited"}
  BY <1>1, NextTurnTypes
<1>11. TypeInv' /\ Moves(d, down[d], wanted[d], pure[d], up[d], Append(data[d], p))
  <2>1. Put(up, up', d, up[d]) /\ mishaps' \in 0 .. MaxMishaps
    BY <1>1, Unchanged, TableTypes
  <2> QED
    BY <1>1, <1>8, <1>9, <1>10, <2>1, PeerTypes, UplinkMoved
<1> QED
  BY <1>3, <1>6, <1>8, <1>9, <1>11 DEF i, seq, p

\* clean_upload_timeout.
LEMMA TypeUploadTimeout ==
    ASSUME TypeInv, NEW i \in 1 .. MaxConn, UploadTimeout(i)
    PROVE  LET d == slots[i].peer
               m == Lowest(Of(slots, d))
           IN  /\ TypeInv' /\ d \in Downloaders
               /\ Moves(d, down[d], wanted[d], pure[d], up[d], data[d])
               /\ m \in 1 .. MaxConn /\ slots[m].u.active /\ slots[m].peer = d
               /\ ~slots'[m].u.active /\ OneChanged(slots, slots', m)
               /\ slots'[m].peer = d /\ slots'[m].chunk = slots[m].chunk
               /\ slots'[m].u.lastAck = slots[m].u.lastAck
<1> DEFINE d == slots[i].peer
           m == Lowest(Of(slots, d))
<1>1. /\ slots[i].u.active /\ slots' = AbortSlot(slots, d) /\ pc' = "poll"
      /\ UNCHANGED <<turn, down, wanted, pure, up, data, mishaps>>
  BY DEF UploadTimeout, Dead
<1>2. slots \in Tables /\ d \in Downloaders
  BY TableTypes, EntryFields DEF Sound
<1>3. Of(slots, d) # {}
  BY <1>1, <1>2 DEF Of, Tables
<1> HIDE DEF d
<1>4. /\ Sound(slots') /\ m \in 1 .. MaxConn
      /\ ~slots'[m].u.active /\ OneChanged(slots, slots', m)
      /\ slots'[m].peer = d /\ slots'[m].chunk = slots[m].chunk
      /\ slots'[m].u.lastAck = slots[m].u.lastAck
  BY <1>1, <1>3, AbortedSlot, TableTypes
<1>5. slots[m].u.active /\ slots[m].peer = d
  BY <1>2, <1>3, FoundSlot
<1> HIDE DEF m
<1>6. TypeInv' /\ Moves(d, down[d], wanted[d], pure[d], up[d], data[d])
  <2>1. Put(up, up', d, up[d]) /\ Put(data, data', d, data[d])
    BY <1>1, <1>2, Unchanged
  <2> QED
    BY <1>1, <1>2, <1>4, <2>1, PeerTypes, TableTypes, UplinkMoved
<1> QED
  BY <1>2, <1>4, <1>5, <1>6 DEF d, m

\* Downloader d handles the next DATA packet: the stream and the chunk it comes
\* to, whether it asks for a chunk, and the ACK.
Result(d)    == Received(d, Head(data[d]))
NextChunk(d) == IF Result(d).chunk = "OWNED" THEN wanted[d] + 1 ELSE wanted[d]
GoesOn(d)    == ~Result(d).stream /\ Fetches(d, NextChunk(d))
Acking(d)    == Ack(TrackDataPacket(down[d], Head(data[d]).seq).last)
Acks(d)      == Append(up[d], Acking(d))
Saves(d)     == Result(d).saved # down[d].saved

\* What the DATA handler does with a packet of the chunk being fetched, and with
\* one that neither repeats the last packet nor follows it.
LEMMA ResultFacts ==
    ASSUME TypeInv, NEW d \in Downloaders, data[d] # << >>, down[d].stream
    PROVE  LET p == Head(data[d])
               n == Result(d)
               a == TrackDataPacket(down[d], p.seq).last
           IN  /\ p \in DataPackets /\ p.seq \in 1 .. N /\ p = data[d][1]
               /\ n \in Streams /\ Buffer(n) /\ a \in 0 .. N
               /\ a = (IF p.seq = down[d].last + 1 THEN p.seq ELSE down[d].last)
               /\ n.last = a
               /\ pure[d] /\ p.chunk = wanted[d] => n = DataStream(down[d], p.seq)
               /\ pure[d] /\ p.chunk = wanted[d] /\ ~n.stream =>
                    n.chunk = "OWNED" /\ p.seq = N /\ a = N /\ down[d].last = N - 1
               /\ p.seq # down[d].last + 1 /\ p.seq # down[d].last => n = down[d]
<1> DEFINE p == Head(data[d])
           n == Result(d)
           x == DataStream(down[d], p.seq)
           a == TrackDataPacket(down[d], p.seq).last
<1>1. p \in DataPackets /\ p.seq \in 1 .. N /\ p.seq \in Packets /\ p = data[d][1]
  <2>1. p \in DataPackets /\ p = data[d][1]
    BY PeerTypes, TakenPacket
  <2> QED
    BY <2>1, PacketFields
<1> HIDE DEF p
<1>2. /\ down[d] \in Streams /\ Buffer(down[d]) /\ down[d].last \in 0 .. N
      /\ down[d].chunk = "RECEIVING"
  BY PeerTypes DEF Buffer
<1>3. /\ x \in Streams /\ Buffer(x) /\ x.last = a
      /\ a = (IF p.seq = down[d].last + 1 THEN p.seq ELSE down[d].last)
      /\ ~x.stream => x.chunk = "OWNED" /\ p.seq = N /\ p.seq = down[d].last + 1
  BY <1>1, <1>2, DataStreamBuffer
<1>4. p.seq # down[d].last + 1 /\ p.seq # down[d].last => x = down[d]
  BY DEF DataStream, TrackDataPacket
<1>5. n = IF x.chunk = "OWNED" /\ ~(pure[d] /\ p.chunk = wanted[d])
          THEN [x EXCEPT !.chunk = "NOT_STARTED"] ELSE x
  BY DEF Result, Received, p
<1> HIDE DEF x, n, a
<1>6. /\ n \in Streams /\ Buffer(n) /\ n.last = a
  <2>1. CASE x.chunk = "OWNED" /\ ~(pure[d] /\ p.chunk = wanted[d])
    <3>1. n = [x EXCEPT !.chunk = "NOT_STARTED"] /\ ~x.stream
      BY <1>3, <1>5, <2>1 DEF Buffer
    <3>2. n \in Streams /\ n.last = x.last /\ n.stream = x.stream
      BY <1>3, <3>1, StreamFields DEF Streams
    <3> QED
      BY <1>3, <3>1, <3>2 DEF Buffer
  <2>2. CASE ~(x.chunk = "OWNED" /\ ~(pure[d] /\ p.chunk = wanted[d]))
    BY <1>3, <1>5, <2>2
  <2> QED
    BY <2>1, <2>2
<1>7. pure[d] /\ p.chunk = wanted[d] => n = x
  BY <1>5
<1>8. p.seq # down[d].last + 1 /\ p.seq # down[d].last => n = down[d]
  BY <1>2, <1>4, <1>5
<1>9. a \in 0 .. N
  BY <1>1, <1>2, <1>3, SizesAssumption
<1>10. pure[d] /\ p.chunk = wanted[d] /\ ~n.stream =>
         n.chunk = "OWNED" /\ p.seq = N /\ a = N /\ down[d].last = N - 1
  BY <1>2, <1>3, <1>7, SizesAssumption
<1> QED
  BY <1>1, <1>3, <1>6, <1>7, <1>8, <1>9, <1>10 DEF p, n, x, a

\* The DATA handler.
LEMMA TypeReceiveData ==
    ASSUME TypeInv, NEW d \in Downloaders, ReceiveData(d)
    PROVE  /\ TypeInv' /\ UNCHANGED <<slots, pc, turn>>
           /\ data[d] # << >> /\ down[d].stream
           /\ Taken(data[d], Tail(data[d])) /\ Added(up[d], Acks(d), Acking(d))
           /\ ~GoesOn(d) =>
                Moves(d, Result(d), wanted[d], pure[d] /\ (Saves(d) => Head(data[d]).chunk = wanted[d]),
                      Acks(d), Tail(data[d]))
           /\ GoesOn(d) =>
                \E V \in Seq(UpPackets) :
                  /\ Added(Acks(d), V, Get(NextChunk(d)))
                  /\ Moves(d, StartDownload, NextChunk(d), TRUE, V, Tail(data[d]))
<1> DEFINE c == NextChunk(d)
           V == Acks(d) \o <<Get(c)>>
           b == pure[d] /\ (Saves(d) => Head(data[d]).chunk = wanted[d])
<1>1. /\ data[d] # << >> /\ down[d].stream
      /\ data' = [data EXCEPT ![d] = Tail(@)]
      /\ down' = [down EXCEPT ![d] = IF GoesOn(d) THEN StartDownload ELSE Result(d)]
      /\ wanted' = [wanted EXCEPT ![d] = IF GoesOn(d) THEN c ELSE @]
      /\ pure' = [pure EXCEPT ![d] = GoesOn(d) \/ (@ /\ (Saves(d) => Head(data[d]).chunk = wanted[d]))]
      /\ up' = [up EXCEPT ![d] = Append(@, Acking(d)) \o IF GoesOn(d) THEN <<Get(c)>> ELSE << >>]
      /\ UNCHANGED <<slots, pc, turn, mishaps>>
  BY DEF ReceiveData, Result, NextChunk, GoesOn, Acking, Saves
<1>2. Taken(data[d], Tail(data[d])) /\ Tail(data[d]) \in Seq(DataPackets)
  BY <1>1, PeerTypes, TakenPacket
<1>3. Acking(d) \in UpPackets
  <2>1. TrackDataPacket(down[d], Head(data[d]).seq).last \in 0 .. N
    BY <1>1, ResultFacts
  <2> QED
    BY <2>1, PacketFields DEF Acking
<1>4. Added(up[d], Acks(d), Acking(d)) /\ Acks(d) \in Seq(UpPackets)
  BY <1>3, PeerTypes, AddedPacket DEF Acks
<1>5. Result(d) \in Streams /\ Buffer(Result(d))
  BY <1>1, ResultFacts
<1>6. /\ down \in [Downloaders -> Streams] /\ wanted \in [Downloaders -> Nat]
      /\ pure \in [Downloaders -> BOOLEAN]
      /\ up \in [Downloaders -> Seq(UpPackets)] /\ data \in [Downloaders -> Seq(DataPackets)]
  BY DEF TypeInv, TypeOK, UpPackets, DataPackets
<1>7. Sound(slots') /\ pc' \in {"poll", "send", "clean", "exited"} /\ turn' \in 1 .. MaxConn
      /\ mishaps' \in 0 .. MaxMishaps /\ Put(data, data', d, Tail(data[d]))
  BY <1>1, <1>6, TableTypes DEF Put
<1>8. CASE ~GoesOn(d)
  <2>1. Acks(d) \o << >> = Acks(d)
    BY <1>4, ConcatEmptySeq
  <2>2. b \in BOOLEAN
    OBVIOUS
  <2>3. /\ Put(down, down', d, Result(d)) /\ Put(wanted, wanted', d, wanted[d])
        /\ Put(pure, pure', d, b) /\ Put(up, up', d, Acks(d))
    BY <1>1, <1>6, <1>8, <2>1 DEF Put, Acks
  <2> HIDE DEF b
  <2>4. TypeInv' /\ Moves(d, Result(d), wanted[d], b, Acks(d), Tail(data[d]))
    BY <1>2, <1>4, <1>5, <1>7, <2>2, <2>3, PeerTypes, Moved
  <2> QED
    BY <1>1, <1>2, <1>4, <1>8, <2>4 DEF b
<1>9. CASE GoesOn(d)
  <2>1. c \in 1 .. Wants[d] /\ c \in Nat
    BY <1>9, PeerTypes DEF GoesOn, Fetches, NextChunk
  <2>2. Get(c) \in UpPackets
    BY <2>1, PacketFields
  <2>3. Added(Acks(d), V, Get(c)) /\ V \in Seq(UpPackets)
    <3>1. V = Append(Acks(d), Get(c))
      BY <1>4, <2>2, AppendIsConcat
    <3> QED
      BY <1>4, <2>2, <3>1, AddedPacket
  <2>4. /\ Put(down, down', d, StartDownload) /\ Put(wanted, wanted', d, c)
        /\ Put(pure, pure', d, TRUE) /\ Put(up, up', d, V)
    BY <1>1, <1>6, <1>9 DEF Put, Acks
  <2> HIDE DEF V, c
  <2>5. TypeInv' /\ Moves(d, StartDownload, c, TRUE, V, Tail(data[d]))
    BY <1>2, <1>7, <2>1, <2>3, <2>4, StartDownloadBuffer, Moved
  <2> QED
    BY <1>1, <1>2, <1>4, <1>9, <2>3, <2>5 DEF c
<1> QED
  BY <1>8, <1>9

\* clean_download_timeout.
LEMMA TypeDownloadTimeout ==
    ASSUME TypeInv, NEW d \in Downloaders, DownloadTimeout(d)
    PROVE  /\ TypeInv' /\ UNCHANGED <<slots, pc, turn>>
           /\ Moves(d, CrashDownload(down[d]), wanted[d], pure[d], up[d], data[d])
           /\ CrashDownload(down[d]).last = down[d].last
<1>1. /\ Put(down, down', d, CrashDownload(down[d]))
      /\ UNCHANGED <<slots, pc, turn, wanted, pure, up, data, mishaps>>
  <2>1. down \in [Downloaders -> Streams]
    BY DEF TypeInv, TypeOK
  <2> QED
    BY <2>1 DEF DownloadTimeout, Put
<1>2. /\ CrashDownload(down[d]) \in Streams /\ Buffer(CrashDownload(down[d]))
      /\ CrashDownload(down[d]).last = down[d].last
  BY PeerTypes, CrashDownloadBuffer
<1>3. /\ Put(wanted, wanted', d, wanted[d]) /\ Put(pure, pure', d, pure[d])
      /\ Put(up, up', d, up[d]) /\ Put(data, data', d, data[d])
  BY <1>1, Unchanged
<1> QED
  BY <1>1, <1>2, <1>3, PeerTypes, TableTypes, Moved

-------------------------------------------------------------------------------
(* The types, whatever is lost.                                              *)

\* The tables and the channels when the peers start.
LEMMA InitFacts ==
    ASSUME Init
    PROVE  /\ TypeInv /\ pc = "poll" /\ turn = 1
           /\ \A i \in 1 .. MaxConn : ~slots[i].u.active
           /\ \A d \in Downloaders : /\ down[d].last = 0 /\ wanted[d] = 1 /\ pure[d]
                                     /\ up[d] = <<Get(1)>> /\ data[d] = << >>
<1>1. PICK w \in Garbage :
        slots = [i \in 1 .. MaxConn |->
                   [peer |-> CHOOSE d \in Downloaders : TRUE, chunk |-> 0,
                    u |-> FreeSlot, cc |-> [InitCwnd EXCEPT !.cwnd = w]]]
  BY DEF Init
<1> DEFINE e == [peer |-> CHOOSE d \in Downloaders : TRUE, chunk |-> 0,
                 u |-> FreeSlot, cc |-> [InitCwnd EXCEPT !.cwnd = w]]
<1>2. e \in SlotEntries
  <2>1. (CHOOSE d \in Downloaders : TRUE) \in Downloaders
    BY SessionAssumption
  <2>2. [InitCwnd EXCEPT !.cwnd = w] \in Rows
    BY RowTypes, SessionAssumption DEF Rows
  <2> QED
    BY <2>1, <2>2, FreeSlotWindow DEF SlotEntries
<1>3. e.u = FreeSlot
  OBVIOUS
<1> HIDE DEF e
<1>4. slots \in Tables /\ \A i \in 1 .. MaxConn : slots[i].u = FreeSlot
  BY <1>1, <1>2, <1>3 DEF Tables, e
<1>5. /\ pc = "poll" /\ turn = 1 /\ mishaps = 0
      /\ down \in [Downloaders -> Streams] /\ wanted \in [Downloaders -> Nat]
      /\ pure \in [Downloaders -> BOOLEAN]
      /\ \A d \in Downloaders : down[d] = StartDownload /\ wanted[d] = 1 /\ pure[d]
  BY StartDownloadBuffer DEF Init
<1>6. /\ up \in [Downloaders -> Seq(UpPackets)] /\ data \in [Downloaders -> Seq(DataPackets)]
      /\ \A d \in Downloaders : up[d] = <<Get(1)>> /\ data[d] = << >>
  <2>1. <<Get(1)>> \in Seq(UpPackets) /\ << >> \in Seq(DataPackets)
    BY PacketFields
  <2> QED
    BY <2>1 DEF Init
<1>7. \A d \in Downloaders : 1 \in 1 .. Wants[d]
  BY SessionAssumption
<1>8. turn \in 1 .. MaxConn /\ mishaps \in 0 .. MaxMishaps
  BY <1>5, SessionAssumption
<1>9. TypeInv
  <2>1. TypeOK
    BY <1>4, <1>5, <1>6, <1>7, <1>8
       DEF TypeOK, Tables, SlotEntries, Rows, UpPackets, DataPackets
  <2>2. \A i \in 1 .. MaxConn : Window(slots[i].u)
    BY <1>4, FreeSlotWindow
  <2>3. \A d \in Downloaders : Buffer(down[d])
    BY <1>5, StartDownloadBuffer
  <2> QED
    BY <2>1, <2>2, <2>3 DEF TypeInv
<1>10. \A i \in 1 .. MaxConn : ~slots[i].u.active
  BY <1>4 DEF FreeSlot
<1>11. \A d \in Downloaders : down[d].last = 0
  BY <1>5 DEF StartDownload
<1> QED
  BY <1>5, <1>6, <1>9, <1>10, <1>11

\* The steps of the loop and of send_data_packets that send nothing.
LEMMA TypeIdle ==
    ASSUME TypeInv, PollNothing \/ SkipFree \/ KeepUploads
    PROVE  /\ TypeInv' /\ UNCHANGED <<slots, down, wanted, pure, up, data>>
<1>1. CASE PollNothing \/ KeepUploads
  BY <1>1, TableTypes, TypeLoop DEF PollNothing, KeepUploads
<1>2. CASE SkipFree
  <2>1. NextTurn /\ UNCHANGED <<slots, down, wanted, pure, up, data, mishaps>>
    BY <1>2 DEF SkipFree
  <2>2. turn' \in 1 .. MaxConn /\ pc' \in {"poll", "send", "clean", "exited"}
    BY <2>1, NextTurnTypes
  <2> QED
    BY <2>1, <2>2, TypeLoop
<1> QED
  BY <1>1, <1>2

\* Time may pass for an upload that has sent nothing, but for no other.
LEMMA TypeSendNothing ==
    ASSUME TypeInv, NEW d \in Downloaders, SendNothing(d)
    PROVE  /\ TypeInv' /\ UNCHANGED <<down, wanted, pure, up, data, mishaps>>
           /\ slots[IndexOf(d)].u.queue # << >> => UNCHANGED slots
<1>1. /\ NextTurn /\ UNCHANGED <<down, wanted, pure, up, data, mishaps>>
      /\ slots' = slots \/ slots' = Aged(slots, Of(slots, d))
      /\ slots[IndexOf(d)].u.queue # << >> => UNCHANGED slots
  BY DEF SendNothing
<1>2. turn' \in 1 .. MaxConn /\ pc' \in {"poll", "send", "clean", "exited"}
  BY <1>1, NextTurnTypes
<1>3. Sound(slots') /\ mishaps' \in 0 .. MaxMishaps
  BY <1>1, AgedSound, TableTypes
<1>4. Put(up, up', d, up[d]) /\ Put(data, data', d, data[d])
  BY <1>1, Unchanged
<1>5. up[d] \in Seq(UpPackets) /\ data[d] \in Seq(DataPackets)
  BY PeerTypes
<1> QED
  BY <1>1, <1>2, <1>3, <1>4, <1>5, UplinkMoved

LEMMA TypeStep == TypeInv /\ [Next]_vars => TypeInv'
<1> SUFFICES ASSUME TypeInv, [Next]_vars
             PROVE  TypeInv'
  OBVIOUS
<1>1. CASE UNCHANGED vars
  BY <1>1 DEF vars, TypeInv, TypeOK
<1>2. CASE PollNothing \/ SkipFree \/ KeepUploads
  BY <1>2, TypeIdle
<1>3. ASSUME NEW i \in 1 .. MaxConn, UploadTimeout(i)
      PROVE  TypeInv'
  BY <1>3, TypeUploadTimeout
<1>4. ASSUME NEW d \in Downloaders,
             \/ ReceiveGet(d) \/ ReceiveAckOf(d)
             \/ Retransmit(d) \/ EarlyRetransmit(d) \/ SendNew(d) \/ SendNothing(d)
             \/ IgnoreData(d) \/ ReceiveData(d) \/ DownloadTimeout(d)
             \/ LoseUp(d) \/ LoseData(d)
      PROVE  TypeInv'
  <2>1. CASE ReceiveGet(d)
    BY <2>1, TypeReceiveGet
  <2>2. CASE ReceiveAckOf(d)
    BY <2>2, TypeReceiveAckOf
  <2>3. CASE Retransmit(d) \/ EarlyRetransmit(d)
    BY <2>3, TypeRetransmit
  <2>4. CASE SendNew(d)
    BY <2>4, TypeSendNew
  <2>5. CASE SendNothing(d)
    BY <2>5, TypeSendNothing
  <2>6. CASE IgnoreData(d) \/ LoseData(d)
    BY <2>6, TypeLoseData
  <2>7. CASE ReceiveData(d)
    BY <2>7, TypeReceiveData
  <2>8. CASE DownloadTimeout(d)
    BY <2>8, TypeDownloadTimeout
  <2>9. CASE LoseUp(d)
    BY <2>9, TypeLoseUp
  <2> QED
    BY <1>4, <2>1, <2>2, <2>3, <2>4, <2>5, <2>6, <2>7, <2>8, <2>9
<1> QED
  BY <1>1, <1>2, <1>3, <1>4 DEF Next

\* The upload tables with all their slots, the streams and the packets under way
\* keep their types in every reachable state, whatever is lost: each slot's queue
\* stays a run of packets that ends at its tail (keep_track.c:205-330).
THEOREM SessionTypes == Spec => []TypeOK
<1>1. Init => TypeInv
  BY InitFacts
<1>2. TypeInv => TypeOK
  BY DEF TypeInv
<1> QED
  BY <1>1, <1>2, TypeStep, PTL DEF Spec

-------------------------------------------------------------------------------
(* The session: one slot per downloader, about the chunk it fetches.         *)

LEMMA SessionFacts ==
    ASSUME SessionInv, NEW d \in Downloaders
    PROVE  /\ TypeInv /\ pc # "exited" /\ (pc # "send" => turn = 1)
           /\ pure[d] /\ Link(down[d].last, wanted[d], up[d], data[d])
BY DEF SessionInv, Loop, Served

\* The slot of a downloader is the only one its packets can find.
LEMMA OwnSlot ==
    ASSUME SessionInv, NEW d \in Downloaders, NEW i \in 1 .. MaxConn, Mine(i, d)
    PROVE  /\ Of(slots, d) = {i} /\ Lowest(Of(slots, d)) = i /\ IndexOf(d) = i
           /\ Serving(slots[i], down[d].last, wanted[d], up[d], data[d])
           /\ \A j \in 1 .. MaxConn : Mine(j, d) => j = i
           /\ slots[i].u \in Slots /\ slots[i].cc \in Rows /\ Window(slots[i].u)
           /\ slots[i].u.active /\ slots[i].peer = d
<1>1. TypeInv /\ slots \in Tables /\ Window(slots[i].u)
  BY TableTypes DEF SessionInv, Sound
<1>2. slots[i].u \in Slots /\ slots[i].cc \in Rows
  BY <1>1, EntryFields
<1>3. Served(d)
  BY DEF SessionInv
<1>4. /\ Serving(slots[i], down[d].last, wanted[d], up[d], data[d])
      /\ \A j \in 1 .. MaxConn : Mine(j, d) => j = i
  BY <1>3 DEF Served
<1>5. DOMAIN slots = 1 .. MaxConn
  BY <1>1 DEF Tables
<1>6. Of(slots, d) = {i}
  BY <1>4, <1>5 DEF Of, Mine
<1>7. Lowest({i}) = i
  <2>1. {i} \in SUBSET Nat /\ {i} # {}
    BY SessionAssumption
  <2>2. Lowest({i}) \in {i}
    BY <2>1, LowestIn
  <2> QED
    BY <2>2
<1> QED
  BY <1>1, <1>2, <1>4, <1>6, <1>7 DEF IndexOf, Mine

\* A downloader whose packets find no slot has none.
LEMMA NoSlot ==
    ASSUME TypeInv, NEW d
    PROVE  Of(slots, d) = {} <=> \A i \in 1 .. MaxConn : ~Mine(i, d)
<1>1. DOMAIN slots = 1 .. MaxConn
  BY TableTypes DEF Sound, Tables
<1> QED
  BY <1>1 DEF Of, Mine

\* Only slots of d have changed.
SlotsOf(d) ==
    \A j \in 1 .. MaxConn : \/ slots'[j] = slots[j]
                           \/ /\ slots[j].u.active => slots[j].peer = d
                              /\ slots'[j].u.active => slots'[j].peer = d

\* At most one slot serves d after the step, and it serves it well.
NewServing(d, last, w, U, D) ==
    \A i \in 1 .. MaxConn : slots'[i].u.active /\ slots'[i].peer = d =>
      /\ Serving(slots'[i], last, w, U, D)
      /\ \A j \in 1 .. MaxConn : slots'[j].u.active /\ slots'[j].peer = d => i = j

\* A step of one downloader and its slots leaves the others served, so that the
\* invariant is about that one.
LEMMA ServedAfter ==
    ASSUME SessionInv, NEW d \in Downloaders, TypeInv', Loop',
           NEW dn, NEW w, NEW U, NEW D, NEW b, Moves(d, dn, w, b, U, D), pure'[d],
           Link(dn.last, w, U, D), SlotsOf(d), NewServing(d, dn.last, w, U, D)
    PROVE  SessionInv'
<1>1. Served(d)'
  BY DEF Moves, Served, Mine, NewServing
<1>2. ASSUME NEW e \in Downloaders, e # d
      PROVE  Served(e)'
  <2>1. Served(e)
    BY DEF SessionInv
  <2>2. /\ down'[e] = down[e] /\ wanted'[e] = wanted[e] /\ pure'[e] = pure[e]
        /\ up'[e] = up[e] /\ data'[e] = data[e]
    BY <1>2 DEF Moves
  <2>3. \A j \in 1 .. MaxConn : slots'[j].u.active /\ slots'[j].peer = e =>
                                slots'[j] = slots[j] /\ Mine(j, e)
    BY <1>2 DEF Mine, SlotsOf
  <2>4. pure'[e] /\ Link(down'[e].last, wanted'[e], up'[e], data'[e])
    BY <2>1, <2>2 DEF Served
  <2>5. ASSUME NEW i \in 1 .. MaxConn, slots'[i].u.active /\ slots'[i].peer = e
        PROVE  /\ Serving(slots'[i], down'[e].last, wanted'[e], up'[e], data'[e])
               /\ \A j \in 1 .. MaxConn : slots'[j].u.active /\ slots'[j].peer = e => i = j
    BY <2>1, <2>2, <2>3, <2>5 DEF Served
  <2> QED
    BY <2>4, <2>5 DEF Served, Mine
<1>3. \A e \in Downloaders : Served(e)'
  BY <1>1, <1>2
<1> QED
  BY <1>3 DEF SessionInv

\* Steps that leave the slots and the place in the loop alone.
LEMMA LoopStays ==
    ASSUME SessionInv, UNCHANGED <<slots, pc, turn>>
    PROVE  Loop'
BY DEF SessionInv, Loop

\* A packet has been handled.
LEMMA LoopSends ==
    ASSUME TypeInv, turn = 1, turn' = turn, pc' = "send"
    PROVE  Loop'
BY DEF Loop

\* The slot whose turn it was is free or waits for an ACK.
LEMMA LoopGoesOn ==
    ASSUME SessionInv, pc = "send", NextTurn, OneChanged(slots, slots', turn),
           slots'[turn].u.active => slots'[turn].u.queue # << >>
    PROVE  Loop'
<1>1. /\ turn' \in 1 .. MaxConn /\ pc' \in {"send", "clean"} /\ turn \in 1 .. MaxConn
      /\ pc' = "send" => turn' = turn + 1
      /\ pc' = "clean" => turn' = 1 /\ turn = MaxConn
      /\ MaxConn \in Nat
  BY NextTurnTypes, TableTypes DEF SessionInv
<1>2. ASSUME NEW i \in 1 .. MaxConn, slots'[i].u.active, pc' # "send" \/ i < turn'
      PROVE  slots'[i].u.queue # << >>
  <2>1. CASE i = turn
    BY <1>2, <2>1
  <2>2. CASE i # turn
    <3>1. i < turn
      BY <1>1, <1>2, <2>2
    <3>2. slots'[i] = slots[i]
      BY <2>2 DEF OneChanged
    <3> QED
      BY <1>2, <3>1, <3>2 DEF SessionInv, Loop
  <2> QED
    BY <2>1, <2>2
<1> QED
  BY <1>1, <1>2 DEF Loop

\* An ACK that may be lost is one of a downloader that fetches a single chunk; no
\* slot serves a downloader whose GET is the next to arrive.
LEMMA SessionLoseUp ==
    ASSUME Reliable, SessionInv, NEW d \in Downloaders, LoseUp(d)
    PROVE  SessionInv'
<1> DEFINE last == down[d].last
           w == wanted[d]
           U == up[d]
           D == data[d]
           V == Tail(up[d])
<1>1. /\ TypeInv' /\ Moves(d, down[d], w, pure[d], V, D)
      /\ Taken(U, V) /\ Head(U) = U[1] /\ Head(U) \in UpPackets
  BY SessionFacts, TypeLoseUp
<1>2. UNCHANGED <<slots, pc, turn>> /\ Head(U).kind \in Mishaps[d]
  BY DEF LoseUp, Mishap
<1>3. pure[d] = TRUE /\ Link(last, w, U, D)
  BY SessionFacts, PeerTypes
<1>4. Loop'
  BY <1>2, LoopStays
<1>5. Link(last, w, V, D)
  BY <1>1, <1>3, LinkReceived
<1>6. ASSUME NEW i \in 1 .. MaxConn, Mine(i, d)
      PROVE  /\ Serving(slots[i], last, w, V, D)
             /\ \A j \in 1 .. MaxConn : Mine(j, d) => i = j
  <2>1. /\ Serving(slots[i], last, w, U, D)
        /\ \A j \in 1 .. MaxConn : Mine(j, d) => j = i
    BY <1>6, OwnSlot
  <2>2. U \in Seq(UpPackets) /\ w \in 1 .. Wants[d] /\ Wants[d] \in Nat
    BY SessionFacts, PeerTypes
  <2>3. \A g \in 1 .. Len(U) : U[g].kind \in {"get", "ack"}
    BY <2>2, ElementOfSeq, PacketFields
  <2>4. U[1].kind = "ack" /\ "ack" \in Mishaps[d]
    BY <1>1, <1>2, <2>1 DEF Taken, Serving, Closing
  <2>5. ~(w > 1)
    BY <2>2, <2>4 DEF Reliable
  <2>6. ~Pending(U)
    <3> SUFFICES ASSUME NEW g \in 1 .. Len(U), U[g].kind = "get"
                 PROVE  FALSE
      BY DEF Pending
    <3>1. g > 1
      BY <2>4
    <3> QED
      BY <1>3, <2>5, <3>1 DEF Link, NextGet
  <2>7. Serving(slots[i], last, w, V, D)
    BY <1>1, <2>1, <2>3, <2>6, ServingLost
  <2> QED
    BY <2>1, <2>7
<1> HIDE DEF last, w, U, D, V
<1>7. SlotsOf(d) /\ NewServing(d, last, w, V, D) /\ pure'[d]
  BY <1>1, <1>2, <1>3, <1>6 DEF Mine, SlotsOf, NewServing, Moves
<1> QED
  BY <1>1, <1>3, <1>4, <1>5, <1>7, ServedAfter DEF last

\* DATA that is lost, or arrives when the downloader has given up.
LEMMA SessionLoseData ==
    ASSUME SessionInv, NEW d \in Downloaders, LoseData(d) \/ IgnoreData(d)
    PROVE  SessionInv'
<1> DEFINE last == down[d].last
           w == wanted[d]
           U == up[d]
           D == data[d]
           E == Tail(data[d])
<1>1. /\ TypeInv' /\ Moves(d, down[d], w, pure[d], U, E) /\ Taken(D, E)
      /\ UNCHANGED <<slots, pc, turn>>
  BY SessionFacts, TypeLoseData
<1>2. pure[d] = TRUE /\ Link(last, w, U, D)
  BY SessionFacts, PeerTypes
<1>3. Loop'
  BY <1>1, LoopStays
<1>4. Link(last, w, U, E)
  BY <1>1, <1>2, LinkReceived
<1>5. ASSUME NEW i \in 1 .. MaxConn, Mine(i, d)
      PROVE  /\ Serving(slots[i], last, w, U, E)
             /\ \A j \in 1 .. MaxConn : Mine(j, d) => i = j
  <2>1. /\ Serving(slots[i], last, w, U, D)
        /\ \A j \in 1 .. MaxConn : Mine(j, d) => j = i
    BY <1>5, OwnSlot
  <2> QED
    BY <1>1, <2>1, ServingReceived
<1> HIDE DEF last, w, U, D, E
<1>6. SlotsOf(d) /\ NewServing(d, last, w, U, E) /\ pure'[d]
  BY <1>1, <1>2, <1>5 DEF Mine, SlotsOf, NewServing, Moves
<1> QED
  BY <1>1, <1>2, <1>3, <1>4, <1>6, ServedAfter DEF last

\* A GET finds its sender without a slot, and opens one with an initial window.
LEMMA SessionReceiveGet ==
    ASSUME SessionInv, NEW d \in Downloaders, ReceiveGet(d)
    PROVE  SessionInv'
<1> DEFINE last == down[d].last
           U == up[d]
           D == data[d]
           V == Tail(up[d])
           c == Head(up[d]).chunk
<1>1. /\ TypeInv' /\ Moves(d, down[d], wanted[d], pure[d], V, D)
      /\ Taken(U, V) /\ FirstGet(U, c) /\ c \in Nat
  BY SessionFacts, TypeReceiveGet
<1>2. /\ pc = "poll" /\ pc' = "send" /\ slots' = StartSlot(slots, d, c)
      /\ turn' = turn
  BY DEF ReceiveGet
<1>3. pure[d] = TRUE /\ Link(last, wanted[d], U, D) /\ turn = 1
  BY <1>2, SessionFacts, PeerTypes
<1>4. Loop'
  BY <1>2, <1>3, SessionFacts, LoopSends
<1>5. Link(last, wanted[d], V, D)
  BY <1>1, <1>3, LinkReceived
<1>6. c = wanted[d]
  BY <1>1, <1>3 DEF Link, NextGet, FirstGet, Taken
<1>7. \A i \in 1 .. MaxConn : ~Mine(i, d)
  <2>1. Len(U) > 0 /\ U[1].kind # "ack"
    BY <1>1 DEF Taken, FirstGet
  <2> QED
    BY <2>1, OwnSlot DEF Serving, Closing
<1>8. Of(slots, d) = {} /\ Sound(slots)
  BY <1>7, NoSlot, SessionFacts, TableTypes
<1> HIDE DEF last, U, D, V, c
<1>9. CASE slots' = slots
  <2>1. SlotsOf(d) /\ NewServing(d, last, wanted[d], V, D) /\ pure'[d]
    BY <1>1, <1>3, <1>7, <1>9 DEF Mine, SlotsOf, NewServing, Moves
  <2> QED
    BY <1>1, <1>3, <1>4, <1>5, <2>1, ServedAfter DEF last
<1>10. ASSUME NEW i \in 1 .. MaxConn, ~slots[i].u.active, OneChanged(slots, slots', i),
              slots'[i].u = StartUpload(slots[i].u), slots'[i].cc = InitCwnd,
              slots'[i].peer = d, slots'[i].chunk = c
       PROVE  SessionInv'
  <2>1. slots[i].u \in Slots /\ Window(slots[i].u)
    BY <1>8, EntryFields DEF Sound
  <2>2. /\ Acked(slots'[i].u) = 0 /\ slots'[i].u.lastAck = 0 /\ slots'[i].u.tail = 0
        /\ slots'[i].cc.cwnd = 1 /\ slots'[i].cc.max = 1
    BY <1>10, <2>1, StartUploadWindow, RowTypes
  <2>3. Opened(slots'[i])
    BY <2>2, SizesAssumption DEF Opened
  <2>4. slots'[i].chunk = wanted[d] /\ slots'[i].u.lastAck = 0 /\ slots'[i].u.tail = 0
    BY <1>6, <1>10, <2>2
  <2>5. Serving(slots'[i], last, wanted[d], V, D)
    BY <1>1, <1>3, <1>6, <2>3, <2>4, ServingOpened
  <2>6. \A j \in 1 .. MaxConn : j # i => slots'[j] = slots[j] /\ ~(slots'[j].u.active /\ slots'[j].peer = d)
    BY <1>7, <1>10 DEF OneChanged, Mine
  <2>7. SlotsOf(d) /\ NewServing(d, last, wanted[d], V, D) /\ pure'[d]
    BY <1>1, <1>3, <1>10, <2>5, <2>6 DEF SlotsOf, NewServing, Moves
  <2> QED
    BY <1>1, <1>3, <1>4, <1>5, <2>7, ServedAfter DEF last
<1> QED
  BY <1>1, <1>2, <1>8, <1>9, <1>10, StartedSlot

\* receive_ack does not take its exits: an ACK that arrives never goes back, so a
\* repeated one repeats what the head of the queue follows, and the queue of an
\* open slot is not empty.
LEMMA NotFatal ==
    ASSUME SessionInv, NEW d \in Downloaders, NEW i \in 1 .. MaxConn, Mine(i, d), pc = "poll",
           NEW ack \in SeqNumbers, slots[i].u.lastAck <= ack
    PROVE  ~Fatal(slots, d, ack)
<1> DEFINE u == slots[i].u
<1>1. /\ Lowest(Of(slots, d)) = i /\ u \in Slots /\ Window(u) /\ u.active
      /\ Serving(slots[i], down[d].last, wanted[d], up[d], data[d])
  BY OwnSlot
<1>2. /\ Acked(u) \in Nat /\ Run(u.queue, Acked(u)) /\ u.queue \in PacketQueues
      /\ Acked(u) = u.lastAck /\ Len(u.queue) \in Nat /\ u.lastAck \in 0 .. N
  BY <1>1, SlotTypes DEF Window, Serving, Opened
<1>3. u.queue # << >> /\ Len(u.queue) > 0
  <2>1. u.queue # << >>
    BY <1>1 DEF SessionInv, Loop
  <2>2. u.queue \in Seq(Packets)
    BY <1>2 DEF PacketQueues
  <2> QED
    BY <1>2, <2>1, <2>2, EmptySeq
<1> HIDE DEF u
<1>4. ASSUME DupCount(u, ack) >= DUP_ACKS
      PROVE  Unacked(u, ack) # << >> /\ Head(Unacked(u, ack)) = ack + 1
  <2>1. u.lastAck = ack
    BY <1>4 DEF DupCount, DUP_ACKS
  <2>2. ack \in Nat
    BY SizesAssumption DEF SeqNumbers
  <2>3. AckedOfRun(u.queue, Acked(u), ack) = 0
    BY <1>2, <2>1 DEF AckedOfRun
  <2>4. /\ Unacked(u, ack) \in PacketQueues /\ Len(Unacked(u, ack)) = Len(u.queue)
        /\ Run(Unacked(u, ack), Acked(u))
    <3>1. /\ Unacked(u, ack) \in PacketQueues
          /\ Len(Unacked(u, ack)) = Len(u.queue) - AckedOfRun(u.queue, Acked(u), ack)
          /\ Run(Unacked(u, ack), Acked(u) + AckedOfRun(u.queue, Acked(u), ack))
      BY <1>2, <2>2, UnackedOfRun
    <3>2. Acked(u) + 0 = Acked(u) /\ Len(u.queue) - 0 = Len(u.queue)
      BY <1>2
    <3> QED
      BY <2>3, <3>1, <3>2
  <2>5. Unacked(u, ack) # << >>
    BY <1>3, <2>4
  <2>6. Head(Unacked(u, ack)) = Unacked(u, ack)[1]
    BY <2>4, <2>5, ReceivedChannel DEF PacketQueues
  <2>7. Unacked(u, ack)[1] = Acked(u) + 1
    BY <1>2, <1>3, <2>4 DEF Run
  <2> QED
    BY <1>2, <2>1, <2>5, <2>6, <2>7
<1> QED
  BY <1>1, <1>4 DEF Fatal, NullHead, WrongHead, u

\* The ACK handler: the window moves on to a packet the downloader has, and the
\* ACK of the last one closes the slot before the next GET arrives.
LEMMA SessionReceiveAck ==
    ASSUME SessionInv, NEW d \in Downloaders, ReceiveAckOf(d)
    PROVE  SessionInv'
<1> DEFINE last == down[d].last
           w == wanted[d]
           U == up[d]
           D == data[d]
           V == Tail(up[d])
           ack == Head(up[d]).ack
<1>1. /\ TypeInv' /\ Moves(d, down[d], w, pure[d], V, D)
      /\ Taken(U, V) /\ FirstAck(U, ack) /\ ack \in SeqNumbers
  BY SessionFacts, TypeReceiveAckOf
<1>2. /\ pc = "poll" /\ turn' = turn
      /\ IF Fatal(slots, d, ack) THEN pc' = "exited" /\ UNCHANGED slots
         ELSE pc' = "send" /\ slots' = AckSlot(slots, d, ack)
  BY DEF ReceiveAckOf
<1>3. /\ pure[d] = TRUE /\ Link(last, w, U, D) /\ turn = 1 /\ Sound(slots)
      /\ U \in Seq(UpPackets) /\ last \in 0 .. N
  BY <1>2, SessionFacts, PeerTypes, TableTypes
<1>4. Link(last, w, V, D) /\ pure'[d]
  BY <1>1, <1>3, LinkReceived DEF Moves
<1> HIDE DEF last, w, U, D, V, ack
<1>5. CASE Of(slots, d) = {}
  <2>1. ~Fatal(slots, d, ack) /\ AckSlot(slots, d, ack) = slots
    BY <1>5 DEF Fatal, AckSlot
  <2>2. pc' = "send" /\ slots' = slots
    BY <1>2, <2>1
  <2>3. Loop'
    BY <1>2, <1>3, <2>2, SessionFacts, LoopSends
  <2>4. \A i \in 1 .. MaxConn : ~Mine(i, d)
    BY <1>5, NoSlot, SessionFacts
  <2>5. SlotsOf(d) /\ NewServing(d, last, w, V, D)
    BY <2>2, <2>4 DEF SlotsOf, NewServing, Mine
  <2> QED
    BY <1>1, <1>4, <2>3, <2>5, ServedAfter DEF last
<1>6. CASE Of(slots, d) # {}
  <2> DEFINE i == Lowest(Of(slots, d))
             k == AckedOfRun(slots[i].u.queue, Acked(slots[i].u), ack)
  <2>1. i \in 1 .. MaxConn /\ Mine(i, d)
    BY <1>3, <1>6, FoundSlot DEF Sound, Mine
  <2>2. AckSlot(slots, d, ack) = slots' =>
          /\ Sound(slots') /\ OneChanged(slots, slots', i)
          /\ slots'[i].peer = d /\ slots'[i].chunk = slots[i].chunk
          /\ ack = N => ~slots'[i].u.active
          /\ ack # N =>
               /\ slots'[i].u = ReceiveAck(slots[i].u, ack)
               /\ slots'[i].cc = WindowControl(slots[i].cc, AckedPrefix(slots[i].u.queue, ack))
    BY <1>1, <1>3, <1>6, AckedSlot
  <2> HIDE DEF i
  <2>3. /\ Serving(slots[i], last, w, U, D)
        /\ \A j \in 1 .. MaxConn : Mine(j, d) => j = i
        /\ slots[i].u \in Slots /\ slots[i].cc \in Rows /\ Window(slots[i].u)
        /\ slots[i].u.active /\ slots[i].peer = d
    BY <2>1, OwnSlot DEF last, w, U, D
  <2>4. U[1].kind = "ack" /\ U[1].ack = ack /\ 1 \in 1 .. Len(U)
    BY <1>1 DEF FirstAck, Taken
  <2>5. slots[i].u.lastAck <= ack
    BY <2>3, <2>4 DEF Serving, Climbing
  <2>6. pc' = "send" /\ AckSlot(slots, d, ack) = slots'
    BY <1>1, <1>2, <2>1, <2>5, NotFatal
  <2>7. Loop'
    BY <1>2, <1>3, <2>6, SessionFacts, LoopSends
  <2>8. /\ OneChanged(slots, slots', i)
        /\ slots'[i].peer = d /\ slots'[i].chunk = slots[i].chunk
        /\ ack = N => ~slots'[i].u.active
        /\ ack # N =>
             /\ slots'[i].u = ReceiveAck(slots[i].u, ack)
             /\ slots'[i].cc = WindowControl(slots[i].cc, AckedPrefix(slots[i].u.queue, ack))
    BY <2>2, <2>6
  <2>9. \A j \in 1 .. MaxConn : j # i => slots'[j] = slots[j] /\ ~(slots'[j].u.active /\ slots'[j].peer = d)
    BY <2>3, <2>8 DEF OneChanged, Mine
  <2>10. ASSUME ack # N
         PROVE  Serving(slots'[i], last, w, V, D)
    <3>1. /\ Acked(slots[i].u) = slots[i].u.lastAck /\ slots[i].u.lastAck \in Nat
          /\ slots[i].u.tail \in Nat /\ Len(slots[i].u.queue) \in Nat
          /\ slots[i].cc.cwnd \in Nat /\ slots[i].cc.cwnd > 0
          /\ slots[i].u.lastAck = 0 => /\ slots[i].u.tail <= 1 /\ slots[i].cc.cwnd = 1
                                       /\ slots[i].cc.max = 1
      BY <2>3, SlotTypes, SizesAssumption DEF Serving, Opened, Rows
    <3>2. ack \in Nat /\ ack < N
      BY <1>1, <2>10, SizesAssumption DEF SeqNumbers
    <3>3. ack <= slots[i].u.tail
      <4>1. CASE Pending(U)
        BY <2>3, <3>2, <4>1, SizesAssumption DEF Serving, Closing
      <4>2. CASE ~Pending(U)
        BY <1>3, <2>3, <2>4, <3>1, <3>2, <4>2 DEF Serving, Fetching
      <4> QED
        BY <4>1, <4>2
    <3>4. /\ k \in 0 .. Len(slots[i].u.queue) /\ AckedPrefix(slots[i].u.queue, ack) = k
          /\ Acked(slots'[i].u) = Acked(slots[i].u) + k
          /\ slots'[i].u.tail = slots[i].u.tail /\ slots'[i].u.lastAck = ack
      BY <1>1, <2>3, <2>8, <2>10, ReceiveAckWindow
    <3>5. k = ack - slots[i].u.lastAck
      <4>1. Len(slots[i].u.queue) = slots[i].u.tail - slots[i].u.lastAck
        BY <3>1 DEF Acked
      <4> QED
        BY <2>5, <3>1, <3>2, <3>3, <4>1 DEF AckedOfRun
    <3> HIDE DEF k
    <3>6. k \in Nat /\ Acked(slots'[i].u) = ack /\ (ack = 0 => k = 0 /\ slots[i].u.lastAck = 0)
      BY <2>5, <3>1, <3>2, <3>4, <3>5
    <3>7. slots'[i].cc = WindowControl(slots[i].cc, k)
      BY <2>8, <2>10, <3>4
    <3>8. /\ WindowControl(slots[i].cc, k) \in Rows
          /\ WindowControl(slots[i].cc, k).cwnd >= slots[i].cc.cwnd
          /\ k = 0 /\ slots[i].cc.cwnd = 1 /\ slots[i].cc.max = 1 =>
               /\ WindowControl(slots[i].cc, k).cwnd = 1
               /\ WindowControl(slots[i].cc, k).max = 1
      BY <2>3, <3>6, RowTypes
    <3>9. WindowControl(slots[i].cc, k).cwnd \in Nat
      BY <3>8 DEF Rows
    <3>10. slots'[i].cc.cwnd > 0
      BY <3>1, <3>7, <3>8, <3>9
    <3>11. Opened(slots'[i])
      BY <3>1, <3>2, <3>4, <3>6, <3>7, <3>8, <3>10 DEF Opened
    <3>12. SlotAt(slots[i], slots'[i], ack, slots[i].u.tail)
      BY <2>8, <3>4 DEF SlotAt
    <3> QED
      BY <1>1, <1>3, <2>3, <2>10, <3>11, <3>12, ServingAck
  <2>11. SlotsOf(d) /\ NewServing(d, last, w, V, D)
    <3>1. SlotsOf(d)
      BY <2>3, <2>8, <2>9 DEF SlotsOf
    <3>2. NewServing(d, last, w, V, D)
      BY <2>8, <2>9, <2>10 DEF NewServing
    <3> QED
      BY <3>1, <3>2
  <2> QED
    BY <1>1, <1>4, <2>7, <2>11, ServedAfter DEF last
<1> QED
  BY <1>5, <1>6

\* A packet is sent in a downloader's turn: from its only slot, which goes on to
\* wait for ACKs.
LEMMA SessionSent ==
    ASSUME Reliable, SessionInv, TypeInv', NEW d \in Downloaders,
           slots[turn].u.active, slots[turn].peer = d, pc = "send", NextTurn,
           NEW D, NEW seq \in 1 .. N,
           Moves(d, down[d], wanted[d], pure[d], up[d], D),
           Added(data[d], D, Data(seq, slots[turn].chunk)),
           OneChanged(slots, slots', turn), slots'[turn].peer = d,
           slots'[turn].u.queue # << >>, Opened(slots'[turn]),
           NEW tail \in Nat, SlotAt(slots[turn], slots'[turn], slots[turn].u.lastAck, tail),
           slots[turn].u.tail <= tail, seq <= tail,
           Pending(up[d]) => tail = N /\ seq >= 2,
           seq = 1 => slots[turn].u.tail <= 1
    PROVE  SessionInv'
<1> DEFINE last == down[d].last
           w == wanted[d]
           U == up[d]
           p == Data(seq, slots[turn].chunk)
<1>1. turn \in 1 .. MaxConn /\ Mine(turn, d) /\ slots[turn].chunk \in Nat
  BY SessionFacts, TableTypes, EntryFields DEF Mine, Sound
<1>2. /\ Serving(slots[turn], last, w, U, data[d])
      /\ \A j \in 1 .. MaxConn : Mine(j, d) => j = turn
      /\ slots[turn].u \in Slots
  BY <1>1, OwnSlot
<1>3. /\ pure[d] = TRUE /\ Link(last, w, U, data[d])
      /\ last \in Nat /\ data[d] \in Seq(DataPackets)
  BY SessionFacts, PeerTypes, SizesAssumption
<1>4. Loop'
  BY LoopGoesOn
<1>5. p.seq = seq /\ p.chunk = slots[turn].chunk /\ seq \in Nat /\ seq > 0
  BY <1>1, PacketFields, SizesAssumption
<1>6. slots[turn].u.tail \in Nat
  BY <1>2, SlotTypes, SizesAssumption
<1> HIDE DEF last, w, U, p
<1>7. Link(last, w, U, D)
  <2>1. Pending(U) => p.chunk # w /\ p.seq >= 2
    BY <1>2, <1>5 DEF Serving, Closing, U
  <2>2. ~Pending(U) => p.chunk = w
    BY <1>2, <1>5 DEF Serving, Fetching
  <2>3. ASSUME ~Pending(U), p.seq = 1, NEW j \in 1 .. Len(data[d]), data[d][j].chunk = w
        PROVE  data[d][j].seq = 1
    <3>1. data[d][j].seq \in 1 .. N
      BY <1>3, ElementOfSeq, PacketFields
    <3>2. data[d][j].seq <= slots[turn].u.tail
      BY <1>2, <2>3 DEF Serving, Fetching
    <3>3. slots[turn].u.tail <= 1
      BY <1>5, <2>3
    <3> QED
      BY <1>6, <3>1, <3>2, <3>3, SizesAssumption
  <2>4. p.seq \in Nat /\ p.seq > 0
    BY <1>5
  <2>5. Added(data[d], D, p)
    BY DEF p
  <2> QED
    BY <1>3, <2>1, <2>2, <2>3, <2>4, <2>5, LinkSent
<1>8. Serving(slots'[turn], last, w, U, D)
  <2>1. Pending(U) => tail = N
    BY DEF U
  <2>2. p.seq \in Nat /\ p.seq <= tail /\ Added(data[d], D, p)
    BY <1>5 DEF p
  <2> QED
    BY <1>2, <1>3, <1>6, <2>1, <2>2, ServingSent
<1>9. SlotsOf(d) /\ NewServing(d, last, w, U, D)
  <2>1. \A j \in 1 .. MaxConn : j # turn => slots'[j] = slots[j] /\ ~(slots'[j].u.active /\ slots'[j].peer = d)
    BY <1>2 DEF OneChanged, Mine
  <2> QED
    BY <1>8, <2>1 DEF SlotsOf, NewServing
<1>10. pure'[d] /\ Moves(d, down[d], w, pure[d], U, D)
  BY <1>3 DEF Moves, w, U
<1> QED
  BY <1>4, <1>7, <1>9, <1>10, ServedAfter DEF last

\* A retransmission: of packet 1 only before the first ACK, when nothing else has
\* been sent, and of an old chunk only behind packet 1.
LEMMA SessionRetransmit ==
    ASSUME Reliable, SessionInv, NEW d \in Downloaders, Retransmit(d) \/ EarlyRetransmit(d)
    PROVE  SessionInv'
<1>1. slots[turn].u.active /\ slots[turn].peer = d /\ pc = "send" /\ NextTurn
  BY DEF Retransmit, EarlyRetransmit, Resend
<1>2. turn \in 1 .. MaxConn /\ Mine(turn, d)
  BY <1>1, SessionFacts, TableTypes DEF Mine
<1> DEFINE u == slots[turn].u
           h == Head(u.queue)
           D == Append(data[d], Data(h, slots[turn].chunk))
<1>3. /\ IndexOf(d) = turn /\ Of(slots, d) = {turn} /\ u \in Slots /\ Window(u) /\ u.active
      /\ slots[turn].cc \in Rows
      /\ Serving(slots[turn], down[d].last, wanted[d], up[d], data[d])
  BY <1>2, OwnSlot
<1>4. /\ TypeInv' /\ Moves(d, down[d], wanted[d], pure[d], up[d], D)
      /\ u.queue # << >> /\ Added(data[d], D, Data(h, slots[turn].chunk))
      /\ h \in 1 .. N
      /\ slots'[turn].peer = d /\ slots'[turn].chunk = slots[turn].chunk
      /\ slots'[turn].u = Restamp(u) /\ slots'[turn].cc = WindowTimeout(slots[turn].cc)
      /\ OneChanged(slots, slots', turn)
  <2>1. TypeInv
    BY SessionFacts
  <2> QED
    BY <1>3, <2>1, TypeRetransmit
<1> HIDE DEF h, D
<1>5. /\ Restamp(u).queue = u.queue /\ Restamp(u).tail = u.tail
      /\ Acked(Restamp(u)) = Acked(u) /\ Restamp(u).lastAck = u.lastAck
  BY <1>3, RestampWindow
<1>6. /\ WindowTimeout(slots[turn].cc).cwnd = 1
      /\ WindowTimeout(slots[turn].cc).max = slots[turn].cc.max
  BY <1>3, RowTypes
<1>7. /\ Acked(u) = u.lastAck /\ u.lastAck < N /\ u.lastAck \in Nat /\ u.tail \in Nat
      /\ u.lastAck = 0 => u.tail <= 1 /\ slots[turn].cc.max = 1
      /\ Len(u.queue) \in Nat /\ u.queue \in Seq(Packets)
  BY <1>3, SlotTypes, SizesAssumption DEF Serving, Opened, PacketQueues
<1>8. h = u.lastAck + 1 /\ h <= u.tail
  <2>1. h = u.queue[1] /\ Len(u.queue) > 0
    BY <1>4, <1>7, ReceivedChannel DEF h
  <2>2. u.queue[1] = Acked(u) + 1
    BY <1>3, <1>7, <2>1 DEF Window, Run
  <2>3. Len(u.queue) = u.tail - u.lastAck
    BY <1>7 DEF Acked
  <2> QED
    BY <1>7, <2>1, <2>2, <2>3
<1>9. Opened(slots'[turn])
  BY <1>4, <1>5, <1>6, <1>7 DEF Opened
<1>10. SlotAt(slots[turn], slots'[turn], u.lastAck, u.tail)
  BY <1>4, <1>5 DEF SlotAt
<1>11. Pending(up[d]) => u.tail = N /\ h >= 2
  <2> SUFFICES ASSUME Pending(up[d])
               PROVE  u.tail = N /\ h >= 2
    OBVIOUS
  <2>1. u.tail = N
    BY <1>3 DEF Serving, Closing
  <2>2. u.lastAck # 0
    BY <1>7, <2>1, SizesAssumption DEF Reliable
  <2> QED
    BY <1>7, <1>8, <2>1, <2>2
<1>12. /\ h = 1 => u.tail <= 1
       /\ slots'[turn].u.queue # << >> /\ u.tail <= u.tail
  BY <1>4, <1>5, <1>7, <1>8
<1> HIDE DEF u
<1>13. /\ OneChanged(slots, slots', turn) /\ slots'[turn].peer = d /\ TypeInv'
       /\ Moves(d, down[d], wanted[d], pure[d], up[d], D) /\ h \in 1 .. N
       /\ Added(data[d], D, Data(h, slots[turn].chunk)) /\ u.tail \in Nat
  BY <1>4, <1>7
<1>14. SlotAt(slots[turn], slots'[turn], slots[turn].u.lastAck, u.tail) /\ slots[turn].u.tail <= u.tail
  BY <1>10, <1>12 DEF u
<1> QED
  BY <1>1, <1>8, <1>9, <1>11, <1>12, <1>13, <1>14, SessionSent DEF u

\* A new packet: only of the chunk being fetched, and packet 1 first.
LEMMA SessionSendNew ==
    ASSUME Reliable, SessionInv, NEW d \in Downloaders, SendNew(d)
    PROVE  SessionInv'
<1>1. slots[turn].u.active /\ slots[turn].peer = d /\ pc = "send" /\ NextTurn
  BY DEF SendNew
<1>2. turn \in 1 .. MaxConn /\ Mine(turn, d)
  BY <1>1, SessionFacts, TableTypes DEF Mine
<1> DEFINE u == slots[turn].u
           seq == u.tail + 1
           D == Append(data[d], Data(seq, slots[turn].chunk))
<1>3. /\ IndexOf(d) = turn /\ Of(slots, d) = {turn} /\ u \in Slots /\ Window(u) /\ u.active
      /\ slots[turn].cc \in Rows
      /\ Serving(slots[turn], down[d].last, wanted[d], up[d], data[d])
  BY <1>2, OwnSlot
<1>4. /\ TypeInv' /\ Moves(d, down[d], wanted[d], pure[d], up[d], D)
      /\ Added(data[d], D, Data(seq, slots[turn].chunk)) /\ seq \in 1 .. N
      /\ slots'[turn].peer = d /\ slots'[turn].chunk = slots[turn].chunk
      /\ slots'[turn].u = WaitAck(u, seq) /\ slots'[turn].cc = slots[turn].cc
      /\ OneChanged(slots, slots', turn)
  <2>1. TypeInv
    BY SessionFacts
  <2> QED
    BY <1>3, <2>1, TypeSendNew
<1>5. u.size < slots[turn].cc.cwnd /\ u.tail < N
  BY <1>3 DEF SendNew, RoomToSend
<1>6. /\ WaitAck(u, seq).queue # << >> /\ WaitAck(u, seq).tail = seq
      /\ Acked(WaitAck(u, seq)) = Acked(u) /\ WaitAck(u, seq).lastAck = u.lastAck
  BY <1>3, <1>5, WaitAckWindow
<1>7. /\ Acked(u) = u.lastAck /\ u.lastAck < N /\ u.lastAck \in Nat /\ u.tail \in Nat
      /\ slots[turn].cc.cwnd > 0
      /\ u.lastAck = 0 => u.tail <= 1 /\ slots[turn].cc.cwnd = 1 /\ slots[turn].cc.max = 1
      /\ Len(u.queue) \in Nat /\ u.size = Len(u.queue)
  BY <1>3, SlotTypes, SizesAssumption DEF Serving, Opened, Window
<1>8. u.lastAck = 0 => u.tail = 0
  BY <1>5, <1>7 DEF Acked
<1>9. Opened(slots'[turn])
  BY <1>4, <1>6, <1>7, <1>8 DEF Opened
<1>10. SlotAt(slots[turn], slots'[turn], u.lastAck, seq)
  BY <1>4, <1>6 DEF SlotAt
<1>11. ~Pending(up[d])
  BY <1>3, <1>5, SizesAssumption DEF Serving, Closing
<1>12. /\ seq = 1 => u.tail <= 1
       /\ slots'[turn].u.queue # << >> /\ u.tail <= seq /\ seq \in Nat /\ seq <= seq
  BY <1>4, <1>6, <1>7
<1> HIDE DEF seq, D
<1>13. /\ OneChanged(slots, slots', turn) /\ slots'[turn].peer = d /\ TypeInv'
       /\ Moves(d, down[d], wanted[d], pure[d], up[d], D) /\ seq \in 1 .. N
       /\ Added(data[d], D, Data(seq, slots[turn].chunk))
  BY <1>4
<1>14. /\ SlotAt(slots[turn], slots'[turn], slots[turn].u.lastAck, seq)
       /\ slots[turn].u.tail <= seq /\ (seq = 1 => slots[turn].u.tail <= 1)
  BY <1>10, <1>12
<1> QED
  BY <1>1, <1>9, <1>11, <1>12, <1>13, <1>14, SessionSent

\* A DATA packet is handled by a downloader that goes on with its chunk, or has
\* nothing more to fetch; its slot, if any, is served on.
LEMMA SessionData ==
    ASSUME SessionInv, TypeInv', NEW d \in Downloaders, UNCHANGED <<slots, pc, turn>>,
           NEW dn, NEW w, NEW U, NEW D, Moves(d, dn, w, TRUE, U, D), Link(dn.last, w, U, D),
           \A i \in 1 .. MaxConn : Mine(i, d) => Serving(slots[i], dn.last, w, U, D)
    PROVE  SessionInv'
<1>1. Loop'
  BY LoopStays
<1>2. \A i, j \in 1 .. MaxConn : Mine(i, d) /\ Mine(j, d) => i = j
  BY OwnSlot
<1>3. SlotsOf(d) /\ NewServing(d, dn.last, w, U, D) /\ pure'[d]
  BY <1>2 DEF Mine, SlotsOf, NewServing, Moves
<1> QED
  BY <1>1, <1>3, ServedAfter

\* DATA of an earlier chunk, which the new stream takes for a packet out of order.
LEMMA SessionOldData ==
    ASSUME SessionInv, NEW d \in Downloaders, ReceiveData(d),
           Head(data[d]).chunk # wanted[d]
    PROVE  SessionInv'
<1> DEFINE p == Head(data[d])
           w == wanted[d]
           U == up[d]
           D == data[d]
           E == Tail(data[d])
           V == Acks(d)
<1>1. /\ TypeInv /\ TypeInv' /\ UNCHANGED <<slots, pc, turn>>
      /\ D # << >> /\ down[d].stream /\ Taken(D, E) /\ Added(U, V, Acking(d))
      /\ ~GoesOn(d) => Moves(d, Result(d), w, pure[d] /\ (Saves(d) => p.chunk = w), V, E)
  BY SessionFacts, TypeReceiveData
<1>2. pure[d] = TRUE /\ Link(down[d].last, w, U, D) /\ U \in Seq(UpPackets)
  BY SessionFacts, PeerTypes
<1>3. p = D[1] /\ p.seq \in 1 .. N /\ 1 \in 1 .. Len(D)
  BY <1>1, ResultFacts DEF Taken
<1>4. p.seq >= 2 /\ down[d].last = 0
  BY <1>2, <1>3 DEF Link, OldData
<1>5. p.seq # down[d].last + 1 /\ p.seq # down[d].last
  BY <1>3, <1>4, SizesAssumption
<1>6. /\ Result(d) = down[d]
      /\ TrackDataPacket(down[d], p.seq).last = down[d].last
  BY <1>1, <1>5, ResultFacts
<1>7. ~GoesOn(d) /\ ~Saves(d) /\ Acking(d) = Ack(0)
  BY <1>1, <1>4, <1>6 DEF GoesOn, Saves, Acking
<1> HIDE DEF p, w, U, D, E, V
<1>8. Moves(d, down[d], w, TRUE, V, E)
  <2>1. (pure[d] /\ (Saves(d) => p.chunk = w)) = TRUE
    BY <1>2, <1>7
  <2> QED
    BY <1>1, <1>6, <1>7, <2>1
<1>9. Link(0, w, U, D) /\ Added(U, V, Ack(0))
  BY <1>1, <1>2, <1>4, <1>7
<1>10. Link(0, w, V, E)
  BY <1>1, <1>9, LinkIgnored
<1>11. ASSUME NEW i \in 1 .. MaxConn, Mine(i, d)
       PROVE  Serving(slots[i], 0, w, V, E)
  <2>1. Serving(slots[i], down[d].last, w, U, D) /\ slots[i].u \in Slots
    BY <1>11, OwnSlot DEF w, U, D
  <2>2. Serving(slots[i], 0, w, U, D)
    BY <1>4, <2>1
  <2>3. slots[i].u.lastAck \in Nat /\ slots[i].u.tail \in Nat
    BY <2>1, SlotTypes, SizesAssumption
  <2> QED
    BY <1>1, <1>2, <1>9, <2>2, <2>3, ServingIgnored
<1>12. /\ Link(down[d].last, w, V, E)
       /\ \A i \in 1 .. MaxConn : Mine(i, d) => Serving(slots[i], down[d].last, w, V, E)
  BY <1>4, <1>10, <1>11
<1> QED
  BY <1>1, <1>8, <1>12, SessionData

\* DATA of the chunk being fetched: acknowledged, saved in order, and with the
\* last of it the next chunk is asked for.
LEMMA SessionNewData ==
    ASSUME Reliable, SessionInv, NEW d \in Downloaders, ReceiveData(d),
           Head(data[d]).chunk = wanted[d]
    PROVE  SessionInv'
<1> DEFINE seq == Head(data[d]).seq
           last == down[d].last
           a == TrackDataPacket(down[d], seq).last
           w == wanted[d]
           U == up[d]
           D == data[d]
           E == Tail(data[d])
           X == Acks(d)
<1>1. /\ TypeInv /\ TypeInv' /\ UNCHANGED <<slots, pc, turn>>
      /\ D # << >> /\ down[d].stream /\ Taken(D, E) /\ Added(U, X, Acking(d))
      /\ ~GoesOn(d) =>
           Moves(d, Result(d), w, pure[d] /\ (Saves(d) => Head(data[d]).chunk = w), X, E)
      /\ GoesOn(d) =>
           \E V \in Seq(UpPackets) :
             Added(X, V, Get(NextChunk(d))) /\ Moves(d, StartDownload, NextChunk(d), TRUE, V, E)
  BY SessionFacts, TypeReceiveData
<1>2. /\ pure[d] = TRUE /\ Link(last, w, U, D) /\ U \in Seq(UpPackets)
      /\ D \in Seq(DataPackets) /\ last \in 0 .. N /\ w \in Nat \ {0}
  BY SessionFacts, PeerTypes
<1>3. /\ seq \in 1 .. N /\ Head(data[d]) = D[1] /\ a \in 0 .. N
      /\ a = (IF seq = last + 1 THEN seq ELSE last) /\ Result(d).last = a
      /\ ~Result(d).stream => Result(d).chunk = "OWNED" /\ seq = N /\ a = N
  BY <1>1, <1>2, ResultFacts
<1>4. FirstData(D, seq, w) /\ Acking(d) = Ack(a) /\ 1 \in 1 .. Len(D)
  BY <1>1, <1>3 DEF FirstData, Acking, Taken
<1>5. ~Pending(U)
  BY <1>1, <1>2, <1>4, CurrentData
<1> HIDE DEF seq, last, a, w, U, D, E, X
<1>6. last \in Nat /\ a \in Nat /\ last <= a /\ last <= N
  BY <1>2, <1>3, SizesAssumption
<1>7. ASSUME NEW i \in 1 .. MaxConn, Mine(i, d)
      PROVE  /\ Serving(slots[i], last, w, U, D)
             /\ slots[i].u.lastAck \in Nat /\ slots[i].u.tail \in 0 .. N
             /\ a <= slots[i].u.tail /\ seq <= slots[i].u.tail
  <2>1. Serving(slots[i], last, w, U, D) /\ slots[i].u \in Slots
    BY <1>7, OwnSlot DEF last, w, U, D
  <2>2. slots[i].u.lastAck \in Nat /\ slots[i].u.tail \in 0 .. N
    BY <2>1, SlotTypes, SizesAssumption
  <2>3. last <= slots[i].u.tail /\ seq <= slots[i].u.tail
    BY <1>4, <1>5, <2>1 DEF Serving, Fetching, FirstData
  <2> QED
    BY <1>3, <2>1, <2>2, <2>3
<1>8. CASE ~GoesOn(d)
  <2>1. Moves(d, Result(d), w, TRUE, X, E)
    <3>1. (pure[d] /\ (Saves(d) => Head(data[d]).chunk = w)) = TRUE
      BY <1>2 DEF w
    <3> QED
      BY <1>1, <1>8, <3>1
  <2>2. Added(U, X, Ack(a))
    BY <1>1, <1>4
  <2>3. Link(a, w, X, E)
    BY <1>1, <1>2, <1>4, <2>2, LinkAcked
  <2>4. ASSUME NEW i \in 1 .. MaxConn, Mine(i, d)
        PROVE  Serving(slots[i], a, w, X, E)
    <3>1. /\ Serving(slots[i], last, w, U, D)
          /\ slots[i].u.lastAck \in Nat /\ a <= slots[i].u.tail
      BY <1>7, <2>4
    <3> QED
      BY <1>1, <1>2, <1>5, <1>6, <2>2, <3>1, ServingAcked
  <2>5. /\ Link(Result(d).last, w, X, E)
        /\ \A i \in 1 .. MaxConn : Mine(i, d) => Serving(slots[i], Result(d).last, w, X, E)
    BY <1>3, <2>3, <2>4
  <2> QED
    BY <1>1, <2>1, <2>5, SessionData
<1>9. CASE GoesOn(d)
  <2>1. /\ Result(d).chunk = "OWNED" /\ seq = N /\ a = N /\ NextChunk(d) = w + 1
    BY <1>3, <1>9 DEF GoesOn, NextChunk, w
  <2>2. PICK V \in Seq(UpPackets) :
          Added(X, V, Get(w + 1)) /\ Moves(d, StartDownload, w + 1, TRUE, V, E)
    BY <1>1, <1>9, <2>1
  <2>3. Added(U, X, Ack(N)) /\ FirstData(D, N, w)
    BY <1>1, <1>4, <2>1
  <2>4. E \in Seq(DataPackets) /\ N > 1
    <3>1. E \in Seq(DataPackets)
      BY <1>1, <1>2, TakenPacket DEF E, D
    <3> QED
      BY <3>1 DEF Reliable
  <2>5. Link(0, w + 1, V, E)
    BY <1>1, <1>2, <2>2, <2>3, <2>4, LinkNext
  <2>6. ASSUME NEW i \in 1 .. MaxConn, Mine(i, d)
        PROVE  Serving(slots[i], 0, w + 1, V, E)
    <3>1. /\ Serving(slots[i], last, w, U, D)
          /\ slots[i].u.lastAck \in Nat /\ slots[i].u.tail \in 0 .. N /\ N <= slots[i].u.tail
      BY <1>7, <2>1, <2>6
    <3>2. w \in Nat
      BY <1>2
    <3> QED
      BY <1>1, <1>2, <1>5, <1>6, <2>2, <2>3, <3>1, <3>2, ServingNext
  <2>7. /\ Link(StartDownload.last, w + 1, V, E)
        /\ \A i \in 1 .. MaxConn : Mine(i, d) => Serving(slots[i], StartDownload.last, w + 1, V, E)
    BY <2>5, <2>6 DEF StartDownload
  <2> QED
    BY <1>1, <2>2, <2>7, SessionData
<1> QED
  BY <1>8, <1>9

\* clean_download_timeout: the chunk is given up, and what is under way of it is
\* ignored.
LEMMA SessionDownloadTimeout ==
    ASSUME SessionInv, NEW d \in Downloaders, DownloadTimeout(d)
    PROVE  SessionInv'
<1> DEFINE dn == CrashDownload(down[d])
<1>1. /\ TypeInv' /\ UNCHANGED <<slots, pc, turn>> /\ dn.last = down[d].last
      /\ Moves(d, dn, wanted[d], pure[d], up[d], data[d])
  BY SessionFacts, TypeDownloadTimeout
<1>2. pure[d] = TRUE /\ Link(down[d].last, wanted[d], up[d], data[d])
  BY SessionFacts, PeerTypes
<1> HIDE DEF dn
<1>3. /\ Link(dn.last, wanted[d], up[d], data[d])
      /\ \A i \in 1 .. MaxConn :
           Mine(i, d) => Serving(slots[i], dn.last, wanted[d], up[d], data[d])
  BY <1>1, <1>2, OwnSlot
<1>4. Moves(d, dn, wanted[d], TRUE, up[d], data[d])
  BY <1>1, <1>2
<1> QED
  BY <1>1, <1>3, <1>4, SessionData

\* The steps that leave tables, streams and channels alone.
LEMMA IdleServed ==
    ASSUME SessionInv, TypeInv', Loop', UNCHANGED <<slots, down, wanted, pure, up, data>>
    PROVE  SessionInv'
<1>1. \A d \in Downloaders : Served(d)'
  BY DEF SessionInv, Served, Mine
<1> QED
  BY <1>1 DEF SessionInv

\* With nothing to send, a slot waits for an ACK: an empty queue leaves room in
\* the window, and packets to send.
LEMMA SessionSendNothing ==
    ASSUME SessionInv, NEW d \in Downloaders, SendNothing(d)
    PROVE  SessionInv' /\ UNCHANGED slots
<1> DEFINE u == slots[turn].u
<1>1. /\ TypeInv' /\ UNCHANGED <<down, wanted, pure, up, data>>
      /\ slots[IndexOf(d)].u.queue # << >> => UNCHANGED slots
  BY SessionFacts, TypeSendNothing
<1>2. /\ slots[turn].u.active /\ slots[turn].peer = d /\ pc = "send" /\ NextTurn
      /\ ~RoomToSend(d)
  BY DEF SendNothing
<1>3. turn \in 1 .. MaxConn /\ Mine(turn, d)
  BY <1>2, SessionFacts, TableTypes DEF Mine
<1>4. /\ IndexOf(d) = turn /\ u \in Slots /\ slots[turn].cc \in Rows /\ Window(u) /\ u.active
      /\ Serving(slots[turn], down[d].last, wanted[d], up[d], data[d])
  BY <1>3, OwnSlot
<1>5. ~(u.size < slots[turn].cc.cwnd /\ u.tail < N)
  BY <1>2, <1>4 DEF RoomToSend
<1>6. /\ Acked(u) = u.lastAck /\ u.lastAck < N /\ u.lastAck \in Nat /\ u.tail \in Nat
      /\ slots[turn].cc.cwnd > 0 /\ u.size = Len(u.queue) /\ Len(u.queue) \in Nat
      /\ slots[turn].cc.cwnd \in Nat
  BY <1>4, SlotTypes, SizesAssumption DEF Serving, Opened, Window, Rows
<1>7. u.queue # << >>
  <2> SUFFICES ASSUME u.queue = << >>
               PROVE  FALSE
    OBVIOUS
  <2>1. Len(u.queue) = 0
    OBVIOUS
  <2>2. u.tail = u.lastAck
    BY <1>6, <2>1 DEF Acked
  <2> QED
    BY <1>5, <1>6, <2>1, <2>2, SizesAssumption
<1>8. UNCHANGED slots
  BY <1>1, <1>4, <1>7
<1>9. OneChanged(slots, slots', turn) /\ (slots'[turn].u.active => slots'[turn].u.queue # << >>)
  BY <1>7, <1>8 DEF OneChanged
<1>10. Loop'
  BY <1>2, <1>9, LoopGoesOn
<1> QED
  BY <1>1, <1>8, <1>10, IdleServed

\* The other steps of the loop that neither send nor receive.
LEMMA SessionIdle ==
    ASSUME SessionInv, PollNothing \/ SkipFree \/ KeepUploads
    PROVE  SessionInv'
<1>1. TypeInv /\ TypeInv' /\ UNCHANGED <<slots, down, wanted, pure, up, data>>
  <2>1. TypeInv
    BY DEF SessionInv
  <2> QED
    BY <2>1, TypeIdle
<1>2. CASE PollNothing
  <2>1. turn = 1 /\ turn' = turn /\ pc' = "send"
    BY <1>2 DEF PollNothing, SessionInv, Loop
  <2>2. Loop'
    BY <1>1, <2>1, LoopSends
  <2> QED
    BY <1>1, <2>2, IdleServed
<1>3. CASE SkipFree
  <2>1. /\ pc = "send" /\ NextTurn /\ OneChanged(slots, slots', turn)
        /\ slots'[turn].u.active => slots'[turn].u.queue # << >>
    BY <1>3 DEF SkipFree, OneChanged
  <2>2. Loop'
    BY <2>1, LoopGoesOn
  <2> QED
    BY <1>1, <2>2, IdleServed
<1>4. CASE KeepUploads
  <2>1. Loop'
    BY <1>4 DEF KeepUploads, SessionInv, Loop
  <2> QED
    BY <1>1, <2>1, IdleServed
<1> QED
  BY <1>2, <1>3, <1>4

\* clean_upload_timeout closes the slot it has found silent, the only one of its
\* peer.
LEMMA SessionUploadTimeout ==
    ASSUME SessionInv, NEW i \in 1 .. MaxConn, UploadTimeout(i)
    PROVE  SessionInv'
<1> DEFINE d == slots[i].peer
           m == Lowest(Of(slots, d))
<1>1. /\ TypeInv /\ TypeInv' /\ d \in Downloaders
      /\ Moves(d, down[d], wanted[d], pure[d], up[d], data[d])
      /\ ~slots'[m].u.active /\ OneChanged(slots, slots', m)
      /\ slots[m].peer = d
  <2>1. TypeInv
    BY DEF SessionInv
  <2> QED
    BY <2>1, TypeUploadTimeout
<1>2. Mine(i, d) /\ pc = "clean" /\ pc' = "poll" /\ turn' = turn
  BY DEF UploadTimeout, Dead, Mine
<1>3. m = i /\ \A j \in 1 .. MaxConn : Mine(j, d) => j = i
  BY <1>1, <1>2, OwnSlot
<1> HIDE DEF d, m
<1>4. /\ ~slots'[i].u.active
      /\ \A j \in 1 .. MaxConn : j # i => slots'[j] = slots[j] /\ ~Mine(j, d)
  BY <1>1, <1>3 DEF OneChanged
<1>5. Loop'
  BY <1>2, <1>4 DEF SessionInv, Loop
<1>6. SlotsOf(d) /\ NewServing(d, down[d].last, wanted[d], up[d], data[d])
  <2>1. slots[i].peer = d
    BY DEF d
  <2> QED
    BY <1>4, <2>1 DEF SlotsOf, NewServing, Mine
<1>7. pure[d] = TRUE /\ Link(down[d].last, wanted[d], up[d], data[d])
  BY <1>1, SessionFacts, PeerTypes
<1>8. pure'[d]
  BY <1>1, <1>7 DEF Moves
<1> QED
  BY <1>1, <1>5, <1>6, <1>7, <1>8, ServedAfter

LEMMA SessionInit == Init => SessionInv
<1> SUFFICES ASSUME Init
             PROVE  SessionInv
  OBVIOUS
<1>1. TypeInv /\ Loop
  BY InitFacts DEF Loop
<1>2. ASSUME NEW d \in Downloaders
      PROVE  Served(d)
  <2>1. /\ down[d].last = 0 /\ wanted[d] = 1 /\ pure[d] /\ up[d] = <<Get(1)>> /\ data[d] = << >>
        /\ \A i \in 1 .. MaxConn : ~Mine(i, d)
    BY InitFacts DEF Mine
  <2>2. Link(0, 1, <<Get(1)>>, << >>)
    BY PacketFields DEF Link, NextGet, OldData, FirstAlone
  <2> QED
    BY <2>1, <2>2 DEF Served
<1> QED
  BY <1>1, <1>2 DEF SessionInv

LEMMA SessionStep ==
    ASSUME Reliable, SessionInv, [Next]_vars
    PROVE  SessionInv'
<1>1. CASE UNCHANGED vars
  <2>1. UNCHANGED <<slots, down, wanted, pure, up, data, pc, turn>>
    BY <1>1 DEF vars
  <2>2. TypeInv'
    BY TypeStep DEF SessionInv
  <2> QED
    BY <2>1, <2>2, LoopStays, IdleServed
<1>2. CASE PollNothing \/ SkipFree \/ KeepUploads
  BY <1>2, SessionIdle
<1>3. ASSUME NEW i \in 1 .. MaxConn, UploadTimeout(i)
      PROVE  SessionInv'
  BY <1>3, SessionUploadTimeout
<1>4. ASSUME NEW d \in Downloaders,
             \/ ReceiveGet(d) \/ ReceiveAckOf(d)
             \/ Retransmit(d) \/ EarlyRetransmit(d) \/ SendNew(d) \/ SendNothing(d)
             \/ IgnoreData(d) \/ ReceiveData(d) \/ DownloadTimeout(d)
             \/ LoseUp(d) \/ LoseData(d)
      PROVE  SessionInv'
  <2>1. CASE ReceiveGet(d)
    BY <2>1, SessionReceiveGet
  <2>2. CASE ReceiveAckOf(d)
    BY <2>2, SessionReceiveAck
  <2>3. CASE Retransmit(d) \/ EarlyRetransmit(d)
    BY <2>3, SessionRetransmit
  <2>4. CASE SendNew(d)
    BY <2>4, SessionSendNew
  <2>5. CASE SendNothing(d)
    BY <2>5, SessionSendNothing
  <2>6. CASE IgnoreData(d) \/ LoseData(d)
    BY <2>6, SessionLoseData
  <2>7. CASE ReceiveData(d)
    BY <2>7, SessionOldData, SessionNewData
  <2>8. CASE DownloadTimeout(d)
    BY <2>8, SessionDownloadTimeout
  <2>9. CASE LoseUp(d)
    BY <2>9, SessionLoseUp
  <2> QED
    BY <1>4, <2>1, <2>2, <2>3, <2>4, <2>5, <2>6, <2>7, <2>8, <2>9
<1> QED
  BY <1>1, <1>2, <1>3, <1>4 DEF Next

\* Where chunks have several packets and the ACKs of a downloader that goes on to
\* another chunk arrive, no peer ever has two upload slots, and every open slot's
\* window has been set: the last ACK closes the slot before the next GET opens one
\* (keep_track.c:200, congestion_control.c:67).
THEOREM OneSlotEach ==
    ASSUME Reliable
    PROVE  Spec => []OneSlotPerPeer
<1>1. ASSUME SessionInv
      PROVE  OneSlotPerPeer
  <2> SUFFICES ASSUME NEW i \in DOMAIN slots, slots[i].u.active
               PROVE  Of(slots, slots[i].peer) = {i} /\ slots[i].cc.cwnd > 0
    BY DEF OneSlotPerPeer
  <2>1. slots \in Tables /\ i \in 1 .. MaxConn
    BY <1>1, TableTypes DEF SessionInv, Sound, Tables
  <2>2. slots[i].peer \in Downloaders
    BY <2>1, EntryFields
  <2>3. Mine(i, slots[i].peer)
    BY DEF Mine
  <2>4. /\ Of(slots, slots[i].peer) = {i}
        /\ Serving(slots[i], down[slots[i].peer].last, wanted[slots[i].peer],
                   up[slots[i].peer], data[slots[i].peer])
    BY <1>1, <2>1, <2>2, <2>3, OwnSlot
  <2> QED
    BY <2>4 DEF Serving, Opened
<1> QED
  BY <1>1, SessionInit, SessionStep, PTL DEF Spec

\* Under the same hypotheses what a downloader saves is of the chunk it fetches:
\* packets of an earlier chunk that are still under way, or sent again, are not the
\* ones its new stream waits for (peer.c:175, network.c:302).
THEOREM ChunksStayApart ==
    ASSUME Reliable
    PROVE  Spec => []ChunksNotMixed
<1>1. SessionInv => ChunksNotMixed
  BY DEF SessionInv, Served, ChunksNotMixed
<1> QED
  BY <1>1, SessionInit, SessionStep, PTL DEF Spec

\* Under the same hypotheses receive_ack never ends the uploader's process: no ACK
\* of one chunk reaches the slot of another, and ACKs never go back
\* (keep_track.c:315-319).
THEOREM UploaderStays ==
    ASSUME Reliable
    PROVE  Spec => []UploaderSurvives
<1>1. SessionInv => UploaderSurvives
  BY DEF SessionInv, Loop, UploaderSurvives
<1> QED
  BY <1>1, SessionInit, SessionStep, PTL DEF Spec

-------------------------------------------------------------------------------
(* The promise of SerialDelivery.                                            *)

\* A stream that has all its packets has its chunk, or its buffer has been overrun.
Ending(n) == Marked(n) /\ (n.last = N => n.chunk = "OWNED" \/ n.overrun)

\* Upload u to a downloader that has come to stream n of chunk w is of no later
\* chunk, and of one the downloader has when it was closed by its last ACK.
Finished(u, w, n) ==
    /\ u.chunk <= w
    /\ ~u.open /\ u.acked = N =>
         \/ u.chunk < w
         \/ u.chunk = w /\ (n.chunk = "OWNED" \/ n.overrun)

SerialInv == /\ SessionInv
             /\ \A d \in Downloaders : Ending(down[d])
             /\ \A i \in 1 .. MaxConn :
                  Finished(Upload(slots[i]), wanted[slots[i].peer], down[slots[i].peer])

LEMMA UploadFields ==
    /\ \A s : /\ Upload(s).open = s.u.active /\ Upload(s).to = s.peer
              /\ Upload(s).chunk = s.chunk /\ Upload(s).acked = s.u.lastAck
    /\ \A s, t : s.u.active = t.u.active /\ s.peer = t.peer /\ s.chunk = t.chunk
                 /\ s.u.lastAck = t.u.lastAck => Upload(s) = Upload(t)
BY DEF Upload

\* Steps that leave the abstract variables alone.
LEMMA SerialStutter ==
    ASSUME TypeInv, TypeInv',
           \A e \in Downloaders : wanted'[e] = wanted[e] /\ down'[e].last = down[e].last,
           \A i \in 1 .. MaxConn : Upload(slots'[i]) = Upload(slots[i])
    PROVE  UNCHANGED Serial!vars
<1>1. wanted' = wanted
  BY DEF TypeInv, TypeOK
<1> QED
  BY <1>1 DEF Serial!vars

\* A step of one downloader, which never goes back, and of one slot at most.
LEMMA SerialKept ==
    ASSUME SerialInv, SessionInv', NEW d \in Downloaders,
           NEW dn, NEW w \in Nat, NEW U, NEW D, NEW b, Moves(d, dn, w, b, U, D),
           Ending(dn), wanted[d] <= w,
           w = wanted[d] => /\ down[d].chunk = "OWNED" => dn.chunk = "OWNED"
                            /\ down[d].overrun => dn.overrun,
           \A i \in 1 .. MaxConn : \/ Upload(slots'[i]) = Upload(slots[i])
                                   \/ Finished(Upload(slots'[i]), wanted'[slots'[i].peer],
                                               down'[slots'[i].peer])
    PROVE  SerialInv'
<1>1. \A e \in Downloaders : Ending(down'[e])
  BY DEF SerialInv, Moves
<1>2. ASSUME NEW i \in 1 .. MaxConn, Upload(slots'[i]) = Upload(slots[i])
      PROVE  Finished(Upload(slots'[i]), wanted'[slots'[i].peer], down'[slots'[i].peer])
  <2> DEFINE p == slots[i].peer
             u == Upload(slots[i])
  <2>1. TypeInv /\ slots[i].chunk \in Nat /\ p \in Downloaders /\ wanted[p] \in Nat
    <3>1. TypeInv /\ slots \in Tables
      BY TableTypes DEF SerialInv, SessionInv, Sound
    <3>2. slots[i].chunk \in Nat /\ p \in Downloaders
      BY <3>1, EntryFields
    <3> QED
      BY <3>1, <3>2, PeerTypes
  <2>2. slots'[i].peer = p /\ u.chunk \in Nat
    BY <1>2, <2>1, UploadFields
  <2>3. Finished(u, wanted[p], down[p])
    BY DEF SerialInv
  <2> HIDE DEF p, u
  <2>4. CASE p = d
    <3>1. wanted'[p] = w /\ down'[p] = dn /\ wanted[p] <= w
      BY <2>4 DEF Moves
    <3>2. Finished(u, w, dn)
      BY <2>1, <2>2, <2>3, <2>4, <3>1 DEF Finished
    <3> QED
      BY <1>2, <2>2, <3>1, <3>2 DEF u
  <2>5. CASE p # d
    BY <1>2, <2>1, <2>2, <2>3, <2>5 DEF Moves, u
  <2> QED
    BY <2>4, <2>5
<1> QED
  BY <1>1, <1>2 DEF SerialInv

\* Steps that change neither a stream nor what an upload is about.
LEMMA SerialSame ==
    ASSUME SerialInv, SessionInv',
           \A e \in Downloaders : wanted'[e] = wanted[e] /\ down'[e] = down[e],
           \A i \in 1 .. MaxConn : Upload(slots'[i]) = Upload(slots[i])
    PROVE  SerialInv' /\ UNCHANGED Serial!vars
<1>1. TypeInv /\ TypeInv' /\ slots \in Tables
  BY TableTypes DEF SerialInv, SessionInv, Sound
<1>2. UNCHANGED Serial!vars
  BY <1>1, SerialStutter
<1>3. ASSUME NEW i \in 1 .. MaxConn
      PROVE  Finished(Upload(slots'[i]), wanted'[slots'[i].peer], down'[slots'[i].peer])
  <2>1. slots'[i].peer = slots[i].peer /\ slots[i].peer \in Downloaders
    BY <1>1, UploadFields, EntryFields
  <2> QED
    BY <2>1 DEF SerialInv
<1> QED
  BY <1>2, <1>3 DEF SerialInv

\* Function f of the slots' uploads after a step that has changed slot i alone.
LEMMA UploadsPut ==
    ASSUME NEW i \in 1 .. MaxConn, OneChanged(slots, slots', i),
           NEW u, Upload(slots'[i]) = u
    PROVE  [j \in 1 .. MaxConn |-> Upload(slots'[j])]
             = [[j \in 1 .. MaxConn |-> Upload(slots[j])] EXCEPT ![i] = u]
BY DEF OneChanged

\* The invariant's parts for one downloader and its slot.
LEMMA SerialFacts ==
    ASSUME SerialInv
    PROVE  /\ SessionInv /\ TypeInv /\ Sound(slots) /\ slots \in Tables
           /\ \A d \in Downloaders : Ending(down[d])
           /\ \A i \in 1 .. MaxConn :
                /\ slots[i].peer \in Downloaders /\ slots[i].chunk \in Nat
                /\ Finished(Upload(slots[i]), wanted[slots[i].peer], down[slots[i].peer])
<1>1. SessionInv /\ TypeInv /\ Sound(slots) /\ slots \in Tables
  BY TableTypes DEF SerialInv, SessionInv, Sound
<1> QED
  BY <1>1, EntryFields DEF SerialInv

\* A GET that finds a free slot is Open.
LEMMA SerialReceiveGet ==
    ASSUME SerialInv, SessionInv', NEW d \in Downloaders, ReceiveGet(d)
    PROVE  SerialInv' /\ [Serial!Next]_(Serial!vars)
<1> DEFINE w == wanted[d]
           c == Head(up[d]).chunk
<1>1. /\ Moves(d, down[d], w, pure[d], Tail(up[d]), data[d])
      /\ Taken(up[d], Tail(up[d])) /\ FirstGet(up[d], c) /\ c \in Nat
      /\ slots' = StartSlot(slots, d, c) /\ UNCHANGED <<down, wanted>>
  BY SerialFacts, TypeReceiveGet DEF ReceiveGet
<1>2. Link(down[d].last, w, up[d], data[d])
  BY SerialFacts, SessionFacts
<1>3. c = w /\ down[d].last = 0
  BY <1>1, <1>2 DEF Link, NextGet, FirstGet, Taken
<1>4. \A i \in 1 .. MaxConn : ~Mine(i, d)
  <2>1. Len(up[d]) > 0 /\ up[d][1].kind # "ack"
    BY <1>1 DEF Taken, FirstGet
  <2> QED
    BY <2>1, SerialFacts, OwnSlot DEF Serving, Closing
<1>5. Of(slots, d) = {}
  BY <1>4, NoSlot, SerialFacts
<1> HIDE DEF w, c
<1>6. CASE slots' = slots
  BY <1>1, <1>6, SerialSame
<1>7. ASSUME NEW i \in 1 .. MaxConn, ~slots[i].u.active, OneChanged(slots, slots', i),
             slots'[i].u = StartUpload(slots[i].u), slots'[i].peer = d, slots'[i].chunk = c
      PROVE  SerialInv' /\ Serial!Open(i, d)
  <2> DEFINE u == [open |-> TRUE, to |-> d, chunk |-> w, acked |-> 0]
  <2>1. slots[i].u \in Slots /\ Window(slots[i].u)
    BY SerialFacts, EntryFields DEF Sound
  <2>2. slots'[i].u.active = TRUE /\ slots'[i].u.lastAck = 0
    <3>1. slots'[i].u \in Slots /\ slots'[i].u.active /\ slots'[i].u.lastAck = 0
      BY <1>7, <2>1, StartUploadWindow
    <3> QED
      BY <3>1, SlotTypes
  <2>3. Upload(slots'[i]) = u
    BY <1>3, <1>7, <2>2 DEF Upload
  <2>4. [j \in 1 .. MaxConn |-> Upload(slots'[j])]
          = [[j \in 1 .. MaxConn |-> Upload(slots[j])] EXCEPT ![i] = u]
    BY <1>7, <2>3, UploadsPut
  <2>5. ~Upload(slots[i]).open /\ \A j \in 1 .. MaxConn : Upload(slots[j]).open => Upload(slots[j]).to # d
    BY <1>4, <1>7, UploadFields DEF Mine
  <2>6. Serial!Open(i, d)
    BY <1>1, <1>3, <2>4, <2>5 DEF Serial!Open, w
  <2>7. Finished(Upload(slots'[i]), wanted'[slots'[i].peer], down'[slots'[i].peer])
    <3>1. w \in Nat
      BY SerialFacts, PeerTypes DEF w
    <3> QED
      BY <1>1, <1>7, <2>3, <3>1 DEF Finished, w
  <2>8. \A j \in 1 .. MaxConn : \/ Upload(slots'[j]) = Upload(slots[j])
                                \/ Finished(Upload(slots'[j]), wanted'[slots'[j].peer],
                                            down'[slots'[j].peer])
    BY <1>7, <2>7 DEF OneChanged
  <2>9. SerialInv'
    <3>1. w \in Nat /\ w <= w /\ Ending(down[d])
      BY SerialFacts, PeerTypes DEF w
    <3> QED
      BY <1>1, <2>8, <3>1, SerialKept DEF w
  <2> QED
    BY <2>6, <2>9
<1> QED
  BY <1>1, <1>5, <1>6, <1>7, SerialFacts, StartedSlot DEF Serial!Next

\* An upload of which the uploader has learnt.
LEMMA LearntUpload ==
    ASSUME NEW s, NEW ack, NEW o
    PROVE  [Upload(s) EXCEPT !.acked = ack, !.open = o]
             = [open |-> o, to |-> s.peer, chunk |-> s.chunk, acked |-> ack]
<1> DEFINE r == Upload(s)
           t == [r EXCEPT !.acked = ack, !.open = o]
           R == [open : {s.u.active, o}, to : {s.peer}, chunk : {s.chunk},
                 acked : {s.u.lastAck, ack}]
<1>1. r \in R
  BY DEF Upload
<1>2. t \in R /\ t.open = o /\ t.acked = ack
  <2> HIDE DEF r
  <2> QED
    BY <1>1
<1>3. t = [open |-> o, to |-> s.peer, chunk |-> s.chunk, acked |-> ack]
  <2> HIDE DEF t
  <2> QED
    BY <1>2
<1> QED
  BY <1>3

\* An upload that has been closed.
LEMMA ClosedUpload ==
    ASSUME NEW s
    PROVE  [Upload(s) EXCEPT !.open = FALSE]
             = [open |-> FALSE, to |-> s.peer, chunk |-> s.chunk, acked |-> s.u.lastAck]
<1> DEFINE r == Upload(s)
           t == [r EXCEPT !.open = FALSE]
           R == [open : {s.u.active, FALSE}, to : {s.peer}, chunk : {s.chunk},
                 acked : {s.u.lastAck}]
<1>1. r \in R
  BY DEF Upload
<1>2. t \in R /\ t.open = FALSE
  <2> HIDE DEF r
  <2> QED
    BY <1>1
<1>3. t = [open |-> FALSE, to |-> s.peer, chunk |-> s.chunk, acked |-> s.u.lastAck]
  <2> HIDE DEF t
  <2> QED
    BY <1>2
<1> QED
  BY <1>3

\* An ACK that finds its slot is Learn: it says no more than its downloader has
\* received, and the last one closes an upload whose chunk the downloader has.
LEMMA SerialReceiveAck ==
    ASSUME SerialInv, SessionInv', NEW d \in Downloaders, ReceiveAckOf(d)
    PROVE  SerialInv' /\ [Serial!Next]_(Serial!vars)
<1> DEFINE ack == Head(up[d]).ack
           w == wanted[d]
           last == down[d].last
<1>1. /\ Moves(d, down[d], w, pure[d], Tail(up[d]), data[d])
      /\ Taken(up[d], Tail(up[d])) /\ FirstAck(up[d], ack) /\ ack \in SeqNumbers
      /\ UNCHANGED <<down, wanted>> /\ pc = "poll"
      /\ IF Fatal(slots, d, ack) THEN pc' = "exited" /\ UNCHANGED slots
         ELSE pc' = "send" /\ slots' = AckSlot(slots, d, ack)
  BY SerialFacts, TypeReceiveAckOf DEF ReceiveAckOf
<1>2. slots' = AckSlot(slots, d, ack)
  BY <1>1 DEF SessionInv, Loop
<1>3. /\ w \in Nat /\ last \in 0 .. N /\ Ending(down[d]) /\ ack \in 0 .. N
      /\ ack \in Nat /\ last \in Nat /\ N \in Nat
  BY <1>1, SerialFacts, PeerTypes, SizesAssumption DEF SeqNumbers
<1> HIDE DEF ack, w, last
<1>4. CASE Of(slots, d) = {}
  <2>1. slots' = slots
    BY <1>2, <1>4 DEF AckSlot
  <2> QED
    BY <1>1, <2>1, SerialSame
<1>5. CASE Of(slots, d) # {}
  <2> DEFINE i == Lowest(Of(slots, d))
             s == slots[i]
             u == [open |-> ack # N, to |-> d, chunk |-> s.chunk, acked |-> ack]
  <2>1. /\ i \in 1 .. MaxConn /\ OneChanged(slots, slots', i)
        /\ s.peer = d /\ slots'[i].peer = d /\ slots'[i].chunk = s.chunk
        /\ slots'[i].u.lastAck = ack /\ (slots'[i].u.active <=> ack # N)
        /\ slots'[i].u \in Slots
    <3>1. /\ i \in 1 .. MaxConn /\ OneChanged(slots, slots', i)
          /\ s.peer = d /\ slots'[i].peer = d /\ slots'[i].chunk = s.chunk
          /\ slots'[i].u.lastAck = ack /\ (slots'[i].u.active <=> ack # N)
          /\ Sound(slots')
      BY <1>1, <1>2, <1>5, SerialFacts, AckedSlot
    <3> HIDE DEF i
    <3> QED
      BY <3>1, EntryFields DEF Sound
  <2>2. s.u.active
    BY <1>5, SerialFacts, FoundSlot
  <2> HIDE DEF i
  <2>3. /\ Serving(s, last, w, up[d], data[d]) /\ s.u \in Slots /\ s.u.lastAck \in Nat
        /\ s.chunk \in Nat
    <3>1. Mine(i, d)
      BY <2>1, <2>2 DEF Mine
    <3>2. Serving(s, last, w, up[d], data[d]) /\ s.u \in Slots
      BY <2>1, <3>1, SerialFacts, OwnSlot DEF last, w
    <3> QED
      BY <2>1, <3>2, SerialFacts, SlotTypes, SizesAssumption DEF SeqNumbers
  <2>4. up[d][1].kind = "ack" /\ up[d][1].ack = ack /\ 1 \in 1 .. Len(up[d])
    BY <1>1 DEF FirstAck, Taken
  <2>5. s.u.lastAck <= ack /\ s.u.lastAck # N
    <3>1. s.u.lastAck <= ack
      BY <2>3, <2>4 DEF Serving, Climbing
    <3> QED
      BY <2>3, <3>1, <1>3 DEF Serving, Opened
  <2>6. s.chunk < w \/ (s.chunk = w /\ ack <= last)
    <3>1. CASE Pending(up[d])
      <4>1. s.chunk # w
        BY <2>3, <3>1 DEF Serving, Closing
      <4>2. s.chunk <= w
        BY <2>1, SerialFacts, UploadFields DEF Finished, w
      <4> QED
        BY <1>3, <2>3, <4>1, <4>2
    <3>2. CASE ~Pending(up[d])
      BY <2>3, <2>4, <3>2 DEF Serving, Fetching
    <3> QED
      BY <3>1, <3>2
  <2>7. Upload(slots'[i]) = u
    <3>1. slots'[i].u.active = (ack # N)
      BY <2>1, SlotTypes
    <3> QED
      BY <2>1, <3>1 DEF Upload
  <2>8. [j \in 1 .. MaxConn |-> Upload(slots'[j])]
          = [[j \in 1 .. MaxConn |-> Upload(slots[j])] EXCEPT ![i] = u]
    BY <2>1, <2>7, UploadsPut
  <2>9. Serial!Next
    <3> DEFINE F == [j \in 1 .. MaxConn |-> Upload(slots[j])]
               G == [e \in Downloaders |-> down[e].last]
               a0 == Upload(s).acked
    <3>1. /\ F[i] = Upload(s) /\ Upload(s).open /\ a0 = s.u.lastAck
          /\ Upload(s).chunk = s.chunk /\ Upload(s).to = d /\ G[d] = last
      BY <2>1, <2>2, UploadFields DEF last
    <3>2. [F EXCEPT ![i].acked = ack, ![i].open = ack # N] = [F EXCEPT ![i] = u]
      <4>1. i \in DOMAIN F /\ F = [j \in DOMAIN F |-> F[j]]
        BY <2>1
      <4>2. PICK o : o = (ack # N)
        OBVIOUS
      <4>3. [Upload(s) EXCEPT !.acked = ack, !.open = o]
              = [open |-> o, to |-> s.peer, chunk |-> s.chunk, acked |-> ack]
        BY LearntUpload
      <4>4. [F[i] EXCEPT !.acked = ack, !.open = ack # N] = u
        <5> HIDE DEF F, s
        <5> QED
          BY <2>1, <3>1, <4>2, <4>3, Zenon
      <4> HIDE DEF F, s, u
      <4> QED
        BY <4>1, <4>4
    <3>3. ack \in a0 .. (IF Upload(s).chunk < w THEN N ELSE last)
      BY <1>3, <2>3, <2>5, <2>6, <3>1
    <3>4. Serial!Received(F[i]) = (IF Upload(s).chunk < w THEN N ELSE last)
      BY <3>1 DEF Serial!Received, w
    <3>5. Serial!Learn(i)
      <4>1. [j \in 1 .. MaxConn |-> Upload(slots'[j])]
              = [F EXCEPT ![i].acked = ack, ![i].open = ack # N]
        BY <2>8, <3>2
      <4>2. F[i].open /\ ack \in F[i].acked .. Serial!Received(F[i])
        BY <3>1, <3>3, <3>4
      <4> HIDE DEF u
      <4> QED
        BY <1>1, <4>1, <4>2 DEF Serial!Learn
    <3> QED
      BY <2>1, <3>5 DEF Serial!Next
  <2>10. Finished(Upload(slots'[i]), wanted'[slots'[i].peer], down'[slots'[i].peer])
    <3>1. /\ u.chunk = s.chunk /\ u.acked = ack /\ u.open = (ack # N)
          /\ wanted'[slots'[i].peer] = w /\ down'[slots'[i].peer] = down[d]
      BY <1>1, <2>1 DEF w
    <3>2. ack = N /\ ack <= last => down[d].chunk = "OWNED" \/ down[d].overrun
      BY <1>3 DEF Ending, last
    <3> HIDE DEF u
    <3>3. Finished(u, w, down[d])
      BY <1>3, <2>3, <2>6, <3>1, <3>2 DEF Finished
    <3> QED
      BY <2>7, <3>1, <3>3
  <2>11. SerialInv'
    <3>1. \A j \in 1 .. MaxConn : \/ Upload(slots'[j]) = Upload(slots[j])
                                  \/ Finished(Upload(slots'[j]), wanted'[slots'[j].peer],
                                              down'[slots'[j].peer])
      BY <2>1, <2>10 DEF OneChanged
    <3>2. w <= w
      BY <1>3
    <3> QED
      BY <1>1, <1>3, <3>1, <3>2, SerialKept DEF w
  <2> QED
    BY <2>9, <2>11
<1> QED
  BY <1>4, <1>5

\* clean_upload_timeout is Abandon.
LEMMA SerialUploadTimeout ==
    ASSUME SerialInv, SessionInv', NEW k \in 1 .. MaxConn, UploadTimeout(k)
    PROVE  SerialInv' /\ [Serial!Next]_(Serial!vars)
<1> DEFINE d == slots[k].peer
           i == Lowest(Of(slots, d))
           s == slots[i]
           u == [open |-> FALSE, to |-> d, chunk |-> s.chunk, acked |-> s.u.lastAck]
<1>1. /\ d \in Downloaders /\ Moves(d, down[d], wanted[d], pure[d], up[d], data[d])
      /\ i \in 1 .. MaxConn /\ s.u.active /\ s.peer = d
      /\ ~slots'[i].u.active /\ OneChanged(slots, slots', i)
      /\ slots'[i].peer = d /\ slots'[i].chunk = s.chunk
      /\ slots'[i].u.lastAck = s.u.lastAck
      /\ UNCHANGED <<down, wanted>>
  BY SerialFacts, TypeUploadTimeout DEF UploadTimeout
<1> HIDE DEF d, i
<1>2. s.u.lastAck < N /\ s.u.lastAck \in Nat
  <2>1. Mine(i, d)
    BY <1>1 DEF Mine
  <2>2. Serving(s, down[d].last, wanted[d], up[d], data[d]) /\ s.u \in Slots
    BY <1>1, <2>1, SerialFacts, OwnSlot
  <2> QED
    BY <2>2, SlotTypes, SizesAssumption DEF Serving, Opened, SeqNumbers
<1>3. Upload(slots'[i]) = u
  <2>1. slots'[i].u.active = FALSE
    <3>1. slots'[i].u \in Slots
      BY <1>1, EntryFields, TableTypes DEF SessionInv, TypeInv, TypeOK, Slots
    <3> QED
      BY <1>1, <3>1, SlotTypes
  <2> QED
    BY <1>1, <2>1 DEF Upload
<1>4. Serial!Abandon(i)
  <2> DEFINE F == [j \in 1 .. MaxConn |-> Upload(slots[j])]
  <2>1. F[i] = Upload(s) /\ Upload(s).open /\ Upload(s).acked # N
    BY <1>1, <1>2, UploadFields, SizesAssumption
  <2>2. [j \in 1 .. MaxConn |-> Upload(slots'[j])] = [F EXCEPT ![i] = u]
    BY <1>1, <1>3, UploadsPut
  <2>3. [Upload(s) EXCEPT !.open = FALSE] = u
    <3>1. [Upload(s) EXCEPT !.open = FALSE]
            = [open |-> FALSE, to |-> s.peer, chunk |-> s.chunk, acked |-> s.u.lastAck]
      BY ClosedUpload
    <3> QED
      BY <1>1, <3>1
  <2>4. [F EXCEPT ![i].open = FALSE] = [F EXCEPT ![i] = u]
    <3>1. i \in DOMAIN F /\ F = [j \in DOMAIN F |-> F[j]]
      BY <1>1
    <3>2. [F[i] EXCEPT !.open = FALSE] = u
      BY <2>1, <2>3
    <3> HIDE DEF F, s, u
    <3> QED
      BY <3>1, <3>2
  <2> HIDE DEF u
  <2> QED
    BY <1>1, <2>1, <2>2, <2>4 DEF Serial!Abandon
<1>5. SerialInv'
  <2>1. /\ wanted[d] \in Nat /\ Ending(down[d]) /\ s.chunk <= wanted[d]
    BY <1>1, SerialFacts, PeerTypes, UploadFields DEF Finished
  <2>2. Finished(Upload(slots'[i]), wanted'[slots'[i].peer], down'[slots'[i].peer])
    BY <1>1, <1>2, <1>3, <2>1, SizesAssumption DEF Finished
  <2>3. \A j \in 1 .. MaxConn : \/ Upload(slots'[j]) = Upload(slots[j])
                                \/ Finished(Upload(slots'[j]), wanted'[slots'[j].peer],
                                            down'[slots'[j].peer])
    BY <1>1, <2>2 DEF OneChanged
  <2> QED
    BY <1>1, <2>1, <2>3, SerialKept
<1> QED
  BY <1>1, <1>4, <1>5 DEF Serial!Next

\* DATA of an earlier chunk leaves the stream alone.
LEMMA OldDataIgnored ==
    ASSUME SessionInv, NEW d \in Downloaders, ReceiveData(d), Head(data[d]).chunk # wanted[d]
    PROVE  Result(d) = down[d] /\ ~GoesOn(d)
<1>1. /\ TypeInv /\ Link(down[d].last, wanted[d], up[d], data[d])
      /\ data[d] # << >> /\ down[d].stream /\ Taken(data[d], Tail(data[d]))
  BY SessionFacts, TypeReceiveData
<1>2. Head(data[d]) = data[d][1] /\ Head(data[d]).seq \in 1 .. N /\ 1 \in 1 .. Len(data[d])
  BY <1>1, ResultFacts DEF Taken
<1>3. Head(data[d]).seq >= 2 /\ down[d].last = 0
  BY <1>1, <1>2 DEF Link, OldData
<1>4. Result(d) = down[d]
  BY <1>1, <1>2, <1>3, ResultFacts, SizesAssumption
<1> QED
  BY <1>1, <1>4 DEF GoesOn

\* A stream after a packet of its chunk.
LEMMA EndingData ==
    ASSUME SerialInv, NEW d \in Downloaders, ReceiveData(d), Head(data[d]).chunk = wanted[d]
    PROVE  /\ Ending(Result(d)) /\ down[d].chunk # "OWNED"
           /\ down[d].overrun => Result(d).overrun
<1> DEFINE n == Result(d)
           seq == Head(data[d]).seq
<1>1. /\ data[d] # << >> /\ down[d].stream /\ down[d] \in Streams /\ Buffer(down[d])
      /\ Ending(down[d]) /\ pure[d]
  BY SerialFacts, SessionFacts, PeerTypes, TypeReceiveData
<1>2. /\ seq \in Packets /\ n = DataStream(down[d], seq) /\ n \in Streams /\ Buffer(n)
      /\ ~n.stream => n.chunk = "OWNED"
  BY <1>1, SerialFacts, ResultFacts DEF Packets
<1> HIDE DEF n, seq
<1>3. Marked(n) /\ (down[d].overrun => n.overrun)
  BY <1>1, <1>2, DataStreamOverrun DEF Ending
<1>4. n.last = N => n.chunk = "OWNED" \/ n.overrun
  BY <1>2, <1>3, SizesAssumption DEF Buffer, Marked
<1> QED
  BY <1>1, <1>3, <1>4 DEF Ending, Buffer, n

\* The DATA handler is Receive, GoOn, or neither.
LEMMA SerialReceiveData ==
    ASSUME SerialInv, SessionInv', NEW d \in Downloaders, ReceiveData(d)
    PROVE  SerialInv' /\ [Serial!Next]_(Serial!vars)
<1> DEFINE w == wanted[d]
           last == down[d].last
           n == Result(d)
<1>1. /\ UNCHANGED slots /\ TypeInv /\ TypeInv'
      /\ ~GoesOn(d) => \E b : Moves(d, n, w, b, Acks(d), Tail(data[d]))
      /\ GoesOn(d) => \E V : Moves(d, StartDownload, NextChunk(d), TRUE, V, Tail(data[d]))
      /\ w \in Nat /\ last \in 0 .. N /\ Ending(down[d])
  <2>1. TypeInv /\ w \in Nat /\ last \in 0 .. N /\ Ending(down[d])
    BY SerialFacts, PeerTypes
  <2> QED
    BY <2>1, TypeReceiveData
<1>2. \A i \in 1 .. MaxConn : Upload(slots'[i]) = Upload(slots[i])
  BY <1>1
<1> HIDE DEF w, last, n
<1>3. CASE Head(data[d]).chunk # wanted[d]
  <2>1. n = down[d] /\ ~GoesOn(d)
    BY <1>3, SerialFacts, OldDataIgnored DEF n
  <2>2. \A e \in Downloaders : wanted'[e] = wanted[e] /\ down'[e] = down[e]
    BY <1>1, <2>1 DEF Moves, w
  <2> QED
    BY <1>2, <2>2, SerialSame
<1>4. CASE Head(data[d]).chunk = wanted[d] /\ ~GoesOn(d)
  <2>1. PICK b : Moves(d, n, w, b, Acks(d), Tail(data[d]))
    BY <1>1, <1>4
  <2>2. Ending(n) /\ down[d].chunk # "OWNED" /\ (down[d].overrun => n.overrun)
    BY <1>4, EndingData DEF n
  <2>3. SerialInv'
    <3>1. wanted[d] <= w
      BY <1>1 DEF w
    <3> QED
      BY <1>1, <1>2, <2>1, <2>2, <3>1, SerialKept
  <2>4. n.last = last \/ (last < N /\ n.last = last + 1)
    <3>1. data[d] # << >> /\ down[d].stream
      BY <1>1, TypeReceiveData
    <3> QED
      BY <1>1, <3>1, ResultFacts, SizesAssumption DEF n, last
  <2>5. CASE n.last = last
    <3>1. \A e \in Downloaders : wanted'[e] = wanted[e] /\ down'[e].last = down[e].last
      BY <2>1, <2>5 DEF Moves, w, last
    <3> QED
      BY <1>1, <1>2, <2>3, <3>1, SerialStutter
  <2>6. CASE last < N /\ n.last = last + 1
    <3>1. [e \in Downloaders |-> down'[e].last]
            = [[e \in Downloaders |-> down[e].last] EXCEPT ![d] = last + 1]
      BY <2>1, <2>6 DEF Moves
    <3>2. wanted' = wanted
      BY <1>1, <2>1 DEF Moves, TypeInv, TypeOK, w
    <3>3. Serial!Receive(d)
      BY <1>1, <2>6, <3>1, <3>2 DEF Serial!Receive, last
    <3> QED
      BY <2>3, <3>3 DEF Serial!Next
  <2> QED
    BY <2>4, <2>5, <2>6
<1>5. CASE Head(data[d]).chunk = wanted[d] /\ GoesOn(d)
  <2>1. /\ NextChunk(d) = w + 1 /\ w + 1 <= Wants[d] /\ last = N - 1
    <3>1. data[d] # << >> /\ down[d].stream /\ pure[d]
      BY <1>1, TypeReceiveData, SerialFacts, SessionFacts
    <3>2. Result(d).chunk = "OWNED" /\ last = N - 1
      BY <1>1, <1>5, <3>1, ResultFacts DEF GoesOn, last
    <3> QED
      BY <1>5, <3>2 DEF GoesOn, Fetches, NextChunk, w
  <2>2. PICK V : Moves(d, StartDownload, w + 1, TRUE, V, Tail(data[d]))
    BY <1>1, <1>5, <2>1
  <2>3. SerialInv'
    <3>1. Ending(StartDownload)
      BY PacketsInChunk, SizesAssumption DEF Ending, Marked, StartDownload
    <3>2. w + 1 \in Nat /\ wanted[d] <= w + 1 /\ w + 1 # wanted[d]
      BY <1>1 DEF w
    <3> QED
      BY <1>2, <2>2, <3>1, <3>2, SerialKept
  <2>4. [e \in Downloaders |-> down'[e].last]
          = [[e \in Downloaders |-> down[e].last] EXCEPT ![d] = 0]
    <3>1. StartDownload.last = 0
      BY DEF StartDownload
    <3>2. down'[d].last = 0 /\ \A e \in Downloaders : e # d => down'[e] = down[e]
      BY <2>2, <3>1 DEF Moves
    <3> QED
      BY <3>2
  <2>5. wanted' = [wanted EXCEPT ![d] = w + 1]
    BY <1>1, <2>2 DEF Moves, TypeInv, TypeOK
  <2>6. Serial!GoOn(d)
    <3>1. w < Wants[d]
      <4>1. Wants[d] \in Nat
        BY SessionAssumption
      <4> QED
        BY <1>1, <2>1, <4>1
    <3> QED
      BY <1>1, <2>1, <2>4, <2>5, <3>1 DEF Serial!GoOn, w, last
  <2> QED
    BY <2>3, <2>6 DEF Serial!Next
<1> QED
  BY <1>3, <1>4, <1>5

\* A stream given up has not come to its end, unless its buffer was overrun.
LEMMA SerialDownloadTimeout ==
    ASSUME SerialInv, SessionInv', NEW d \in Downloaders, DownloadTimeout(d)
    PROVE  SerialInv' /\ [Serial!Next]_(Serial!vars)
<1> DEFINE dn == CrashDownload(down[d])
<1>1. /\ TypeInv /\ TypeInv' /\ UNCHANGED slots /\ dn.last = down[d].last
      /\ Moves(d, dn, wanted[d], pure[d], up[d], data[d])
      /\ wanted[d] \in Nat
  BY SerialFacts, PeerTypes, TypeDownloadTimeout
<1>2. /\ down[d] \in Streams /\ down[d].stream /\ Buffer(down[d]) /\ Ending(down[d])
  BY SerialFacts, PeerTypes DEF DownloadTimeout
<1>3. dn.overrun = down[d].overrun /\ dn.bytes = 0
  BY <1>2 DEF CrashDownload, Streams
<1> HIDE DEF dn
<1>4. /\ down[d].chunk # "OWNED" /\ BT_CHUNK_SIZE \in Nat
      /\ down[d].last = N => down[d].overrun
  BY <1>2, PacketsInChunk DEF Buffer, Ending
<1>5. Ending(dn)
  BY <1>1, <1>3, <1>4 DEF Ending, Marked
<1>6. \A i \in 1 .. MaxConn : Upload(slots'[i]) = Upload(slots[i])
  BY <1>1
<1>7. SerialInv'
  <2>1. wanted[d] <= wanted[d]
    BY <1>1
  <2> QED
    BY <1>1, <1>3, <1>4, <1>5, <1>6, <2>1, SerialKept
<1>8. \A e \in Downloaders : wanted'[e] = wanted[e] /\ down'[e].last = down[e].last
  BY <1>1 DEF Moves
<1> QED
  BY <1>1, <1>6, <1>7, <1>8, SerialStutter

\* Every step of the session is a step of SerialDelivery or leaves it alone.
LEMMA SerialStep ==
    ASSUME Reliable, SerialInv, [Next]_vars
    PROVE  SerialInv' /\ [Serial!Next]_(Serial!vars)
<1>0. SessionInv /\ SessionInv' /\ TypeInv
  BY SessionStep, SerialFacts
<1>1. CASE UNCHANGED vars \/ PollNothing \/ SkipFree \/ KeepUploads
  BY <1>0, <1>1, SerialSame DEF vars, PollNothing, SkipFree, KeepUploads
<1>2. ASSUME NEW i \in 1 .. MaxConn, UploadTimeout(i)
      PROVE  SerialInv' /\ [Serial!Next]_(Serial!vars)
  BY <1>0, <1>2, SerialUploadTimeout
<1>3. ASSUME NEW d \in Downloaders,
             \/ ReceiveGet(d) \/ ReceiveAckOf(d)
             \/ Retransmit(d) \/ EarlyRetransmit(d) \/ SendNew(d) \/ SendNothing(d)
             \/ IgnoreData(d) \/ ReceiveData(d) \/ DownloadTimeout(d)
             \/ LoseUp(d) \/ LoseData(d)
      PROVE  SerialInv' /\ [Serial!Next]_(Serial!vars)
  <2>1. CASE ReceiveGet(d)
    BY <1>0, <2>1, SerialReceiveGet
  <2>2. CASE ReceiveAckOf(d)
    BY <1>0, <2>2, SerialReceiveAck
  <2>3. CASE Retransmit(d) \/ EarlyRetransmit(d) \/ SendNew(d)
    <3> DEFINE i == IndexOf(d)
    <3>1. slots[turn].u.active /\ slots[turn].peer = d /\ UNCHANGED <<down, wanted>>
      BY <2>3 DEF Retransmit, EarlyRetransmit, Resend, SendNew
    <3>2. /\ i \in 1 .. MaxConn /\ Of(slots, d) = {i} /\ slots[i].peer = d
          /\ slots[i].u \in Slots /\ Window(slots[i].u) /\ slots[i].u.active
      <4>1. turn \in 1 .. MaxConn /\ Mine(turn, d)
        BY <1>0, <3>1, TableTypes DEF Mine
      <4> QED
        BY <1>0, <4>1, OwnSlot
    <3>3. /\ OneChanged(slots, slots', i)
          /\ slots'[i].peer = slots[i].peer /\ slots'[i].chunk = slots[i].chunk
          /\ slots'[i].u.active = slots[i].u.active
          /\ slots'[i].u.lastAck = slots[i].u.lastAck
      <4>1. CASE Retransmit(d) \/ EarlyRetransmit(d)
        <5>1. /\ OneChanged(slots, slots', i) /\ slots'[i].peer = d
              /\ slots'[i].chunk = slots[i].chunk /\ slots'[i].u = Restamp(slots[i].u)
          BY <1>0, <3>2, <4>1, TypeRetransmit
        <5> HIDE DEF i
        <5> QED
          BY <3>2, <5>1, RestampWindow
      <4>2. CASE SendNew(d)
        <5>1. /\ OneChanged(slots, slots', i) /\ slots'[i].peer = d
              /\ slots'[i].chunk = slots[i].chunk
              /\ slots'[i].u = WaitAck(slots[i].u, slots[i].u.tail + 1)
              /\ slots[i].u.tail < N
          BY <1>0, <4>2, TypeSendNew DEF SendNew, RoomToSend
        <5> HIDE DEF i
        <5>2. slots'[i].u \in Slots /\ slots'[i].u.active /\ slots'[i].u.lastAck = slots[i].u.lastAck
          BY <3>2, <5>1, WaitAckWindow
        <5> QED
          BY <3>2, <5>1, <5>2, SlotTypes
      <4> QED
        BY <2>3, <4>1, <4>2
    <3> HIDE DEF i
    <3>4. Upload(slots'[i]) = Upload(slots[i])
      BY <3>3 DEF Upload
    <3>5. \A j \in 1 .. MaxConn : Upload(slots'[j]) = Upload(slots[j])
      BY <3>3, <3>4 DEF OneChanged
    <3> QED
      BY <1>0, <3>1, <3>5, SerialSame
  <2>4. CASE SendNothing(d) \/ IgnoreData(d) \/ LoseUp(d) \/ LoseData(d)
    <3>1. UNCHANGED <<slots, wanted, down>>
      BY <1>0, <2>4, SessionSendNothing DEF SendNothing, IgnoreData, LoseUp, LoseData
    <3> QED
      BY <1>0, <3>1, SerialSame
  <2>5. CASE ReceiveData(d)
    BY <1>0, <2>5, SerialReceiveData
  <2>6. CASE DownloadTimeout(d)
    BY <1>0, <2>6, SerialDownloadTimeout
  <2> QED
    BY <1>3, <2>1, <2>2, <2>3, <2>4, <2>5, <2>6
<1> QED
  BY <1>1, <1>2, <1>3 DEF Next

LEMMA SerialInit == Init => SerialInv /\ Serial!Init
<1> SUFFICES ASSUME Init
             PROVE  SerialInv /\ Serial!Init
  OBVIOUS
<1>1. SessionInv
  BY SessionInit
<1>2. /\ wanted = [d \in Downloaders |-> 1] /\ down = [d \in Downloaders |-> StartDownload]
      /\ StartDownload.last = 0 /\ Ending(StartDownload)
  <2>1. StartDownload.last = 0 /\ StartDownload.bytes = 0
    BY DEF StartDownload
  <2>2. BT_CHUNK_SIZE \in Nat
    BY PacketsInChunk
  <2>3. N # 0
    BY SizesAssumption
  <2>4. BT_CHUNK_SIZE + 1 # 0
    BY <2>2
  <2>5. Ending(StartDownload)
    BY <2>1, <2>3, <2>4 DEF Ending, Marked
  <2> QED
    BY <2>1, <2>5 DEF Init
<1>3. ASSUME NEW i \in 1 .. MaxConn
      PROVE  /\ Upload(slots[i]) \in [open : {FALSE}, to : Downloaders, chunk : {0}, acked : {0}]
             /\ slots[i].peer \in Downloaders /\ slots[i].chunk = 0
  <2>1. slots[i].peer \in Downloaders
    BY <1>1, TableTypes, EntryFields DEF SessionInv, Sound
  <2>2. slots[i].chunk = 0 /\ slots[i].u = FreeSlot
    BY DEF Init
  <2> QED
    BY <2>1, <2>2 DEF Upload, FreeSlot
<1>4. ASSUME NEW i \in 1 .. MaxConn
      PROVE  Finished(Upload(slots[i]), wanted[slots[i].peer], down[slots[i].peer])
  <2>1. slots[i].peer \in Downloaders /\ wanted[slots[i].peer] = 1
    BY <1>2, <1>3
  <2>2. Upload(slots[i]).chunk = 0
    BY <1>3
  <2> QED
    BY <2>1, <2>2 DEF Finished
<1>5. Serial!Init
  BY <1>2, <1>3 DEF Serial!Init
<1> QED
  BY <1>1, <1>2, <1>4, <1>5 DEF SerialInv

\* Under the same hypotheses an upload that the ACK of its last packet has closed
\* was of a chunk its downloader has, whatever chunk, upload or downloader used the
\* slot before (keep_track.c:326, peer.c:208).
THEOREM UploadsCompleted ==
    ASSUME Reliable
    PROVE  Spec => []CompletedUploads
<1>1. ASSUME SerialInv
      PROVE  CompletedUploads
  <2> SUFFICES ASSUME NEW i \in DOMAIN slots, ~slots[i].u.active, slots[i].u.lastAck = N
               PROVE  LET d == slots[i].peer IN
                      \/ slots[i].chunk < wanted[d]
                      \/ slots[i].chunk = wanted[d] /\ (down[d].chunk = "OWNED" \/ down[d].overrun)
    BY DEF CompletedUploads
  <2>1. i \in 1 .. MaxConn
    BY <1>1, SerialFacts DEF Tables
  <2> QED
    BY <1>1, <2>1, SerialFacts, UploadFields DEF Finished
<1> QED
  BY <1>1, SerialInit, SerialStep, PTL DEF Spec

\* Under the same hypotheses the uploader and all its downloaders, with every loss,
\* retransmission, timeout and slot taken again, deliver chunk after chunk to a
\* sender that learns only of what was received.
THEOREM SessionImplementsSerial ==
    ASSUME Reliable
    PROVE  Spec => ImplementsSerial
<1>1. SerialInv /\ [Next]_vars => SerialInv' /\ [Serial!Next]_(Serial!vars)
  BY SerialStep
<1> QED
  BY <1>1, SerialInit, PTL DEF Spec, ImplementsSerial, Serial!Spec

-------------------------------------------------------------------------------
(* Downloaders are not forgotten.  An uploader counts one more silent RTO only *)
(* when everything under way between it and the downloader is gone while       *)
(* packets wait for their ACK; before the first loss that cannot be.           *)

\* Before the first loss a downloader's stream is straight: the packets under way
\* to it follow the last one received, the newest ACK is of that one, and a GET
\* follows all else.
Straight(last, U, D) ==
    /\ \A j \in 1 .. Len(U) : IF U[j].kind = "get" THEN j = Len(U) /\ Len(D) = 0
                              ELSE j = Len(U) => U[j].ack = last
    /\ ~Pending(U) => \A j \in 1 .. Len(D) : D[j].seq = last + j

\* Every ACK under way to slot s is of a packet later than those before it.
Rising(s, U) ==
    \A j \in 1 .. Len(U) : U[j].kind = "ack" =>
      /\ s.u.lastAck < U[j].ack
      /\ \A k \in 1 .. j - 1 : U[k].kind = "ack" => U[k].ack < U[j].ack

\* Nothing is sent again, and all that was sent is received or under way.
Ahead(s, last, U, D) ==
    ~s.u.due /\ Rising(s, U) /\ (~Pending(U) => last + Len(D) = s.u.tail)

\* Slot s has been silent for no more RTOs than l packets have been lost, and
\* for fewer when it is silent now.
Heard(s, U, D, l) ==
    /\ s.u.quiet <= l
    /\ Len(U) = 0 /\ Len(D) = 0 /\ s.u.queue # << >> => s.u.quiet + 1 <= l

\* Slot s serves a downloader whose stream is open, l packets having been lost.
Attends(s, last, U, D, l) == Heard(s, U, D, l) /\ (l = 0 => Ahead(s, last, U, D))

\* Downloader d, with stream dn, is not forgotten by the slots of table tab.
Kept(tab, l, d, dn, U, D) ==
    dn.stream =>
      /\ "get" \notin Mishaps[d] /\ ~dn.overrun =>
           Pending(U) \/ \E i \in 1 .. MaxConn : tab[i].u.active /\ tab[i].peer = d
      /\ l = 0 => Straight(dn.last, U, D)
      /\ \A i \in 1 .. MaxConn :
           tab[i].u.active /\ tab[i].peer = d => Attends(tab[i], dn.last, U, D, l)

KeptInv == /\ SerialInv
           /\ \A d \in Downloaders : Kept(slots, mishaps, d, down[d], up[d], data[d])

\* What KeptInv rests on besides: a slot for every downloader, and fewer mishaps
\* than silent RTOs make an uploader give up.
Roomy   == IsFiniteSet(Downloaders) /\ Cardinality(Downloaders) <= MaxConn
Patient == MaxMishaps < ABORT_COEFF

\* An ACK that leaves the channel is not the GET under way.
LEMMA PendingStays ==
    ASSUME NEW U, NEW V, Taken(U, V), U[1].kind # "get"
    PROVE  Pending(V) <=> Pending(U)
<1>1. /\ \A j \in 1 .. Len(V) : j + 1 \in 1 .. Len(U) /\ V[j] = U[j + 1]
      /\ Len(U) \in Nat \ {0} /\ Len(V) = Len(U) - 1
  BY DEF Taken
<1>2. ASSUME Pending(U)
      PROVE  Pending(V)
  <2>1. PICK g \in 1 .. Len(U) : U[g].kind = "get"
    BY <1>2 DEF Pending
  <2>2. g - 1 \in 1 .. Len(V) /\ g - 1 + 1 = g
    BY <1>1, <2>1
  <2> QED
    BY <1>1, <2>1, <2>2 DEF Pending
<1> QED
  BY <1>1, <1>2 DEF Pending

\* An ACK is taken off a straight stream.
LEMMA StraightAcked ==
    ASSUME NEW last, NEW U, NEW D, NEW V, Straight(last, U, D), Taken(U, V),
           U[1].kind # "get"
    PROVE  Straight(last, V, D)
<1>1. /\ \A j \in 1 .. Len(V) : j + 1 \in 1 .. Len(U) /\ V[j] = U[j + 1]
      /\ Len(U) \in Nat \ {0} /\ Len(V) = Len(U) - 1
  BY DEF Taken
<1>2. Pending(V) <=> Pending(U)
  BY PendingStays
<1>3. ASSUME NEW j \in 1 .. Len(V)
      PROVE  IF V[j].kind = "get" THEN j = Len(V) /\ Len(D) = 0
             ELSE j = Len(V) => V[j].ack = last
  <2>1. IF U[j + 1].kind = "get" THEN j + 1 = Len(U) /\ Len(D) = 0
        ELSE j + 1 = Len(U) => U[j + 1].ack = last
    BY <1>1 DEF Straight
  <2> QED
    BY <1>1, <2>1
<1> QED
  BY <1>2, <1>3 DEF Straight

\* The slot that has handled an ACK, which repeats no other, is still ahead.
LEMMA AheadAcked ==
    ASSUME NEW s, NEW t, NEW last, NEW U, NEW D, NEW V, NEW a,
           Ahead(s, last, U, D), Taken(U, V), FirstAck(U, a),
           t.u.lastAck = a, t.u.tail = s.u.tail, ~t.u.due
    PROVE  Ahead(t, last, V, D)
<1>1. /\ \A j \in 1 .. Len(V) : j + 1 \in 1 .. Len(U) /\ V[j] = U[j + 1]
      /\ Len(U) \in Nat \ {0} /\ Len(V) = Len(U) - 1
  BY DEF Taken
<1>2. Pending(V) <=> Pending(U)
  BY PendingStays DEF FirstAck
<1>3. ASSUME NEW j \in 1 .. Len(V), V[j].kind = "ack"
      PROVE  /\ t.u.lastAck < V[j].ack
             /\ \A k \in 1 .. j - 1 : V[k].kind = "ack" => V[k].ack < V[j].ack
  <2>1. j + 1 \in 1 .. Len(U) /\ V[j] = U[j + 1]
    BY <1>1
  <2>2. \A k \in 1 .. (j + 1) - 1 : U[k].kind = "ack" => U[k].ack < U[j + 1].ack
    BY <1>3, <2>1 DEF Ahead, Rising
  <2>3. 1 \in 1 .. (j + 1) - 1
    OBVIOUS
  <2>4. t.u.lastAck < V[j].ack
    BY <2>1, <2>2, <2>3 DEF FirstAck
  <2>5. \A k \in 1 .. j - 1 : k + 1 \in 1 .. (j + 1) - 1 /\ V[k] = U[k + 1]
    BY <1>1
  <2> QED
    BY <2>1, <2>2, <2>4, <2>5
<1>4. ~Pending(V) => last + Len(D) = t.u.tail
  BY <1>2 DEF Ahead
<1> QED
  BY <1>3, <1>4 DEF Ahead, Rising

\* The next packet is sent.
LEMMA StraightSent ==
    ASSUME NEW last, NEW U, NEW D, NEW E, NEW p, Straight(last, U, D), ~Pending(U),
           Added(D, E, p), p.seq = last + (Len(D) + 1)
    PROVE  Straight(last, U, E)
<1>1. /\ Len(D) \in Nat /\ Len(E) = Len(D) + 1 /\ E[Len(D) + 1] = p
      /\ \A j \in 1 .. Len(D) : E[j] = D[j]
  BY DEF Added
<1>2. ASSUME NEW j \in 1 .. Len(E)
      PROVE  E[j].seq = last + j
  <2>1. CASE j = Len(D) + 1
    BY <1>1, <2>1
  <2>2. CASE j # Len(D) + 1
    BY <1>1, <2>2 DEF Straight
  <2> QED
    BY <2>1, <2>2
<1> QED
  BY <1>2 DEF Straight, Pending

\* The next packet is received, and its ACK sent.
LEMMA StraightReceived ==
    ASSUME NEW last \in Nat, NEW U, NEW D, NEW V, NEW E, Straight(last, U, D), ~Pending(U),
           Taken(D, E), Added(U, V, Ack(last + 1))
    PROVE  ~Pending(V) /\ Straight(last + 1, V, E)
<1>1. /\ Len(U) \in Nat /\ Len(V) = Len(U) + 1 /\ V[Len(U) + 1] = Ack(last + 1)
      /\ \A j \in 1 .. Len(U) : V[j] = U[j]
      /\ Ack(last + 1).kind = "ack" /\ Ack(last + 1).ack = last + 1
  BY DEF Added, Ack
<1>2. \A j \in 1 .. Len(V) : V[j].kind # "get" /\ (j = Len(V) => V[j].ack = last + 1)
  BY <1>1 DEF Pending
<1>3. ASSUME NEW j \in 1 .. Len(E)
      PROVE  E[j].seq = (last + 1) + j
  <2>1. j + 1 \in 1 .. Len(D) /\ E[j] = D[j + 1]
    BY DEF Taken
  <2>2. D[j + 1].seq = last + (j + 1)
    BY <2>1 DEF Straight
  <2> QED
    BY <2>1, <2>2
<1> QED
  BY <1>2, <1>3 DEF Straight, Pending

\* The slot is ahead of an ACK that says more than all before it.
LEMMA AheadReceived ==
    ASSUME NEW s, NEW last \in Nat, NEW U, NEW D, NEW V, NEW E,
           Ahead(s, last, U, D), ~Pending(U),
           \A j \in 1 .. Len(U) : U[j].ack \in Nat /\ U[j].ack <= last,
           s.u.lastAck \in Nat, s.u.lastAck <= last,
           Taken(D, E), Added(U, V, Ack(last + 1))
    PROVE  Ahead(s, last + 1, V, E)
<1>1. /\ Len(U) \in Nat /\ Len(V) = Len(U) + 1 /\ V[Len(U) + 1] = Ack(last + 1)
      /\ \A j \in 1 .. Len(U) : V[j] = U[j]
      /\ Ack(last + 1).kind = "ack" /\ Ack(last + 1).ack = last + 1
      /\ Len(D) \in Nat /\ Len(E) = Len(D) - 1
  BY DEF Added, Ack, Taken
<1>2. ASSUME NEW j \in 1 .. Len(V), V[j].kind = "ack"
      PROVE  /\ s.u.lastAck < V[j].ack
             /\ \A k \in 1 .. j - 1 : V[k].kind = "ack" => V[k].ack < V[j].ack
  <2>1. CASE j = Len(U) + 1
    <3>1. V[j].ack = last + 1
      BY <1>1, <2>1
    <3>2. \A k \in 1 .. j - 1 : V[k] = U[k] /\ U[k].ack \in Nat /\ U[k].ack <= last
      BY <1>1, <2>1
    <3> QED
      BY <3>1, <3>2
  <2>2. CASE j # Len(U) + 1
    <3>1. j \in 1 .. Len(U) /\ V[j] = U[j] /\ \A k \in 1 .. j - 1 : V[k] = U[k]
      BY <1>1, <2>2
    <3> QED
      BY <1>2, <3>1 DEF Ahead, Rising
  <2> QED
    BY <2>1, <2>2
<1>3. (last + 1) + Len(E) = s.u.tail
  BY <1>1 DEF Ahead
<1> QED
  BY <1>2, <1>3 DEF Ahead, Rising

\* A GET follows the ACK of the last packet, and nothing is under way any more.
LEMMA StraightNext ==
    ASSUME NEW X, NEW V, NEW E, NEW c, ~Pending(X), Added(X, V, Get(c)), Len(E) = 0
    PROVE  Pending(V) /\ Straight(0, V, E)
<1>1. /\ Len(X) \in Nat /\ Len(V) = Len(X) + 1 /\ V[Len(X) + 1] = Get(c)
      /\ \A j \in 1 .. Len(X) : V[j] = X[j]
      /\ Get(c).kind = "get"
  BY DEF Added, Get
<1>2. Pending(V)
  BY <1>1 DEF Pending
<1>3. \A j \in 1 .. Len(V) : j # Len(V) => V[j].kind # "get"
  BY <1>1 DEF Pending
<1> QED
  BY <1>1, <1>2, <1>3 DEF Straight

LEMMA AheadNext ==
    ASSUME NEW s, NEW last, NEW any, NEW X, NEW V, NEW E, NEW c,
           Ahead(s, last, X, E), ~Pending(X), Added(X, V, Get(c))
    PROVE  Ahead(s, any, V, E)
<1>1. /\ Len(X) \in Nat /\ Len(V) = Len(X) + 1 /\ V[Len(X) + 1] = Get(c)
      /\ \A j \in 1 .. Len(X) : V[j] = X[j]
      /\ Get(c).kind = "get"
  BY DEF Added, Get
<1>2. Pending(V)
  BY <1>1 DEF Pending
<1>3. ASSUME NEW j \in 1 .. Len(V), V[j].kind = "ack"
      PROVE  /\ s.u.lastAck < V[j].ack
             /\ \A k \in 1 .. j - 1 : V[k].kind = "ack" => V[k].ack < V[j].ack
  <2>1. j \in 1 .. Len(X) /\ V[j] = X[j] /\ \A k \in 1 .. j - 1 : V[k] = X[k]
    BY <1>1, <1>3
  <2> QED
    BY <1>3, <2>1 DEF Ahead, Rising
<1> QED
  BY <1>2, <1>3 DEF Ahead, Rising

\* The invariant's parts.
LEMMA KeptFacts ==
    ASSUME KeptInv
    PROVE  /\ SerialInv /\ SessionInv /\ TypeInv /\ slots \in Tables
           /\ mishaps \in Nat /\ mishaps <= MaxMishaps /\ MaxMishaps \in Nat
           /\ \A i \in 1 .. MaxConn : slots[i].u.quiet \in Nat
           /\ \A d \in Downloaders : Kept(slots, mishaps, d, down[d], up[d], data[d])
<1>1. SerialInv /\ SessionInv /\ TypeInv /\ slots \in Tables
  BY SerialFacts DEF KeptInv
<1>2. mishaps \in 0 .. MaxMishaps /\ MaxMishaps \in Nat
  BY <1>1, TableTypes, SessionAssumption
<1>3. ASSUME NEW i \in 1 .. MaxConn
      PROVE  slots[i].u.quiet \in Nat
  <2>1. slots[i].u \in Slots
    BY <1>1, EntryFields
  <2>2. slots[i].u.quiet \in 0 .. 4
    BY ONLY <2>1, SlotTypes, Zenon
  <2> QED
    BY ONLY <2>2
<1> QED
  BY <1>1, <1>2, <1>3 DEF KeptInv

\* A step of one downloader and its slots leaves the others kept, also when it is
\* a loss.
LEMMA KeptAfter ==
    ASSUME KeptInv, SerialInv', NEW d \in Downloaders,
           NEW dn, NEW w, NEW U, NEW D, NEW b, Moves(d, dn, w, b, U, D), SlotsOf(d),
           mishaps' \in {mishaps, mishaps + 1}, Kept(slots', mishaps', d, dn, U, D)
    PROVE  KeptInv'
<1>1. ASSUME NEW e \in Downloaders, e # d
      PROVE  Kept(slots', mishaps', e, down'[e], up'[e], data'[e])
  <2>1. down'[e] = down[e] /\ up'[e] = up[e] /\ data'[e] = data[e]
    BY <1>1 DEF Moves
  <2>2. \A i \in 1 .. MaxConn :
          /\ slots'[i].u.active /\ slots'[i].peer = e => slots'[i] = slots[i]
          /\ slots[i].u.active /\ slots[i].peer = e => slots'[i] = slots[i]
    BY <1>1 DEF SlotsOf
  <2>3. ASSUME NEW i \in 1 .. MaxConn, slots[i].u.active, slots[i].peer = e, down[e].stream
        PROVE  Attends(slots[i], down[e].last, up[e], data[e], mishaps')
    <3>1. Attends(slots[i], down[e].last, up[e], data[e], mishaps)
      BY <2>3, KeptFacts DEF Kept
    <3>2. slots[i].u.quiet \in Nat /\ mishaps \in Nat
      BY KeptFacts
    <3> QED
      BY <3>1, <3>2 DEF Attends, Heard
  <2>4. mishaps' = 0 => mishaps = 0
    BY KeptFacts
  <2>5. Kept(slots, mishaps, e, down[e], up[e], data[e])
    BY KeptFacts
  <2> QED
    BY <2>1, <2>2, <2>3, <2>4, <2>5 DEF Kept
<1>2. down'[d] = dn /\ up'[d] = U /\ data'[d] = D
  BY DEF Moves
<1> QED
  BY <1>1, <1>2 DEF KeptInv

\* The steps that neither send nor receive.
LEMMA KeptSame ==
    ASSUME KeptInv, SerialInv', UNCHANGED <<slots, down, up, data, mishaps>>
    PROVE  KeptInv'
BY DEF KeptInv, Kept

\* A downloader without a slot finds one free: the peers of the slots in use are
\* distinct, and not this one.
LEMMA RoomForOne ==
    ASSUME Roomy, SessionInv, NEW d \in Downloaders, \A i \in 1 .. MaxConn : ~Mine(i, d)
    PROVE  \E i \in 1 .. MaxConn : ~slots[i].u.active
<1> SUFFICES ASSUME \A i \in 1 .. MaxConn : slots[i].u.active
             PROVE  FALSE
  OBVIOUS
<1> DEFINE f == [i \in 1 .. MaxConn |-> slots[i].peer]
           places == 1 .. MaxConn
           others == Downloaders \ {d}
<1>1. f \in [places -> others]
  <2>1. slots \in Tables
    BY TableTypes DEF SessionInv, Sound
  <2>2. \A i \in places : slots[i].peer \in Downloaders
    BY <2>1, EntryFields
  <2>3. \A i \in places : slots[i].peer # d
    BY DEF Mine
  <2> QED
    BY <2>2, <2>3
<1>2. IsFiniteSet(places) /\ Cardinality(places) = MaxConn
  <2>1. MaxConn \in Int /\ 1 \in Int /\ ~(1 > MaxConn) /\ MaxConn - 1 + 1 = MaxConn
    BY SessionAssumption
  <2>2. /\ IsFiniteSet(1 .. MaxConn)
        /\ Cardinality(1 .. MaxConn) = IF 1 > MaxConn THEN 0 ELSE MaxConn - 1 + 1
    BY ONLY <2>1, FS_Interval, Zenon
  <2> QED
    BY <2>1, <2>2
<1>3. /\ IsFiniteSet(others) /\ Cardinality(others) = Cardinality(Downloaders) - 1
      /\ Cardinality(Downloaders) \in Nat
  BY FS_RemoveElement, FS_CardinalityType DEF Roomy
<1>4. Cardinality(others) < Cardinality(places)
  BY <1>2, <1>3, SessionAssumption DEF Roomy
<1>5. \E i, j \in places : i # j /\ f[i] = f[j]
  <2> HIDE DEF f, places, others
  <2> QED
    BY <1>1, <1>2, <1>3, <1>4, FS_PigeonHole
<1>6. PICK i, j \in 1 .. MaxConn : i # j /\ slots[i].peer = slots[j].peer
  BY <1>5
<1>7. slots[i].peer \in Downloaders
  BY TableTypes, EntryFields DEF SessionInv, Sound
<1> QED
  BY <1>6, <1>7, OwnSlot DEF Mine

\* A lost packet.
LEMMA KeptLoseUp ==
    ASSUME KeptInv, SerialInv', NEW d \in Downloaders, LoseUp(d)
    PROVE  KeptInv'
<1> DEFINE U == up[d]
           V == Tail(up[d])
<1>1. /\ Moves(d, down[d], wanted[d], pure[d], V, data[d])
      /\ Taken(U, V) /\ Head(U) = U[1] /\ Head(U) \in UpPackets
      /\ Head(U).kind \in Mishaps[d] /\ mishaps' = mishaps + 1 /\ UNCHANGED slots
  BY KeptFacts, TypeLoseUp DEF LoseUp, Mishap
<1>2. "get" \notin Mishaps[d] => (Pending(U) => Pending(V))
  BY <1>1, PendingStays
<1>3. Kept(slots, mishaps, d, down[d], U, data[d]) /\ mishaps \in Nat
  BY KeptFacts
<1> HIDE DEF U, V
<1>4. ASSUME NEW i \in 1 .. MaxConn, slots[i].u.active, slots[i].peer = d, down[d].stream
      PROVE  Attends(slots[i], down[d].last, V, data[d], mishaps + 1)
  <2>1. slots[i].u.quiet <= mishaps
    BY <1>3, <1>4 DEF Kept, Attends, Heard
  <2>2. slots[i].u.quiet \in Nat
    BY KeptFacts
  <2> QED
    BY <1>3, <2>1, <2>2 DEF Attends, Heard
<1>5. Kept(slots', mishaps', d, down[d], V, data[d])
  <2>1. mishaps' # 0 /\ mishaps' = mishaps + 1 /\ slots' = slots
    BY <1>1, <1>3
  <2> QED
    BY <1>2, <1>3, <1>4, <2>1 DEF Kept
<1>6. SlotsOf(d) /\ mishaps' \in {mishaps, mishaps + 1}
  BY <1>1 DEF SlotsOf
<1> QED
  BY <1>1, <1>5, <1>6, KeptAfter

\* DATA that is lost, or comes too late.
LEMMA KeptLoseData ==
    ASSUME KeptInv, SerialInv', NEW d \in Downloaders, LoseData(d) \/ IgnoreData(d)
    PROVE  KeptInv'
<1>1. /\ Moves(d, down[d], wanted[d], pure[d], up[d], Tail(data[d])) /\ UNCHANGED slots
      /\ mishaps' = mishaps + 1 \/ (mishaps' = mishaps /\ ~down[d].stream)
  BY KeptFacts, TypeLoseData DEF LoseData, IgnoreData, Mishap
<1>2. Kept(slots, mishaps, d, down[d], up[d], data[d]) /\ mishaps \in Nat
  BY KeptFacts
<1>3. ASSUME NEW i \in 1 .. MaxConn, slots[i].u.active, slots[i].peer = d, down[d].stream
      PROVE  Attends(slots[i], down[d].last, up[d], Tail(data[d]), mishaps + 1)
  <2>1. slots[i].u.quiet <= mishaps
    BY <1>2, <1>3 DEF Kept, Attends, Heard
  <2>2. slots[i].u.quiet \in Nat
    BY KeptFacts
  <2> QED
    BY <1>2, <2>1, <2>2 DEF Attends, Heard
<1>4. Kept(slots', mishaps', d, down[d], up[d], Tail(data[d]))
  <2>1. CASE ~down[d].stream
    BY <2>1 DEF Kept
  <2>2. CASE down[d].stream
    <3>1. mishaps' # 0 /\ mishaps' = mishaps + 1 /\ slots' = slots
      BY <1>1, <1>2, <2>2
    <3> QED
      BY <1>2, <1>3, <3>1 DEF Kept
  <2> QED
    BY <2>1, <2>2
<1>5. SlotsOf(d) /\ mishaps' \in {mishaps, mishaps + 1}
  BY <1>1 DEF SlotsOf
<1> QED
  BY <1>1, <1>4, <1>5, KeptAfter

\* A GET finds a free slot, and before the first loss it finds it with nothing
\* else under way.
LEMMA KeptReceiveGet ==
    ASSUME Roomy, KeptInv, SerialInv', NEW d \in Downloaders, ReceiveGet(d)
    PROVE  KeptInv'
<1> DEFINE last == down[d].last
           U == up[d]
           D == data[d]
           V == Tail(up[d])
           c == Head(up[d]).chunk
<1>1. /\ Moves(d, down[d], wanted[d], pure[d], V, D)
      /\ Taken(U, V) /\ FirstGet(U, c) /\ c \in Nat
      /\ slots' = StartSlot(slots, d, c) /\ mishaps' = mishaps
  BY KeptFacts, TypeReceiveGet DEF ReceiveGet
<1>2. /\ Link(last, wanted[d], U, D) /\ Sound(slots)
      /\ Kept(slots, mishaps, d, down[d], U, D) /\ mishaps \in Nat
  BY KeptFacts, SessionFacts, TableTypes
<1>3. last = 0
  BY <1>1, <1>2 DEF Link, NextGet, FirstGet, Taken
<1>4. \A i \in 1 .. MaxConn : ~Mine(i, d)
  <2>1. Len(U) > 0 /\ U[1].kind # "ack"
    BY <1>1 DEF Taken, FirstGet
  <2> QED
    BY <2>1, KeptFacts, OwnSlot DEF Serving, Closing
<1> HIDE DEF last, U, D, V, c
<1>5. PICK i \in 1 .. MaxConn :
        /\ ~slots[i].u.active /\ OneChanged(slots, slots', i)
        /\ slots'[i].u = StartUpload(slots[i].u) /\ slots'[i].peer = d
  <2>1. Of(slots, d) = {} /\ \E i \in 1 .. MaxConn : ~slots[i].u.active
    BY <1>4, NoSlot, RoomForOne, KeptFacts
  <2> QED
    BY <1>1, <1>2, <2>1, StartedSlot
<1>6. /\ slots'[i].u.active /\ slots'[i].u.queue = << >> /\ slots'[i].u.tail = 0
      /\ ~slots'[i].u.due /\ slots'[i].u.quiet = 0
  <2>1. slots[i].u \in Slots /\ Window(slots[i].u)
    BY <1>2, EntryFields DEF Sound
  <2> QED
    BY <1>5, <2>1, StartUploadWindow
<1>7. ASSUME mishaps = 0, down[d].stream
      PROVE  Straight(last, V, D) /\ Ahead(slots'[i], last, V, D)
  <2>1. Straight(last, U, D) /\ 1 \in 1 .. Len(U)
    BY <1>1, <1>2, <1>7 DEF Kept, Taken, last
  <2>2. 1 = Len(U) /\ Len(D) = 0
    BY <1>1, <2>1 DEF Straight, FirstGet
  <2>3. Len(V) = Len(U) - 1
    BY <1>1, Zenon DEF Taken
  <2>4. Len(V) = 0
    BY <2>2, <2>3
  <2> QED
    BY <1>3, <1>6, <2>2, <2>4 DEF Straight, Ahead, Rising
<1>8. SlotsOf(d) /\ mishaps' \in {mishaps, mishaps + 1}
  BY <1>1, <1>5 DEF SlotsOf, OneChanged
<1>9. \A j \in 1 .. MaxConn : slots'[j].u.active /\ slots'[j].peer = d => j = i
  BY <1>4, <1>5 DEF OneChanged, Mine
<1>10. Kept(slots', mishaps', d, down[d], V, D)
  <2>1. Heard(slots'[i], V, D, mishaps)
    BY <1>2, <1>6 DEF Heard
  <2> QED
    BY <1>1, <1>5, <1>6, <1>7, <1>9, <2>1 DEF Kept, Attends, last
<1> QED
  BY <1>1, <1>8, <1>10, KeptAfter

\* An ACK restarts the count of silent RTOs. The last one closes the slot of a
\* downloader that has asked for another chunk, or whose buffer is spoilt; before
\* the first loss one that leaves nothing under way leaves nothing to wait for.
LEMMA KeptReceiveAck ==
    ASSUME KeptInv, SerialInv', NEW d \in Downloaders, ReceiveAckOf(d)
    PROVE  KeptInv'
<1> DEFINE ack == Head(up[d]).ack
           last == down[d].last
           U == up[d]
           D == data[d]
           V == Tail(up[d])
<1>1. /\ Moves(d, down[d], wanted[d], pure[d], V, D)
      /\ Taken(U, V) /\ FirstAck(U, ack) /\ ack \in SeqNumbers /\ mishaps' = mishaps
      /\ IF Fatal(slots, d, ack) THEN pc' = "exited" /\ UNCHANGED slots
         ELSE pc' = "send" /\ slots' = AckSlot(slots, d, ack)
  BY KeptFacts, TypeReceiveAckOf DEF ReceiveAckOf
<1>2. slots' = AckSlot(slots, d, ack)
  BY <1>1 DEF SerialInv, SessionInv, Loop
<1>3. /\ Kept(slots, mishaps, d, down[d], U, D) /\ mishaps \in Nat /\ Sound(slots)
      /\ last \in 0 .. N /\ down[d].stream \in BOOLEAN
      /\ down[d].stream /\ last = N => down[d].overrun
  <2>1. Ending(down[d]) /\ Buffer(down[d])
    BY KeptFacts, SerialFacts, PeerTypes
  <2>2. down[d].stream /\ last = N => down[d].overrun
    BY <2>1 DEF Ending, Buffer
  <2> QED
    BY <2>2, KeptFacts, PeerTypes, TableTypes
<1>4. U[1].kind = "ack" /\ U[1].ack = ack /\ 1 \in 1 .. Len(U) /\ Len(V) = Len(U) - 1
  BY <1>1 DEF FirstAck, Taken
<1>5. Pending(V) <=> Pending(U)
  BY <1>1, <1>4, PendingStays
<1> HIDE DEF ack, last, U, D, V
<1>6. mishaps = 0 /\ down[d].stream => Straight(last, U, D) /\ Straight(last, V, D)
  <2>1. mishaps = 0 /\ down[d].stream => Straight(last, U, D)
    BY <1>3 DEF Kept, last
  <2> QED
    BY <1>1, <1>4, <2>1, StraightAcked
<1>7. mishaps' \in {mishaps, mishaps + 1}
  BY <1>1
<1>8. CASE Of(slots, d) = {}
  <2>1. slots' = slots
    BY <1>2, <1>8 DEF AckSlot
  <2>2. \A i \in 1 .. MaxConn : ~(slots[i].u.active /\ slots[i].peer = d)
    BY <1>8, NoSlot, KeptFacts DEF Mine
  <2>3. Kept(slots', mishaps', d, down[d], V, D) /\ SlotsOf(d)
    BY <1>1, <1>3, <1>5, <1>6, <2>1, <2>2 DEF Kept, SlotsOf, last
  <2> QED
    BY <1>1, <1>7, <2>3, KeptAfter
<1>9. CASE Of(slots, d) # {}
  <2> DEFINE i == Lowest(Of(slots, d))
             s == slots[i]
             t == slots'[i]
  <2>1. /\ i \in 1 .. MaxConn /\ OneChanged(slots, slots', i)
        /\ s.peer = d /\ t.peer = d /\ t.u.lastAck = ack /\ (t.u.active <=> ack # N)
        /\ ack # N => t.u = ReceiveAck(s.u, ack)
    BY <1>1, <1>2, <1>3, <1>9, AckedSlot
  <2>2. s.u.active
    BY <1>9, KeptFacts, FoundSlot
  <2> HIDE DEF i
  <2>3. /\ Serving(s, last, wanted[d], U, D) /\ s.u \in Slots /\ Window(s.u)
        /\ \A j \in 1 .. MaxConn : Mine(j, d) => j = i
    <3>1. Mine(i, d)
      BY <2>1, <2>2 DEF Mine
    <3> QED
      BY <2>1, <3>1, KeptFacts, OwnSlot DEF last, U, D
  <2>4. \A j \in 1 .. MaxConn : t.u.active \/ j # i => (slots'[j].u.active /\ slots'[j].peer = d => j = i)
    BY <2>1, <2>3 DEF OneChanged, Mine
  <2>5. SlotsOf(d)
    BY <2>1, <2>2 DEF SlotsOf, OneChanged
  <2>6. CASE ack = N
    <3>1. ~Pending(U) /\ down[d].stream => down[d].overrun
      <4>1. ~Pending(U) => N <= last
        BY <1>4, <2>3, <2>6 DEF Serving, Fetching
      <4> QED
        BY <1>3, <4>1, SizesAssumption
    <3>2. \A j \in 1 .. MaxConn : ~(slots'[j].u.active /\ slots'[j].peer = d)
      BY <2>1, <2>4, <2>6
    <3>3. Kept(slots', mishaps', d, down[d], V, D)
      BY <1>1, <1>5, <1>6, <3>1, <3>2 DEF Kept, last
    <3> QED
      BY <1>1, <1>7, <2>5, <3>3, KeptAfter
  <2>7. CASE ack # N
    <3>1. /\ t.u = ReceiveAck(s.u, ack) /\ t.u.active /\ t.u.quiet = 0
          /\ t.u.tail = s.u.tail /\ t.u.lastAck = ack /\ t.u \in Slots
          /\ ~s.u.due /\ s.u.lastAck # ack => ~t.u.due
      BY <1>1, <2>1, <2>2, <2>3, <2>7, ReceiveAckWindow
    <3>2. ASSUME mishaps = 0, down[d].stream
          PROVE  Ahead(t, last, V, D) /\ (Len(V) = 0 /\ Len(D) = 0 => t.u.queue = << >>)
      <4>1. Ahead(s, last, U, D)
        BY <1>3, <2>1, <2>2, <3>2 DEF Kept, Attends, last
      <4>2. ~s.u.due /\ s.u.lastAck < ack
        BY <1>4, <4>1 DEF Ahead, Rising
      <4>3. s.u.lastAck # ack
        <5>1. s.u.lastAck \in Nat
          BY <2>3, SlotTypes, SizesAssumption
        <5> QED
          BY <4>2, <5>1
      <4>4. Ahead(t, last, V, D)
        BY <1>1, <3>1, <4>1, <4>2, <4>3, AheadAcked
      <4>5. ASSUME Len(V) = 0, Len(D) = 0
            PROVE  t.u.queue = << >>
        <5>1. Len(U) = 1
          BY <1>1, <1>4, <4>5 DEF Taken
        <5>2. U[1].ack = last
          BY <1>4, <1>6, <3>2, <5>1 DEF Straight
        <5>3. ~Pending(U)
          BY <1>4, <5>1 DEF Pending
        <5>4. last + Len(D) = s.u.tail
          BY <4>1, <5>3 DEF Ahead
        <5>5. t.u.tail = ack
          BY <1>3, <1>4, <3>1, <4>5, <5>2, <5>4, SizesAssumption
        <5>6. t.u.tail - Len(t.u.queue) = t.u.lastAck
          <6>1. Serving(t, down'[d].last, wanted'[d], up'[d], data'[d])
            BY <2>1, <3>1 DEF SerialInv, SessionInv, Served, Mine
          <6> QED
            BY <6>1 DEF Serving, Opened, Acked
        <5>7. Len(t.u.queue) \in Nat /\ t.u.tail \in Nat /\ t.u.queue \in PacketQueues
          BY <3>1, SlotTypes, SizesAssumption
        <5>8. Len(t.u.queue) = 0
          BY <3>1, <5>5, <5>6, <5>7
        <5> QED
          BY <5>7, <5>8, EmptySeq DEF PacketQueues
      <4> QED
        BY <4>4, <4>5
    <3>3. down[d].stream => Attends(t, last, V, D, mishaps)
      BY <1>3, <3>1, <3>2 DEF Attends, Heard
    <3>4. Kept(slots', mishaps', d, down[d], V, D)
      BY <1>1, <1>6, <2>1, <2>4, <3>1, <3>3 DEF Kept, last
    <3> QED
      BY <1>1, <1>7, <2>5, <3>4, KeptAfter
  <2> QED
    BY <2>6, <2>7
<1> QED
  BY <1>8, <1>9

\* The uploader retransmits what it has sent: after a silence that a loss accounts
\* for, at once after duplicate ACKs, or early, a mishap of its own.
LEMMA KeptRetransmit ==
    ASSUME KeptInv, SerialInv', NEW d \in Downloaders, Retransmit(d) \/ EarlyRetransmit(d)
    PROVE  KeptInv'
<1>1. turn \in 1 .. MaxConn /\ Mine(turn, d)
  BY KeptFacts, TableTypes DEF Retransmit, EarlyRetransmit, Resend, Mine
<1> DEFINE u == slots[turn].u
           p == Data(Head(u.queue), slots[turn].chunk)
           D == Append(data[d], p)
<1>2. /\ IndexOf(d) = turn /\ Of(slots, d) = {turn} /\ u \in Slots /\ Window(u) /\ u.active
      /\ slots[turn].peer = d /\ \A j \in 1 .. MaxConn : Mine(j, d) => j = turn
  BY <1>1, KeptFacts, OwnSlot
<1>3. /\ Moves(d, down[d], wanted[d], pure[d], up[d], D) /\ Added(data[d], D, p)
      /\ slots'[turn].peer = d /\ slots'[turn].u = Restamp(u)
      /\ OneChanged(slots, slots', turn)
  BY <1>2, KeptFacts, TypeRetransmit
<1>4. \/ (u.due \/ Silence(d)) /\ u.queue # << >> /\ mishaps' = mishaps
      \/ ~u.due /\ mishaps' = mishaps + 1
  BY <1>2 DEF Retransmit, EarlyRetransmit, Resend, Mishap
<1>5. /\ Restamp(u).active
      /\ Restamp(u).quiet = IF u.due \/ u.quiet = ABORT_COEFF THEN u.quiet ELSE u.quiet + 1
  BY <1>2, RestampWindow
<1>6. u.quiet \in Nat /\ mishaps \in Nat /\ u.due \in BOOLEAN
  BY <1>2, KeptFacts, SlotTypes
<1>7. Kept(slots, mishaps, d, down[d], up[d], data[d])
  BY KeptFacts
<1>8. Silence(d) => Len(up[d]) = 0 /\ Len(data[d]) = 0
  BY DEF Silence
<1> HIDE DEF u, D, p
<1>9. down[d].stream => u.quiet <= mishaps
  <2>1. down[d].stream => Attends(slots[turn], down[d].last, up[d], data[d], mishaps)
    BY <1>1, <1>2, <1>7 DEF Kept, u
  <2> QED
    BY <2>1 DEF Attends, Heard, u
<1>10. down[d].stream => mishaps' # 0 /\ Restamp(u).quiet <= mishaps'
  <2>1. CASE mishaps' = mishaps + 1
    BY <1>5, <1>6, <1>9, <2>1
  <2>2. CASE (u.due \/ Silence(d)) /\ u.queue # << >> /\ mishaps' = mishaps
    <3>1. down[d].stream => Attends(slots[turn], down[d].last, up[d], data[d], mishaps)
      BY <1>1, <1>2, <1>7 DEF Kept, u
    <3>2. down[d].stream => /\ ~u.due => u.quiet + 1 <= mishaps
                            /\ mishaps = 0 => ~u.due
      BY <1>8, <2>2, <3>1 DEF Attends, Heard, Ahead, u
    <3> QED
      BY <1>5, <1>6, <1>9, <2>2, <3>2
  <2> QED
    BY <1>4, <2>1, <2>2
<1>11. Len(D) # 0
  BY <1>3 DEF Added
<1>12. \A j \in 1 .. MaxConn : slots'[j].u.active /\ slots'[j].peer = d => j = turn
  BY <1>2, <1>3 DEF OneChanged, Mine
<1>13. Kept(slots', mishaps', d, down[d], up[d], D)
  <2>1. down[d].stream => Attends(slots'[turn], down[d].last, up[d], D, mishaps')
    BY <1>3, <1>10, <1>11 DEF Attends, Heard
  <2> QED
    BY <1>1, <1>3, <1>5, <1>10, <1>12, <2>1 DEF Kept
<1>14. SlotsOf(d) /\ mishaps' \in {mishaps, mishaps + 1}
  BY <1>2, <1>3, <1>4 DEF SlotsOf, OneChanged
<1> QED
  BY <1>3, <1>13, <1>14, KeptAfter

\* A new packet is the next of the stream, and sent while no GET is under way.
LEMMA KeptSendNew ==
    ASSUME KeptInv, SerialInv', NEW d \in Downloaders, SendNew(d)
    PROVE  KeptInv'
<1>1. turn \in 1 .. MaxConn /\ Mine(turn, d) /\ mishaps' = mishaps
  BY KeptFacts, TableTypes DEF SendNew, Mine
<1> DEFINE u == slots[turn].u
           p == Data(u.tail + 1, slots[turn].chunk)
           D == Append(data[d], p)
<1>2. /\ IndexOf(d) = turn /\ u \in Slots /\ Window(u) /\ u.active
      /\ slots[turn].peer = d /\ \A j \in 1 .. MaxConn : Mine(j, d) => j = turn
      /\ Serving(slots[turn], down[d].last, wanted[d], up[d], data[d])
  BY <1>1, KeptFacts, OwnSlot
<1>3. /\ Moves(d, down[d], wanted[d], pure[d], up[d], D) /\ Added(data[d], D, p)
      /\ slots'[turn].peer = d /\ slots'[turn].u = WaitAck(u, u.tail + 1)
      /\ OneChanged(slots, slots', turn)
  BY <1>2, KeptFacts, TypeSendNew
<1>4. u.tail < N
  BY <1>2 DEF SendNew, RoomToSend
<1>5. /\ slots'[turn].u.active /\ slots'[turn].u.quiet = u.quiet /\ slots'[turn].u.due = u.due
      /\ slots'[turn].u.tail = u.tail + 1 /\ slots'[turn].u.lastAck = u.lastAck
  BY <1>2, <1>3, <1>4, WaitAckWindow
<1>6. /\ mishaps \in Nat /\ u.tail \in Nat /\ down[d].last \in Nat
      /\ Kept(slots, mishaps, d, down[d], up[d], data[d])
  BY <1>2, KeptFacts, PeerTypes, SlotTypes, SizesAssumption
<1>7. ~Pending(up[d])
  BY <1>2, <1>4, <1>6, SizesAssumption DEF Serving, Closing
<1>8. p.seq = u.tail + 1
  BY DEF Data
<1> HIDE DEF u, D, p
<1>9. Len(D) = Len(data[d]) + 1 /\ Len(data[d]) \in Nat
  BY <1>3 DEF Added
<1>10. ASSUME mishaps = 0, down[d].stream
       PROVE  /\ Straight(down[d].last, up[d], D)
              /\ Ahead(slots'[turn], down[d].last, up[d], D)
  <2>1. /\ Straight(down[d].last, up[d], data[d])
        /\ Ahead(slots[turn], down[d].last, up[d], data[d])
    BY <1>1, <1>2, <1>6, <1>10 DEF Kept, Attends, u
  <2>2. down[d].last + Len(data[d]) = u.tail
    BY <1>7, <2>1 DEF Ahead, u
  <2>3. p.seq = down[d].last + (Len(data[d]) + 1)
    BY <1>6, <1>8, <1>9, <2>2
  <2>4. Straight(down[d].last, up[d], D)
    BY <1>3, <1>7, <2>1, <2>3, StraightSent
  <2>5. down[d].last + Len(D) = u.tail + 1
    BY <1>6, <1>9, <2>2
  <2>6. Ahead(slots'[turn], down[d].last, up[d], D)
    BY <1>5, <2>1, <2>5 DEF Ahead, Rising, u
  <2> QED
    BY <2>4, <2>6
<1>11. \A j \in 1 .. MaxConn : slots'[j].u.active /\ slots'[j].peer = d => j = turn
  BY <1>2, <1>3 DEF OneChanged, Mine
<1>12. Kept(slots', mishaps', d, down[d], up[d], D)
  <2>1. down[d].stream => u.quiet <= mishaps
    BY <1>1, <1>2, <1>6 DEF Kept, Attends, Heard, u
  <2>2. down[d].stream => Attends(slots'[turn], down[d].last, up[d], D, mishaps)
    BY <1>5, <1>9, <1>10, <2>1 DEF Attends, Heard
  <2> QED
    BY <1>1, <1>3, <1>5, <1>10, <1>11, <2>2 DEF Kept
<1>13. SlotsOf(d) /\ mishaps' \in {mishaps, mishaps + 1}
  BY <1>1, <1>2, <1>3 DEF SlotsOf, OneChanged
<1> QED
  BY <1>3, <1>12, <1>13, KeptAfter

\* clean_upload_timeout closes only the upload of a downloader that has given up:
\* any other that has been silent for so long is one too many for the mishaps.
LEMMA KeptUploadTimeout ==
    ASSUME Patient, KeptInv, SerialInv', NEW i \in 1 .. MaxConn, UploadTimeout(i)
    PROVE  KeptInv'
<1> DEFINE d == slots[i].peer
<1>1. /\ d \in Downloaders /\ Moves(d, down[d], wanted[d], pure[d], up[d], data[d])
      /\ \E m \in 1 .. MaxConn : /\ OneChanged(slots, slots', m)
                                 /\ slots[m].peer = d /\ slots'[m].peer = d
  BY KeptFacts, TypeUploadTimeout
<1>2. /\ pc = "clean" /\ mishaps' = mishaps /\ slots[i].u.active /\ Silence(d)
      /\ slots[i].u.quiet >= 3
  BY DEF UploadTimeout, Dead, ABORT_COEFF
<1>3. slots[i].u.queue # << >>
  BY <1>2, KeptFacts DEF SessionInv, Loop
<1>4. ~down[d].stream
  <2> SUFFICES ASSUME down[d].stream
               PROVE  FALSE
    OBVIOUS
  <2>1. Heard(slots[i], up[d], data[d], mishaps)
    BY <1>1, <1>2, KeptFacts DEF Kept, Attends
  <2>2. Len(up[d]) = 0 /\ Len(data[d]) = 0
    BY <1>2 DEF Silence
  <2>3. slots[i].u.quiet + 1 <= mishaps
    BY <1>3, <2>1, <2>2 DEF Heard
  <2>4. slots[i].u.quiet \in Nat
    BY KeptFacts
  <2>5. mishaps \in Nat /\ mishaps <= MaxMishaps /\ MaxMishaps \in Nat
    BY KeptFacts
  <2>6. MaxMishaps < 4
    BY DEF Patient, ABORT_COEFF
  <2> QED
    BY <1>2, <2>3, <2>4, <2>5, <2>6
<1>5. Kept(slots', mishaps', d, down[d], up[d], data[d])
  BY <1>4 DEF Kept
<1>6. SlotsOf(d) /\ mishaps' \in {mishaps, mishaps + 1}
  BY <1>1, <1>2 DEF SlotsOf, OneChanged
<1> HIDE DEF d
<1> QED
  BY <1>1, <1>5, <1>6, KeptAfter

\* DATA of an earlier chunk comes after a loss only: it has been sent again.
LEMMA KeptOldData ==
    ASSUME KeptInv, SerialInv', NEW d \in Downloaders, ReceiveData(d),
           Head(data[d]).chunk # wanted[d]
    PROVE  KeptInv'
<1> DEFINE U == up[d]
           V == Acks(d)
           D == data[d]
           E == Tail(data[d])
<1>1. /\ D # << >> /\ down[d].stream /\ Taken(D, E) /\ Added(U, V, Acking(d))
      /\ \E b : Moves(d, down[d], wanted[d], b, V, E)
      /\ UNCHANGED slots /\ mishaps' = mishaps
  BY KeptFacts, OldDataIgnored, TypeReceiveData DEF ReceiveData, SerialInv
<1>2. /\ Link(down[d].last, wanted[d], U, D) /\ mishaps \in Nat
      /\ Kept(slots, mishaps, d, down[d], U, D)
  BY KeptFacts, SessionFacts
<1>3. D[1] = Head(D) /\ D[1] \in DataPackets /\ D[1].seq \in 1 .. N /\ 1 \in 1 .. Len(D)
  BY <1>1, KeptFacts, ResultFacts DEF Taken
<1>4. D[1].seq >= 2 /\ down[d].last = 0
  BY <1>2, <1>3 DEF Link, OldData
<1> HIDE DEF U, V, D, E
<1>5. mishaps # 0
  <2> SUFFICES ASSUME mishaps = 0
               PROVE  FALSE
    OBVIOUS
  <2>1. Straight(0, U, D)
    BY <1>1, <1>2, <1>4 DEF Kept
  <2>2. ~Pending(U)
    BY <1>3, <2>1 DEF Straight, Pending
  <2>3. D[1].seq = 0 + 1
    BY <1>3, <2>1, <2>2 DEF Straight
  <2> QED
    BY <1>4, <2>3
<1>6. Len(V) # 0 /\ (Pending(U) => Pending(V))
  BY <1>1 DEF Added, Pending
<1>7. ASSUME NEW i \in 1 .. MaxConn, slots[i].u.active, slots[i].peer = d
      PROVE  Attends(slots[i], down[d].last, V, E, mishaps)
  BY <1>1, <1>2, <1>5, <1>6, <1>7 DEF Kept, Attends, Heard
<1>8. Kept(slots', mishaps', d, down[d], V, E)
  BY <1>1, <1>2, <1>5, <1>6, <1>7 DEF Kept
<1>9. SlotsOf(d) /\ mishaps' \in {mishaps, mishaps + 1}
  BY <1>1 DEF SlotsOf
<1> QED
  BY <1>1, <1>8, <1>9, KeptAfter

\* DATA of the chunk being fetched is, before the first loss, the next packet; its
\* ACK says more than all before, and the next GET follows the last of them.
LEMMA KeptNewData ==
    ASSUME KeptInv, SerialInv', NEW d \in Downloaders, ReceiveData(d),
           Head(data[d]).chunk = wanted[d]
    PROVE  KeptInv'
<1> DEFINE seq == Head(data[d]).seq
           last == down[d].last
           a == TrackDataPacket(down[d], seq).last
           w == wanted[d]
           U == up[d]
           X == Acks(d)
           D == data[d]
           E == Tail(data[d])
           n == Result(d)
<1>1. /\ D # << >> /\ down[d].stream /\ Taken(D, E) /\ Added(U, X, Acking(d))
      /\ ~GoesOn(d) => \E b : Moves(d, n, w, b, X, E)
      /\ GoesOn(d) =>
           \E V \in Seq(UpPackets) :
             Added(X, V, Get(NextChunk(d))) /\ Moves(d, StartDownload, NextChunk(d), TRUE, V, E)
      /\ UNCHANGED slots /\ mishaps' = mishaps
  BY KeptFacts, TypeReceiveData DEF ReceiveData
<1>2. /\ pure[d] /\ Link(last, w, U, D) /\ mishaps \in Nat /\ last \in Nat
      /\ U \in Seq(UpPackets) /\ D \in Seq(DataPackets)
      /\ Kept(slots, mishaps, d, down[d], U, D)
  BY KeptFacts, SessionFacts, PeerTypes, SizesAssumption
<1>3. /\ seq \in 1 .. N /\ Head(data[d]) = D[1] /\ n.last = a
      /\ a = (IF seq = last + 1 THEN seq ELSE last)
      /\ ~n.stream => seq = N /\ a = N /\ last = N - 1
      /\ down[d].overrun => n.overrun
  BY <1>1, <1>2, KeptFacts, ResultFacts, EndingData
<1>4. FirstData(D, seq, w) /\ Acking(d) = Ack(a) /\ 1 \in 1 .. Len(D)
  BY <1>1, <1>3 DEF FirstData, Acking, Taken
<1>5. ~Pending(U)
  BY <1>1, <1>2, <1>4, CurrentData
<1> HIDE DEF seq, last, a, w, U, X, D, E, n
<1>6. \A j \in 1 .. Len(U) : U[j].kind = "ack" /\ U[j].ack \in Nat
  <2> SUFFICES ASSUME NEW j \in 1 .. Len(U)
               PROVE  U[j].kind = "ack" /\ U[j].ack \in Nat
    OBVIOUS
  <2>1. U[j] \in UpPackets /\ U[j].kind # "get"
    BY <1>2, <1>5, ElementOfSeq DEF Pending
  <2>2. U[j].kind = "ack" /\ U[j].ack \in 0 .. N
    BY <2>1, PacketFields
  <2> QED
    BY <2>2, SizesAssumption
<1>7. ASSUME mishaps = 0
      PROVE  /\ seq = last + 1 /\ Added(U, X, Ack(last + 1)) /\ a = last + 1
             /\ ~Pending(X) /\ Straight(last + 1, X, E)
  <2>1. Straight(last, U, D)
    BY <1>1, <1>2, <1>7 DEF Kept, last
  <2>2. seq = last + 1
    BY <1>4, <1>5, <2>1 DEF Straight, FirstData
  <2>3. Added(U, X, Ack(last + 1)) /\ a = last + 1
    BY <1>1, <1>3, <1>4, <2>2
  <2>4. ~Pending(X) /\ Straight(last + 1, X, E)
    BY <1>1, <1>2, <1>5, <2>1, <2>3, StraightReceived
  <2> QED
    BY <2>2, <2>3, <2>4
<1>8. ASSUME mishaps = 0, NEW i \in 1 .. MaxConn, Mine(i, d)
      PROVE  Ahead(slots[i], last + 1, X, E)
  <2>1. Ahead(slots[i], last, U, D)
    BY <1>1, <1>2, <1>8 DEF Kept, Attends, Mine, last
  <2>2. Serving(slots[i], last, w, U, D) /\ slots[i].u \in Slots
    BY <1>8, KeptFacts, OwnSlot DEF last, w, U, D
  <2>3. slots[i].u.lastAck \in Nat
    BY <2>2, SlotTypes, SizesAssumption
  <2>4. slots[i].u.lastAck <= last /\ \A j \in 1 .. Len(U) : U[j].ack <= last
    BY <1>5, <2>2 DEF Serving, Fetching
  <2> QED
    BY <1>1, <1>2, <1>5, <1>6, <1>7, <1>8, <2>1, <2>3, <2>4, AheadReceived
<1>9. ASSUME NEW i \in 1 .. MaxConn, Mine(i, d)
      PROVE  slots[i].u.quiet <= mishaps
  BY <1>1, <1>2, <1>9 DEF Kept, Attends, Heard, Mine
<1>10. SlotsOf(d) /\ mishaps' \in {mishaps, mishaps + 1}
  BY <1>1 DEF SlotsOf
<1>11. CASE ~GoesOn(d)
  <2>1. PICK b : Moves(d, n, w, b, X, E)
    BY <1>1, <1>11
  <2>2. Len(X) # 0
    BY <1>1 DEF Added
  <2>3. ASSUME NEW i \in 1 .. MaxConn, Mine(i, d)
        PROVE  Attends(slots[i], a, X, E, mishaps)
    <3>1. Heard(slots[i], X, E, mishaps)
      BY <1>9, <2>2, <2>3 DEF Heard
    <3>2. mishaps = 0 => Ahead(slots[i], a, X, E)
      BY <1>7, <1>8, <2>3
    <3> QED
      BY <3>1, <3>2 DEF Attends
  <2>4. mishaps = 0 => Straight(a, X, E)
    BY <1>7
  <2>5. "get" \notin Mishaps[d] /\ ~n.overrun =>
          \E i \in 1 .. MaxConn : slots[i].u.active /\ slots[i].peer = d
    BY <1>1, <1>2, <1>3, <1>5 DEF Kept
  <2>6. Kept(slots', mishaps', d, n, X, E)
    BY <1>1, <1>3, <2>3, <2>4, <2>5 DEF Kept, Mine
  <2> QED
    BY <1>10, <2>1, <2>6, KeptAfter
<1>12. CASE GoesOn(d)
  <2>1. PICK V \in Seq(UpPackets) :
          /\ Added(X, V, Get(NextChunk(d)))
          /\ Moves(d, StartDownload, NextChunk(d), TRUE, V, E)
    BY <1>1, <1>12
  <2>2. seq = N /\ last = N - 1
    BY <1>3, <1>12 DEF GoesOn, n
  <2>3. Len(V) # 0 /\ Pending(V)
    <3>1. /\ Len(X) \in Nat /\ Len(V) = Len(X) + 1 /\ V[Len(X) + 1] = Get(NextChunk(d))
          /\ Get(NextChunk(d)).kind = "get"
      BY <2>1 DEF Added, Get
    <3> QED
      BY <3>1 DEF Pending
  <2>4. ASSUME mishaps = 0
        PROVE  Len(E) = 0
    <3> SUFFICES ASSUME Len(E) # 0
                 PROVE  FALSE
      OBVIOUS
    <3>1. 2 \in 1 .. Len(D)
      BY <1>1 DEF Taken
    <3>2. Straight(last, U, D)
      BY <1>1, <1>2, <2>4 DEF Kept, last
    <3>3. D[2].seq = last + 2
      BY <1>5, <3>1, <3>2 DEF Straight
    <3>4. D[2].seq \in 1 .. N
      BY <1>2, <3>1, ElementOfSeq, PacketFields
    <3> QED
      BY <2>2, <3>3, <3>4, SizesAssumption
  <2>5. ASSUME mishaps = 0
        PROVE  Straight(0, V, E)
    BY <1>7, <2>1, <2>4, <2>5, StraightNext
  <2>6. ASSUME NEW i \in 1 .. MaxConn, Mine(i, d)
        PROVE  Attends(slots[i], 0, V, E, mishaps)
    <3>1. Heard(slots[i], V, E, mishaps)
      BY <1>9, <2>3, <2>6 DEF Heard
    <3>2. ASSUME mishaps = 0
          PROVE  Ahead(slots[i], 0, V, E)
      <4>1. Ahead(slots[i], last + 1, X, E) /\ ~Pending(X)
        BY <1>7, <1>8, <2>6, <3>2
      <4> QED
        BY <2>1, <4>1, AheadNext
    <3> QED
      BY <3>1, <3>2 DEF Attends
  <2>7. StartDownload.last = 0
    BY DEF StartDownload
  <2>8. Kept(slots', mishaps', d, StartDownload, V, E)
    BY <1>1, <2>3, <2>5, <2>6, <2>7 DEF Kept, Mine
  <2> QED
    BY <1>10, <2>1, <2>8, KeptAfter
<1> QED
  BY <1>11, <1>12

\* A downloader that gives up waits for nobody.
LEMMA KeptDownloadTimeout ==
    ASSUME KeptInv, SerialInv', NEW d \in Downloaders, DownloadTimeout(d)
    PROVE  KeptInv'
<1> DEFINE dn == CrashDownload(down[d])
<1>1. /\ UNCHANGED slots /\ Moves(d, dn, wanted[d], pure[d], up[d], data[d])
      /\ mishaps' = mishaps
  BY KeptFacts, TypeDownloadTimeout DEF DownloadTimeout
<1>2. ~dn.stream
  <2>1. down[d] \in Streams
    BY KeptFacts, PeerTypes
  <2> QED
    BY <2>1 DEF CrashDownload, Streams
<1> HIDE DEF dn
<1>3. Kept(slots', mishaps', d, dn, up[d], data[d])
  BY <1>2 DEF Kept
<1>4. SlotsOf(d) /\ mishaps' \in {mishaps, mishaps + 1}
  BY <1>1 DEF SlotsOf
<1> QED
  BY <1>1, <1>3, <1>4, KeptAfter

LEMMA KeptInit == Init => KeptInv
<1> SUFFICES ASSUME Init, NEW d \in Downloaders
             PROVE  Kept(slots, mishaps, d, down[d], up[d], data[d])
  BY SerialInit DEF KeptInv
<1>1. /\ down[d].last = 0 /\ up[d] = <<Get(1)>> /\ data[d] = << >>
      /\ \A i \in 1 .. MaxConn : ~slots[i].u.active
  BY InitFacts
<1>2. Len(up[d]) = 1 /\ up[d][1].kind = "get" /\ Len(data[d]) = 0
  BY <1>1 DEF Get
<1>3. Pending(up[d])
  BY <1>2 DEF Pending
<1>4. Straight(0, up[d], data[d])
  BY <1>2, <1>3 DEF Straight
<1> QED
  BY <1>1, <1>3, <1>4 DEF Kept

LEMMA KeptStep ==
    ASSUME Reliable, Roomy, Patient, KeptInv, [Next]_vars
    PROVE  KeptInv'
<1>0. SerialInv'
  BY SerialStep DEF KeptInv
<1>1. CASE UNCHANGED vars \/ PollNothing \/ SkipFree \/ KeepUploads
  BY <1>0, <1>1, KeptSame DEF vars, PollNothing, SkipFree, KeepUploads
<1>2. ASSUME NEW i \in 1 .. MaxConn, UploadTimeout(i)
      PROVE  KeptInv'
  BY <1>0, <1>2, KeptUploadTimeout
<1>3. ASSUME NEW d \in Downloaders,
             \/ ReceiveGet(d) \/ ReceiveAckOf(d)
             \/ Retransmit(d) \/ EarlyRetransmit(d) \/ SendNew(d) \/ SendNothing(d)
             \/ IgnoreData(d) \/ ReceiveData(d) \/ DownloadTimeout(d)
             \/ LoseUp(d) \/ LoseData(d)
      PROVE  KeptInv'
  <2>1. CASE ReceiveGet(d)
    BY <1>0, <2>1, KeptReceiveGet
  <2>2. CASE ReceiveAckOf(d)
    BY <1>0, <2>2, KeptReceiveAck
  <2>3. CASE Retransmit(d) \/ EarlyRetransmit(d)
    BY <1>0, <2>3, KeptRetransmit
  <2>4. CASE SendNew(d)
    BY <1>0, <2>4, KeptSendNew
  <2>5. CASE SendNothing(d)
    <3>1. SessionInv
      BY DEF KeptInv, SerialInv
    <3>2. UNCHANGED <<slots, down, up, data, mishaps>>
      BY <2>5, <3>1, SessionSendNothing DEF SendNothing
    <3> QED
      BY <1>0, <3>2, KeptSame
  <2>6. CASE IgnoreData(d) \/ LoseData(d)
    BY <1>0, <2>6, KeptLoseData
  <2>7. CASE ReceiveData(d)
    BY <1>0, <2>7, KeptOldData, KeptNewData
  <2>8. CASE DownloadTimeout(d)
    BY <1>0, <2>8, KeptDownloadTimeout
  <2>9. CASE LoseUp(d)
    BY <1>0, <2>9, KeptLoseUp
  <2> QED
    BY <1>3, <2>1, <2>2, <2>3, <2>4, <2>5, <2>6, <2>7, <2>8, <2>9
<1> QED
  BY <1>1, <1>2, <1>3 DEF Next

\* Under the same hypotheses, with a slot for every downloader and fewer mishaps than
\* silent RTOs make clean_upload_timeout close an upload (keep_track.c:75), no
\* downloader whose GETs arrive is left waiting for an upload that is gone: it never
\* repeats a GET, so only the upload itself can bring it the rest of its chunk.
THEOREM DownloadersStayServed ==
    ASSUME Reliable, Roomy, Patient
    PROVE  Spec => []StaysServed
<1>1. ASSUME KeptInv
      PROVE  StaysServed
  <2> SUFFICES ASSUME NEW d \in Downloaders,
                      "get" \notin Mishaps[d], down[d].stream, ~down[d].overrun,
                      Of(slots, d) = {}
               PROVE  \E g \in DOMAIN up[d] : up[d][g].kind = "get"
    BY DEF StaysServed
  <2>1. Kept(slots, mishaps, d, down[d], up[d], data[d]) /\ TypeInv
    BY <1>1, KeptFacts
  <2>2. \A i \in 1 .. MaxConn : ~Mine(i, d)
    BY <2>1, NoSlot
  <2>3. Pending(up[d])
    BY <2>1, <2>2 DEF Kept, Mine
  <2>4. DOMAIN up[d] = 1 .. Len(up[d])
    BY <2>1, PeerTypes
  <2> QED
    BY <2>3, <2>4 DEF Pending
<1> QED
  BY <1>1, KeptInit, KeptStep, PTL DEF Spec

================================================================================
