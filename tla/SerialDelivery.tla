---------------------------- MODULE SerialDelivery ----------------------------
(***************************************************************************)
(* What an uploader and the downloaders it serves promise, chunk after     *)
(* chunk, without packets, windows, queues or timers: a downloader         *)
(* receives the packets 1 .. N of its chunk in order and then goes on to   *)
(* the next; the uploader has at most one upload open to it, of a chunk it *)
(* was still to receive all of, learns only of packets that were received, *)
(* and knows an upload to be complete only when the whole chunk was.       *)
(***************************************************************************)
EXTENDS Naturals

CONSTANTS N,            \* packets in a chunk
          Downloaders,
          Wants,        \* how many chunks each of them fetches
          Slots         \* where the uploader keeps its uploads

VARIABLES chunk,        \* the chunk each downloader fetches, or the last it fetched
          got,          \* packets of it received in order
          uploads       \* each slot's upload, or the last there was

vars == <<chunk, got, uploads>>

Init == /\ chunk = [d \in Downloaders |-> 1]
        /\ got = [d \in Downloaders |-> 0]
        /\ uploads \in [Slots -> [open : {FALSE}, to : Downloaders, chunk : {0}, acked : {0}]]

Receive(d) == /\ got[d] < N
              /\ got' = [got EXCEPT ![d] = @ + 1]
              /\ UNCHANGED <<chunk, uploads>>

\* The last packet arrives, and the next chunk is asked for.
GoOn(d) == /\ got[d] = N - 1 /\ chunk[d] < Wants[d]
           /\ chunk' = [chunk EXCEPT ![d] = @ + 1]
           /\ got' = [got EXCEPT ![d] = 0]
           /\ UNCHANGED uploads

Open(i, d) == /\ got[d] = 0
              /\ ~uploads[i].open /\ \A j \in Slots : uploads[j].open => uploads[j].to # d
              /\ uploads' = [uploads EXCEPT ![i] = [open |-> TRUE, to |-> d,
                                                    chunk |-> chunk[d], acked |-> 0]]
              /\ UNCHANGED <<chunk, got>>

\* What the downloader of upload u has received of its chunk.
Received(u) == IF u.chunk < chunk[u.to] THEN N ELSE got[u.to]

Learn(i) == /\ uploads[i].open
            /\ \E a \in uploads[i].acked .. Received(uploads[i]) :
                 uploads' = [uploads EXCEPT ![i].acked = a, ![i].open = a # N]
            /\ UNCHANGED <<chunk, got>>

Abandon(i) == /\ uploads[i].open /\ uploads[i].acked # N
              /\ uploads' = [uploads EXCEPT ![i].open = FALSE]
              /\ UNCHANGED <<chunk, got>>

Next == \/ \E d \in Downloaders : Receive(d) \/ GoOn(d)
        \/ \E i \in Slots, d \in Downloaders : Open(i, d)
        \/ \E i \in Slots : Learn(i) \/ Abandon(i)

Spec == Init /\ [][Next]_vars
================================================================================
