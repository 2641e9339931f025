------------------------------ MODULE ChunkLayout ------------------------------
(***************************************************************************)
(* How a chunk is cut into DATA packets (common.h, chunk.h, and the sizes  *)
(* send_data_packets computes): N packets numbered from 1, all full but    *)
(* the last, which is shorter.                                             *)
(***************************************************************************)
EXTENDS Naturals, Sequences

CONSTANTS N,            \* MAX_PACKET_PER_CHUNK
          FullPacket,   \* MAX_PAYLOAD_SIZE: bytes in packets 1 .. N-1
          LastPacket    \* last_packet_size: bytes in packet N

ASSUME SizesAssumption == /\ N \in Nat \ {0}
                          /\ FullPacket \in Nat
                          /\ LastPacket \in 1 .. FullPacket - 1

Packets        == 1 .. N
SeqNumbers     == 0 .. N
PacketQueues   == Seq(Packets)

BT_CHUNK_SIZE == (N - 1) * FullPacket + LastPacket

\* Faulty variant: the last packet is sent as long as the others.
PayloadSizeFull(seq) == FullPacket

\* The bytes of packet seq.
PayloadSize(seq) == IF seq = N THEN LastPacket ELSE FullPacket
================================================================================
