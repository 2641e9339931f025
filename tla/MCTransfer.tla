------------------------------ MODULE MCTransfer ------------------------------
(***************************************************************************)
(* Transfer for model checking.  Packet sizes are in units that keep only  *)
(* LastPacket < FullPacket; the .cfg files choose N, Cap and the network.  *)
(***************************************************************************)
EXTENDS Transfer

Losses      == {"get", "data", "ack"}
Unordered   == {"get", "data", "ack", "order"}
================================================================================
