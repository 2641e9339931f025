----------------------------- MODULE ChunkDelivery -----------------------------
(***************************************************************************)
(* What a transfer promises, without packets, windows or timers: the       *)
(* packets 1 .. N of a chunk reach the receiver in order, the sender       *)
(* learns of them only after they did, and the sender closes the session   *)
(* as a success only when it has learnt of all of them.                    *)
(***************************************************************************)
EXTENDS Naturals

CONSTANT N            \* packets in the chunk

VARIABLES delivered,  \* packets 1 .. delivered have been received in order
          acked,      \* packets 1 .. acked are known to the sender to be
          session     \* the sender's session

vars == <<delivered, acked, session>>

TypeOK == /\ delivered \in 0 .. N
          /\ acked \in 0 .. delivered
          /\ session \in {"none", "open", "done", "abandoned"}

Init == delivered = 0 /\ acked = 0 /\ session = "none"

Open == /\ session = "none"
        /\ session' = "open"
        /\ UNCHANGED <<delivered, acked>>

\* The next packet arrives; it may do so after the sender has given up.
Deliver == /\ session # "none"
           /\ delivered < N
           /\ delivered' = delivered + 1
           /\ UNCHANGED <<acked, session>>

Learn == /\ session = "open"
         /\ acked' \in acked .. delivered
         /\ session' = IF acked' = N THEN "done" ELSE "open"
         /\ UNCHANGED delivered

Abandon == /\ session = "open"
           /\ session' = "abandoned"
           /\ UNCHANGED <<delivered, acked>>

Next == Open \/ Deliver \/ Learn \/ Abandon

Spec == Init /\ [][Next]_vars
================================================================================
