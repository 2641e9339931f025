----------------------------- MODULE ChunkRequest -----------------------------
(***************************************************************************)
(* What the downloads of a request promise, without connections, slots or  *)
(* packets: each chunk is fetched from at most one peer at a time, one     *)
(* that has it, and each peer serves at most one chunk at a time; a chunk  *)
(* once owned stays so until the next request; a request ends only when    *)
(* all its chunks are owned.                                               *)
(***************************************************************************)
CONSTANTS Peers,   \* the peers chunks are fetched from
          Chunks,  \* the chunks of a request
          Owns     \* the chunks each peer has

VARIABLES open,    \* a request is running
          owned,   \* the chunks it has received
          fetches  \* the pairs of a peer and the chunk it was asked for

vars == <<open, owned, fetches>>

Init == open = FALSE /\ owned = Chunks /\ fetches = {}

Asked(peer, F)    == \E f \in F : f[1] = peer
Fetched(chunk, F) == \E f \in F : f[2] = chunk

\* The fetches F, or F and one more: an idle peer is asked for a chunk it has, one
\* that is neither in own nor being fetched.
MayAsk(F, own) ==
    {F} \union {F \union {f} : f \in {g \in Peers \X (Chunks \ own) :
                                      /\ g[2] \in Owns[g[1]]
                                      /\ ~Asked(g[1], F) /\ ~Fetched(g[2], F)}}

Begin == /\ ~open /\ open' = TRUE
         /\ owned' = {} /\ fetches' = {}

Ask == /\ open /\ fetches' \in MayAsk(fetches, owned)
       /\ UNCHANGED <<open, owned>>

\* A fetch ends with its chunk, and the peer may be asked for another.
Deliver(f) == /\ open /\ owned' = owned \union {f[2]}
              /\ fetches' \in MayAsk(fetches \ {f}, owned')
              /\ UNCHANGED open

\* A fetch ends without its chunk, and another peer may be asked for one.
GiveUp(f) == /\ open /\ fetches' \in MayAsk(fetches \ {f}, owned)
             /\ UNCHANGED <<open, owned>>

End == /\ open /\ owned = Chunks /\ open' = FALSE
       /\ UNCHANGED <<owned, fetches>>

Next == \/ Begin \/ Ask \/ End
        \/ \E f \in fetches : Deliver(f) \/ GiveUp(f)

Spec == Init /\ [][Next]_vars
================================================================================
