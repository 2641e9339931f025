------------------------------ MODULE MCSession ------------------------------
(***************************************************************************)
(* Session for model checking: who downloads how many chunks.              *)
(***************************************************************************)
EXTENDS Session

CONSTANTS Ann, Bob

Pair      == {Ann, Bob}
PairWants == [d \in Pair |-> IF d = Ann THEN 2 ELSE 1]
One       == {Ann}
OneWants  == [d \in One |-> 2]

\* Ann's ACKs arrive, but the timers of her packets may be early; of what Bob and
\* the uploader send each other anything may be lost.  Or else only Ann's ACKs may
\* be lost.
AcksSafe  == [d \in Pair |-> IF d = Ann THEN {"data", "timer"} ELSE {"get", "data", "ack"}]
AckLoss   == [d \in One |-> {"ack"}]
Zero      == {0}
Leftovers == {0, 2}
================================================================================
