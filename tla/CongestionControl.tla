--------------------------- MODULE CongestionControl ---------------------------
(***************************************************************************)
(* congestion_control.c: the congestion window of one upload stream.  The  *)
(* four tables cc_policies, cwnds, max_cwnds and ack_counts are indexed by *)
(* the upload slot; a controller is one row of them.  The operators give   *)
(* the row after each call; the module has no state of its own.            *)
(***************************************************************************)
EXTENDS Naturals

INITIAL_WINDOW == 1

Policies == {"slow_start", "congestion_avoidance"}
Windows  == Nat \ {0}

Controller == [policy : Policies,
               cwnd   : Windows,    \* cwnds[index]
               max    : Windows,    \* max_cwnds[index]
               acks   : Nat]        \* ack_counts[index]

Larger(x, y) == IF x > y THEN x ELSE y

\* init_cwnd: the row a stream starts with.
InitCwnd == [policy |-> "slow_start", cwnd |-> INITIAL_WINDOW, max |-> 1, acks |-> 0]

\* The branch of window_control taken while the window is at most half of the
\* recorded maximum: one more packet for every full window of acknowledged ones.
LinearGrowth(c, count) ==
    IF c.acks + count >= c.cwnd
    THEN [c EXCEPT !.acks = c.acks + count - c.cwnd, !.cwnd = c.cwnd + 1]
    ELSE [c EXCEPT !.acks = c.acks + count]

\* window_control: an ACK removed count packets from the sent queue.
WindowControl(c, count) ==
    CASE c.policy = "slow_start" ->
           [c EXCEPT !.cwnd = c.cwnd + count, !.max = Larger(c.cwnd + count, c.max)]
      [] c.policy = "congestion_avoidance" /\ c.cwnd <= c.max \div 2 ->
           LinearGrowth(c, count)
      [] OTHER -> [c EXCEPT !.cwnd = c.cwnd + count]

\* window_timeout: max_cwnds and ack_counts keep their values.
WindowTimeout(c) ==
    [c EXCEPT !.policy = "congestion_avoidance", !.cwnd = INITIAL_WINDOW]
================================================================================
