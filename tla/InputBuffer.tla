------------------------------ MODULE InputBuffer ------------------------------
(***************************************************************************)
(* input_buffer.c: what read() returns is appended to a buffer, and lines  *)
(* are cut from its front.  The operators give the buffer after each step; *)
(* `cur' is where the next read goes.                                      *)
(***************************************************************************)
EXTENDS Integers, Sequences

CONSTANTS USERBUF_SIZE,
          UINT_MAX,       \* of the unsigned int `cur'
          Chars           \* what the user types, besides ends of lines

NUL == "NUL"
EOL == "EOL"

ASSUME BufferAssumption == /\ USERBUF_SIZE \in Nat \ {0} /\ UINT_MAX \in Nat
                           /\ USERBUF_SIZE <= UINT_MAX
                           /\ NUL \notin Chars /\ EOL \notin Chars

Places  == 0 .. USERBUF_SIZE
Buffers == [buf : [Places -> Chars \union {NUL, EOL}], cur : 0 .. UINT_MAX]

CreateUserbuf == [buf |-> [i \in Places |-> NUL], cur |-> 0]

\* The test that ends the process with "buffer full; line too long!".
BufferFull(b) == b.cur >= USERBUF_SIZE - 1

\* read: bytes, at most as many as there is room for, go to the place `cur'.
ReadInto(b, bytes) ==
    [buf |-> [i \in Places |-> IF i \in b.cur .. b.cur + Len(bytes) - 1
                               THEN bytes[i - b.cur + 1] ELSE b.buf[i]],
     cur |-> b.cur + Len(bytes)]

\* strchr(buf, '\n') finds the lowest of these: it stops at the first NUL.
LineEnds(b) == {e \in Places : b.buf[e] = EOL /\ \A i \in 0 .. e - 1 : b.buf[i] \notin {EOL, NUL}}

\* Faulty variant of CutLine: the end of the line is not taken off cur.
CutLineCountsShort(b, e) ==
    [buf |-> [i \in Places |-> IF i <= USERBUF_SIZE - e - 1 THEN b.buf[i + e + 1]
                               ELSE IF i = e THEN NUL ELSE b.buf[i]],
     cur |-> b.cur - e]

\* The loop's body: NUL for the end of the line at e, and memmove of all that
\* follows; the places past the last byte moved keep what they held.
CutLine(b, e) ==
    [buf |-> [i \in Places |-> IF i <= USERBUF_SIZE - e - 1 THEN b.buf[i + e + 1]
                               ELSE IF i = e THEN NUL ELSE b.buf[i]],
     cur |-> (b.cur - (e + 1)) % (UINT_MAX + 1)]

\* One turn of the loop, if strchr finds the end of a line.
CutFirst(a) ==
    IF LineEnds(a.left) = {} THEN a
    ELSE LET e == CHOOSE x \in LineEnds(a.left) : TRUE
         IN  [left  |-> CutLine(a.left, e),
              lines |-> Append(a.lines, [k \in 1 .. e |-> a.left.buf[k - 1]])]

\* The loop: the buffer that is left, and the lines handed to handle_line.
CutLines(b) ==
    LET after[k \in 0 .. USERBUF_SIZE + 1] ==
          IF k = 0 THEN [left |-> b, lines |-> << >>] ELSE CutFirst(after[k - 1])
    IN  after[USERBUF_SIZE + 1]

-------------------------------------------------------------------------------
(* What a buffer of lines promises, without a buffer: the lines that end in a *)
(* text, and what follows the last of them.                                  *)

AddChar(s, c) == IF c = EOL THEN [lines |-> Append(s.lines, s.rest), rest |-> << >>]
                            ELSE [lines |-> s.lines, rest |-> Append(s.rest, c)]
Split(text) ==
    LET upto[k \in 0 .. Len(text)] ==
          IF k = 0 THEN [lines |-> << >>, rest |-> << >>] ELSE AddChar(upto[k - 1], text[k])
    IN  upto[Len(text)]
================================================================================
