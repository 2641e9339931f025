------------------------------ MODULE InputProofs ------------------------------
(***************************************************************************)
(* Proofs about the input buffer: as long as no line ends beyond half of   *)
(* it, the lines cut out of it are the lines of the text read into it, and *)
(* what stays in it is the rest of the text, for every size of the buffer. *)
(***************************************************************************)
EXTENDS InputBuffer, TLAPS, SequenceTheorems, WellFoundedInduction

-------------------------------------------------------------------------------
(* Natural numbers.                                                          *)

\* A set of natural numbers with a member has a least one.
LEMMA LeastOf ==
    ASSUME NEW S \in SUBSET Nat, S # {}
    PROVE  \E x \in S : \A y \in S : x <= y
<1>1. PICK x \in S : \A y \in S : ~(<<y, x>> \in OpToRel(<, Nat))
  BY NatLessThanWellFounded, WFMin, Zenon
<1>2. \A y \in Nat : y < x => <<y, x>> \in OpToRel(<, Nat)
  BY DEF OpToRel
<1>3. \A y \in S : ~(y < x)
  BY <1>1, <1>2, Zenon
<1>4. \A y \in S : x <= y
  BY <1>3
<1> QED
  BY <1>4

\* A set of natural numbers with a member and a bound has a greatest one.
LEMMA GreatestOf ==
    ASSUME NEW S \in SUBSET Nat, S # {}, NEW n \in Nat, \A x \in S : x <= n
    PROVE  \E x \in S : \A y \in S : y <= x
<1> DEFINE Gaps == {n - x : x \in S}
<1>1. \A g \in Gaps : g \in Nat
  OBVIOUS
<1>2. Gaps \in SUBSET Nat /\ Gaps # {}
  BY <1>1
<1>3. PICK g \in Gaps : \A h \in Gaps : g <= h
  <2> HIDE DEF Gaps
  <2> QED
    BY <1>2, LeastOf
<1>4. PICK x \in S : g = n - x
  OBVIOUS
<1>5. \A y \in S : n - x <= n - y
  BY <1>3, <1>4
<1>6. \A y \in S : y <= x
  BY <1>5
<1> QED
  BY <1>6

\* Induction, for a set of natural numbers.
LEMMA AllOfThem ==
    ASSUME NEW T \in SUBSET Nat, 0 \in T, \A k \in T : k + 1 \in T
    PROVE  \A k \in Nat : k \in T
<1> SUFFICES ASSUME NEW m \in Nat, m \notin T
             PROVE  FALSE
  OBVIOUS
<1>1. PICK x \in Nat \ T : \A y \in Nat \ T : x <= y
  <2>1. Nat \ T \in SUBSET Nat /\ Nat \ T # {}
    OBVIOUS
  <2> QED
    BY <2>1, LeastOf
<1>2. x # 0 /\ x - 1 \in Nat
  OBVIOUS
<1>3. x - 1 \in T
  BY <1>1, <1>2
<1>4. (x - 1) + 1 = x
  OBVIOUS
<1> QED
  BY <1>3, <1>4, <1>1

LEMMA ModBelow == \A a \in Int, m \in Nat : a % (m + 1) \in 0 .. m
  OBVIOUS
LEMMA ModSame == \A m \in Nat : \A a \in 0 .. m : a % (m + 1) = a
  OBVIOUS

-------------------------------------------------------------------------------
(* The two loops, turn by turn.                                              *)

Turns(g, b, n) ==
    g = [k \in 0 .. n |-> IF k = 0 THEN [left |-> b, lines |-> << >>] ELSE CutFirst(g[k - 1])]

Prefixes(u, text, n) ==
    u = [k \in 0 .. n |-> IF k = 0 THEN [lines |-> << >>, rest |-> << >>]
                          ELSE AddChar(u[k - 1], text[k])]

\* The loop of process_user_input can be unrolled.
LEMMA TurnsExist == ASSUME NEW b PROVE \A n \in Nat : \E g : Turns(g, b, n)
<1> DEFINE T == {n \in Nat : \E g : Turns(g, b, n)}
<1>1. T \in SUBSET Nat
  OBVIOUS
<1>2. 0 \in T
  <2>1. Turns([k \in 0 .. 0 |-> [left |-> b, lines |-> << >>]], b, 0)
    BY DEF Turns
  <2> QED
    BY <2>1
<1>3. ASSUME NEW n \in T PROVE n + 1 \in T
  <2>1. PICK g : Turns(g, b, n)
    OBVIOUS
  <2> DEFINE h == [k \in 0 .. n + 1 |-> IF k <= n THEN g[k] ELSE CutFirst(g[n])]
  <2>2. n \in Nat /\ h[0] = g[0] /\ g[0] = [left |-> b, lines |-> << >>]
    BY <2>1 DEF Turns
  <2>3. \A k \in 1 .. n : h[k] = CutFirst(h[k - 1])
    BY <2>1, <2>2 DEF Turns
  <2>4. h[n + 1] = CutFirst(h[n])
    BY <2>2
  <2>5. DOMAIN h = 0 .. n + 1 /\ h = [k \in 0 .. n + 1 |-> h[k]]
    OBVIOUS
  <2> HIDE DEF h
  <2>6. \A k \in 0 .. n + 1 : h[k] = IF k = 0 THEN [left |-> b, lines |-> << >>] ELSE CutFirst(h[k - 1])
    <3> SUFFICES ASSUME NEW k \in 0 .. n + 1
                 PROVE  h[k] = IF k = 0 THEN [left |-> b, lines |-> << >>] ELSE CutFirst(h[k - 1])
      OBVIOUS
    <3>1. k = 0 \/ k \in 1 .. n \/ (k = n + 1 /\ k # 0 /\ k - 1 = n)
      BY <2>2
    <3> QED
      BY <3>1, <2>2, <2>3, <2>4
  <2>7. Turns(h, b, n + 1)
    BY <2>5, <2>6 DEF Turns
  <2> QED
    BY <2>2, <2>7
<1>4. \A n \in Nat : n \in T
  <2> HIDE DEF T
  <2> QED
    BY <1>1, <1>2, <1>3, AllOfThem
<1> QED
  BY <1>4

LEMMA CutLinesUnrolled ==
    ASSUME BufferAssumption, NEW b
    PROVE  \E g : Turns(g, b, USERBUF_SIZE + 1) /\ CutLines(b) = g[USERBUF_SIZE + 1]
<1>1. USERBUF_SIZE + 1 \in Nat
  BY DEF BufferAssumption
<1>2. \E g : Turns(g, b, USERBUF_SIZE + 1)
  BY <1>1, TurnsExist
<1> DEFINE w == CHOOSE g : Turns(g, b, USERBUF_SIZE + 1)
<1>3. Turns(w, b, USERBUF_SIZE + 1)
  BY <1>2
<1>4. CutLines(b) = w[USERBUF_SIZE + 1]
  BY Zenon DEF CutLines, Turns
<1> QED
  BY <1>3, <1>4

\* And so can the reading of a text, character by character.
LEMMA CharsExist == ASSUME NEW text PROVE \A n \in Nat : \E u : Prefixes(u, text, n)
<1> DEFINE T == {n \in Nat : \E u : Prefixes(u, text, n)}
           none == [lines |-> << >>, rest |-> << >>]
<1>1. T \in SUBSET Nat
  OBVIOUS
<1>2. 0 \in T
  <2>1. Prefixes([k \in 0 .. 0 |-> none], text, 0)
    BY DEF Prefixes
  <2> QED
    BY <2>1
<1>3. ASSUME NEW n \in T PROVE n + 1 \in T
  <2>1. PICK u : Prefixes(u, text, n)
    OBVIOUS
  <2> DEFINE h == [k \in 0 .. n + 1 |-> IF k <= n THEN u[k] ELSE AddChar(u[n], text[n + 1])]
  <2>2. n \in Nat /\ h[0] = u[0] /\ u[0] = none
    BY <2>1 DEF Prefixes
  <2>3. \A k \in 1 .. n : h[k] = AddChar(h[k - 1], text[k])
    BY <2>1, <2>2 DEF Prefixes
  <2>4. h[n + 1] = AddChar(h[n], text[n + 1])
    BY <2>2
  <2>5. DOMAIN h = 0 .. n + 1 /\ h = [k \in 0 .. n + 1 |-> h[k]]
    OBVIOUS
  <2> HIDE DEF h
  <2>6. \A k \in 0 .. n + 1 : h[k] = IF k = 0 THEN none ELSE AddChar(h[k - 1], text[k])
    <3> SUFFICES ASSUME NEW k \in 0 .. n + 1
                 PROVE  h[k] = IF k = 0 THEN none ELSE AddChar(h[k - 1], text[k])
      OBVIOUS
    <3>1. k = 0 \/ k \in 1 .. n \/ (k = n + 1 /\ k # 0 /\ k - 1 = n)
      BY <2>2
    <3> QED
      BY <3>1, <2>2, <2>3, <2>4
  <2>7. Prefixes(h, text, n + 1)
    BY <2>5, <2>6 DEF Prefixes
  <2> QED
    BY <2>2, <2>7
<1>4. \A n \in Nat : n \in T
  <2> HIDE DEF T
  <2> QED
    BY <1>1, <1>2, <1>3, AllOfThem
<1> QED
  BY <1>4

LEMMA SplitUnrolled ==
    ASSUME NEW text, Len(text) \in Nat
    PROVE  \E u : Prefixes(u, text, Len(text)) /\ Split(text) = u[Len(text)]
<1>1. \E u : Prefixes(u, text, Len(text))
  BY CharsExist
<1> DEFINE w == CHOOSE u : Prefixes(u, text, Len(text))
<1>2. Prefixes(w, text, Len(text))
  BY <1>1
<1>3. Split(text) = w[Len(text)]
  BY Zenon DEF Split, Prefixes
<1> QED
  BY <1>2, <1>3

LEMMA TurnSteps ==
    ASSUME NEW g, NEW b, NEW n \in Nat, Turns(g, b, n)
    PROVE  /\ g[0] = [left |-> b, lines |-> << >>]
           /\ \A k \in 0 .. n - 1 : g[k + 1] = CutFirst(g[k])
<1>1. \A k \in 0 .. n - 1 : k + 1 \in 0 .. n /\ k + 1 # 0 /\ (k + 1) - 1 = k
  OBVIOUS
<1> QED
  BY <1>1 DEF Turns

LEMMA PrefixSteps ==
    ASSUME NEW u, NEW text, NEW n \in Nat, Prefixes(u, text, n)
    PROVE  /\ u[0] = [lines |-> << >>, rest |-> << >>]
           /\ \A k \in 0 .. n - 1 : u[k + 1] = AddChar(u[k], text[k + 1])
<1>1. \A k \in 0 .. n - 1 : k + 1 \in 0 .. n /\ k + 1 # 0 /\ (k + 1) - 1 = k
  OBVIOUS
<1> QED
  BY <1>1 DEF Prefixes

-------------------------------------------------------------------------------
(* Types.                                                                    *)

Bytes == Chars \union {NUL, EOL}

LEMMA SizeIsNat ==
    ASSUME BufferAssumption
    PROVE  USERBUF_SIZE \in Nat /\ UINT_MAX \in Nat /\ USERBUF_SIZE >= 1 /\ USERBUF_SIZE <= UINT_MAX
BY DEF BufferAssumption

LEMMA BufferFields ==
    ASSUME BufferAssumption, NEW b \in Buffers
    PROVE  /\ b.cur \in Int /\ b.cur \in 0 .. UINT_MAX
           /\ \A k \in Places : b.buf[k] \in Bytes
BY SizeIsNat DEF Buffers, Bytes

LEMMA CutLineType ==
    ASSUME BufferAssumption, NEW b \in Buffers, NEW e \in Places
    PROVE  CutLine(b, e) \in Buffers
<1> DEFINE moved == [k \in Places |-> IF k <= USERBUF_SIZE - e - 1 THEN b.buf[k + e + 1]
                                      ELSE IF k = e THEN NUL ELSE b.buf[k]]
           left  == (b.cur - (e + 1)) % (UINT_MAX + 1)
<1>1. e \in Int /\ e >= 0
  BY SizeIsNat DEF Places
<1>2. left \in 0 .. UINT_MAX
  <2>1. b.cur - (e + 1) \in Int
    BY <1>1, BufferFields
  <2> QED
    BY <2>1, SizeIsNat, ModBelow
<1>3. \A k \in Places : moved[k] \in Bytes
  <2> SUFFICES ASSUME NEW k \in Places PROVE moved[k] \in Bytes
    OBVIOUS
  <2>1. CASE k <= USERBUF_SIZE - e - 1
    <3>1. k + e + 1 \in Places
      BY <2>1, <1>1, SizeIsNat DEF Places
    <3> QED
      BY <3>1, <2>1, BufferFields
  <2>2. CASE ~(k <= USERBUF_SIZE - e - 1)
    BY <2>2, BufferFields DEF Bytes
  <2> QED
    BY <2>1, <2>2
<1>4. moved \in [Places -> Bytes]
  <2>1. DOMAIN moved = Places /\ moved = [k \in Places |-> moved[k]]
    OBVIOUS
  <2> HIDE DEF moved
  <2> QED
    BY <1>3, <2>1
<1>5. CutLine(b, e) = [buf |-> moved, cur |-> left]
  BY DEF CutLine
<1> HIDE DEF moved, left
<1> QED
  BY <1>2, <1>4, <1>5 DEF Buffers, Bytes

LEMMA ReadIntoType ==
    ASSUME BufferAssumption, NEW b \in Buffers, NEW bytes \in Seq(Bytes),
           b.cur + Len(bytes) <= USERBUF_SIZE
    PROVE  ReadInto(b, bytes) \in Buffers
<1> DEFINE filled == [k \in Places |-> IF k \in b.cur .. b.cur + Len(bytes) - 1
                                       THEN bytes[k - b.cur + 1] ELSE b.buf[k]]
<1>1. b.cur \in Nat /\ Len(bytes) \in Nat
  BY BufferFields, SizeIsNat
<1>2. \A k \in Places : filled[k] \in Bytes
  <2> SUFFICES ASSUME NEW k \in Places PROVE filled[k] \in Bytes
    OBVIOUS
  <2>1. CASE k \in b.cur .. b.cur + Len(bytes) - 1
    <3>1. k - b.cur + 1 \in 1 .. Len(bytes)
      BY <1>1, <2>1
    <3> QED
      BY <3>1, <2>1
  <2>2. CASE k \notin b.cur .. b.cur + Len(bytes) - 1
    BY <2>2, BufferFields
  <2> QED
    BY <2>1, <2>2
<1>3. filled \in [Places -> Bytes]
  <2>1. DOMAIN filled = Places /\ filled = [k \in Places |-> filled[k]]
    OBVIOUS
  <2> HIDE DEF filled
  <2> QED
    BY <1>2, <2>1
<1>4. ReadInto(b, bytes) = [buf |-> filled, cur |-> b.cur + Len(bytes)]
  BY DEF ReadInto
<1>5. b.cur + Len(bytes) \in 0 .. UINT_MAX
  BY <1>1, SizeIsNat
<1> HIDE DEF filled
<1> QED
  BY <1>3, <1>4, <1>5 DEF Buffers, Bytes

\* A turn of the loop keeps a buffer a buffer and the lines lines.
LEMMA CutFirstType ==
    ASSUME BufferAssumption, NEW a, a.left \in Buffers, a.lines \in Seq(Seq(Bytes))
    PROVE  CutFirst(a).left \in Buffers /\ CutFirst(a).lines \in Seq(Seq(Bytes))
<1>1. CASE LineEnds(a.left) = {}
  BY <1>1 DEF CutFirst
<1>2. CASE LineEnds(a.left) # {}
  <2> DEFINE e == CHOOSE x \in LineEnds(a.left) : TRUE
             line == [k \in 1 .. e |-> a.left.buf[k - 1]]
  <2>1. e \in LineEnds(a.left)
    BY <1>2
  <2>2. CutFirst(a) = [left |-> CutLine(a.left, e), lines |-> Append(a.lines, line)]
    BY <1>2 DEF CutFirst
  <2> HIDE DEF e
  <2>3. e \in Places /\ e \in Nat /\ e <= USERBUF_SIZE
    BY <2>1, SizeIsNat DEF LineEnds, Places
  <2>4. \A k \in 1 .. e : a.left.buf[k - 1] \in Bytes
    <3> SUFFICES ASSUME NEW k \in 1 .. e PROVE a.left.buf[k - 1] \in Bytes
      OBVIOUS
    <3>1. k - 1 \in Places
      BY <2>3, SizeIsNat DEF Places
    <3> QED
      BY <3>1, BufferFields
  <2>5. line \in Seq(Bytes)
    BY <2>3, <2>4
  <2> HIDE DEF line
  <2>6. CutLine(a.left, e) \in Buffers
    BY <2>3, CutLineType
  <2>7. Append(a.lines, line) \in Seq(Seq(Bytes))
    BY <2>5
  <2> QED
    BY <2>2, <2>6, <2>7
<1> QED
  BY <1>1, <1>2

\* CutLines returns a buffer and lines.
LEMMA CutLinesType ==
    ASSUME BufferAssumption, NEW b \in Buffers
    PROVE  CutLines(b).left \in Buffers /\ CutLines(b).lines \in Seq(Seq(Bytes))
<1> DEFINE n == USERBUF_SIZE + 1
<1>1. n \in Nat
  BY SizeIsNat
<1>2. PICK g : Turns(g, b, n) /\ CutLines(b) = g[n]
  BY CutLinesUnrolled
<1> HIDE DEF n
<1> DEFINE Good(a) == a.left \in Buffers /\ a.lines \in Seq(Seq(Bytes))
           T == {k \in Nat : k <= n => Good(g[k])}
<1>3. g[0] = [left |-> b, lines |-> << >>] /\ \A k \in 0 .. n - 1 : g[k + 1] = CutFirst(g[k])
  BY <1>1, <1>2, TurnSteps
<1>4. 0 \in T
  <2>1. << >> \in Seq(Seq(Bytes))
    OBVIOUS
  <2>2. g[0].left = b /\ g[0].lines = << >>
    BY <1>3
  <2>3. Good(g[0])
    BY <2>1, <2>2
  <2> QED
    BY <2>3
<1>5. ASSUME NEW k \in T PROVE k + 1 \in T
  <2> SUFFICES ASSUME k + 1 <= n PROVE Good(g[k + 1])
    OBVIOUS
  <2>1. Good(g[k]) /\ k \in 0 .. n - 1
    BY <1>1
  <2>2. Good(CutFirst(g[k]))
    BY <2>1, CutFirstType
  <2> QED
    BY <2>1, <2>2, <1>3
<1>6. \A k \in Nat : k \in T
  <2>1. T \in SUBSET Nat
    OBVIOUS
  <2> HIDE DEF T
  <2> QED
    BY <2>1, <1>4, <1>5, AllOfThem
<1> QED
  BY <1>1, <1>2, <1>6

-------------------------------------------------------------------------------
(* What the buffer holds.                                                    *)

Texts == Seq(Chars \union {EOL})

\* The buffer holds what follows the t-th character of a text, and no more.
Holds(b, text, t) ==
    /\ b \in Buffers
    /\ t \in 0 .. Len(text) /\ b.cur = Len(text) - t /\ b.cur <= USERBUF_SIZE
    /\ \A k \in 0 .. b.cur - 1 : b.buf[k] = text[t + 1 + k]
    /\ \A k \in b.cur .. USERBUF_SIZE : b.buf[k] = NUL

LEMMA TextFacts ==
    ASSUME BufferAssumption, NEW text \in Texts
    PROVE  /\ Len(text) \in Nat
           /\ \A k \in 1 .. Len(text) : text[k] # NUL /\ text[k] \in Chars \union {EOL}
BY DEF Texts, BufferAssumption, NUL, EOL

\* strchr finds the next end of a line of the text.
LEMMA FoundEnd ==
    ASSUME BufferAssumption, NEW text \in Texts, NEW b, NEW t \in Nat, Holds(b, text, t),
           NEW e \in LineEnds(b)
    PROVE  /\ e \in 0 .. b.cur - 1 /\ text[t + 1 + e] = EOL
           /\ \A k \in 0 .. e - 1 : text[t + 1 + k] # EOL
<1>1. e \in 0 .. USERBUF_SIZE /\ b.buf[e] = EOL /\ \A k \in 0 .. e - 1 : b.buf[k] # EOL
  BY DEF LineEnds, Places
<1>2. b.cur \in Nat /\ e \in Nat
  BY <1>1, BufferFields, SizeIsNat DEF Holds
<1>3. e < b.cur
  <2> SUFFICES ASSUME e >= b.cur PROVE FALSE
    BY <1>2
  <2>1. b.buf[e] = NUL
    BY <1>1, <1>2 DEF Holds
  <2> QED
    BY <2>1, <1>1 DEF NUL, EOL
<1>4. \A k \in 0 .. e - 1 : k \in 0 .. b.cur - 1
  BY <1>2, <1>3
<1>5. \A k \in 0 .. b.cur - 1 : b.buf[k] = text[t + 1 + k]
  BY DEF Holds
<1> QED
  BY <1>1, <1>2, <1>3, <1>4, <1>5

\* When it finds none there is none.
LEMMA NoEnd ==
    ASSUME BufferAssumption, NEW text \in Texts, NEW b, NEW t \in Nat, Holds(b, text, t),
           LineEnds(b) = {}
    PROVE  \A k \in t + 1 .. Len(text) : text[k] # EOL
<1>1. b.cur \in Nat /\ b.cur <= USERBUF_SIZE /\ b.cur = Len(text) - t /\ Len(text) \in Nat
  BY BufferFields, SizeIsNat, TextFacts DEF Holds
<1>2. \A k \in 0 .. b.cur - 1 : b.buf[k] = text[t + 1 + k]
  BY DEF Holds
<1> DEFINE Ends == {k \in 0 .. b.cur - 1 : text[t + 1 + k] = EOL}
<1>3. Ends = {}
  <2> SUFFICES ASSUME Ends # {} PROVE FALSE
    OBVIOUS
  <2>1. Ends \in SUBSET Nat
    OBVIOUS
  <2>2. PICK e \in Ends : \A k \in Ends : e <= k
    <3> HIDE DEF Ends
    <3> QED
      BY <2>1, LeastOf
  <2>3. e \in 0 .. b.cur - 1 /\ e \in Places /\ b.buf[e] = EOL
    <3>1. e \in 0 .. b.cur - 1 /\ text[t + 1 + e] = EOL
      BY <2>2
    <3>2. e \in Places
      BY <1>1, <3>1, SizeIsNat DEF Places
    <3> QED
      BY <1>2, <3>1, <3>2
  <2>4. \A k \in 0 .. e - 1 : b.buf[k] \notin {EOL, NUL}
    <3> SUFFICES ASSUME NEW k \in 0 .. e - 1 PROVE b.buf[k] \notin {EOL, NUL}
      OBVIOUS
    <3>1. k \in 0 .. b.cur - 1 /\ k < e /\ t + 1 + k \in 1 .. Len(text)
      BY <1>1, <2>3
    <3>2. k \notin Ends
      BY <3>1, <2>2
    <3>3. text[t + 1 + k] # EOL /\ text[t + 1 + k] # NUL
      BY <3>1, <3>2, TextFacts
    <3> QED
      BY <3>1, <3>3, <1>2
  <2>5. e \in LineEnds(b)
    BY <2>3, <2>4 DEF LineEnds
  <2> QED
    BY <2>5
<1>4. ASSUME NEW k \in t + 1 .. Len(text) PROVE text[k] # EOL
  <2>1. k - (t + 1) \in 0 .. b.cur - 1 /\ t + 1 + (k - (t + 1)) = k
    BY <1>1
  <2>2. k - (t + 1) \notin Ends
    BY <1>3
  <2> HIDE DEF Ends
  <2> DEFINE j == k - (t + 1)
  <2>3. j \in 0 .. b.cur - 1 /\ j \notin Ends /\ t + 1 + j = k
    BY <2>1, <2>2
  <2> HIDE DEF j
  <2> QED
    BY <2>3 DEF Ends
<1> QED
  BY <1>4

\* memmove brings the rest of the text to the front; the text being no longer than
\* half of the buffer, the places it leaves alone hold NUL.
LEMMA ShiftedText ==
    ASSUME BufferAssumption, NEW text \in Texts, NEW b, NEW t \in Nat, Holds(b, text, t),
           NEW e \in LineEnds(b), 2 * b.cur <= USERBUF_SIZE + 1
    PROVE  Holds(CutLine(b, e), text, t + e + 1)
<1> DEFINE c == CutLine(b, e)
<1>1. e \in 0 .. b.cur - 1
  BY FoundEnd
<1>2. /\ b.cur \in Nat /\ b.cur <= USERBUF_SIZE /\ b.cur = Len(text) - t /\ Len(text) \in Nat
      /\ e \in Nat /\ e < b.cur
  BY <1>1, BufferFields, SizeIsNat, TextFacts DEF Holds
<1>3. e \in Places
  BY DEF LineEnds
<1>4. c \in Buffers
  <2>1. b \in Buffers
    BY DEF Holds
  <2> QED
    BY <1>3, <2>1, CutLineType
<1>5. c.cur = b.cur - (e + 1)
  <2>1. c.cur = (b.cur - (e + 1)) % (UINT_MAX + 1)
    BY DEF CutLine
  <2>2. b.cur - (e + 1) \in 0 .. UINT_MAX
    BY <1>2, SizeIsNat
  <2> QED
    BY <2>1, <2>2, ModSame, SizeIsNat
<1>6. \A k \in Places : c.buf[k] = IF k <= USERBUF_SIZE - e - 1 THEN b.buf[k + e + 1]
                                   ELSE IF k = e THEN NUL ELSE b.buf[k]
  BY DEF CutLine
<1>7. \A k \in 0 .. c.cur - 1 : c.buf[k] = text[(t + e + 1) + 1 + k]
  <2> SUFFICES ASSUME NEW k \in 0 .. c.cur - 1 PROVE c.buf[k] = text[(t + e + 1) + 1 + k]
    OBVIOUS
  <2> HIDE DEF c
  <2>1. /\ k \in Places /\ k <= USERBUF_SIZE - e - 1 /\ k + e + 1 \in 0 .. b.cur - 1
        /\ t + 1 + (k + e + 1) = (t + e + 1) + 1 + k
    BY <1>2, <1>5, SizeIsNat DEF Places
  <2>2. c.buf[k] = b.buf[k + e + 1]
    BY <1>6, <2>1
  <2>3. b.buf[k + e + 1] = text[t + 1 + (k + e + 1)]
    BY <2>1 DEF Holds
  <2> QED
    BY <2>1, <2>2, <2>3
<1>8. \A k \in c.cur .. USERBUF_SIZE : c.buf[k] = NUL
  <2> SUFFICES ASSUME NEW k \in c.cur .. USERBUF_SIZE PROVE c.buf[k] = NUL
    OBVIOUS
  <2> HIDE DEF c
  <2>1. k \in Places /\ k \in Nat
    BY <1>2, <1>5, SizeIsNat DEF Places
  <2>2. CASE k <= USERBUF_SIZE - e - 1
    <3>1. k + e + 1 \in b.cur .. USERBUF_SIZE
      BY <1>2, <1>5, <2>1, <2>2, SizeIsNat
    <3>2. b.buf[k + e + 1] = NUL
      BY <3>1 DEF Holds
    <3> QED
      BY <1>6, <2>1, <2>2, <3>2
  <2>3. CASE ~(k <= USERBUF_SIZE - e - 1) /\ k # e
    <3>1. k \in b.cur .. USERBUF_SIZE
      BY <1>2, <2>1, <2>3, SizeIsNat
    <3>2. b.buf[k] = NUL
      BY <3>1 DEF Holds
    <3> QED
      BY <1>6, <2>1, <2>3, <3>2
  <2>4. CASE ~(k <= USERBUF_SIZE - e - 1) /\ k = e
    BY <1>6, <2>1, <2>4
  <2> QED
    BY <2>2, <2>3, <2>4
<1>9. t + e + 1 \in 0 .. Len(text) /\ c.cur = Len(text) - (t + e + 1) /\ c.cur <= USERBUF_SIZE
  <2> HIDE DEF c
  <2> QED
    BY <1>2, <1>5
<1> HIDE DEF c
<1>10. Holds(c, text, t + e + 1)
  BY <1>4, <1>7, <1>8, <1>9 DEF Holds
<1> QED
  BY <1>10 DEF c

AtLineStart(s) == s.rest = << >>
NoEndIn(text, t, e) == \A k \in t + 1 .. t + e : text[k] # EOL
HasGrown(u, text, t, e) ==
    u[t + e] = [lines |-> u[t].lines, rest |-> [k \in 1 .. e |-> text[t + k]]]

\* Reading on, without an end of a line, the rest grows.
LEMMA RestGrows ==
    ASSUME NEW u, NEW text, NEW n \in Nat, Prefixes(u, text, n),
           NEW t \in 0 .. n, NEW e \in Nat, t + e <= n,
           AtLineStart(u[t]), NoEndIn(text, t, e)
    PROVE  HasGrown(u, text, t, e)
<1> DEFINE After(j) == [lines |-> u[t].lines, rest |-> [k \in 1 .. j |-> text[t + k]]]
           T == {j \in Nat : j <= e => u[t + j] = After(j)}
<1>1. u[0] = [lines |-> << >>, rest |-> << >>] /\ \A k \in 0 .. n - 1 : u[k + 1] = AddChar(u[k], text[k + 1])
  BY PrefixSteps
<1>2. 0 \in T
  <2>1. [k \in 1 .. 0 |-> text[t + k]] = << >>
    OBVIOUS
  <2>2. u[t] = [lines |-> u[t].lines, rest |-> u[t].rest]
    <3>1. CASE t = 0
      BY <1>1, <3>1
    <3>2. CASE t # 0
      <4>1. t - 1 \in 0 .. n - 1 /\ (t - 1) + 1 = t
        BY <3>2
      <4>2. u[t] = AddChar(u[t - 1], text[t])
        BY <1>1, <4>1
      <4>3. CASE text[t] = EOL
        BY <4>2, <4>3 DEF AddChar
      <4>4. CASE text[t] # EOL
        BY <4>2, <4>4 DEF AddChar
      <4> QED
        BY <4>3, <4>4
    <3> QED
      BY <3>1, <3>2
  <2>3. u[t + 0] = After(0)
    BY <2>1, <2>2 DEF AtLineStart
  <2> QED
    BY <2>3
<1>3. ASSUME NEW j \in T PROVE j + 1 \in T
  <2> SUFFICES ASSUME j + 1 <= e PROVE u[t + (j + 1)] = After(j + 1)
    OBVIOUS
  <2>1. u[t + j] = After(j) /\ t + j \in 0 .. n - 1 /\ j \in Nat /\ t + j + 1 \in t + 1 .. t + e
    OBVIOUS
  <2>2. u[t + j + 1] = AddChar(u[t + j], text[t + j + 1])
    BY <1>1, <2>1
  <2>3. text[t + j + 1] # EOL
    BY <2>1 DEF NoEndIn
  <2>4. u[t + j + 1] = [lines |-> u[t].lines,
                        rest |-> Append([k \in 1 .. j |-> text[t + k]], text[t + j + 1])]
    BY <2>1, <2>2, <2>3 DEF AddChar
  <2>5. Append([k \in 1 .. j |-> text[t + k]], text[t + j + 1]) = [k \in 1 .. j + 1 |-> text[t + k]]
    BY <2>1
  <2>6. t + j + 1 = t + (j + 1)
    BY <2>1
  <2> QED
    BY <2>4, <2>5, <2>6
<1>4. \A j \in Nat : j \in T
  <2>1. T \in SUBSET Nat
    OBVIOUS
  <2> HIDE DEF T
  <2> QED
    BY <2>1, <1>2, <1>3, AllOfThem
<1> QED
  BY <1>4 DEF HasGrown

\* After a number of turns the buffer holds what follows the last line cut.
ReachedAfter(a, u, text, k) ==
    \E t \in 0 .. Len(text) : /\ Holds(a.left, text, t)
                              /\ u[t].rest = << >> /\ u[t].lines = a.lines
                              /\ t >= k \/ LineEnds(a.left) = {}

HasLine(text) == \E k \in 1 .. Len(text) : text[k] = EOL

LEMMA TurnAdvances ==
    ASSUME BufferAssumption, NEW text \in Texts, NEW u, Prefixes(u, text, Len(text)),
           NEW a, NEW k \in Nat, ReachedAfter(a, u, text, k),
           HasLine(text) => 2 * Len(text) <= USERBUF_SIZE + 1
    PROVE  ReachedAfter(CutFirst(a), u, text, k + 1)
<1>1. CASE LineEnds(a.left) = {}
  BY <1>1 DEF CutFirst, ReachedAfter
<1>2. CASE LineEnds(a.left) # {}
  <2>1. PICK t \in 0 .. Len(text) : /\ Holds(a.left, text, t)
                                    /\ u[t].rest = << >> /\ u[t].lines = a.lines /\ t >= k
    BY <1>2 DEF ReachedAfter
  <2> DEFINE e == CHOOSE x \in LineEnds(a.left) : TRUE
             line == [j \in 1 .. e |-> a.left.buf[j - 1]]
  <2>2. e \in LineEnds(a.left)
    BY <1>2
  <2>3. CutFirst(a) = [left |-> CutLine(a.left, e), lines |-> Append(a.lines, line)]
    BY <1>2 DEF CutFirst
  <2> HIDE DEF e
  <2>4. /\ t \in Nat /\ Len(text) \in Nat /\ a.left.cur \in Nat
        /\ a.left.cur = Len(text) - t /\ a.left.cur <= USERBUF_SIZE
    BY TextFacts, <2>1, BufferFields, SizeIsNat DEF Holds
  <2>5. /\ e \in 0 .. a.left.cur - 1 /\ text[t + 1 + e] = EOL
        /\ \A j \in 0 .. e - 1 : text[t + 1 + j] # EOL
    BY <2>1, <2>2, <2>4, FoundEnd
  <2>6. HasLine(text)
    <3>1. t + 1 + e \in 1 .. Len(text)
      BY <2>4, <2>5
    <3> QED
      BY <3>1, <2>5 DEF HasLine
  <2>7. Holds(CutLine(a.left, e), text, t + e + 1)
    <3>1. 2 * a.left.cur <= USERBUF_SIZE + 1
      BY <2>4, <2>6, SizeIsNat
    <3> QED
      BY <3>1, <2>1, <2>2, <2>4, ShiftedText
  <2>8. u[t + e] = [lines |-> u[t].lines, rest |-> [j \in 1 .. e |-> text[t + j]]]
    <3>1. e \in Nat /\ t + e <= Len(text)
      BY <2>4, <2>5
    <3>2. ASSUME NEW j \in t + 1 .. t + e PROVE text[j] # EOL
      <4>1. j - (t + 1) \in 0 .. e - 1 /\ t + 1 + (j - (t + 1)) = j
        BY <2>4, <3>1
      <4> QED
        BY <4>1, <2>5
    <3>3. NoEndIn(text, t, e)
      BY <3>2 DEF NoEndIn
    <3>4. AtLineStart(u[t])
      BY <2>1 DEF AtLineStart
    <3>5. HasGrown(u, text, t, e)
      BY <3>1, <3>3, <3>4, <2>4, RestGrows
    <3> QED
      BY <3>5 DEF HasGrown
  <2>9. line = [j \in 1 .. e |-> text[t + j]]
    <3> SUFFICES ASSUME NEW j \in 1 .. e PROVE a.left.buf[j - 1] = text[t + j]
      OBVIOUS
    <3>1. j - 1 \in 0 .. a.left.cur - 1 /\ t + 1 + (j - 1) = t + j
      BY <2>4, <2>5
    <3> QED
      BY <3>1, <2>1 DEF Holds
  <2> HIDE DEF line
  <2>10. u[t + e + 1].rest = << >> /\ u[t + e + 1].lines = Append(a.lines, line)
    <3>1. t + e \in 0 .. Len(text) - 1
      BY <2>4, <2>5
    <3>2. u[t + e + 1] = AddChar(u[t + e], text[t + e + 1])
      BY <3>1, <2>4, PrefixSteps
    <3>3. text[t + e + 1] = EOL
      <4>1. t + e + 1 = t + 1 + e
        BY <2>4, <2>5
      <4> QED
        BY <4>1, <2>5
    <3>4. u[t + e + 1] = [lines |-> Append(u[t + e].lines, u[t + e].rest), rest |-> << >>]
      BY <3>2, <3>3 DEF AddChar
    <3>5. u[t + e].lines = a.lines /\ u[t + e].rest = line
      BY <2>1, <2>8, <2>9
    <3> QED
      BY <3>4, <3>5
  <2>11. t + e + 1 \in 0 .. Len(text) /\ t + e + 1 >= k + 1
    BY <2>1, <2>4, <2>5
  <2> QED
    BY <2>3, <2>7, <2>10, <2>11 DEF ReachedAfter
<1> QED
  BY <1>1, <1>2

\* The loop of process_user_input cuts out the lines of the text in the buffer and
\* leaves the rest of it.
THEOREM LinesAreCut ==
    ASSUME BufferAssumption, NEW text \in Texts, NEW b, Holds(b, text, 0),
           HasLine(text) => 2 * Len(text) <= USERBUF_SIZE + 1
    PROVE  /\ CutLines(b).lines = Split(text).lines
           /\ Split(text).rest \in Texts /\ ~HasLine(Split(text).rest)
           /\ Holds(CutLines(b).left, Split(text).rest, 0)
<1> DEFINE n == USERBUF_SIZE + 1
           m == Len(text)
<1>1. /\ n \in Nat /\ m \in Nat /\ m < n /\ 0 \in 0 .. m /\ 0 \in Nat
  BY SizeIsNat, TextFacts DEF Holds
<1>2. PICK g : Turns(g, b, n) /\ CutLines(b) = g[n]
  BY CutLinesUnrolled
<1>3. PICK u : Prefixes(u, text, m) /\ Split(text) = u[m]
  BY <1>1, SplitUnrolled
<1> HIDE DEF n, m
<1>4. /\ g[0] = [left |-> b, lines |-> << >>]
      /\ \A k \in 0 .. n - 1 : g[k + 1] = CutFirst(g[k])
  BY <1>1, <1>2, TurnSteps
<1>5. u[0] = [lines |-> << >>, rest |-> << >>]
  BY <1>1, <1>3, PrefixSteps
<1> DEFINE T == {k \in Nat : k <= n => ReachedAfter(g[k], u, text, k)}
<1>6. 0 \in T
  <2>1. /\ Holds(g[0].left, text, 0) /\ u[0].rest = << >> /\ u[0].lines = g[0].lines
    BY <1>4, <1>5
  <2>2. ReachedAfter(g[0], u, text, 0)
    BY <2>1, <1>1 DEF ReachedAfter, m
  <2> QED
    BY <2>2
<1>7. ASSUME NEW k \in T PROVE k + 1 \in T
  <2> SUFFICES ASSUME k + 1 <= n PROVE ReachedAfter(g[k + 1], u, text, k + 1)
    OBVIOUS
  <2>1. k \in Nat /\ k \in 0 .. n - 1 /\ ReachedAfter(g[k], u, text, k)
    BY <1>1
  <2>2. ReachedAfter(CutFirst(g[k]), u, text, k + 1)
    BY <2>1, <1>3, TurnAdvances DEF m
  <2> QED
    BY <2>1, <2>2, <1>4
<1>8. ReachedAfter(g[n], u, text, n)
  <2>1. T \in SUBSET Nat
    OBVIOUS
  <2>2. \A k \in Nat : k \in T
    <3> HIDE DEF T
    <3> QED
      BY <2>1, <1>6, <1>7, AllOfThem
  <2> QED
    BY <2>2, <1>1
<1> DEFINE left == g[n].left
<1>9. PICK t \in 0 .. m : /\ Holds(left, text, t)
                          /\ u[t].rest = << >> /\ u[t].lines = g[n].lines
                          /\ LineEnds(left) = {}
  BY <1>8, <1>1 DEF ReachedAfter, m
<1> HIDE DEF left
<1>10. t \in Nat /\ m - t \in Nat /\ t + (m - t) = m
  BY <1>1
<1>11. \A k \in t + 1 .. m : text[k] # EOL
  BY <1>9, <1>10, NoEnd DEF m
<1> DEFINE rest == [k \in 1 .. m - t |-> text[t + k]]
<1>12. u[m] = [lines |-> u[t].lines, rest |-> rest]
  <2>1. AtLineStart(u[t])
    BY <1>9 DEF AtLineStart
  <2>2. NoEndIn(text, t, m - t)
    BY <1>10, <1>11 DEF NoEndIn
  <2>3. t + (m - t) <= m
    BY <1>10, <1>1
  <2>4. HasGrown(u, text, t, m - t)
    BY <1>1, <1>3, <1>10, <2>1, <2>2, <2>3, RestGrows
  <2> QED
    BY <1>10, <2>4 DEF HasGrown
<1>13. rest \in Texts /\ Len(rest) = m - t /\ \A k \in 1 .. m - t : rest[k] = text[t + k]
  <2>1. \A k \in 1 .. m - t : text[t + k] \in Chars \union {EOL}
    BY <1>1, <1>10, TextFacts DEF m
  <2> QED
    BY <2>1, <1>10 DEF Texts
<1> HIDE DEF rest
<1>14. ~HasLine(rest)
  <2> SUFFICES ASSUME NEW k \in 1 .. m - t, rest[k] = EOL PROVE FALSE
    BY <1>13 DEF HasLine
  <2>1. t + k \in t + 1 .. m
    BY <1>1, <1>10
  <2> QED
    BY <2>1, <1>11, <1>13
<1>15. Holds(left, rest, 0)
  <2>1. /\ left \in Buffers /\ left.cur = m - t /\ left.cur <= USERBUF_SIZE
        /\ \A k \in 0 .. left.cur - 1 : left.buf[k] = text[t + 1 + k]
        /\ \A k \in left.cur .. USERBUF_SIZE : left.buf[k] = NUL
    BY <1>9 DEF Holds, m
  <2>2. ASSUME NEW k \in 0 .. left.cur - 1 PROVE left.buf[k] = rest[0 + 1 + k]
    <3>1. 0 + 1 + k \in 1 .. m - t /\ t + (0 + 1 + k) = t + 1 + k
      BY <1>10, <2>1
    <3> QED
      BY <3>1, <2>1, <1>13
  <2>3. 0 \in 0 .. Len(rest) /\ left.cur = Len(rest) - 0
    BY <1>10, <1>13, <2>1
  <2> QED
    BY <2>1, <2>2, <2>3 DEF Holds
<1>16. CutLines(b).lines = Split(text).lines
  BY <1>2, <1>3, <1>9, <1>12
<1>17. Split(text).rest = rest /\ CutLines(b).left = left
  BY <1>2, <1>3, <1>12 DEF left
<1> QED
  BY <1>13, <1>14, <1>15, <1>16, <1>17

\* read() adds what was typed to what the buffer holds.
LEMMA TextIsRead ==
    ASSUME BufferAssumption, NEW text \in Texts, NEW bytes \in Texts, NEW b, Holds(b, text, 0),
           b.cur + Len(bytes) <= USERBUF_SIZE
    PROVE  text \o bytes \in Texts /\ Holds(ReadInto(b, bytes), text \o bytes, 0)
<1> DEFINE all == text \o bytes
           r == ReadInto(b, bytes)
<1>1. Len(text) \in Nat /\ Len(bytes) \in Nat /\ b \in Buffers /\ b.cur = Len(text)
  BY TextFacts, BufferFields DEF Holds
<1>2. all \in Texts /\ Len(all) = Len(text) + Len(bytes)
  BY DEF Texts
<1>3. /\ \A k \in 1 .. Len(text) : all[k] = text[k]
      /\ \A k \in 1 .. Len(bytes) : all[Len(text) + k] = bytes[k]
  <2>1. \A k \in 1 .. Len(text) + Len(bytes) :
           all[k] = IF k <= Len(text) THEN text[k] ELSE bytes[k - Len(text)]
    BY DEF Texts
  <2> HIDE DEF all
  <2>2. \A k \in 1 .. Len(bytes) : /\ Len(text) + k \in 1 .. Len(text) + Len(bytes)
                                   /\ ~(Len(text) + k <= Len(text)) /\ (Len(text) + k) - Len(text) = k
    BY <1>1
  <2> QED
    BY <1>1, <2>1, <2>2
<1> HIDE DEF all
<1>4. r \in Buffers /\ r.cur = Len(all)
  <2>1. bytes \in Seq(Bytes)
    BY DEF Texts, Bytes
  <2>2. r \in Buffers
    BY <1>1, <2>1, ReadIntoType
  <2> QED
    BY <2>2, <1>1, <1>2 DEF ReadInto
<1>5. \A k \in Places : r.buf[k] = IF k \in b.cur .. b.cur + Len(bytes) - 1
                                   THEN bytes[k - b.cur + 1] ELSE b.buf[k]
  BY DEF ReadInto
<1> HIDE DEF r
<1>6. ASSUME NEW k \in 0 .. r.cur - 1 PROVE r.buf[k] = all[0 + 1 + k]
  <2>1. k \in Places
    BY <1>1, <1>2, <1>4, SizeIsNat DEF Places
  <2>2. CASE k < Len(text)
    <3>1. k \notin b.cur .. b.cur + Len(bytes) - 1 /\ k \in 0 .. b.cur - 1 /\ 0 + 1 + k \in 1 .. Len(text)
      BY <1>1, <2>2
    <3>2. b.buf[k] = text[0 + 1 + k]
      BY <3>1 DEF Holds
    <3> QED
      BY <1>3, <1>5, <2>1, <3>1, <3>2
  <2>3. CASE k >= Len(text)
    <3>1. /\ k \in b.cur .. b.cur + Len(bytes) - 1 /\ k - b.cur + 1 \in 1 .. Len(bytes)
          /\ Len(text) + (k - b.cur + 1) = 0 + 1 + k
      BY <1>1, <1>2, <1>4, <2>3
    <3> QED
      BY <1>3, <1>5, <2>1, <3>1
  <2> QED
    BY <2>2, <2>3, <1>1
<1>7. ASSUME NEW k \in r.cur .. USERBUF_SIZE PROVE r.buf[k] = NUL
  <2>1. k \in Places /\ k \notin b.cur .. b.cur + Len(bytes) - 1 /\ k \in b.cur .. USERBUF_SIZE
    BY <1>1, <1>2, <1>4, SizeIsNat DEF Places
  <2>2. b.buf[k] = NUL
    BY <2>1 DEF Holds
  <2> QED
    BY <1>5, <2>1, <2>2
<1>8. 0 \in 0 .. Len(all) /\ r.cur = Len(all) - 0 /\ r.cur <= USERBUF_SIZE
  BY <1>1, <1>2, <1>4
<1>9. Holds(r, all, 0)
  BY <1>4, <1>6, <1>7, <1>8 DEF Holds
<1> QED
  BY <1>2, <1>9 DEF all, r
================================================================================
