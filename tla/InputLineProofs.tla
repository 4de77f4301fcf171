--------------------------- MODULE InputLineProofs ---------------------------
(***************************************************************************)
(* The line editor and paste mode, for lines, messages and pastes of any   *)
(* length.                                                                 *)
(***************************************************************************)
EXTENDS InputLine, SequenceTheorems, TLAPS

Count(n) == [i \in 1..n |-> i]

\* An empty line holds nothing, and with a letter in it somebody is typing.
LineOK ==
    /\ line \in Line
    /\ line.len = 0 => line.of = "nothing"

FlagsOK ==
    /\ istyping \in BOOLEAN
    /\ rawinput \in BOOLEAN
    /\ lastsn \in Sns \cup {NoSn}

\* The buffer counts what is in it, and what was pasted is in it or sent.
Kept(p) ==
    /\ p \in Paste
    /\ p.sendbuflen > 0 <=> p.sendbuf # <<>>
    /\ ~p.hollow
    /\ p.sent \o p.sendbuf = Count(p.pasted)

\* The line reader returns before its buffer is full.
PasteOK ==
    /\ Kept(paste)
    /\ paste.on => paste.count <= MaxSize - 7

IInv == LineOK /\ FlagsOK /\ TypingIsMarked /\ PasteOK

USE MaxLineAssumption, MaxOverAssumption, MaxSizeAssumption, MaxPastedAssumption, SnLenAssumption

LEMMA EmptyLine == Empty \in Line /\ Empty.len = 0 /\ Empty.of = "nothing"
<1>1. 0 \in 0..MaxOver
  OBVIOUS
<1> QED BY <1>1 DEF Empty, Line

-----------------------------------------------------------------------------
(* Sequences of the lines that were pasted.                                *)

LEMMA Counted ==
    ASSUME NEW n \in 0..MaxPasted
    PROVE  Count(n) \in Seq(1..MaxPasted) /\ Len(Count(n)) = n
  BY DEF Count

LEMMA Associative ==
    ASSUME NEW a \in Seq(1..MaxPasted), NEW b \in Seq(1..MaxPasted),
           NEW c \in Seq(1..MaxPasted)
    PROVE  (a \o b) \o c = a \o (b \o c)
  BY ConcatAssociative

LEMMA CountedOn ==
    ASSUME NEW n \in 0..MaxPasted, n + 1 <= MaxPasted
    PROVE  Count(n) \o <<n + 1>> = Count(n + 1)
<1> DEFINE S == 1..MaxPasted
<1>1. Count(n) \in Seq(S) /\ Len(Count(n)) = n
  BY Counted
<1>2. Count(n + 1) \in Seq(S) /\ Len(Count(n + 1)) = n + 1
  BY Counted
<1>3. <<n + 1>> \in Seq(S) /\ Len(<<n + 1>>) = 1
  OBVIOUS
<1>4. /\ Count(n) \o <<n + 1>> \in Seq(S)
      /\ Len(Count(n) \o <<n + 1>>) = n + 1
      /\ \A i \in 1..(n + 1) : (Count(n) \o <<n + 1>>)[i] =
            IF i <= n THEN Count(n)[i] ELSE <<n + 1>>[i - n]
  BY <1>1, <1>3, ConcatProperties
<1> HIDE DEF S
<1>5. \A i \in 1..(n + 1) : (Count(n) \o <<n + 1>>)[i] = IF i <= n THEN i ELSE n + 1
  <2> DEFINE both == Count(n) \o <<n + 1>>
  <2>1. \A i \in 1..n : Count(n)[i] = i
    BY DEF Count
  <2>2. \A i \in 1..(n + 1) : ~(i <= n) => <<n + 1>>[i - n] = n + 1
    OBVIOUS
  <2>3. \A i \in 1..(n + 1) : both[i] = IF i <= n THEN Count(n)[i] ELSE <<n + 1>>[i - n]
    BY <1>4
  <2> HIDE DEF both
  <2>4. \A i \in 1..(n + 1) : both[i] = IF i <= n THEN i ELSE n + 1
    BY <2>1, <2>2, <2>3
  <2> QED BY <2>4 DEF both
<1>6. \A i \in 1..(n + 1) : Count(n + 1)[i] = IF i <= n THEN i ELSE n + 1
  BY DEF Count
<1> QED BY ONLY <1>2, <1>4, <1>5, <1>6, SeqEqual

-----------------------------------------------------------------------------
(* Paste mode.                                                             *)

\* Sending what the buffer holds.
LEMMA SentKept ==
    ASSUME NEW p, Kept(p), p.sendbuflen > 0
    PROVE  /\ Kept(Sent(p)) /\ Sent(p).sendbuf = <<>> /\ Sent(p).sendbuflen = 0
           /\ Sent(p).on = p.on /\ Sent(p).count = p.count
           /\ Sent(p).pasted = p.pasted /\ Sent(p).sent = Count(p.pasted)
<1> DEFINE S == 1..MaxPasted
<1>1. p \in Paste /\ p.sendbuf # <<>> /\ ~p.hollow
  BY DEF Kept
<1>2. /\ p.sent \in Seq(S) /\ p.sendbuf \in Seq(S) /\ p.pasted \in 0..MaxPasted
  BY <1>1 DEF Paste
<1>3. Count(p.pasted) \in Seq(S) /\ Count(p.pasted) \o <<>> = Count(p.pasted)
  BY <1>2, Counted, ConcatEmptySeq
<1>4. p.sent \o p.sendbuf = Count(p.pasted)
  BY DEF Kept
<1>5. Sent(p) = [p EXCEPT !.sent = Count(p.pasted), !.hollow = FALSE,
                          !.sendbuf = <<>>, !.sendbuflen = 0]
  BY <1>1, <1>4 DEF Sent, Paste
<1>6. Sent(p) \in Paste
  <2>1. <<>> \in Seq(1..MaxPasted) /\ 0 \in 0..MaxSize /\ FALSE \in BOOLEAN
    OBVIOUS
  <2> QED BY <1>1, <1>3, <1>5, <2>1 DEF Paste
<1>7. /\ Sent(p).sendbuf = <<>> /\ Sent(p).sendbuflen = 0 /\ ~Sent(p).hollow
      /\ Sent(p).on = p.on /\ Sent(p).count = p.count
      /\ Sent(p).pasted = p.pasted /\ Sent(p).sent = Count(p.pasted)
  BY <1>1, <1>5 DEF Paste
<1> QED BY <1>3, <1>6, <1>7 DEF Kept

\* The next line, and where it joins the buffer: q is p with it counted.
LineTaken(p, pbuflen, n, q, id) ==
    /\ Kept(p)
    /\ pbuflen \in 0..(MaxSize - 6) /\ n \in 0..MaxPasted
    /\ n = IF pbuflen > 0 THEN p.pasted + 1 ELSE p.pasted
    /\ q = [NextLine(p) EXCEPT !.pasted = n]
    /\ id = IF pbuflen > 0 THEN <<n>> ELSE <<>>

\* The length of the send buffer when a line and its break are added.
LEMMA Grows ==
    ASSUME NEW a \in Nat, NEW b \in Nat, a + b + 4 <= MaxSize
    PROVE  LET len == a + b + (IF a = 0 THEN 0 ELSE 4)
           IN  len \in 0..MaxSize /\ (len > 0 <=> a > 0 \/ b > 0)
<1>1. CASE a = 0
  BY <1>1, MaxSizeAssumption
<1>2. CASE a # 0
  BY <1>2, MaxSizeAssumption
<1> QED BY <1>1, <1>2

\* A line that was read is buffered, after sending if there is no room.
LEMMA BufferedKept ==
    ASSUME NEW p, NEW pbuflen, NEW n, NEW q, NEW id, LineTaken(p, pbuflen, n, q, id)
    PROVE  /\ Kept(Buffered(q, pbuflen, id))
           /\ Buffered(q, pbuflen, id).on = p.on
           /\ Buffered(q, pbuflen, id).count = 0
<1> USE DEF LineTaken
<1> DEFINE S == 1..MaxPasted
           B == Buffered(q, pbuflen, id)
<1>1. /\ p \in Paste /\ ~p.hollow
      /\ p.sent \in Seq(S) /\ p.sendbuf \in Seq(S) /\ p.pasted \in 0..MaxPasted
      /\ p.sendbuflen \in 0..MaxSize
      /\ p.sendbuflen > 0 <=> p.sendbuf # <<>>
      /\ p.sent \o p.sendbuf = Count(p.pasted)
  BY DEF Kept, Paste
<1>2. id \in Seq(S) /\ (pbuflen > 0 <=> id # <<>>)
  <2>1. CASE pbuflen > 0
    <3>1. n \in S /\ id = <<n>>
      BY <1>1, <2>1
    <3> QED BY <2>1, <3>1
  <2>2. CASE ~(pbuflen > 0)
    <3>1. id = <<>>
      BY <2>2
    <3> QED BY <2>2, <3>1
  <2> QED BY <2>1, <2>2
<1>3. Count(p.pasted) \o id = Count(n)
  <2>1. CASE pbuflen > 0
    <3>1. id = <<p.pasted + 1>> /\ n = p.pasted + 1 /\ p.pasted + 1 <= MaxPasted
      BY <1>1, <2>1
    <3> QED BY <1>1, <3>1, CountedOn
  <2>2. CASE ~(pbuflen > 0)
    <3>1. n = p.pasted /\ id = <<>>
      BY <2>2
    <3> QED BY <1>1, <3>1, Counted, ConcatEmptySeq
  <2> QED BY <2>1, <2>2
<1>4. /\ NextLine(p) \in Paste /\ NextLine(p).hollow = p.hollow
      /\ NextLine(p).on = p.on /\ NextLine(p).count = 0
      /\ NextLine(p).sent = p.sent /\ NextLine(p).sendbuf = p.sendbuf
      /\ NextLine(p).sendbuflen = p.sendbuflen
  <2>1. NextLine(p) = [p EXCEPT !.count = 0, !.dot = FALSE]
    BY DEF NextLine
  <2>2. 0 \in 0..(MaxSize - 6) /\ FALSE \in BOOLEAN
    OBVIOUS
  <2> QED BY <1>1, <2>1, <2>2 DEF Paste
<1>5. /\ q \in Paste /\ ~q.hollow /\ q.on = p.on /\ q.count = 0 /\ q.pasted = n
      /\ q.sent = p.sent /\ q.sendbuf = p.sendbuf /\ q.sendbuflen = p.sendbuflen
  <2>1. q = [NextLine(p) EXCEPT !.pasted = n] /\ n \in 0..MaxPasted
    OBVIOUS
  <2> QED BY ONLY <1>1, <1>4, <2>1 DEF Paste
<1>6. CASE Room(q, pbuflen)
  <2> DEFINE len == p.sendbuflen + pbuflen + (IF p.sendbuflen = 0 THEN 0 ELSE 4)
  <2>1. B = [q EXCEPT !.sendbuf = p.sendbuf \o id, !.sendbuflen = len]
    BY <1>5, <1>6 DEF Buffered
  <2>2. len \in 0..MaxSize /\ (len > 0 <=> p.sendbuflen > 0 \/ pbuflen > 0)
    <3>1. p.sendbuflen + pbuflen + 4 <= MaxSize
      BY <1>5, <1>6 DEF Room
    <3>2. p.sendbuflen \in Nat /\ pbuflen \in Nat
      BY <1>1
    <3> QED BY ONLY <3>1, <3>2, Grows
  <2>3. p.sendbuf \o id \in Seq(S)
    BY <1>1, <1>2, ConcatProperties
  <2>4. p.sendbuf \o id # <<>> <=> p.sendbuf # <<>> \/ id # <<>>
    <3>1. p.sendbuf \in Seq(1..MaxPasted) /\ id \in Seq(1..MaxPasted)
      BY <1>1, <1>2
    <3> HIDE DEF S, B, len
    <3> QED BY ONLY <3>1, ConcatEqualIffEmpty
  <2>5. p.sent \o (p.sendbuf \o id) = Count(n)
    <3>1. (p.sent \o p.sendbuf) \o id = p.sent \o (p.sendbuf \o id)
      <4>1. /\ p.sent \in Seq(1..MaxPasted) /\ p.sendbuf \in Seq(1..MaxPasted)
            /\ id \in Seq(1..MaxPasted)
        BY <1>1, <1>2
      <4> HIDE DEF S, B
      <4> QED BY ONLY <4>1, Associative
    <3> QED BY <1>1, <1>3, <3>1
  <2> HIDE DEF len
  <2>6. /\ B \in Paste /\ ~B.hollow /\ B.on = p.on /\ B.count = 0 /\ B.pasted = n
        /\ B.sent = p.sent /\ B.sendbuf = p.sendbuf \o id /\ B.sendbuflen = len
    BY ONLY <1>5, <2>1, <2>2, <2>3 DEF Paste
  <2> HIDE DEF B
  <2>7. Kept(B)
    BY <1>1, <1>2, <2>2, <2>4, <2>5, <2>6 DEF Kept
  <2> QED BY <2>6, <2>7 DEF B
<1>7. CASE ~Room(q, pbuflen)
  <2>1. p.sendbuflen > 0 /\ p.sendbuf # <<>>
    <3>1. ~(p.sendbuflen + pbuflen + 4 <= MaxSize)
      <4>1. q.sendbuflen = p.sendbuflen
        BY <1>5
      <4> QED BY ONLY <4>1, <1>7 DEF Room
    <3>2. p.sendbuflen > 0
      <4>1. p.sendbuflen \in Nat /\ pbuflen \in 0..(MaxSize - 6)
        BY <1>1
      <4> QED BY ONLY <3>1, <4>1, MaxSizeAssumption
    <3>3. p.sendbuflen > 0 <=> p.sendbuf # <<>>
      BY <1>1
    <3> QED BY ONLY <3>2, <3>3
  <2>2. /\ Sent(q) = [q EXCEPT !.sent = Count(p.pasted), !.hollow = FALSE,
                               !.sendbuf = <<>>, !.sendbuflen = 0]
    BY <1>1, <1>5, <2>1 DEF Sent, Paste
  <2>3. B = [Sent(q) EXCEPT !.sendbuf = id, !.sendbuflen = pbuflen]
    BY <1>7 DEF Buffered
  <2>4. Count(p.pasted) \in Seq(S) /\ pbuflen \in 0..MaxSize
    BY <1>1, Counted
  <2>5. /\ Sent(q) \in Paste /\ ~Sent(q).hollow /\ Sent(q).on = p.on
        /\ Sent(q).count = 0 /\ Sent(q).pasted = n /\ Sent(q).sent = Count(p.pasted)
    <3>1. <<>> \in Seq(S) /\ 0 \in 0..MaxSize /\ FALSE \in BOOLEAN
      OBVIOUS
    <3> QED BY ONLY <1>5, <2>2, <2>4, <3>1 DEF Paste
  <2>6. /\ B \in Paste /\ ~B.hollow /\ B.on = p.on /\ B.count = 0 /\ B.pasted = n
        /\ B.sent = Count(p.pasted) /\ B.sendbuf = id /\ B.sendbuflen = pbuflen
    BY <1>2, <2>3, <2>4, <2>5 DEF Paste
  <2> HIDE DEF B
  <2>7. Kept(B)
    BY <1>2, <1>3, <2>6 DEF Kept
  <2> QED BY <2>6, <2>7 DEF B
<1> QED BY <1>6, <1>7

\* Ending leaves the line empty.
LEMMA Ended ==
    ASSUME IInv, NEW p, Kept(p), End(p)
    PROVE  IInv' /\ paste' = [p EXCEPT !.on = FALSE] /\ ~paste'.on
<1>1. /\ line' = Empty /\ ~istyping' /\ ~rawinput' /\ lastsn' = lastsn
      /\ paste' = [p EXCEPT !.on = FALSE]
  BY DEF End, Cleared
<1>2. istyping' \in BOOLEAN /\ rawinput' \in BOOLEAN
  BY DEF End, Cleared
<1>3. LineOK' /\ TypingIsMarked'
  BY <1>1 DEF LineOK, Empty, Line, TypingIsMarked
<1>4. FlagsOK'
  BY <1>1, <1>2 DEF IInv, FlagsOK
<1>5. paste' \in Paste /\ ~paste'.on
  BY <1>1 DEF Kept, Paste
<1>6. /\ paste'.sendbuflen = p.sendbuflen /\ paste'.sendbuf = p.sendbuf
      /\ paste'.hollow = p.hollow /\ paste'.sent = p.sent /\ paste'.pasted = p.pasted
  BY <1>1 DEF Kept, Paste
<1>7. Kept(paste')
  BY <1>5, <1>6 DEF Kept
<1> QED BY <1>1, <1>3, <1>4, <1>5, <1>7 DEF IInv, PasteOK

\* Going on leaves the line alone.
LEMMA WentOn ==
    ASSUME IInv, NEW p, Kept(p), p.on => p.count <= MaxSize - 7, Go(p)
    PROVE  IInv'
<1>1. paste' = p /\ UNCHANGED <<line, istyping, rawinput, lastsn>>
  BY DEF Go, typing
<1>2. LineOK' /\ FlagsOK' /\ TypingIsMarked'
  BY <1>1 DEF IInv, LineOK, FlagsOK, TypingIsMarked
<1> QED BY <1>1, <1>2 DEF IInv, PasteOK

LEMMA NewKept ==
    ASSUME NEW on \in BOOLEAN
    PROVE  Kept(NewPaste(on)) /\ NewPaste(on).count = 0
<1>1. <<>> \in Seq(1..MaxPasted) /\ <<>> \o <<>> = <<>>
  OBVIOUS
<1>2. Count(0) = <<>>
  BY DEF Count
<1> QED BY <1>1, <1>2 DEF Kept, NewPaste, Paste

\* A line is taken, or the dot that ends the paste.
LEMMA TookSteps ==
    ASSUME IInv, NEW pbuflen \in 0..(MaxSize - 6), NEW dot \in BOOLEAN,
           Took(paste, pbuflen, dot)
    PROVE  IInv' /\ (paste.on /\ ~paste'.on => paste.pasted = Len(paste'.sent))
<1>1. Kept(paste) /\ paste.pasted \in 0..MaxPasted /\ paste.sendbuflen \in 0..MaxSize
  BY DEF IInv, PasteOK, Kept, Paste
<1>2. CASE pbuflen = 1 /\ dot
  <2>1. CASE paste.sendbuflen > 0
    <3>1. End(Sent(paste))
      BY <1>2, <2>1 DEF Took
    <3>2. Kept(Sent(paste)) /\ Sent(paste).sent = Count(paste.pasted)
      BY <1>1, <2>1, SentKept
    <3>3. IInv' /\ paste' = [Sent(paste) EXCEPT !.on = FALSE]
      BY <3>1, <3>2, Ended
    <3>4. paste'.sent = Count(paste.pasted)
      BY <3>2, <3>3 DEF Kept, Paste
    <3> QED BY <1>1, <3>3, <3>4, Counted
  <2>2. CASE ~(paste.sendbuflen > 0)
    <3>1. End(paste)
      BY <1>2, <2>2 DEF Took
    <3>2. IInv' /\ paste' = [paste EXCEPT !.on = FALSE]
      BY <1>1, <3>1, Ended
    <3>3. paste'.sent = paste.sent /\ paste.sent \in Seq(1..MaxPasted)
      BY <1>1, <3>2 DEF Kept, Paste
    <3>4. paste.sendbuf = <<>> /\ paste.sent \o paste.sendbuf = Count(paste.pasted)
      BY <1>1, <2>2 DEF Kept
    <3>5. paste.sent = Count(paste.pasted)
      BY <3>3, <3>4, ConcatEmptySeq
    <3> QED BY <1>1, <3>2, <3>3, <3>5, Counted
  <2> QED BY <2>1, <2>2
<1>3. CASE ~(pbuflen = 1 /\ dot)
  <2> DEFINE n == IF pbuflen > 0 THEN paste.pasted + 1 ELSE paste.pasted
             id == IF pbuflen > 0 THEN <<n>> ELSE <<>>
             q == [NextLine(paste) EXCEPT !.pasted = n]
  <2>1. n <= MaxPasted /\ Go(Buffered(q, pbuflen, id))
    BY <1>3 DEF Took
  <2>2. n \in 0..MaxPasted
    BY <1>1, <2>1
  <2>3. LineTaken(paste, pbuflen, n, q, id)
    BY <1>1, <2>2 DEF LineTaken
  <2> HIDE DEF q, id, n
  <2>4. /\ Kept(Buffered(q, pbuflen, id))
        /\ Buffered(q, pbuflen, id).on = paste.on
        /\ Buffered(q, pbuflen, id).count = 0
    BY <2>3, BufferedKept
  <2>5. 0 <= MaxSize - 7
    OBVIOUS
  <2>6. IInv'
    BY <2>1, <2>4, <2>5, WentOn
  <2>7. paste' = Buffered(q, pbuflen, id)
    BY <2>1 DEF Go
  <2> QED BY <2>4, <2>6, <2>7
<1> QED BY <1>2, <1>3

LEMMA PasteSteps ==
    ASSUME IInv, bsf_getline
    PROVE  /\ IInv'
           /\ paste.on /\ ~paste'.on =>
                \/ paste.pasted = Len(paste'.sent)
                \/ paste_cancel
                \/ paste_erase
<1>1. /\ Kept(paste) /\ paste \in Paste /\ paste.count \in 0..(MaxSize - 6)
      /\ paste.dot \in BOOLEAN /\ (paste.on => paste.count <= MaxSize - 7)
  BY DEF IInv, PasteOK, Kept, Paste
<1>2. ASSUME NEW count \in 0..(MaxSize - 7), NEW dot \in BOOLEAN,
             Go([paste EXCEPT !.count = count, !.dot = dot])
      PROVE  IInv' /\ paste'.on = paste.on
  <2> DEFINE p == [paste EXCEPT !.count = count, !.dot = dot]
  <2>1. p \in Paste /\ p.count = count /\ p.on = paste.on
    <3>1. count \in 0..(MaxSize - 6)
      OBVIOUS
    <3> QED BY <1>1, <3>1 DEF Paste
  <2>2. /\ p.sendbuflen = paste.sendbuflen /\ p.sendbuf = paste.sendbuf
        /\ p.hollow = paste.hollow /\ p.sent = paste.sent /\ p.pasted = paste.pasted
    BY <1>1 DEF Paste
  <2>3. Go(p)
    BY <1>2
  <2> HIDE DEF p
  <2>4. Kept(p)
    BY <1>1, <2>1, <2>2 DEF Kept
  <2>5. IInv'
    BY <2>1, <2>3, <2>4, WentOn
  <2> QED BY <2>1, <2>3, <2>5 DEF Go
<1>3. ASSUME NEW dot \in BOOLEAN, paste_character(dot)
      PROVE  IInv' /\ (paste.on /\ ~paste'.on => paste.pasted = Len(paste'.sent))
  <2> DEFINE n == paste.count + 1
             first == IF paste.count = 0 THEN dot ELSE paste.dot
  <2>1. first \in BOOLEAN /\ paste.on
    BY <1>1, <1>3 DEF paste_character
  <2>2. n \in 0..(MaxSize - 6)
    BY <1>1, <2>1
  <2>3. CASE n = MaxSize - 6
    <3>1. Took(paste, n, first)
      BY <1>3, <2>3 DEF paste_character
    <3> HIDE DEF n, first
    <3> QED BY <2>1, <2>2, <3>1, TookSteps
  <2>4. CASE n # MaxSize - 6
    <3>1. Go([paste EXCEPT !.count = n, !.dot = first])
      BY <1>3, <2>4 DEF paste_character
    <3>2. n \in 0..(MaxSize - 7)
      BY <2>2, <2>4
    <3> HIDE DEF n, first
    <3> QED BY <1>2, <2>1, <3>1, <3>2
  <2> QED BY <2>3, <2>4
<1>4. CASE paste_newline
  <2>1. Took(paste, paste.count, paste.dot)
    BY <1>4 DEF paste_newline
  <2> QED BY <1>1, <2>1, TookSteps
<1>5. CASE paste_cancel
  <2>1. End(NewPaste(FALSE))
    BY <1>5 DEF paste_cancel
  <2>2. Kept(NewPaste(FALSE))
    BY NewKept
  <2> QED BY <1>5, <2>1, <2>2, Ended
<1>6. CASE paste_erase
  <2>1. CASE paste.count = 0
    <3>1. End(NewPaste(FALSE))
      BY <1>6, <2>1 DEF paste_erase
    <3>2. Kept(NewPaste(FALSE))
      BY NewKept
    <3> QED BY <1>6, <3>1, <3>2, Ended
  <2>2. CASE paste.count # 0
    <3> DEFINE dot == paste.dot /\ paste.count > 1
    <3>1. Go([paste EXCEPT !.count = paste.count - 1, !.dot = dot])
      BY <1>6, <2>2 DEF paste_erase
    <3>2. paste.count - 1 \in 0..(MaxSize - 7) /\ dot \in BOOLEAN
      BY <1>1, <2>2
    <3> HIDE DEF dot
    <3> QED BY <1>2, <1>6, <3>1, <3>2
  <2> QED BY <2>1, <2>2
<1> QED BY <1>3, <1>4, <1>5, <1>6 DEF bsf_getline

-----------------------------------------------------------------------------
(* The editor.                                                             *)

EditKeys ==
    \/ letter
    \/ escape
    \/ line_break
    \/ toggle_raw
    \/ clear
    \/ erase
    \/ \E sn \in Sns : complete(sn)
    \/ reply
    \/ recall
    \/ recall_log

\* A character that is taken makes the line longer, by one while it is within
\* its buffer.
LEMMA AddedTo ==
    ASSUME LineOK, addtoinputbuf, line.len # MaxLine
    PROVE  /\ \E len \in 1..MaxOver : line' = Grown(line, len)
           /\ line.len < MaxLine => line'.len = line.len + 1
<1>1. line \in Line /\ line.len \in 0..MaxOver
  BY DEF LineOK, Line
<1>2. CASE line.len < MaxLine
  <2>1. line' = Grown(line, line.len + 1)
    BY <1>1, <1>2 DEF addtoinputbuf
  <2>2. line.len + 1 \in 1..MaxOver
    BY <1>1, <1>2
  <2> QED BY <1>1, <2>1, <2>2 DEF Grown, Line
<1>3. CASE line.len > MaxLine
  <2>1. PICK len \in (line.len + 1)..MaxOver : line' = Grown(line, len)
    BY <1>1, <1>3 DEF addtoinputbuf
  <2>2. len \in 1..MaxOver
    BY <1>1, <2>1
  <2> QED BY <1>1, <1>3, <2>1, <2>2
<1> QED BY <1>1, <1>2, <1>3

\* A key keeps the line and its flags in order.
LEMMA EditSteps ==
    ASSUME IInv, EditKeys
    PROVE  /\ LineOK' /\ FlagsOK' /\ TypingIsMarked' /\ UNCHANGED paste
           /\ ~Stale /\ Stale' => erase \/ line.len = MaxLine
<1> DEFINE Goal == /\ LineOK' /\ FlagsOK' /\ TypingIsMarked' /\ UNCHANGED paste
                   /\ ~Stale /\ Stale' => erase \/ line.len = MaxLine
<1>1. /\ line \in Line /\ (line.len = 0 => line.of = "nothing")
      /\ istyping \in BOOLEAN /\ rawinput \in BOOLEAN /\ lastsn \in Sns \cup {NoSn}
      /\ (line.of = "keys" => istyping)
  BY DEF IInv, LineOK, FlagsOK, TypingIsMarked
<1>2. ASSUME Editing, addtoinputbuf PROVE Goal
  <2>1. istyping' = TRUE /\ UNCHANGED <<rawinput, lastsn, paste>>
    BY <1>2 DEF addtoinputbuf
  <2>2. CASE line.len = MaxLine
    <3>1. line' = line
      BY <1>2, <2>2 DEF addtoinputbuf
    <3> QED BY <1>1, <2>1, <2>2, <3>1 DEF LineOK, FlagsOK, TypingIsMarked
  <2>3. CASE line.len # MaxLine
    <3>1. PICK len \in 1..MaxOver : line' = Grown(line, len)
      BY <1>1, <1>2, <2>3, AddedTo DEF LineOK
    <3>2. line' = [line EXCEPT !.len = len, !.of = "keys"] /\ len \in 0..MaxOver
      BY <3>1 DEF Grown
    <3>3. line' \in Line /\ line'.len = len /\ line'.of = "keys"
      BY <1>1, <3>2 DEF Line
    <3> QED BY <1>1, <2>1, <3>3 DEF LineOK, FlagsOK, TypingIsMarked, Stale
  <2> QED BY <2>2, <2>3
<1>3. ASSUME NEW e \in Escapes, escaped(e) PROVE Goal
  <2> DEFINE of == IF line.of = "nothing" THEN "escapes" ELSE line.of
             len == line.len + e.width
  <2>1. line.len <= e.guard /\ UNCHANGED <<istyping, rawinput, lastsn, paste>>
    BY <1>3 DEF escaped
  <2>2. line' = [line EXCEPT !.len = len, !.of = of]
    BY <1>3 DEF escaped, With
  <2>3. /\ line' \in Line /\ line'.len # 0
        /\ line'.of = IF line.of = "nothing" THEN "escapes" ELSE line.of
    <3>1. /\ e.width \in Nat /\ e.guard \in Nat
          /\ e.width > 0 /\ e.width + e.guard = MaxLine + 2
      BY DEF Escapes
    <3>2. line.len \in Nat
      BY <1>1 DEF Line
    <3>3. len \in 0..MaxOver /\ len # 0
      BY ONLY <2>1, <3>1, <3>2, MaxLineAssumption, MaxOverAssumption
    <3>4. of \in {"nothing", "escapes", "log", "keys"}
      BY <1>1 DEF Line
    <3> HIDE DEF len, of
    <3>5. line' \in Line /\ line'.len = len /\ line'.of = of
      BY <1>1, <2>2, <3>3, <3>4 DEF Line
    <3> QED BY <3>3, <3>5 DEF of
  <2>4. LineOK' /\ FlagsOK' /\ TypingIsMarked'
    BY <1>1, <2>1, <2>3 DEF LineOK, FlagsOK, TypingIsMarked
  <2>5. ~(~Stale /\ Stale')
    BY <2>1, <2>3 DEF Stale
  <2> QED BY <2>1, <2>4, <2>5
<1>4. CASE letter
  BY <1>2, <1>4 DEF letter
<1>5. CASE escape
  <2>1. PICK e \in Escapes : Editing /\ IF rawinput THEN addtoinputbuf ELSE escaped(e)
    BY <1>5 DEF escape
  <2> HIDE DEF Goal
  <2>2. Goal
    BY <1>2, <1>3, <2>1
  <2> QED BY <2>2 DEF Goal
<1>6. CASE line_break
  <2>1. escaped([width |-> 4, guard |-> MaxLine - 2])
    BY <1>6 DEF line_break
  <2>2. [width |-> 4, guard |-> MaxLine - 2] \in Escapes
    BY DEF Escapes
  <2> HIDE DEF Goal
  <2>3. Goal
    BY <1>3, <2>1, <2>2
  <2> QED BY <2>3 DEF Goal
<1>7. CASE toggle_raw
  <2>1. UNCHANGED <<line, istyping, lastsn, paste>> /\ rawinput' \in BOOLEAN
    BY <1>7 DEF toggle_raw
  <2> QED BY <1>1, <2>1 DEF LineOK, FlagsOK, TypingIsMarked, Stale
<1>8. CASE clear
  BY <1>1, <1>8, EmptyLine DEF clear, LineOK, FlagsOK, TypingIsMarked, Stale
<1>9. CASE erase
  <2>1. UNCHANGED <<rawinput, lastsn, paste>>
    BY <1>9 DEF erase
  <2>2. CASE line.len = 0
    BY <1>1, <1>9, <2>1, <2>2 DEF erase, LineOK, FlagsOK, TypingIsMarked
  <2>3. CASE line.len # 0
    <3>1. line' = Shortened(line) /\ istyping' = istyping
      BY <1>9, <2>3 DEF erase
    <3> DEFINE to == IF line.len - 1 < Address THEN NoSn ELSE line.to
               of == IF line.len = 1 THEN "nothing" ELSE line.of
    <3>2. line.len - 1 \in 0..MaxOver
      BY <1>1, <2>3 DEF Line
    <3>3. to \in Sns \cup {NoSn} /\ of \in {"nothing", "escapes", "log", "keys"}
      BY <1>1 DEF Line
    <3>4. line' = [line EXCEPT !.len = line.len - 1, !.to = to, !.of = of]
      BY <3>1 DEF Shortened
    <3>5. line.len - 1 = 0 => of = "nothing"
      BY <1>1 DEF Line
    <3>6. of = "keys" => line.of = "keys"
      OBVIOUS
    <3> HIDE DEF to, of
    <3>7. line' \in Line /\ line'.len = line.len - 1 /\ line'.of = of
      BY <1>1, <3>2, <3>3, <3>4 DEF Line
    <3> QED BY <1>1, <1>9, <2>1, <3>1, <3>5, <3>6, <3>7
            DEF LineOK, FlagsOK, TypingIsMarked
  <2> QED BY <2>2, <2>3
<1>10. ASSUME NEW sn \in Sns, complete(sn) PROVE Goal
  <2>1. /\ UNCHANGED <<istyping, rawinput, lastsn, paste>>
        /\ line.of \in {"log", "keys"}
    BY <1>10 DEF complete
  <2>2. PICK blank \in BOOLEAN :
          line' = [line EXCEPT !.len = IF blank THEN Address ELSE SnLen + 1,
                               !.to = IF blank THEN sn ELSE NoSn]
    BY <1>10 DEF complete
  <2>3. Address \in 1..MaxLine /\ SnLen + 1 \in 1..MaxLine
    BY DEF Address
  <2> DEFINE len == IF blank THEN Address ELSE SnLen + 1
             to == IF blank THEN sn ELSE NoSn
  <2>4. len \in 0..MaxOver /\ len # 0 /\ to \in Sns \cup {NoSn}
    BY <2>3
  <2>5. line' = [line EXCEPT !.len = len, !.to = to]
    BY <2>2
  <2> HIDE DEF len, to
  <2>6. line' \in Line /\ line'.len # 0 /\ line'.of = line.of
    BY <1>1, <2>4, <2>5 DEF Line
  <2> QED BY <1>1, <2>1, <2>6 DEF LineOK, FlagsOK, TypingIsMarked, Stale
<1>11. CASE reply
  <2>1. Address \in 1..MaxLine
    BY DEF Address
  <2> QED BY <1>1, <1>11, <2>1
          DEF reply, LineOK, FlagsOK, TypingIsMarked, Stale, Line
<1>12. CASE recall
  BY <1>1, <1>12 DEF recall, LineOK, FlagsOK, TypingIsMarked, Stale, Line
<1>13. CASE recall_log
  BY <1>1, <1>13 DEF recall_log, LineOK, FlagsOK, TypingIsMarked, Stale, Line
<1> QED BY <1>4, <1>5, <1>6, <1>7, <1>8, <1>9, <1>10, <1>11, <1>12, <1>13
        DEF EditKeys

\* What an escape adds to a line that lets it in is not more than two too many.
LEMMA EscapedFar ==
    ASSUME LineOK, NEW e \in Escapes, escaped(e)
    PROVE  line'.len <= MaxLine + 2
<1> DEFINE len == line.len + e.width
           of == IF line.of = "nothing" THEN "escapes" ELSE line.of
<1>1. line \in Line /\ line.len \in Nat
  BY DEF LineOK, Line
<1>2. e.width \in Nat /\ e.guard \in Nat /\ e.width + e.guard = MaxLine + 2
  BY DEF Escapes
<1>3. len <= MaxLine + 2
  BY ONLY <1>1, <1>2, escaped(e), MaxLineAssumption DEF escaped
<1>4. line' = [line EXCEPT !.len = len, !.of = of]
  BY DEF escaped, With
<1> HIDE DEF len, of
<1> QED BY <1>1, <1>3, <1>4 DEF Line

\* Only an escape or Ctrl-B takes a line past the end of its buffer.
LEMMA Passing ==
    ASSUME IInv, EditKeys, line.len <= MaxLine, line'.len > MaxLine
    PROVE  (escape \/ line_break) /\ line'.len <= MaxLine + 2
<1>1. /\ LineOK /\ line \in Line /\ line.len \in Nat
      /\ line.len \in 0..MaxOver
  BY DEF IInv, LineOK, Line
<1>2. ~addtoinputbuf
  <2> SUFFICES ASSUME addtoinputbuf PROVE FALSE
    OBVIOUS
  <2>1. CASE line.len = MaxLine
    BY <1>1, <2>1 DEF addtoinputbuf
  <2>2. CASE line.len # MaxLine
    <3>1. line'.len = line.len + 1
      BY <1>1, <2>2, AddedTo
    <3> QED BY <1>1, <2>2, <3>1
  <2> QED BY <2>1, <2>2
<1>3. ~letter /\ ~toggle_raw
  BY <1>1, <1>2 DEF letter, toggle_raw
<1>4. ~clear /\ ~reply /\ ~recall /\ ~recall_log
  BY DEF clear, Empty, reply, recall, recall_log, Address
<1>5. ~erase
  <2> SUFFICES ASSUME erase PROVE FALSE
    OBVIOUS
  <2>1. line' = line \/ line' = Shortened(line)
    BY DEF erase
  <2>2. Shortened(line).len = line.len - 1
    BY <1>1 DEF Shortened, Line
  <2>3. ~(line.len > MaxLine) /\ ~(line.len - 1 > MaxLine)
    BY <1>1
  <2> QED BY <2>1, <2>2, <2>3
<1>6. ASSUME NEW sn \in Sns, complete(sn) PROVE FALSE
  <2>1. PICK blank \in BOOLEAN :
          line' = [line EXCEPT !.len = IF blank THEN Address ELSE SnLen + 1,
                               !.to = IF blank THEN sn ELSE NoSn]
    BY <1>6 DEF complete
  <2>2. line'.len = (IF blank THEN Address ELSE SnLen + 1)
    BY <1>1, <2>1 DEF Line
  <2> QED BY <2>2 DEF Address
<1>7. CASE escape
  <2>1. PICK e \in Escapes : escaped(e)
    BY <1>2, <1>7 DEF escape
  <2> QED BY <1>1, <1>7, <2>1, EscapedFar
<1>8. CASE line_break
  <2>1. [width |-> 4, guard |-> MaxLine - 2] \in Escapes
    BY DEF Escapes
  <2> QED BY <1>1, <1>8, <2>1, EscapedFar DEF line_break
<1> QED BY <1>3, <1>4, <1>5, <1>6, <1>7, <1>8 DEF EditKeys

\* A command clears the line and its flags, or begins a paste.
LEMMA CommandSteps ==
    ASSUME IInv, parse_input
    PROVE  /\ IInv'
           /\ ~(~Stale /\ Stale')
           /\ ~(paste.on /\ ~paste'.on)
<1>1. LineOK /\ FlagsOK /\ TypingIsMarked /\ PasteOK
  BY DEF IInv
<1>2. CASE input_send_message \/ other_command
  <2>1. /\ line' = Empty /\ istyping' = FALSE /\ rawinput' = FALSE
        /\ UNCHANGED paste /\ lastsn' \in Sns \cup {NoSn}
    BY <1>1, <1>2 DEF input_send_message, other_command, Cleared, FlagsOK
  <2>2. LineOK' /\ FlagsOK' /\ TypingIsMarked' /\ ~Stale'
    BY <2>1, EmptyLine DEF LineOK, FlagsOK, TypingIsMarked, Stale
  <2>3. PasteOK'
    BY <1>1, <2>1 DEF PasteOK, Kept
  <2> QED BY <2>1, <2>2, <2>3 DEF IInv
<1>3. CASE input_paste
  <2>1. UNCHANGED <<line, istyping, rawinput, lastsn>> /\ paste' = NewPaste(TRUE)
    BY <1>3 DEF input_paste, typing
  <2>2. LineOK' /\ FlagsOK' /\ TypingIsMarked' /\ ~(~Stale /\ Stale')
    BY <1>1, <2>1 DEF LineOK, FlagsOK, TypingIsMarked, Stale
  <2>3. Kept(NewPaste(TRUE)) /\ NewPaste(TRUE).count = 0 /\ NewPaste(TRUE).on
    BY NewKept DEF NewPaste
  <2>4. PasteOK' /\ paste'.on
    <3>1. 0 <= MaxSize - 7
      OBVIOUS
    <3> QED BY <2>1, <2>3, <3>1 DEF PasteOK
  <2> QED BY <2>2, <2>4 DEF IInv
<1> QED BY <1>2, <1>3 DEF parse_input

\* What a step does, all told.
LEMMA Steps ==
    ASSUME IInv, Next
    PROVE  /\ IInv'
           /\ ~Stale /\ Stale' => erase \/ line.len = MaxLine
           /\ paste.on /\ ~paste'.on =>
                \/ paste.pasted = Len(paste'.sent)
                \/ paste_cancel
                \/ paste_erase
<1>1. CASE EditKeys
  <2>1. PasteOK' /\ paste' = paste
    BY <1>1, EditSteps DEF IInv, PasteOK, Kept
  <2> QED BY <1>1, <2>1, EditSteps DEF IInv
<1>2. CASE parse_input
  BY <1>2, CommandSteps
<1>3. ASSUME NEW who \in Sns, getmessage(who) PROVE
           /\ IInv'
           /\ ~(~Stale /\ Stale')
           /\ paste' = paste
  <2>1. /\ UNCHANGED <<line, istyping, rawinput, paste>>
        /\ lastsn' = IF istyping THEN lastsn ELSE who
    BY <1>3 DEF getmessage
  <2>2. LineOK' /\ FlagsOK' /\ TypingIsMarked' /\ PasteOK'
    BY <2>1 DEF IInv, LineOK, FlagsOK, TypingIsMarked, PasteOK, Kept
  <2> QED BY <2>1, <2>2 DEF IInv, Stale
<1>4. CASE bsf_getline
  <2>1. ~(~Stale /\ Stale')
    BY <1>4 DEF bsf_getline, paste_character, paste_newline, paste_cancel, paste_erase,
       Took, End, Go, Cleared, typing, Stale
  <2> QED BY <1>4, <2>1, PasteSteps
<1> QED BY <1>1, <1>2, <1>3, <1>4 DEF Next, EditKeys

LEMMA InitInv == Init => IInv
<1> SUFFICES ASSUME Init PROVE IInv
  OBVIOUS
<1>1. LineOK /\ FlagsOK /\ TypingIsMarked
  BY EmptyLine DEF Init, LineOK, FlagsOK, TypingIsMarked
<1>2. PasteOK
  BY NewKept DEF Init, PasteOK, NewPaste
<1> QED BY <1>1, <1>2 DEF IInv

LEMMA NextInv == IInv /\ [Next]_vars => IInv'
<1> SUFFICES ASSUME IInv, [Next]_vars PROVE IInv'
  OBVIOUS
<1>1. CASE UNCHANGED vars
  BY <1>1 DEF vars, typing, IInv, LineOK, FlagsOK, TypingIsMarked, PasteOK, Kept
<1>2. CASE Next
  BY <1>2, Steps
<1> QED BY <1>1, <1>2

\* The invariant holds of every state.
LEMMA Inductive == Spec => []IInv
  BY InitInv, NextInv, PTL DEF Spec

-----------------------------------------------------------------------------
\* Every variable keeps its type, for any bound of a line that has passed the
\* end of its buffer; the line reader of paste mode passes the end of none.
THEOREM TypeCorrect == Spec => []TypeOK
<1>1. IInv => TypeOK
  BY DEF IInv, LineOK, FlagsOK, PasteOK, Kept, TypeOK
<1> QED BY <1>1, Inductive, PTL

\* A line passes the end of its buffer by an escape or a Ctrl-B only, and then
\* by two characters at most, for any length of buffer and of names.
THEOREM LinesPassByEscapes == Spec => PassedByEscapes
<1> DEFINE Passed == line.len <= MaxLine /\ line'.len > MaxLine =>
                       (escape \/ line_break) /\ line'.len <= MaxLine + 2
<1>1. IInv /\ [Next]_vars => [Passed]_vars
  <2> SUFFICES ASSUME IInv, Next, line.len <= MaxLine, line'.len > MaxLine
               PROVE  (escape \/ line_break) /\ line'.len <= MaxLine + 2
    OBVIOUS
  <2>1. CASE EditKeys
    BY <2>1, Passing
  <2>2. CASE ~EditKeys
    <3>1. line' = line \/ line' = Empty
      BY <2>2 DEF Next, EditKeys, parse_input, input_send_message, other_command,
         input_paste, Cleared, typing, getmessage, bsf_getline, paste_character,
         paste_newline, paste_cancel, paste_erase, Took, End, Go
    <3>2. ~(0 > MaxLine) /\ (line.len <= MaxLine => ~(line.len > MaxLine))
      BY DEF IInv, LineOK, Line
    <3> QED BY <3>1, <3>2, EmptyLine
  <2> QED BY <2>1, <2>2
<1> QED BY <1>1, Inductive, PTL DEF Spec, PassedByEscapes

\* A line with a letter in it is marked as being typed.
THEOREM LettersAreMarked == Spec => []TypingIsMarked
<1>1. IInv => TypingIsMarked
  BY DEF IInv
<1> QED BY <1>1, Inductive, PTL

\* Pasted lines stay in their order, however many and however long.
THEOREM PasteKeepsOrder == Spec => []PastedInOrder
<1>1. IInv => PastedInOrder
  BY DEF IInv, PasteOK, Kept, Count, PastedInOrder
<1> QED BY <1>1, Inductive, PTL

\* A paste never makes a message the server refuses for its length, or an
\* empty one.
THEOREM EveryMessageFits == Spec => []MessagesFit
<1>1. IInv => MessagesFit
  BY DEF IInv, PasteOK, Kept, Paste, MessagesFit
<1> QED BY <1>1, Inductive, PTL

\* The flag outlives the letters only by erasing them.
THEOREM FlagsFollowLetters == Spec => OnlyErasingLingers
<1>1. IInv /\ [Next]_vars => [~Stale /\ Stale' => erase \/ line.len = MaxLine]_vars
  BY Steps
<1> QED BY <1>1, Inductive, PTL DEF Spec, OnlyErasingLingers

\* A paste that is not cancelled sends every line.
THEOREM PasteIsSent == Spec => SentAtEnd
<1>1. IInv /\ [Next]_vars =>
        [paste.on /\ ~paste'.on =>
           \/ paste.pasted = Len(paste'.sent)
           \/ paste_cancel
           \/ paste_erase]_vars
  BY Steps
<1> QED BY <1>1, Inductive, PTL DEF Spec, SentAtEnd

\* While a line has a letter in it, only sending it changes whom r answers.
THEOREM ReplyGoesWhereItShould == Spec => PartnerIsKept
<1>1. IInv /\ [Next]_vars =>
        [line.of = "keys" /\ lastsn' # lastsn => input_send_message]_vars
  <2> SUFFICES ASSUME IInv, Next, line.of = "keys", lastsn' # lastsn
               PROVE  input_send_message
    OBVIOUS
  <2>1. ~EditKeys
    BY DEF EditKeys, letter, escape, escaped, addtoinputbuf, line_break, toggle_raw,
       clear, erase, complete, reply, recall, recall_log
  <2>2. ~other_command /\ ~input_paste
    BY DEF other_command, input_paste, typing
  <2>3. ASSUME NEW who \in Sns, getmessage(who) PROVE FALSE
    BY <2>3 DEF getmessage, IInv, TypingIsMarked
  <2>4. ~bsf_getline
    BY DEF bsf_getline, paste_character, paste_newline, paste_cancel, paste_erase,
       Took, End, Go, typing
  <2> QED BY <2>1, <2>2, <2>3, <2>4 DEF Next, EditKeys, parse_input
<1> QED BY <1>1, Inductive, PTL DEF Spec, PartnerIsKept
=============================================================================
