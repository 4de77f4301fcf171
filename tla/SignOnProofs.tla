---------------------------- MODULE SignOnProofs ----------------------------
(***************************************************************************)
(* Theorems about SignOn, for every bound, every size of the sequence      *)
(* numbers and every order in which the server answers.                    *)
(*                                                                         *)
(* The argument has five parts.  What a send does to the sending side is   *)
(* put into three forms (Quiet, Longer, Lossy), and whatever is asked of   *)
(* that side is shown once to survive each of them.  The frames under way  *)
(* carry on where the server expects them (Follow).  The requests under    *)
(* way find what they need before them (Turn).  And what is under way      *)
(* tells how far the connection is (Fitting), because each answer leads    *)
(* back to the only request that it answers (Heard).  For the same reason  *)
(* each answer is acted upon once, and nothing is asked twice (Asking).    *)
(***************************************************************************)
EXTENDS SignOn, TLAPS

Out == [seqnum : 0..MaxSeq, wire : Seq(Frame), broken : BOOLEAN, lost : Nat, failed : Nat]

AuthRequests == {"hello", "17/06", "17/02", "ping"}
BosRequests == Requests \ {"hello", "17/06", "17/02"}

\* The frames are numbered without a gap, from what the server expects to what
\* comes next, unless a batch was lost.
Follow(o, s) ==
    o.lost = 0 =>
        /\ ~s.refused
        /\ \A i \in 1..(Len(o.wire) - 1) : o.wire[i + 1].seq = NextSeq(o.wire[i].seq)
        /\ Len(o.wire) > 0 /\ ~o.broken => o.seqnum = NextSeq(o.wire[Len(o.wire)].seq)
        /\ Len(o.wire) > 0 /\ ~s.new => o.wire[1].seq = s.expects
        /\ Len(o.wire) = 0 /\ ~s.new /\ ~o.broken => o.seqnum = s.expects

\* What a request builds on was heard, or is under way before it; a server that
\* refused a frame hears no more.
Before(o, i) == {o.wire[j].snac : j \in 1..(i - 1)}

Turn(o, s) ==
    s.refused \/ \A i \in 1..Len(o.wire) : Needs(o.wire[i].snac) \subseteq s.asked \cup Before(o, i)

Within(o, kinds) == \A i \in 1..Len(o.wire) : o.wire[i].snac \in kinds

\* Nothing says that the client is ready; at most one thing does.
Unready(o, s) == s.ready = 0 /\ \A i \in 1..Len(o.wire) : o.wire[i].snac # "01/02"

Once(o, s) ==
    /\ s.ready <= 1
    /\ \A i \in 1..Len(o.wire) : o.wire[i].snac = "01/02" =>
          /\ s.ready = 0
          /\ \A j \in 1..Len(o.wire) : o.wire[j].snac = "01/02" => j = i

Heard ==
    /\ server.pending \subseteq server.asked
    /\ \A i \in 1..Len(inbox) :
          \/ inbox[i].snac = "04:09/02"
          \/ \E snac \in server.asked : inbox[i].snac \in Answers(snac)

Fitting ==
    /\ at = "none" => out.wire = <<>> /\ server.asked = {}
    /\ at = "auth" => Within(out, AuthRequests) /\ server.asked \subseteq AuthRequests
    /\ at = "bos" => Within(out, BosRequests) /\ server.asked \subseteq BosRequests

Told ==
    /\ at = "none" => status = "none" /\ ~connected
    /\ at = "auth" => status = "dialled" /\ ~connected
    /\ at = "bos" => status = IF connected THEN "CONNECTED" ELSE "AUTHDONE"
    /\ at = "closed" => status \in {"INVALID_LOGIN", "OTHER_SIGNON", "DISCONNECTED"}
    /\ at = "bos" /\ connected => "13/04" \in server.asked

Ready ==
    /\ Once(out, server)
    /\ at # "closed" /\ ~connected => Unready(out, server)

IInv ==
    /\ TypeOK
    /\ Follow(out, server)
    /\ Turn(out, server)
    /\ InTurn
    /\ Heard
    /\ Fitting
    /\ Told
    /\ Ready

-----------------------------------------------------------------------------
(* Packets.                                                                *)

LEMMA Batches ==
    /\ Range(multireq) = {"01/0e", "13/02", "13/04", "02/02", "03/02", "04/04", "09/02"}
    /\ Range(cliready) = {"01/1e", "01/02", "13/07"}
    /\ multireq \in Seq(Requests) /\ Len(multireq) = 7
    /\ cliready \in Seq(Requests) /\ Len(cliready) = 3
    /\ \A i \in 1..7 : multireq[i] \in Range(multireq)
    /\ \A i \in 1..3 : cliready[i] \in Range(cliready)
<1>1. Range(multireq) = {"01/0e", "13/02", "13/04", "02/02", "03/02", "04/04", "09/02"}
  BY DEF Range, multireq
<1>2. Range(cliready) = {"01/1e", "01/02", "13/07"}
  BY DEF Range, cliready
<1>3. \A i \in 1..7 : multireq[i] \in Range(multireq)
  BY DEF Range, multireq
<1>4. \A i \in 1..3 : cliready[i] \in Range(cliready)
  BY DEF Range, cliready
<1>5. multireq \in Seq(Requests) /\ Len(multireq) = 7
  BY <1>1 DEF multireq, Requests
<1>6. cliready \in Seq(Requests) /\ Len(cliready) = 3
  BY <1>2 DEF cliready, Requests
<1> QED BY <1>1, <1>2, <1>3, <1>4, <1>5, <1>6

\* Each answer leads back to its request.
LEMMA AnswersTo ==
    ASSUME NEW snac
    PROVE  /\ "17/07" \in Answers(snac) => snac = "17/06"
           /\ "17/03" \in Answers(snac) => snac = "17/02"
           /\ "04:01/05" \in Answers(snac) => snac = "17/02"
           /\ "01/03" \in Answers(snac) => snac = "cookie"
           /\ "01/18" \in Answers(snac) => snac = "01/17"
           /\ "01/07" \in Answers(snac) => snac = "01/06"
           /\ "02/03" \in Answers(snac) => snac = "02/02"
           /\ "04/05" \in Answers(snac) => snac = "04/04"
           /\ "13/06" \in Answers(snac) => snac = "13/04"
  BY DEF Answers

LEMMA NeedsOf ==
    /\ \A snac \in {"hello", "17/06", "cookie", "ping", "01/1e"} : Needs(snac) = {}
    /\ Needs("17/02") = {"17/06"} /\ Needs("01/17") = {"cookie"}
    /\ Needs("01/06") = {"01/17"} /\ Needs("01/08") = {"01/06"}
    /\ \A snac \in Range(multireq) : Needs(snac) = {"01/08"}
    /\ Needs("02/04") = {"02/02"} /\ Needs("04/02") = {"04/04"}
    /\ \A snac \in Range(cliready) : Needs(snac) \subseteq {"13/04"}
  BY Batches DEF Needs

-----------------------------------------------------------------------------
(* Sequence numbers.                                                       *)

LEMMA Numbers ==
    ASSUME NEW s \in 0..MaxSeq
    PROVE  /\ NextSeq(s) \in 0..MaxSeq
           /\ \A i \in 0..7 : SeqAfter(s, i) \in 0..MaxSeq
           /\ SeqAfter(s, 0) = s
           /\ \A i \in 0..6 : SeqAfter(s, i + 1) = NextSeq(SeqAfter(s, i))
  BY SeqAssumption, BatchAssumption DEF NextSeq, SeqAfter

-----------------------------------------------------------------------------
(* What a send does to the sending side.                                   *)

Quiet(o, r) ==
    /\ r.wire = o.wire /\ r.lost = o.lost
    /\ r.broken \/ r.seqnum = o.seqnum
    /\ o.broken => r.broken

Lossy(o, r) == r.wire = o.wire /\ r.lost > 0

Longer(o, r, snacs) ==
    /\ ~o.broken /\ ~r.broken
    /\ r.lost = o.lost
    /\ r.seqnum = SeqAfter(o.seqnum, Len(snacs))
    /\ Len(r.wire) = Len(o.wire) + Len(snacs)
    /\ \A i \in 1..Len(o.wire) : r.wire[i] = o.wire[i]
    /\ \A i \in 1..Len(snacs) :
          /\ r.wire[Len(o.wire) + i].seq = SeqAfter(o.seqnum, i - 1)
          /\ r.wire[Len(o.wire) + i].snac = snacs[i]

Sent(o, r, snacs) == Quiet(o, r) \/ Lossy(o, r) \/ Longer(o, r, snacs)

LEMMA OutIs ==
    ASSUME NEW o \in Out
    PROVE  /\ o.seqnum \in 0..MaxSeq /\ o.wire \in Seq(Frame) /\ o.broken \in BOOLEAN
           /\ o.lost \in Nat /\ o.failed \in Nat /\ Len(o.wire) \in Nat
           /\ \A i \in 1..Len(o.wire) : o.wire[i] \in Frame
  BY DEF Out

LEMMA FailedIs ==
    ASSUME NEW o \in Out
    PROVE  /\ Failed(o) \in Out
           /\ Failed(o).wire = o.wire /\ Failed(o).lost = o.lost
           /\ Failed(o).seqnum = o.seqnum /\ Failed(o).broken = o.broken
  BY DEF Failed, Out

LEMMA ErrorSends ==
    ASSUME NEW o \in Out, NEW r \in flap_send_error(o)
    PROVE  r \in Out /\ Quiet(o, r)
<1>1. r = Failed(o)
  BY DEF flap_send_error
<1> QED BY <1>1, FailedIs DEF Quiet

LEMMA OkSends ==
    ASSUME NEW o \in Out, NEW snac \in Requests, NEW r \in flap_send_ok(o, snac)
    PROVE  r \in Out /\ ((Quiet(o, r) /\ r.broken) \/ Longer(o, r, <<snac>>))
<1> DEFINE used == [o EXCEPT !.seqnum = NextSeq(@)]
           frame == [seq |-> o.seqnum, snac |-> snac]
<1>1. used \in Out /\ used.wire = o.wire /\ used.lost = o.lost /\ used.broken = o.broken
      /\ used.seqnum = NextSeq(o.seqnum)
  BY OutIs, Numbers DEF Out
<1>2. frame \in Frame
  BY OutIs DEF Frame
<1>3. CASE r = [used EXCEPT !.wire = Append(@, frame)] /\ ~o.broken
  <2>1. Append(o.wire, frame) \in Seq(Frame)
    BY <1>2, OutIs
  <2> HIDE DEF used, frame
  <2>2. r \in Out /\ r.wire = Append(o.wire, frame) /\ r.lost = o.lost
        /\ r.seqnum = NextSeq(o.seqnum) /\ r.broken = o.broken
    BY <1>1, <1>3, <2>1 DEF Out
  <2>3. SeqAfter(o.seqnum, 0) = o.seqnum /\ SeqAfter(o.seqnum, 1) = NextSeq(o.seqnum)
    BY OutIs, Numbers, 0 + 1 = 1
  <2>4. /\ Len(r.wire) = Len(o.wire) + 1 /\ r.wire[Len(o.wire) + 1] = frame
        /\ \A i \in 1..Len(o.wire) : r.wire[i] = o.wire[i]
    BY <1>2, <2>2, OutIs
  <2>5. Len(<<snac>>) = 1 /\ <<snac>>[1] = snac
    OBVIOUS
  <2>6. \A i \in 1..1 :
           /\ r.wire[Len(o.wire) + i].seq = SeqAfter(o.seqnum, i - 1)
           /\ r.wire[Len(o.wire) + i].snac = <<snac>>[i]
    <3>1. frame.seq = o.seqnum /\ frame.snac = snac
      BY DEF frame
    <3>2. \A i \in 1..1 : i = 1 /\ i - 1 = 0
      OBVIOUS
    <3> QED BY <2>3, <2>4, <2>5, <3>1, <3>2
  <2>7. Longer(o, r, <<snac>>)
    BY <1>3, <2>2, <2>3, <2>4, <2>5, <2>6, OutIs DEF Longer
  <2> QED BY <2>2, <2>7
<1>4. CASE r = [Failed(used) EXCEPT !.broken = TRUE]
  <2> HIDE DEF used
  <2>1. Failed(used) \in Out /\ Failed(used).wire = o.wire /\ Failed(used).lost = o.lost
    BY <1>1, FailedIs
  <2>2. r \in Out /\ r.wire = o.wire /\ r.lost = o.lost /\ r.broken
    BY <1>4, <2>1 DEF Out
  <2> QED BY <2>2 DEF Quiet
<1> QED BY <1>3, <1>4, Zenon DEF flap_send_ok

LEMMA Sends ==
    ASSUME NEW o \in Out, NEW snac \in Requests, NEW r \in flap_send(o, snac)
    PROVE  r \in Out /\ Sent(o, r, <<snac>>)
  BY ErrorSends, OkSends DEF flap_send, Sent

LEMMA MultiSends ==
    ASSUME NEW o \in Out, NEW snacs \in Seq(Requests), Len(snacs) \in 1..7,
           NEW r \in flap_sendMulti(o, snacs)
    PROVE  /\ r \in Out
           /\ Lossy(o, r) \/ Longer(o, r, snacs)
<1> DEFINE n == Len(snacs)
           used == [o EXCEPT !.seqnum = SeqAfter(@, n)]
           gone == [Failed(used) EXCEPT !.lost = @ + n]
           frames == [i \in 1..n |-> [seq |-> SeqAfter(o.seqnum, i - 1), snac |-> snacs[i]]]
<1>0. n \in 0..7 /\ n \in Nat /\ n > 0
  <2>1. \A k \in 1..7 : k \in 0..7 /\ k \in Nat /\ k > 0
    OBVIOUS
  <2> QED BY <2>1
<1>1. /\ used \in Out /\ used.wire = o.wire /\ used.lost = o.lost /\ used.broken = o.broken
      /\ used.seqnum = SeqAfter(o.seqnum, n)
  <2> HIDE DEF n
  <2>1. SeqAfter(o.seqnum, n) \in 0..MaxSeq
    BY <1>0, OutIs, Numbers
  <2> QED BY <2>1 DEF Out
<1>2. frames \in Seq(Frame) /\ Len(frames) = n
  <2>1. ASSUME NEW i \in 1..n
        PROVE  [seq |-> SeqAfter(o.seqnum, i - 1), snac |-> snacs[i]] \in Frame
    <3>1. i - 1 \in 0..7 /\ snacs[i] \in Requests
      OBVIOUS
    <3> QED BY <3>1, OutIs, Numbers DEF Frame
  <2>2. n \in Nat /\ frames \in [1..n -> Frame]
    BY <2>1
  <2> QED BY <2>2
<1>3. CASE r = [used EXCEPT !.wire = @ \o frames] /\ ~o.broken
  <2>1. /\ o.wire \o frames \in Seq(Frame)
        /\ Len(o.wire \o frames) = Len(o.wire) + n
        /\ \A i \in 1..Len(o.wire) : (o.wire \o frames)[i] = o.wire[i]
        /\ \A i \in 1..n : (o.wire \o frames)[Len(o.wire) + i] = frames[i]
    <3>1. o.wire \in Seq(Frame)
      BY OutIs
    <3> HIDE DEF frames, n
    <3> DEFINE w == o.wire
    <3>2. w \in Seq(Frame)
      BY <3>1
    <3> HIDE DEF w
    <3>3. /\ w \o frames \in Seq(Frame)
          /\ Len(w \o frames) = Len(w) + n
          /\ \A i \in 1..Len(w) : (w \o frames)[i] = w[i]
          /\ \A i \in 1..n : (w \o frames)[Len(w) + i] = frames[i]
      BY <1>2, <3>2
    <3> QED BY <3>3 DEF w
  <2>2. \A i \in 1..n : /\ frames[i].seq = SeqAfter(o.seqnum, i - 1)
                        /\ frames[i].snac = snacs[i]
    OBVIOUS
  <2> HIDE DEF used, frames
  <2>3. r \in Out /\ r.wire = o.wire \o frames /\ r.lost = o.lost
        /\ r.seqnum = SeqAfter(o.seqnum, n) /\ r.broken = o.broken
    BY <1>1, <1>3, <2>1 DEF Out
  <2> QED BY <1>3, <2>1, <2>2, <2>3 DEF Longer
<1>4. CASE r = gone \/ r = [gone EXCEPT !.broken = TRUE]
  <2> HIDE DEF used, n
  <2>2. /\ Failed(used) \in Out /\ Failed(used).wire = o.wire /\ Failed(used).lost = o.lost
    BY <1>1, FailedIs
  <2>3. /\ gone \in Out /\ gone.wire = o.wire /\ gone.lost = o.lost + n
    BY <1>0, <2>2, OutIs DEF Out
  <2> HIDE DEF gone
  <2>4. r \in Out /\ r.wire = o.wire /\ r.lost = o.lost + n
    BY <1>4, <2>3 DEF Out
  <2> QED BY <1>0, <2>4, OutIs DEF Lossy
<1> QED BY <1>3, <1>4, Zenon DEF flap_sendMulti

-----------------------------------------------------------------------------
(* What survives a send.                                                   *)

Sending(o, r, snacs) ==
    /\ o \in Out /\ r \in Out
    /\ snacs \in Seq(Requests) /\ Len(snacs) \in 1..7
    /\ Sent(o, r, snacs)

Kinds(o) == {o.wire[j].snac : j \in 1..Len(o.wire)}

\* A frame of the result is one of the old ones or one of the new ones.
LEMMA WireOf ==
    ASSUME NEW o, NEW r, NEW snacs, Sending(o, r, snacs), r.wire # o.wire
    PROVE  /\ Longer(o, r, snacs)
           /\ Len(o.wire) \in Nat /\ Len(snacs) \in 1..7
           /\ \A i \in 1..Len(r.wire) :
                 \/ i \in 1..Len(o.wire) /\ r.wire[i] = o.wire[i]
                 \/ \E k \in 1..Len(snacs) : i = Len(o.wire) + k /\ r.wire[i].snac = snacs[k]
<1>1. Longer(o, r, snacs) /\ Len(o.wire) \in Nat /\ Len(snacs) \in 1..7
  BY OutIs DEF Sending, Sent, Quiet, Lossy
<1>2. ASSUME NEW i \in 1..Len(r.wire), i \notin 1..Len(o.wire)
      PROVE  \E k \in 1..Len(snacs) : i = Len(o.wire) + k /\ r.wire[i].snac = snacs[k]
  <2>1. Len(r.wire) = Len(o.wire) + Len(snacs)
    BY <1>1 DEF Longer
  <2>2. i - Len(o.wire) \in 1..Len(snacs) /\ i = Len(o.wire) + (i - Len(o.wire))
    BY <1>1, <1>2, <2>1
  <2>3. \A k \in 1..Len(snacs) : r.wire[Len(o.wire) + k].snac = snacs[k]
    BY <1>1 DEF Longer
  <2> QED BY <2>2, <2>3
<1>3. \A i \in 1..Len(o.wire) : r.wire[i] = o.wire[i]
  BY <1>1 DEF Longer
<1> QED BY <1>1, <1>2, <1>3

LEMMA FollowKept ==
    ASSUME NEW o, NEW r, NEW snacs, NEW s, Sending(o, r, snacs), Follow(o, s)
    PROVE  Follow(r, s)
<1>1. o.seqnum \in 0..MaxSeq /\ r.lost \in Nat /\ Len(o.wire) \in Nat
  BY OutIs DEF Sending
<1>2. CASE Quiet(o, r)
  BY <1>2 DEF Quiet, Follow
<1>3. CASE Lossy(o, r)
  BY <1>3 DEF Lossy, Follow
<1>4. CASE Longer(o, r, snacs)
  <2> DEFINE n == Len(snacs)
             m == Len(o.wire)
  <2>1. /\ n \in 1..7 /\ m \in Nat
        /\ ~o.broken /\ ~r.broken /\ r.lost = o.lost
        /\ r.seqnum = SeqAfter(o.seqnum, n) /\ Len(r.wire) = m + n
        /\ \A i \in 1..m : r.wire[i] = o.wire[i]
        /\ \A i \in 1..n : r.wire[m + i].seq = SeqAfter(o.seqnum, i - 1)
    <3>2. \A i \in 1..n : r.wire[m + i].seq = SeqAfter(o.seqnum, i - 1)
      BY <1>4 DEF Longer
    <3>3. n \in 1..7
      BY DEF Sending
    <3> HIDE DEF n
    <3> QED BY <1>1, <1>4, <3>2, <3>3 DEF Longer, n
  <2>2. /\ SeqAfter(o.seqnum, 0) = o.seqnum
        /\ \A i \in 0..6 : SeqAfter(o.seqnum, i + 1) = NextSeq(SeqAfter(o.seqnum, i))
    BY <1>1, Numbers
  <2> SUFFICES ASSUME o.lost = 0 PROVE Follow(r, s)
    BY <2>1 DEF Follow
  <2> HIDE DEF n, m
  <2>3. /\ ~s.refused
        /\ \A i \in 1..(m - 1) : o.wire[i + 1].seq = NextSeq(o.wire[i].seq)
        /\ m > 0 => o.seqnum = NextSeq(o.wire[m].seq)
        /\ m > 0 /\ ~s.new => o.wire[1].seq = s.expects
        /\ m = 0 /\ ~s.new => o.seqnum = s.expects
    BY <2>1 DEF Follow, m
  <2>4. r.wire[m + 1].seq = o.seqnum
    <3>1. 1 \in 1..n /\ 1 - 1 = 0
      BY <2>1
    <3> QED BY <2>1, <2>2, <3>1
  <2>5. ASSUME NEW i \in 1..(m + n - 1)
        PROVE  r.wire[i + 1].seq = NextSeq(r.wire[i].seq)
    <3>1. CASE i < m
      <4>1. i \in 1..(m - 1) /\ i \in 1..m /\ i + 1 \in 1..m
        BY <2>1, <3>1
      <4> QED BY <2>1, <2>3, <4>1
    <3>2. CASE i = m
      <4>1. m \in 1..m /\ m > 0
        BY <2>1, <3>2
      <4> QED BY <2>1, <2>3, <2>4, <3>2, <4>1
    <3>3. CASE i > m
      <4>1. PICK k \in 1..n : i = m + k
        <5>1. i - m \in 1..n /\ i = m + (i - m)
          BY <2>1, <3>3
        <5> QED BY <5>1
      <4>2. k + 1 \in 1..n /\ k - 1 \in 0..6 /\ (k - 1) + 1 = k /\ (k + 1) - 1 = k
            /\ i + 1 = m + (k + 1)
        BY <2>1, <4>1
      <4>3. r.wire[i].seq = SeqAfter(o.seqnum, k - 1)
        BY <2>1, <4>1
      <4>4. r.wire[i + 1].seq = SeqAfter(o.seqnum, k)
        BY <2>1, <4>2
      <4> QED BY <2>2, <4>2, <4>3, <4>4
    <3> QED BY <2>1, <3>1, <3>2, <3>3
  <2>6. r.seqnum = NextSeq(r.wire[m + n].seq)
    <3>1. n \in 1..n /\ n - 1 \in 0..6 /\ (n - 1) + 1 = n
      BY <2>1
    <3> QED BY <2>1, <2>2, <3>1
  <2>7. ~s.new => r.wire[1].seq = s.expects
    <3>1. CASE m = 0
      BY <2>1, <2>3, <2>4, <3>1
    <3>2. CASE m > 0
      <4>1. 1 \in 1..m
        BY <2>1, <3>2
      <4> QED BY <2>1, <2>3, <3>2, <4>1
    <3> QED BY <2>1, <3>1, <3>2
  <2>8. Len(r.wire) = m + n /\ m + n > 0 /\ m + n # 0
    BY <2>1
  <2>9. \A i \in 1..(Len(r.wire) - 1) : r.wire[i + 1].seq = NextSeq(r.wire[i].seq)
    <3> SUFFICES ASSUME NEW i \in 1..(Len(r.wire) - 1)
                 PROVE  r.wire[i + 1].seq = NextSeq(r.wire[i].seq)
      OBVIOUS
    <3>1. i \in 1..(m + n - 1)
      <4> DEFINE l == Len(r.wire)
      <4>1. l = m + n /\ i \in 1..(l - 1)
        BY <2>8
      <4> HIDE DEF l
      <4> QED BY <2>1, <4>1
    <3> QED BY <2>5, <3>1
  <2>10. r.seqnum = NextSeq(r.wire[Len(r.wire)].seq)
    BY <2>6, <2>8
  <2>11. Len(r.wire) # 0
    BY <2>8
  <2> QED BY <2>3, <2>7, <2>9, <2>10, <2>11 DEF Follow
<1> QED BY <1>2, <1>3, <1>4 DEF Sending, Sent

LEMMA TurnKept ==
    ASSUME NEW o, NEW r, NEW snacs, NEW s, Sending(o, r, snacs), Turn(o, s),
           \A k \in 1..Len(snacs) : Needs(snacs[k]) \subseteq s.asked \cup Kinds(o)
    PROVE  Turn(r, s)
<1>1. CASE r.wire = o.wire
  BY <1>1 DEF Turn, Before
<1>2. CASE r.wire # o.wire
  <2> SUFFICES ASSUME ~s.refused, NEW i \in 1..Len(r.wire)
               PROVE  Needs(r.wire[i].snac) \subseteq s.asked \cup Before(r, i)
    BY DEF Turn
  <2>1. /\ Len(o.wire) \in Nat /\ \A j \in 1..Len(o.wire) : r.wire[j] = o.wire[j]
    BY <1>2, WireOf DEF Longer
  <2>2. CASE i \in 1..Len(o.wire) /\ r.wire[i] = o.wire[i]
    <3>1. \A j \in 1..(i - 1) : j \in 1..Len(o.wire)
      BY <2>1, <2>2
    <3>2. Before(r, i) = Before(o, i)
      BY <2>1, <3>1 DEF Before
    <3> QED BY <2>2, <3>2 DEF Turn
  <2>3. CASE \E k \in 1..Len(snacs) : i = Len(o.wire) + k /\ r.wire[i].snac = snacs[k]
    <3>1. PICK k \in 1..Len(snacs) : i = Len(o.wire) + k /\ r.wire[i].snac = snacs[k]
      BY <2>3
    <3>2. \A j \in 1..Len(o.wire) : j \in 1..(i - 1)
      BY <2>1, <3>1
    <3>3. Kinds(o) \subseteq Before(r, i)
      BY <2>1, <3>2 DEF Kinds, Before
    <3> QED BY <3>1, <3>3
  <2> QED BY <1>2, <2>2, <2>3, WireOf
<1> QED BY <1>1, <1>2

LEMMA WithinKept ==
    ASSUME NEW o, NEW r, NEW snacs, NEW kinds, Sending(o, r, snacs), Within(o, kinds),
           \A k \in 1..Len(snacs) : snacs[k] \in kinds
    PROVE  Within(r, kinds)
<1>1. CASE r.wire = o.wire
  BY <1>1 DEF Within
<1>2. CASE r.wire # o.wire
  <2>0. \A i \in 1..Len(r.wire) :
           \/ i \in 1..Len(o.wire) /\ r.wire[i] = o.wire[i]
           \/ \E k \in 1..Len(snacs) : i = Len(o.wire) + k /\ r.wire[i].snac = snacs[k]
    BY ONLY Sending(o, r, snacs), <1>2, WireOf
  <2> SUFFICES ASSUME NEW i \in 1..Len(r.wire) PROVE r.wire[i].snac \in kinds
    BY DEF Within
  <2>1. CASE i \in 1..Len(o.wire) /\ r.wire[i] = o.wire[i]
    BY <2>1 DEF Within
  <2>2. CASE \E k \in 1..Len(snacs) : r.wire[i].snac = snacs[k]
    BY <2>2
  <2>3. \/ i \in 1..Len(o.wire) /\ r.wire[i] = o.wire[i]
        \/ \E k \in 1..Len(snacs) : i = Len(o.wire) + k /\ r.wire[i].snac = snacs[k]
    BY <2>0
  <2> QED BY <2>1, <2>2, <2>3
<1> QED BY <1>1, <1>2

LEMMA OnceKept ==
    ASSUME NEW o, NEW r, NEW snacs, NEW s, Sending(o, r, snacs),
           \A k \in 1..Len(snacs) : snacs[k] # "01/02"
    PROVE  /\ Unready(o, s) => Unready(r, s)
           /\ Once(o, s) => Once(r, s)
<1>1. CASE r.wire = o.wire
  BY <1>1 DEF Unready, Once
<1>2. CASE r.wire # o.wire
  <2>0. \A i \in 1..Len(r.wire) :
           \/ i \in 1..Len(o.wire) /\ r.wire[i] = o.wire[i]
           \/ \E k \in 1..Len(snacs) : i = Len(o.wire) + k /\ r.wire[i].snac = snacs[k]
    BY <1>2, WireOf
  <2>1. \A i \in 1..Len(r.wire) : r.wire[i].snac = "01/02" =>
            i \in 1..Len(o.wire) /\ o.wire[i].snac = "01/02"
    <3> SUFFICES ASSUME NEW i \in 1..Len(r.wire), r.wire[i].snac = "01/02"
                 PROVE  i \in 1..Len(o.wire) /\ o.wire[i].snac = "01/02"
      OBVIOUS
    <3>1. ~ \E k \in 1..Len(snacs) : r.wire[i].snac = snacs[k]
      OBVIOUS
    <3>2. \/ i \in 1..Len(o.wire) /\ r.wire[i] = o.wire[i]
          \/ \E k \in 1..Len(snacs) : i = Len(o.wire) + k /\ r.wire[i].snac = snacs[k]
      BY <2>0
    <3> QED BY <3>1, <3>2
  <2> QED BY <2>1 DEF Unready, Once
<1> QED BY <1>1, <1>2

\* Being ready is said at the end of the wire, once.
LEMMA ReadyIsOnce ==
    ASSUME NEW o, NEW r, NEW s, Sending(o, r, cliready), Unready(o, s)
    PROVE  Once(r, s)
<1>1. cliready[1] # "01/02" /\ cliready[2] = "01/02" /\ cliready[3] # "01/02"
      /\ Len(cliready) = 3
  BY DEF cliready
<1>2. CASE r.wire = o.wire
  BY <1>2 DEF Unready, Once
<1>3. CASE r.wire # o.wire
  <2>0. \A i \in 1..Len(r.wire) :
           \/ i \in 1..Len(o.wire) /\ r.wire[i] = o.wire[i]
           \/ \E k \in 1..Len(cliready) : i = Len(o.wire) + k /\ r.wire[i].snac = cliready[k]
    BY <1>3, WireOf
  <2>1. \A i \in 1..Len(r.wire) : r.wire[i].snac = "01/02" => i = Len(o.wire) + 2
    <3> SUFFICES ASSUME NEW i \in 1..Len(r.wire), r.wire[i].snac = "01/02"
                 PROVE  i = Len(o.wire) + 2
      OBVIOUS
    <3>1. ~(i \in 1..Len(o.wire) /\ r.wire[i] = o.wire[i])
      BY DEF Unready
    <3>2. PICK k \in 1..3 : i = Len(o.wire) + k /\ r.wire[i].snac = cliready[k]
      <4>1. \/ i \in 1..Len(o.wire) /\ r.wire[i] = o.wire[i]
            \/ \E k \in 1..Len(cliready) : i = Len(o.wire) + k /\ r.wire[i].snac = cliready[k]
        BY <2>0
      <4> QED BY <1>1, <3>1, <4>1
    <3>3. k = 1 \/ k = 2 \/ k = 3
      BY <3>2
    <3> QED BY <1>1, <3>2, <3>3
  <2> QED BY <2>1 DEF Unready, Once
<1> QED BY <1>2, <1>3

-----------------------------------------------------------------------------
(* Receiving.                                                              *)

Packet == [snac : Replies, first : BOOLEAN]

LEMMA TailOf ==
    ASSUME NEW S, NEW q \in Seq(S), q # <<>>
    PROVE  /\ Len(q) \in Nat \ {0} /\ Head(q) = q[1] /\ q[1] \in S
           /\ Tail(q) \in Seq(S)
           /\ Len(Tail(q)) = Len(q) - 1
           /\ \A i \in 1..Len(Tail(q)) : i + 1 \in 2..Len(q) /\ Tail(q)[i] = q[i + 1]
  OBVIOUS

\* What arrives was asked for.
LEMMA Arrives ==
    ASSUME IInv, Readable
    PROVE  /\ inbox # <<>> /\ at \in {"auth", "bos"}
           /\ \/ Head(inbox).snac = "04:09/02"
              \/ \E snac \in server.asked : Head(inbox).snac \in Answers(snac)
<1>1. inbox \in Seq(Packet)
  BY DEF IInv, TypeOK, Packet
<1>2. inbox # <<>> /\ at \in {"auth", "bos"}
  <2>1. PICK i \in 1..Len(inbox) : inbox[i].first
    BY DEF Readable
  <2>2. Len(inbox) # 0
    BY <1>1, <2>1
  <2> QED BY <1>1, <2>2 DEF Readable
<1>3. Head(inbox) = inbox[1] /\ 1 \in 1..Len(inbox)
  BY <1>1, <1>2
<1> QED BY <1>2, <1>3 DEF IInv, Heard

\* Which connection it arrives on, and what was asked there.
LEMMA Origin ==
    ASSUME IInv, Readable
    PROVE  /\ Head(inbox).snac = "17/07" => at = "auth" /\ "17/06" \in server.asked
           /\ Head(inbox).snac \in {"17/03", "04:01/05"} => at = "auth"
           /\ Head(inbox).snac = "01/03" => at = "bos" /\ "cookie" \in server.asked
           /\ Head(inbox).snac = "01/18" => at = "bos" /\ "01/17" \in server.asked
           /\ Head(inbox).snac = "01/07" => at = "bos" /\ "01/06" \in server.asked
           /\ Head(inbox).snac = "02/03" => at = "bos" /\ "02/02" \in server.asked
           /\ Head(inbox).snac = "04/05" => at = "bos" /\ "04/04" \in server.asked
           /\ Head(inbox).snac = "13/06" => at = "bos" /\ "13/04" \in server.asked
<1>1. /\ at \in {"auth", "bos"}
      /\ Head(inbox).snac = "04:09/02" \/ \E snac \in server.asked : Head(inbox).snac \in Answers(snac)
  BY Arrives
<1>2. /\ at = "auth" => server.asked \subseteq AuthRequests
      /\ at = "bos" => server.asked \subseteq BosRequests
  BY DEF IInv, Fitting
<1>3. CASE Head(inbox).snac = "04:09/02"
  BY <1>3
<1>4. ASSUME NEW snac \in server.asked, Head(inbox).snac \in Answers(snac)
      PROVE  /\ Head(inbox).snac = "17/07" => at = "auth" /\ "17/06" \in server.asked
             /\ Head(inbox).snac \in {"17/03", "04:01/05"} => at = "auth"
             /\ Head(inbox).snac = "01/03" => at = "bos" /\ "cookie" \in server.asked
             /\ Head(inbox).snac = "01/18" => at = "bos" /\ "01/17" \in server.asked
             /\ Head(inbox).snac = "01/07" => at = "bos" /\ "01/06" \in server.asked
             /\ Head(inbox).snac = "02/03" => at = "bos" /\ "02/02" \in server.asked
             /\ Head(inbox).snac = "04/05" => at = "bos" /\ "04/04" \in server.asked
             /\ Head(inbox).snac = "13/06" => at = "bos" /\ "13/04" \in server.asked
  <2>1. /\ snac \notin AuthRequests => at = "bos"
        /\ snac \notin BosRequests => at = "auth"
    BY <1>1, <1>2
  <2>2. \A k \in {"17/06", "17/02"} : k \notin BosRequests
    BY DEF BosRequests
  <2>3. \A k \in {"cookie", "01/17", "01/06", "02/02", "04/04", "13/04"} : k \notin AuthRequests
    BY DEF AuthRequests
  <2> QED BY <1>4, <2>1, <2>2, <2>3, AnswersTo
<1> QED BY <1>1, <1>3, <1>4

-----------------------------------------------------------------------------
(* Steps that only send.                                                   *)

\* What a step may do to the inbox without the server.
LEMMA HeardKept ==
    ASSUME IInv, server' = server,
           inbox' = inbox \/ (inbox # <<>> /\ inbox' = Tail(inbox)) \/ inbox' = <<>>
    PROVE  inbox' \in Seq(Packet) /\ Heard'
<1>1. inbox \in Seq(Packet) /\ Heard
  BY DEF IInv, TypeOK, Packet
<1>2. CASE inbox' = inbox
  BY <1>1, <1>2 DEF Heard
<1>3. CASE inbox # <<>> /\ inbox' = Tail(inbox)
  <2>1. /\ Tail(inbox) \in Seq(Packet) /\ Len(inbox) \in Nat
        /\ \A i \in 1..Len(Tail(inbox)) : i + 1 \in 2..Len(inbox) /\ Tail(inbox)[i] = inbox[i + 1]
    BY <1>1, <1>3, TailOf
  <2>2. \A i \in 2..Len(inbox) : i \in 1..Len(inbox)
    BY <2>1
  <2>3. ASSUME NEW i \in 1..Len(inbox')
        PROVE  \/ inbox'[i].snac = "04:09/02"
               \/ \E snac \in server'.asked : inbox'[i].snac \in Answers(snac)
    <3>1. i + 1 \in 1..Len(inbox) /\ inbox'[i] = inbox[i + 1]
      BY <1>3, <2>1, <2>2
    <3> QED BY <1>1, <3>1 DEF Heard
  <2> QED BY <1>1, <1>3, <2>1, <2>3 DEF Heard
<1>4. CASE inbox' = <<>>
  <2>1. <<>> \in Seq(Packet) /\ Len(<<>>) = 0
    OBVIOUS
  <2>2. \A i \in 1..Len(inbox') : FALSE
    BY <1>4, <2>1
  <2> QED BY <1>1, <1>4, <2>1, <2>2 DEF Heard
<1> QED BY <1>2, <1>3, <1>4

\* The sending side as IInv wants it, at a place, towards a server.
Fine(o, place, s, ready) ==
    /\ o \in Out
    /\ Follow(o, s)
    /\ Turn(o, s)
    /\ place = "auth" => Within(o, AuthRequests)
    /\ place = "bos" => Within(o, BosRequests)
    /\ Once(o, s)
    /\ ~ready => Unready(o, s)

LEMMA FineNow ==
    ASSUME IInv, at \in {"auth", "bos"}
    PROVE  Fine(out, at, server, connected)
  BY DEF IInv, TypeOK, Out, Fitting, Ready, Fine

\* One more packet whose needs are met.
LEMMA FineSend ==
    ASSUME NEW o, NEW snac \in Requests, NEW r \in flap_send(o, snac),
           NEW place, NEW s, NEW ready, Fine(o, place, s, ready),
           Needs(snac) \subseteq s.asked \cup Kinds(o), snac # "01/02",
           place = "auth" => snac \in AuthRequests,
           place = "bos" => snac \in BosRequests
    PROVE  Fine(r, place, s, ready)
<1>1. /\ <<snac>> \in Seq(Requests) /\ Len(<<snac>>) = 1
      /\ \A k \in 1..Len(<<snac>>) : <<snac>>[k] = snac
  <2>1. <<snac>> \in Seq(Requests) /\ Len(<<snac>>) = 1 /\ <<snac>>[1] = snac
    OBVIOUS
  <2>2. \A k \in 1..1 : k = 1
    OBVIOUS
  <2> QED BY <2>1, <2>2
<1>2. Sending(o, r, <<snac>>)
  BY <1>1, Sends DEF Sending, Fine
<1>3. r \in Out
  BY <1>2 DEF Sending
<1> DEFINE snacs == <<snac>>
<1> HIDE DEF snacs
<1>4. Sending(o, r, snacs) /\ \A k \in 1..Len(snacs) : snacs[k] = snac
  BY <1>1, <1>2 DEF snacs
<1>5. Follow(r, s)
  BY <1>4, FollowKept DEF Fine
<1>6. Turn(r, s)
  BY <1>4, TurnKept DEF Fine
<1>7. place = "auth" => Within(r, AuthRequests)
  BY <1>4, WithinKept DEF Fine
<1>8. place = "bos" => Within(r, BosRequests)
  BY <1>4, WithinKept DEF Fine
<1>9. Once(r, s) /\ (~ready => Unready(r, s))
  BY <1>4, OnceKept DEF Fine
<1> QED BY <1>3, <1>5, <1>6, <1>7, <1>8, <1>9 DEF Fine

LEMMA OutStep ==
    ASSUME IInv, UNCHANGED <<at, connected, status, server>>, at \in {"auth", "bos"},
           inbox' = inbox \/ (inbox # <<>> /\ inbox' = Tail(inbox)),
           messages' \in 0..MaxMessages, Fine(out', at, server, connected)
    PROVE  IInv'
<1>1. inbox' \in Seq(Packet) /\ Heard'
  BY HeardKept
<1>2. TypeOK'
  BY <1>1 DEF IInv, TypeOK, Fine, Out, Packet
<1>3. Fitting' /\ Told' /\ InTurn'
  BY DEF IInv, Fitting, Told, InTurn, Fine
<1>4. Follow(out', server') /\ Turn(out', server') /\ Ready'
  BY DEF Fine, Ready
<1> QED BY <1>1, <1>2, <1>3, <1>4 DEF IInv

-----------------------------------------------------------------------------
(* Each step keeps the invariant.                                          *)

LEMMA HelloKeeps == ASSUME IInv, imcomm_im_signon PROVE IInv'
<1>1. /\ at = "none" /\ at' = "auth" /\ status' = "dialled"
      /\ UNCHANGED <<connected, messages, inbox, server>>
      /\ out.wire = <<>> /\ server.asked = {} /\ ~connected
  BY DEF imcomm_im_signon, IInv, Fitting, Told
<1>2. Fine(out, "auth", server, connected)
  <2>1. Within(out, AuthRequests)
    BY <1>1 DEF Within
  <2> QED BY <1>1, <2>1 DEF IInv, TypeOK, Out, Ready, Fine
<1>3. PICK o \in flap_send(out, "hello") : out' \in flap_send(o, "17/06")
  BY DEF imcomm_im_signon
<1>4. "hello" \in AuthRequests /\ "17/06" \in AuthRequests
      /\ "hello" \in Requests /\ "17/06" \in Requests
  BY DEF AuthRequests, Requests
<1>5. Fine(o, "auth", server, connected)
  BY <1>2, <1>4, FineSend, NeedsOf
<1>6. Fine(out', "auth", server, connected)
  BY <1>3, <1>4, <1>5, FineSend, NeedsOf
<1>7. inbox' \in Seq(Packet) /\ Heard'
  BY <1>1, HeardKept
<1>8. TypeOK'
  BY <1>1, <1>6, <1>7 DEF IInv, TypeOK, Fine, Out, Packet
<1>9. Fitting' /\ Told' /\ InTurn'
  BY <1>1, <1>6 DEF IInv, Fitting, Told, InTurn, Fine
<1>10. Follow(out', server') /\ Turn(out', server') /\ Ready'
  BY <1>1, <1>6 DEF Fine, Ready
<1> QED BY <1>7, <1>8, <1>9, <1>10 DEF IInv

LEMMA MessageKeeps == ASSUME IInv, imcomm_im_send_message PROVE IInv'
<1>1. /\ at \in {"auth", "bos"} /\ messages' \in 0..MaxMessages
      /\ UNCHANGED <<at, connected, status, inbox, server>>
      /\ out' \in flap_send(out, "ping")
  BY BoundsAssumption DEF imcomm_im_send_message, IInv, TypeOK
<1>2. "ping" \in Requests /\ "ping" \in AuthRequests /\ "ping" \in BosRequests
  BY DEF Requests, AuthRequests, BosRequests
<1>3. Fine(out', at, server, connected)
  BY <1>1, <1>2, FineNow, FineSend, NeedsOf
<1> QED BY <1>1, <1>3, OutStep

LEMMA ReceiveIs ==
    ASSUME IInv, NEW snac, Receive(snac)
    PROVE  /\ Readable /\ Head(inbox).snac = snac /\ inbox # <<>>
           /\ inbox' = Tail(inbox) /\ at \in {"auth", "bos"}
  BY Arrives DEF Receive

LEMMA RespondKeeps ==
    ASSUME IInv, NEW snac, NEW request \in Requests, Respond(snac, request),
           Needs(request) \subseteq server.asked, request # "01/02",
           at = "auth" => request \in AuthRequests,
           at = "bos" => request \in BosRequests
    PROVE  IInv'
<1>1. /\ inbox # <<>> /\ inbox' = Tail(inbox) /\ at \in {"auth", "bos"}
      /\ out' \in flap_send(out, request) /\ messages' \in 0..MaxMessages
      /\ UNCHANGED <<at, connected, status, server>>
  BY ReceiveIs DEF Respond, IInv, TypeOK
<1>2. Fine(out', at, server, connected)
  BY <1>1, FineNow, FineSend
<1> QED BY <1>1, <1>2, OutStep

LEMMA RespondsKeep ==
    ASSUME IInv, bos_md5snac \/ snac_send_versions \/ snac_request_limits \/ snac_send_icbm_params
    PROVE  IInv'
<1>1. CASE bos_md5snac
  <2>1. at = "auth" /\ "17/06" \in server.asked
    BY <1>1, ReceiveIs, Origin DEF bos_md5snac, Respond
  <2>2. "17/02" \in Requests /\ "17/02" \in AuthRequests
    BY DEF Requests, AuthRequests
  <2> QED BY <1>1, <2>1, <2>2, NeedsOf, RespondKeeps DEF bos_md5snac
<1>2. CASE snac_send_versions
  <2>1. at = "bos" /\ "cookie" \in server.asked
    BY <1>2, ReceiveIs, Origin DEF snac_send_versions, Respond
  <2>2. "01/17" \in Requests /\ "01/17" \in BosRequests
    BY DEF Requests, BosRequests
  <2> QED BY <1>2, <2>1, <2>2, NeedsOf, RespondKeeps DEF snac_send_versions
<1>3. CASE snac_request_limits
  <2>1. at = "bos" /\ "01/17" \in server.asked
    BY <1>3, ReceiveIs, Origin DEF snac_request_limits, Respond
  <2>2. "01/06" \in Requests /\ "01/06" \in BosRequests
    BY DEF Requests, BosRequests
  <2> QED BY <1>3, <2>1, <2>2, NeedsOf, RespondKeeps DEF snac_request_limits
<1>4. CASE snac_send_icbm_params
  <2>1. at = "bos" /\ "04/04" \in server.asked
    BY <1>4, ReceiveIs, Origin DEF snac_send_icbm_params, Respond
  <2>2. "04/02" \in Requests /\ "04/02" \in BosRequests
    BY DEF Requests, BosRequests
  <2> QED BY <1>4, <2>1, <2>2, NeedsOf, RespondKeeps DEF snac_send_icbm_params
<1> QED BY <1>1, <1>2, <1>3, <1>4

\* The batch builds on the acknowledgement that was just sent.
LEMMA LimitsKeep == ASSUME IInv, snac_ack_limits PROVE IInv'
<1>1. /\ inbox # <<>> /\ inbox' = Tail(inbox) /\ at = "bos" /\ "01/06" \in server.asked
      /\ messages' \in 0..MaxMessages /\ UNCHANGED <<at, connected, status, server>>
  BY ReceiveIs, Origin DEF snac_ack_limits, IInv, TypeOK
<1>2. Fine(out, "bos", server, connected)
  BY <1>1, FineNow
<1>3. "01/08" \in Requests /\ "01/08" \in BosRequests /\ Needs("01/08") \subseteq server.asked
  BY <1>1, NeedsOf DEF Requests, BosRequests
<1>4. CASE out' \in flap_send_error(out)
  <2>1. out' \in flap_send(out, "01/08")
    BY <1>4 DEF flap_send
  <2>2. Fine(out', "bos", server, connected)
    BY <1>2, <1>3, <2>1, FineSend
  <2> QED BY <1>1, <2>2, OutStep
<1>5. CASE \E o \in flap_send_ok(out, "01/08") : out' \in flap_sendMulti(o, multireq)
  <2>1. PICK o \in flap_send_ok(out, "01/08") : out' \in flap_sendMulti(o, multireq)
    BY <1>5
  <2>2. o \in flap_send(out, "01/08")
    BY DEF flap_send
  <2>3. Fine(o, "bos", server, connected)
    BY <1>2, <1>3, <2>2, FineSend
  <2>4. o \in Out /\ out \in Out
    BY <1>2, <2>3 DEF Fine
  <2>5. o.broken \/ "01/08" \in Kinds(o)
    <3>1. CASE Quiet(out, o) /\ o.broken
      BY <3>1
    <3>2. CASE Longer(out, o, <<"01/08">>)
      <4>1. Len(<<"01/08">>) = 1 /\ <<"01/08">>[1] = "01/08"
        OBVIOUS
      <4>2. 1 \in 1..1 /\ Len(out.wire) \in Nat
        BY <2>4, OutIs
      <4>3. Len(o.wire) = Len(out.wire) + 1 /\ o.wire[Len(out.wire) + 1].snac = "01/08"
        BY <3>2, <4>1, <4>2 DEF Longer
      <4>4. Len(out.wire) + 1 \in 1..Len(o.wire)
        BY <4>2, <4>3
      <4> QED BY <4>3, <4>4 DEF Kinds
    <3> QED BY <1>3, <2>4, <3>1, <3>2, OkSends
  <2>6. /\ multireq \in Seq(Requests) /\ Len(multireq) = 7 /\ Len(multireq) \in 1..7
        /\ out' \in Out
        /\ Lossy(o, out') \/ Longer(o, out', multireq)
    BY <2>1, <2>4, Batches, MultiSends
  <2>7. Sending(o, out', multireq)
    BY <2>4, <2>6 DEF Sending, Sent
  <2>8. /\ \A k \in 1..7 : multireq[k] \in BosRequests /\ multireq[k] # "01/02"
        /\ \A k \in 1..7 : Needs(multireq[k]) = {"01/08"}
    <3>1. \A snac \in Range(multireq) : snac \in BosRequests /\ snac # "01/02"
      BY Batches DEF BosRequests, Requests
    <3> QED BY <3>1, Batches, NeedsOf
  <2>9. Follow(out', server)
    BY <2>3, <2>7, FollowKept DEF Fine
  <2>10. Turn(out', server)
    <3>1. CASE out'.wire = o.wire
      BY <2>3, <3>1 DEF Fine, Turn, Before
    <3>2. CASE out'.wire # o.wire
      <4>1. ~o.broken
        BY <2>7, <3>2, WireOf DEF Longer
      <4>2. \A k \in 1..Len(multireq) : Needs(multireq[k]) \subseteq server.asked \cup Kinds(o)
        BY <2>5, <2>6, <2>8, <4>1
      <4> QED BY <2>3, <2>7, <4>2, TurnKept DEF Fine
    <3> QED BY <3>1, <3>2
  <2>11. Within(out', BosRequests)
    BY <2>3, <2>6, <2>7, <2>8, WithinKept DEF Fine
  <2>12. Once(out', server) /\ (~connected => Unready(out', server))
    BY <2>3, <2>6, <2>7, <2>8, OnceKept DEF Fine
  <2>13. Fine(out', "bos", server, connected)
    BY <2>6, <2>9, <2>10, <2>11, <2>12 DEF Fine
  <2> QED BY <1>1, <2>13, OutStep
<1> QED BY <1>4, <1>5 DEF snac_ack_limits

LEMMA LocationKeeps == ASSUME IInv, snac_set_location_info PROVE IInv'
<1>1. /\ inbox # <<>> /\ inbox' = Tail(inbox) /\ at = "bos" /\ "02/02" \in server.asked
      /\ messages' \in 0..MaxMessages /\ UNCHANGED <<at, connected, status, server>>
  BY ReceiveIs, Origin DEF snac_set_location_info, IInv, TypeOK
<1>2. Fine(out, "bos", server, connected)
  BY <1>1, FineNow
<1>3. PICK o \in flap_send(out, "01/1e") : out' \in flap_send(o, "02/04")
  BY DEF snac_set_location_info
<1>4. /\ "01/1e" \in Requests /\ "01/1e" \in BosRequests
      /\ "02/04" \in Requests /\ "02/04" \in BosRequests
  BY DEF Requests, BosRequests
<1>5. Fine(o, "bos", server, connected)
  BY <1>2, <1>4, FineSend, NeedsOf
<1>6. Needs("02/04") \subseteq server.asked
  BY <1>1, NeedsOf
<1>7. Fine(out', "bos", server, connected)
  BY <1>3, <1>4, <1>5, <1>6, FineSend
<1> QED BY <1>1, <1>7, OutStep

LEMMA RestKeeps == ASSUME IInv, snac_decode_rest PROVE IInv'
<1>1. /\ inbox # <<>> /\ inbox' = Tail(inbox) /\ at \in {"auth", "bos"}
      /\ messages' \in 0..MaxMessages /\ UNCHANGED <<at, connected, status, server>>
      /\ out' = out
  BY ReceiveIs DEF snac_decode_rest, IInv, TypeOK
<1>2. Fine(out', at, server, connected)
  BY <1>1, FineNow
<1> QED BY <1>1, <1>2, OutStep

\* A new connection begins with nothing under way and an unknown number.
LEMMA CookieKeeps == ASSUME IInv, bos_signon_phase2 PROVE IInv'
<1>1. /\ at = "auth" /\ ~connected
  BY Origin DEF bos_signon_phase2, IInv, Told
<1>2. /\ at' = "bos" /\ status' = "AUTHDONE" /\ inbox' = <<>> /\ server' = NewServer
      /\ out' \in flap_send(NewConnection(out), "cookie")
      /\ UNCHANGED <<connected, messages>>
  BY DEF bos_signon_phase2
<1> DEFINE fresh == NewConnection(out)
<1>3. fresh \in Out /\ fresh.wire = <<>> /\ ~fresh.broken
  <2>1. out \in Out /\ <<>> \in Seq(Frame)
    BY DEF IInv, TypeOK, Out
  <2> QED BY <2>1 DEF NewConnection, Out
<1>4. /\ ~NewServer.refused /\ NewServer.new /\ NewServer.asked = {}
      /\ NewServer.pending = {} /\ NewServer.ready = 0
      /\ NewServer \in [new : BOOLEAN, expects : 0..MaxSeq, refused : BOOLEAN,
                        asked : SUBSET Requests, pending : SUBSET Requests,
                        parts : Nat, ready : Nat]
  BY SeqAssumption, BatchAssumption DEF NewServer
<1> HIDE DEF fresh
<1>5. Len(fresh.wire) = 0 /\ \A i \in 1..Len(fresh.wire) : FALSE
  BY <1>3
<1>6. Fine(fresh, "bos", NewServer, connected)
  <2>1. Follow(fresh, NewServer)
    <3>1. \A i \in 1..(Len(fresh.wire) - 1) : FALSE
      BY <1>5
    <3> QED BY <1>3, <1>4, <1>5, <3>1 DEF Follow
  <2>2. Turn(fresh, NewServer) /\ Within(fresh, BosRequests)
    BY <1>5 DEF Turn, Within
  <2>3. Once(fresh, NewServer) /\ Unready(fresh, NewServer)
    BY <1>4, <1>5 DEF Once, Unready
  <2> QED BY <1>3, <2>1, <2>2, <2>3 DEF Fine
<1>7. "cookie" \in Requests /\ "cookie" \in BosRequests
  BY DEF Requests, BosRequests
<1>8. Needs("cookie") \subseteq NewServer.asked \cup Kinds(fresh)
  BY NeedsOf
<1>9. Fine(out', "bos", NewServer, connected)
  BY <1>2, <1>6, <1>7, <1>8, FineSend DEF fresh
<1>10. TypeOK'
  <2>1. inbox' \in Seq(Packet)
    BY <1>2
  <2> QED BY <1>2, <1>4, <1>9, <2>1 DEF IInv, TypeOK, Fine, Out, Packet
<1>11. Heard'
  <2>1. Len(inbox') = 0 /\ \A i \in 1..Len(inbox') : FALSE
    BY <1>2
  <2> QED BY <1>2, <1>4, <2>1 DEF Heard
<1>12. InTurn' /\ Told' /\ Fitting'
  BY <1>1, <1>2, <1>4, <1>9 DEF InTurn, Told, Fitting, Fine
<1>13. Follow(out', server') /\ Turn(out', server') /\ Ready'
  BY <1>2, <1>9 DEF Fine, Ready
<1> QED BY <1>10, <1>11, <1>12, <1>13 DEF IInv

\* The first part of the roster says that the client is ready; others do not.
LEMMA RosterKeeps == ASSUME IInv, snac_ssi_activate PROVE IInv'
<1>1. /\ inbox # <<>> /\ inbox' = Tail(inbox) /\ at = "bos" /\ "13/04" \in server.asked
      /\ messages' \in 0..MaxMessages /\ UNCHANGED <<at, messages, server>>
  BY ReceiveIs, Origin DEF snac_ssi_activate, IInv, TypeOK
<1>2. Fine(out, "bos", server, connected)
  BY <1>1, FineNow
<1>3. CASE connected
  <2>1. UNCHANGED <<connected, status, out>>
    BY <1>3 DEF snac_ssi_activate
  <2> QED BY <1>1, <1>2, <2>1, OutStep
<1>4. CASE ~connected
  <2>1. connected' = TRUE /\ status' = "CONNECTED" /\ out' \in flap_sendMulti(out, cliready)
    BY <1>4 DEF snac_ssi_activate
  <2>2. out \in Out
    BY <1>2 DEF Fine
  <2>3. /\ cliready \in Seq(Requests) /\ Len(cliready) = 3 /\ Len(cliready) \in 1..7
        /\ out' \in Out
        /\ Lossy(out, out') \/ Longer(out, out', cliready)
    BY <2>1, <2>2, Batches, MultiSends
  <2>4. Sending(out, out', cliready)
    BY <2>2, <2>3 DEF Sending, Sent
  <2>5. \A k \in 1..3 : cliready[k] \in BosRequests /\ Needs(cliready[k]) \subseteq {"13/04"}
    <3>1. \A snac \in Range(cliready) : snac \in BosRequests
      BY Batches DEF BosRequests, Requests
    <3> QED BY <3>1, Batches, NeedsOf
  <2>6. Follow(out', server)
    BY <1>2, <2>4, FollowKept DEF Fine
  <2>7. Turn(out', server)
    <3>1. \A k \in 1..Len(cliready) : Needs(cliready[k]) \subseteq server.asked \cup Kinds(out)
      BY <1>1, <2>3, <2>5
    <3> QED BY <1>2, <2>4, <3>1, TurnKept DEF Fine
  <2>8. Within(out', BosRequests)
    BY <1>2, <2>3, <2>4, <2>5, WithinKept DEF Fine
  <2>9. Once(out', server)
    BY <1>2, <1>4, <2>4, ReadyIsOnce DEF Fine
  <2>10. inbox' \in Seq(Packet) /\ Heard'
    BY <1>1, HeardKept
  <2>11. TypeOK'
    BY <1>1, <2>1, <2>3, <2>10 DEF IInv, TypeOK, Out, Packet
  <2>12. Fitting' /\ Told' /\ InTurn'
    BY <1>1, <2>1, <2>8 DEF IInv, Fitting, Told, InTurn
  <2>13. Ready'
    BY <1>1, <2>1, <2>9 DEF Ready
  <2> QED BY <1>1, <2>6, <2>7, <2>10, <2>11, <2>12, <2>13 DEF IInv
<1> QED BY <1>3, <1>4

LEMMA EndsKeep == ASSUME IInv, invalid_login \/ other_signon \/ disconnected PROVE IInv'
<1>1. /\ at' = "closed" /\ UNCHANGED <<out, messages, server>>
      /\ status' \in {"INVALID_LOGIN", "OTHER_SIGNON", "DISCONNECTED"}
      /\ connected' \in BOOLEAN
      /\ inbox' = inbox \/ (inbox # <<>> /\ inbox' = Tail(inbox)) \/ inbox' = <<>>
  BY ReceiveIs DEF invalid_login, other_signon, disconnected, Closed, IInv, TypeOK
<1>2. inbox' \in Seq(Packet) /\ Heard'
  BY <1>1, HeardKept
<1>3. TypeOK'
  BY <1>1, <1>2 DEF IInv, TypeOK, Packet
<1>4. Fitting' /\ Told' /\ InTurn' /\ Ready'
  BY <1>1 DEF IInv, Fitting, Told, InTurn, Ready
<1> QED BY <1>1, <1>2, <1>3, <1>4 DEF IInv

ServerType == [new : BOOLEAN, expects : 0..MaxSeq, refused : BOOLEAN,
               asked : SUBSET Requests, pending : SUBSET Requests,
               parts : Nat, ready : Nat]

\* What reading the frame at the head does to the wire.
LEMMA ReadsWire ==
    ASSUME IInv, server_reads
    PROVE  /\ out \in Out /\ out' \in Out
           /\ Len(out.wire) \in Nat \ {0} /\ Head(out.wire) = out.wire[1]
           /\ out.wire[1] \in Frame
           /\ out'.wire \in Seq(Frame) /\ Len(out'.wire) = Len(out.wire) - 1
           /\ \A i \in 1..Len(out'.wire) : i + 1 \in 2..Len(out.wire) /\ out'.wire[i] = out.wire[i + 1]
           /\ out'.lost = out.lost /\ out'.broken = out.broken /\ out'.seqnum = out.seqnum
<1>1. out \in Out /\ out.wire # <<>> /\ out' = [out EXCEPT !.wire = Tail(@)]
  BY DEF IInv, TypeOK, Out, server_reads
<1>2. out.wire \in Seq(Frame)
  BY <1>1, OutIs
<1>3. /\ Len(out.wire) \in Nat \ {0} /\ Head(out.wire) = out.wire[1] /\ out.wire[1] \in Frame
      /\ Tail(out.wire) \in Seq(Frame) /\ Len(Tail(out.wire)) = Len(out.wire) - 1
      /\ \A i \in 1..Len(Tail(out.wire)) :
            i + 1 \in 2..Len(out.wire) /\ Tail(out.wire)[i] = out.wire[i + 1]
  BY <1>1, <1>2, TailOf
<1>4. /\ out' \in Out /\ out'.wire = Tail(out.wire)
      /\ out'.lost = out.lost /\ out'.broken = out.broken /\ out'.seqnum = out.seqnum
  BY <1>1, <1>3 DEF Out
<1> QED BY <1>1, <1>3, <1>4

\* What it does to the server.
LEMMA ReadsServer ==
    ASSUME IInv, server_reads
    PROVE  LET f == out.wire[1]
           IN  /\ server' \in ServerType /\ ~server.refused /\ at \in {"auth", "bos"}
               /\ UNCHANGED <<at, connected, status, messages, inbox>>
               /\ \/ /\ server.new \/ f.seq = server.expects
                     /\ server'.new = FALSE /\ server'.expects = NextSeq(f.seq)
                     /\ server'.refused = server.refused
                     /\ server'.asked = server.asked \cup {f.snac}
                     /\ server'.pending = IF Answers(f.snac) = {} THEN server.pending
                                          ELSE server.pending \cup {f.snac}
                     /\ server'.ready = IF f.snac = "01/02" THEN server.ready + 1 ELSE server.ready
                  \/ /\ ~server.new /\ f.seq # server.expects
                     /\ server'.refused /\ server'.pending = {}
                     /\ server'.asked = server.asked /\ server'.ready = server.ready
<1> DEFINE f == out.wire[1]
           asked == server.asked \cup {f.snac}
           pending == IF Answers(f.snac) = {} THEN server.pending ELSE server.pending \cup {f.snac}
           ready == IF f.snac = "01/02" THEN server.ready + 1 ELSE server.ready
<1>1. server \in ServerType
  BY DEF IInv, TypeOK, ServerType
<1>2. Head(out.wire) = f /\ f \in Frame
  BY ReadsWire
<1>3. f.seq \in 0..MaxSeq /\ f.snac \in Requests
  BY <1>2 DEF Frame
<1>4. /\ asked \in SUBSET Requests /\ pending \in SUBSET Requests /\ ready \in Nat
      /\ NextSeq(f.seq) \in 0..MaxSeq /\ pending \subseteq server.pending \cup {f.snac}
  <2> HIDE DEF f
  <2> QED BY <1>1, <1>3, Numbers DEF ServerType
<1>5. ~server.refused /\ at \in {"auth", "bos"}
      /\ UNCHANGED <<at, connected, status, messages, inbox>>
  BY DEF server_reads
<1>6. server' = IF server.new \/ f.seq = server.expects
                THEN [server EXCEPT !.new = FALSE, !.expects = NextSeq(f.seq),
                                    !.asked = asked, !.pending = pending, !.ready = ready]
                ELSE [server EXCEPT !.refused = TRUE, !.pending = {}]
  BY <1>2, Zenon DEF server_reads
<1> HIDE DEF f, asked, pending, ready
<1>7. CASE server.new \/ f.seq = server.expects
  <2>1. /\ server' \in ServerType /\ server'.new = FALSE /\ server'.expects = NextSeq(f.seq)
        /\ server'.refused = server.refused /\ server'.asked = asked
        /\ server'.pending = pending /\ server'.ready = ready
    BY <1>1, <1>4, <1>6, <1>7 DEF ServerType
  <2> QED BY <1>4, <1>5, <1>7, <2>1 DEF asked, pending, ready, f
<1>8. CASE ~(server.new \/ f.seq = server.expects)
  <2>1. /\ server' \in ServerType /\ server'.refused /\ server'.pending = {}
        /\ server'.asked = server.asked /\ server'.ready = server.ready
    BY <1>1, <1>6, <1>8 DEF ServerType
  <2> QED BY <1>5, <1>8, <2>1 DEF f
<1> QED BY <1>7, <1>8

LEMMA ReadsKeep == ASSUME IInv, server_reads PROVE IInv'
<1> DEFINE f == out.wire[1]
           m == Len(out.wire)
<1>1. /\ out \in Out /\ out' \in Out /\ m \in Nat \ {0} /\ f \in Frame
      /\ Len(out'.wire) = m - 1
      /\ \A i \in 1..Len(out'.wire) : i + 1 \in 2..m /\ out'.wire[i] = out.wire[i + 1]
      /\ out'.lost = out.lost /\ out'.broken = out.broken /\ out'.seqnum = out.seqnum
  BY ReadsWire
<1>2. /\ server' \in ServerType /\ ~server.refused /\ at \in {"auth", "bos"}
      /\ UNCHANGED <<at, connected, status, messages, inbox>>
  BY ReadsServer
<1> DEFINE accepted == /\ server.new \/ f.seq = server.expects
                       /\ server'.new = FALSE /\ server'.expects = NextSeq(f.seq)
                       /\ server'.refused = server.refused
                       /\ server'.asked = server.asked \cup {f.snac}
                       /\ server'.pending \subseteq server.pending \cup {f.snac}
                       /\ server'.ready = IF f.snac = "01/02" THEN server.ready + 1
                                          ELSE server.ready
           refused == /\ ~server.new /\ f.seq # server.expects
                      /\ server'.refused /\ server'.pending = {}
                      /\ server'.asked = server.asked /\ server'.ready = server.ready
<1>3. accepted \/ refused
  BY ReadsServer
<1>4. 1 \in 1..m /\ \A i \in 2..m : i \in 1..m /\ i # 1
  BY <1>1
<1> HIDE DEF f, m
<1>5. /\ Follow(out, server) /\ Turn(out, server) /\ InTurn /\ Heard /\ Fitting /\ Told /\ Ready
  BY DEF IInv
<1>6. TypeOK'
  BY <1>1, <1>2 DEF IInv, TypeOK, Out, ServerType
<1>7. server.asked \subseteq server'.asked
  BY <1>3
<1>8. Follow(out', server')
  <2> SUFFICES ASSUME out'.lost = 0 PROVE Follow(out', server')
    BY DEF Follow
  <2>1. /\ \A i \in 1..(m - 1) : out.wire[i + 1].seq = NextSeq(out.wire[i].seq)
        /\ ~out.broken => out.seqnum = NextSeq(out.wire[m].seq)
        /\ ~server.new => f.seq = server.expects
    BY <1>1, <1>5 DEF Follow, f, m
  <2>2. accepted
    BY <1>3, <2>1
  <2>3. /\ ~server'.refused /\ ~server'.new /\ server'.expects = NextSeq(f.seq)
    BY <1>2, <2>2
  <2>4. ASSUME NEW i \in 1..(Len(out'.wire) - 1)
        PROVE  out'.wire[i + 1].seq = NextSeq(out'.wire[i].seq)
    <3>1. i \in 1..Len(out'.wire) /\ i + 1 \in 1..Len(out'.wire) /\ i + 1 \in 1..(m - 1)
      BY <1>1
    <3> QED BY <1>1, <2>1, <3>1
  <2>5. Len(out'.wire) > 0 => /\ out'.wire[1].seq = server'.expects
                              /\ out'.wire[Len(out'.wire)] = out.wire[m]
    <3> SUFFICES ASSUME Len(out'.wire) > 0
                 PROVE  /\ out'.wire[1].seq = server'.expects
                        /\ out'.wire[Len(out'.wire)] = out.wire[m]
      OBVIOUS
    <3>1. 1 \in 1..Len(out'.wire) /\ Len(out'.wire) \in 1..Len(out'.wire) /\ 1 \in 1..(m - 1)
          /\ Len(out'.wire) + 1 = m
      BY <1>1
    <3>2. out'.wire[1] = out.wire[1 + 1] /\ out'.wire[Len(out'.wire)] = out.wire[m]
      BY <1>1, <3>1
    <3>3. out.wire[1 + 1].seq = NextSeq(out.wire[1].seq)
      BY <2>1, <3>1
    <3> QED BY <2>3, <3>2, <3>3 DEF f
  <2>6. Len(out'.wire) = 0 => f = out.wire[m]
    <3>1. Len(out'.wire) = 0 => m = 1
      BY <1>1
    <3> QED BY <3>1 DEF f
  <2> QED BY <1>1, <2>1, <2>3, <2>4, <2>5, <2>6 DEF Follow
<1>9. Turn(out', server')
  <2> SUFFICES ASSUME ~server'.refused, NEW i \in 1..Len(out'.wire)
               PROVE  Needs(out'.wire[i].snac) \subseteq server'.asked \cup Before(out', i)
    BY DEF Turn
  <2>1. server'.asked = server.asked \cup {f.snac}
    BY <1>3
  <2>2. i + 1 \in 1..m /\ out'.wire[i] = out.wire[i + 1] /\ (i + 1) - 1 = i
    BY <1>1, <1>4
  <2>3. Needs(out.wire[i + 1].snac) \subseteq server.asked \cup Before(out, i + 1)
    BY <1>2, <1>5, <2>2 DEF Turn, m
  <2>4. Before(out, i + 1) \subseteq Before(out', i) \cup {f.snac}
    <3> SUFFICES ASSUME NEW j \in 1..((i + 1) - 1), j # 1
                 PROVE  out.wire[j].snac \in Before(out', i)
      BY DEF Before, f
    <3>1. j - 1 \in 1..(i - 1) /\ j - 1 \in 1..Len(out'.wire) /\ (j - 1) + 1 = j
      BY <1>1, <2>2
    <3>2. out'.wire[j - 1] = out.wire[j]
      BY <1>1, <3>1
    <3> QED BY <3>1, <3>2 DEF Before
  <2> QED BY <2>1, <2>2, <2>3, <2>4
<1>10. InTurn'
  <2>1. Needs(f.snac) \subseteq server.asked
    <3>1. Before(out, 1) = {}
      BY DEF Before
    <3>2. Needs(out.wire[1].snac) \subseteq server.asked \cup Before(out, 1)
      BY <1>2, <1>4, <1>5 DEF Turn, m
    <3> QED BY <3>1, <3>2 DEF f
  <2>2. server'.asked \subseteq server.asked \cup {f.snac}
    BY <1>3
  <2> QED BY <1>5, <1>7, <2>1, <2>2 DEF InTurn
<1>11. Heard'
  <2>1. server'.pending \subseteq server'.asked
    BY <1>3, <1>5 DEF Heard
  <2> QED BY <1>2, <1>5, <1>7, <2>1 DEF Heard
<1>12. Fitting'
  <2>1. \A i \in 1..Len(out'.wire) : \E j \in 1..m : out'.wire[i] = out.wire[j]
    BY <1>1, <1>4
  <2>2. \A kinds : Within(out, kinds) => Within(out', kinds) /\ f.snac \in kinds
    BY <1>4, <2>1 DEF Within, f, m
  <2>3. server'.asked \subseteq server.asked \cup {f.snac}
    BY <1>3
  <2> QED BY <1>2, <1>5, <2>2, <2>3 DEF Fitting
<1>13. Told'
  BY <1>2, <1>5, <1>7 DEF Told
<1>14. Ready'
  <2>1. ASSUME NEW i \in 1..Len(out'.wire), out'.wire[i].snac = "01/02"
        PROVE  /\ f.snac # "01/02" /\ server.ready = 0
               /\ \A j \in 1..Len(out'.wire) : out'.wire[j].snac = "01/02" => j = i
    <3>1. i + 1 \in 1..m /\ i + 1 # 1 /\ out.wire[i + 1].snac = "01/02"
      BY <1>1, <1>4, <2>1
    <3>2. server.ready = 0 /\ \A j \in 1..m : out.wire[j].snac = "01/02" => j = i + 1
      BY <1>5, <3>1 DEF Ready, Once, m
    <3>3. f.snac # "01/02"
      BY <1>4, <3>1, <3>2 DEF f
    <3>4. ASSUME NEW j \in 1..Len(out'.wire), out'.wire[j].snac = "01/02" PROVE j = i
      <4>1. j + 1 \in 1..m /\ out.wire[j + 1].snac = "01/02"
        BY <1>1, <1>4, <3>4
      <4>2. j + 1 = i + 1
        BY <3>2, <4>1
      <4> QED BY <4>2
    <3> QED BY <3>2, <3>3, <3>4
  <2>2. server'.ready = server.ready \/ (server'.ready = server.ready + 1 /\ f.snac = "01/02")
    BY <1>3
  <2>3. f.snac = "01/02" => server.ready = 0
    BY <1>4, <1>5 DEF Ready, Once, f, m
  <2>4. server.ready \in Nat /\ server.ready <= 1
    BY <1>5 DEF IInv, TypeOK, Ready, Once
  <2>5. server'.ready <= 1
    BY <2>2, <2>3, <2>4
  <2>6. Once(out', server')
    BY <2>1, <2>2, <2>5 DEF Once
  <2>7. ASSUME Unready(out, server) PROVE Unready(out', server')
    <3>1. f.snac # "01/02" /\ server.ready = 0
      BY <1>4, <2>7 DEF Unready, f, m
    <3>2. \A i \in 1..Len(out'.wire) : out'.wire[i].snac # "01/02"
      <4> SUFFICES ASSUME NEW i \in 1..Len(out'.wire) PROVE out'.wire[i].snac # "01/02"
        OBVIOUS
      <4>1. i + 1 \in 1..m /\ out'.wire[i] = out.wire[i + 1]
        BY <1>1, <1>4
      <4> QED BY <2>7, <4>1 DEF Unready, m
    <3> QED BY <2>2, <3>1, <3>2 DEF Unready
  <2> QED BY <1>2, <1>5, <2>6, <2>7 DEF Ready
<1> QED BY <1>6, <1>8, <1>9, <1>10, <1>11, <1>12, <1>13, <1>14 DEF IInv

\* Something arrives; the server has less to do.
LEMMA ArriveKeeps ==
    ASSUME IInv, NEW p \in Packet, inbox' = Append(inbox, p),
           UNCHANGED <<at, connected, status, out, messages>>,
           p.snac = "04:09/02" \/ \E snac \in server.asked : p.snac \in Answers(snac),
           server' \in ServerType, server'.pending \subseteq server.pending,
           server'.new = server.new, server'.expects = server.expects,
           server'.refused = server.refused, server'.asked = server.asked,
           server'.ready = server.ready
    PROVE  IInv'
<1>1. inbox \in Seq(Packet) /\ Heard
  BY DEF IInv, TypeOK, Packet
<1>2. /\ inbox' \in Seq(Packet) /\ Len(inbox) \in Nat /\ Len(inbox') = Len(inbox) + 1
      /\ inbox'[Len(inbox) + 1] = p
      /\ \A i \in 1..Len(inbox) : inbox'[i] = inbox[i]
  BY <1>1
<1>3. \A i \in 1..Len(inbox') : i \in 1..Len(inbox) \/ inbox'[i] = p
  BY <1>2
<1>4. Heard'
  BY <1>1, <1>2, <1>3 DEF Heard
<1>5. TypeOK'
  BY <1>2 DEF IInv, TypeOK, Packet, ServerType
<1>6. InTurn' /\ Fitting' /\ Told' /\ Ready'
  BY DEF IInv, InTurn, Fitting, Within, Told, Ready, Once, Unready
<1>7. Follow(out', server') /\ Turn(out', server')
  BY DEF IInv, Follow, Turn
<1> QED BY <1>4, <1>5, <1>6, <1>7 DEF IInv

LEMMA AnswersKeep ==
    ASSUME IInv, NEW snac \in Requests, server_answers(snac) PROVE IInv'
<1>1. server \in ServerType
  BY DEF IInv, TypeOK, ServerType
<1>2. /\ snac \in server.pending /\ server' \in Answered(snac)
      /\ UNCHANGED <<at, connected, status, out, messages>>
  BY DEF server_answers
<1>3. PICK reply \in Answers(snac), first \in BOOLEAN :
          inbox' = Append(inbox, [snac |-> reply, first |-> first])
  BY DEF server_answers
<1> DEFINE p == [snac |-> reply, first |-> first]
<1>4. p \in Packet /\ p.snac \in Answers(snac)
  BY DEF Packet, Replies
<1>5. snac \in server.asked
  BY <1>2 DEF IInv, Heard
<1>6. /\ server' \in ServerType /\ server'.pending \subseteq server.pending
      /\ server'.new = server.new /\ server'.expects = server.expects
      /\ server'.refused = server.refused /\ server'.asked = server.asked
      /\ server'.ready = server.ready
  <2>1. \/ server' = [server EXCEPT !.pending = @ \ {snac}]
        \/ server' = [server EXCEPT !.parts = @ + 1]
    BY <1>2, Zenon DEF Answered
  <2>2. server.pending \ {snac} \in SUBSET Requests /\ server.parts + 1 \in Nat
    BY <1>1 DEF ServerType
  <2>3. CASE server' = [server EXCEPT !.pending = @ \ {snac}]
    BY <1>1, <2>2, <2>3 DEF ServerType
  <2>4. CASE server' = [server EXCEPT !.parts = @ + 1]
    BY <1>1, <2>2, <2>4 DEF ServerType
  <2> QED BY <2>1, <2>3, <2>4
<1>7. inbox' = Append(inbox, p)
  BY <1>3
<1> HIDE DEF p
<1> QED BY <1>2, <1>4, <1>5, <1>6, <1>7, ArriveKeeps

LEMMA KicksKeep == ASSUME IInv, server_kicks PROVE IInv'
<1> DEFINE p == [snac |-> "04:09/02", first |-> TRUE]
<1>1. server \in ServerType
  BY DEF IInv, TypeOK, ServerType
<1>2. /\ inbox' = Append(inbox, p)
      /\ UNCHANGED <<at, connected, status, out, messages, server>>
  BY DEF server_kicks
<1>3. p \in Packet /\ p.snac = "04:09/02"
  <2>1. "04:09/02" \in Replies
    BY Zenon DEF Replies
  <2> QED BY <2>1 DEF Packet
<1> HIDE DEF p
<1> QED BY <1>1, <1>2, <1>3, ArriveKeeps

LEMMA StutterKeeps == ASSUME IInv, UNCHANGED vars PROVE IInv'
<1>1. UNCHANGED <<at, connected, status, out, messages, inbox, server>>
  BY DEF vars
<1>2. TypeOK' /\ Follow(out', server') /\ Turn(out', server') /\ InTurn'
  BY <1>1 DEF IInv, TypeOK, Follow, Turn, Before, InTurn
<1>3. Heard' /\ Fitting' /\ Told' /\ Ready'
  BY <1>1 DEF IInv, Heard, Fitting, Within, Told, Ready, Once, Unready
<1> QED BY <1>2, <1>3 DEF IInv

LEMMA InitInv == Init => IInv
<1> SUFFICES ASSUME Init PROVE IInv
  OBVIOUS
<1>1. /\ at = "none" /\ ~connected /\ status = "none" /\ messages = 0 /\ inbox = <<>>
      /\ server = NewServer /\ out.lost = 0 /\ ~out.broken /\ out.wire = <<>>
      /\ connected \in BOOLEAN
  BY DEF Init
<1>2. /\ server \in ServerType /\ ~server.refused /\ server.new /\ server.asked = {}
      /\ server.pending = {} /\ server.ready = 0
  BY <1>1, SeqAssumption, BatchAssumption DEF NewServer, ServerType
<1>3. out \in Out
  <2>1. <<>> \in Seq(Frame) /\ FirstSeq \in 0..MaxSeq
    BY SeqAssumption
  <2> QED BY <2>1 DEF Init, Out
<1>4. /\ \A i \in 1..Len(out.wire) : FALSE
      /\ \A i \in 1..(Len(out.wire) - 1) : FALSE
      /\ Len(out.wire) = 0
  BY <1>1
<1>5. TypeOK
  <2>1. inbox \in Seq(Packet) /\ messages \in 0..MaxMessages
    BY <1>1, BoundsAssumption
  <2> QED BY <1>1, <1>2, <1>3, <2>1 DEF TypeOK, Out, ServerType, Packet
<1>6. Follow(out, server) /\ Turn(out, server)
  BY <1>1, <1>2, <1>4 DEF Follow, Turn
<1>7. InTurn /\ Fitting /\ Told
  BY <1>1, <1>2 DEF InTurn, Fitting, Told
<1>8. Heard
  <2>1. \A i \in 1..Len(inbox) : FALSE
    BY <1>1
  <2> QED BY <1>2, <2>1 DEF Heard
<1>9. Ready
  BY <1>2, <1>4 DEF Ready, Once, Unready
<1> QED BY <1>5, <1>6, <1>7, <1>8, <1>9 DEF IInv

LEMMA NextInv == IInv /\ [Next]_vars => IInv'
<1> SUFFICES ASSUME IInv, [Next]_vars PROVE IInv'
  OBVIOUS
<1>1. CASE imcomm_im_signon
  BY <1>1, HelloKeeps
<1>2. CASE imcomm_im_send_message
  BY <1>2, MessageKeeps
<1>3. CASE snac_decode
  BY <1>3, RespondsKeep, CookieKeeps, LimitsKeep, LocationKeeps, RosterKeeps, RestKeeps,
     EndsKeep, Zenon DEF snac_decode
<1>4. CASE disconnected
  BY <1>4, EndsKeep
<1>5. CASE Server
  BY <1>5, ReadsKeep, AnswersKeep, KicksKeep, Zenon DEF Server
<1>6. CASE UNCHANGED vars
  BY <1>6, StutterKeeps
<1> QED BY <1>1, <1>2, <1>3, <1>4, <1>5, <1>6 DEF Next

LEMMA Inductive == Spec => []IInv
  BY InitInv, NextInv, PTL DEF Spec

-----------------------------------------------------------------------------
(* What the sign-on waits for.                                             *)

\* As long as no write has failed, nothing was lost and the connection stands.
Intact(o) == o.failed = 0 => ~o.broken /\ o.lost = 0

Awaiting ==
    /\ IInv
    /\ Intact(out)
    /\ AwaitedIsUnderWay

LEMMA FailedCounts ==
    ASSUME NEW o \in Out, Intact(o)
    PROVE  Failed(o).failed # 0
<1>1. o.failed \in Nat
  BY OutIs
<1>2. CASE o.broken
  BY <1>2 DEF Intact, Failed
<1>3. CASE ~o.broken
  <2>1. Failed(o).failed = o.failed + 1
    BY <1>3 DEF Failed, Out
  <2> QED BY <1>1, <2>1
<1> QED BY <1>2, <1>3

\* A send during which no write failed puts everything on the wire.
LEMMA IntactSends ==
    ASSUME NEW o \in Out, Intact(o), NEW snac \in Requests, NEW r \in flap_send(o, snac)
    PROVE  /\ r.failed = 0 => o.failed = 0 /\ Longer(o, r, <<snac>>)
           /\ Intact(r)
<1> DEFINE used == [o EXCEPT !.seqnum = NextSeq(@)]
           frame == [seq |-> o.seqnum, snac |-> snac]
<1>1. /\ used \in Out /\ used.failed = o.failed /\ Intact(used)
  BY OutIs, Numbers DEF Out, Intact
<1>2. ASSUME r.failed = 0 PROVE r \in flap_send_ok(o, snac) /\ o.failed = 0 /\ ~r.broken
  <2>1. r \notin flap_send_error(o)
    BY <1>2, FailedCounts DEF flap_send_error
  <2>2. r \in flap_send_ok(o, snac)
    BY <2>1 DEF flap_send
  <2> HIDE DEF used, frame
  <2>3. r # [Failed(used) EXCEPT !.broken = TRUE]
    <3>1. Failed(used) \in Out /\ Failed(used).failed # 0
      BY <1>1, FailedIs, FailedCounts
    <3>2. [Failed(used) EXCEPT !.broken = TRUE].failed = Failed(used).failed
      BY <3>1 DEF Out
    <3> QED BY <1>2, <3>1, <3>2
  <2>4. ~o.broken /\ r = [used EXCEPT !.wire = Append(@, frame)]
    BY <2>2, <2>3, Zenon DEF flap_send_ok, used, frame
  <2>5. r.failed = used.failed /\ r.broken = used.broken /\ used.broken = o.broken
    <3>1. used.broken = o.broken
      BY DEF used, Out
    <3> QED BY <1>1, <2>4, <3>1 DEF Out
  <2> QED BY <1>1, <1>2, <2>2, <2>4, <2>5
<1>3. ASSUME r.failed = 0 PROVE o.failed = 0 /\ Longer(o, r, <<snac>>)
  BY <1>2, <1>3, OkSends
<1>4. Intact(r)
  BY <1>3 DEF Intact, Longer
<1> QED BY <1>3, <1>4

LEMMA IntactMultiSends ==
    ASSUME NEW o \in Out, Intact(o), NEW snacs \in Seq(Requests), Len(snacs) \in 1..7,
           NEW r \in flap_sendMulti(o, snacs)
    PROVE  /\ r.failed = 0 => o.failed = 0 /\ Longer(o, r, snacs)
           /\ Intact(r)
<1> DEFINE n == Len(snacs)
           used == [o EXCEPT !.seqnum = SeqAfter(@, n)]
           gone == [Failed(used) EXCEPT !.lost = @ + n]
           frames == [i \in 1..n |-> [seq |-> SeqAfter(o.seqnum, i - 1), snac |-> snacs[i]]]
<1>1. used \in Out /\ used.failed = o.failed /\ used.lost = o.lost /\ Intact(used)
  <2>1. n \in 0..7
    OBVIOUS
  <2> HIDE DEF n
  <2>2. SeqAfter(o.seqnum, n) \in 0..MaxSeq
    BY <2>1, OutIs, Numbers
  <2> QED BY <2>2 DEF Out, Intact
<1> HIDE DEF used, frames
<1>2. ASSUME r.failed = 0 PROVE r = [used EXCEPT !.wire = @ \o frames]
  <2>1. Failed(used) \in Out /\ Failed(used).failed # 0
    BY <1>1, FailedIs, FailedCounts
  <2>2. gone.failed # 0 /\ [gone EXCEPT !.broken = TRUE].failed # 0
    BY <2>1 DEF Out
  <2> HIDE DEF gone
  <2>3. r # gone /\ r # [gone EXCEPT !.broken = TRUE]
    BY <1>2, <2>2
  <2> QED BY <2>3, Zenon DEF flap_sendMulti, gone, used, frames
<1>3. ASSUME r.failed = 0 PROVE o.failed = 0 /\ Longer(o, r, snacs)
  <2>1. r.failed = used.failed /\ r.lost = used.lost
    BY <1>1, <1>2, <1>3 DEF Out
  <2>2. o.failed = 0 /\ r.lost = 0
    BY <1>1, <1>3, <2>1 DEF Intact
  <2>3. ~Lossy(o, r)
    BY <2>2 DEF Lossy
  <2> QED BY <2>2, <2>3, MultiSends
<1>4. Intact(r)
  BY <1>3 DEF Intact, Longer
<1> QED BY <1>3, <1>4

\* What is under way stays, and what was sent is there.
LEMMA LongerKinds ==
    ASSUME NEW o \in Out, NEW r, NEW snacs, Len(snacs) \in 1..7, Longer(o, r, snacs)
    PROVE  /\ Kinds(o) \subseteq Kinds(r)
           /\ \A k \in 1..Len(snacs) : snacs[k] \in Kinds(r)
<1> DEFINE m == Len(o.wire)
           n == Len(snacs)
<1>1. /\ m \in Nat /\ n \in 1..7 /\ Len(r.wire) = m + n
      /\ \A i \in 1..m : r.wire[i] = o.wire[i]
      /\ \A i \in 1..n : r.wire[m + i].snac = snacs[i]
  BY OutIs DEF Longer
<1> HIDE DEF m, n
<1>2. ASSUME NEW i \in 1..m PROVE i \in 1..Len(r.wire)
  BY <1>1
<1>3. ASSUME NEW k \in 1..n PROVE m + k \in 1..Len(r.wire)
  BY <1>1
<1>4. Kinds(o) \subseteq Kinds(r)
  BY <1>1, <1>2, Zenon DEF Kinds, m
<1>5. \A k \in 1..n : snacs[k] \in Kinds(r)
  BY <1>1, <1>3 DEF Kinds
<1> QED BY <1>4, <1>5 DEF n

LEMMA UnderWayIs ==
    /\ \A snac : UnderWay(snac) <=>
          \/ snac \in Kinds(out)
          \/ snac \in server.pending
          \/ \E i \in 1..Len(inbox) : inbox[i].snac \in Answers(snac)
    /\ \A snac : UnderWay(snac)' <=>
          \/ snac \in Kinds(out')
          \/ snac \in server'.pending
          \/ \E i \in 1..Len(inbox') : inbox'[i].snac \in Answers(snac)
  BY DEF UnderWay, Kinds

\* One packet that is sent, and is one of the chain.
LEMMA SendAwaits ==
    ASSUME NEW o \in Out, Intact(o), NEW snac \in Requests, out' \in flap_send(o, snac)
    PROVE  /\ Intact(out')
           /\ out'.failed = 0 =>
                /\ o.failed = 0
                /\ UnderWay(snac)'
                /\ Kinds(o) \subseteq Kinds(out')
<1>1. Intact(out') /\ (out'.failed = 0 => o.failed = 0 /\ Longer(o, out', <<snac>>))
  BY IntactSends
<1>2. Len(<<snac>>) \in 1..7 /\ Len(<<snac>>) = 1 /\ <<snac>>[1] = snac /\ 1 \in 1..1
  OBVIOUS
<1>3. ASSUME out'.failed = 0 PROVE snac \in Kinds(out') /\ Kinds(o) \subseteq Kinds(out')
  <2> DEFINE snacs == <<snac>>
  <2>1. Len(snacs) \in 1..7 /\ Longer(o, out', snacs) /\ 1 \in 1..Len(snacs) /\ snacs[1] = snac
    BY <1>1, <1>2, <1>3
  <2> HIDE DEF snacs
  <2> QED BY <2>1, LongerKinds
<1> QED BY <1>1, <1>3, UnderWayIs

\* A packet that no request of the chain waits for leaves the others under way.
LEMMA OthersWait ==
    ASSUME Awaiting, Readable, inbox' = Tail(inbox), UNCHANGED <<at, connected, server>>,
           Intact(out'), out'.failed = 0 => out.failed = 0 /\ Kinds(out) \subseteq Kinds(out'),
           \A snac \in Chain : Head(inbox).snac \notin Answers(snac)
    PROVE  AwaitedIsUnderWay'
<1> SUFFICES ASSUME at \in {"auth", "bos"}, ~connected, out'.failed = 0
             PROVE  \E snac \in Chain : UnderWay(snac)'
  BY DEF AwaitedIsUnderWay, Chain
<1>1. PICK snac \in Chain : UnderWay(snac)
  BY DEF Awaiting, AwaitedIsUnderWay
<1>2. inbox \in Seq(Packet) /\ inbox # <<>>
  BY Arrives DEF Awaiting, IInv, TypeOK, Packet
<1>3. /\ Len(inbox) \in Nat \ {0} /\ Head(inbox) = inbox[1]
      /\ Len(inbox') = Len(inbox) - 1
      /\ \A i \in 1..Len(inbox') : inbox'[i] = inbox[i + 1]
  BY <1>2, TailOf
<1>4. ASSUME NEW i \in 1..Len(inbox), inbox[i].snac \in Answers(snac)
      PROVE  \E j \in 1..Len(inbox') : inbox'[j].snac \in Answers(snac)
  <2>1. i # 1
    BY <1>3, <1>4
  <2>2. i - 1 \in 1..Len(inbox') /\ (i - 1) + 1 = i
    BY <1>3, <2>1
  <2>3. inbox'[i - 1] = inbox[i]
    BY <1>3, <2>2
  <2> QED BY <1>4, <2>2, <2>3
<1>5. UnderWay(snac)'
  BY <1>1, <1>4, UnderWayIs
<1> QED BY <1>5

LEMMA NotOfTheChain ==
    /\ \A snac \in Chain : {"02/03", "04/05", "01/0f"} \cap Answers(snac) = {}
    /\ \A snac \in Chain : snac \in Requests /\ Answers(snac) # {}
    /\ at = "auth" => Chain = {"17/06", "17/02"}
    /\ at # "auth" => Chain = {"cookie", "01/17", "01/06", "13/04"}
<1>1. \A snac \in {"17/06", "17/02", "cookie", "01/17", "01/06", "13/04"} :
         /\ {"02/03", "04/05", "01/0f"} \cap Answers(snac) = {}
         /\ Answers(snac) # {}
  BY DEF Answers
<1>2. \A snac \in {"17/06", "17/02", "cookie", "01/17", "01/06", "13/04"} : snac \in Requests
  BY Batches DEF Requests
<1> QED BY <1>1, <1>2 DEF Chain

LEMMA ChainNext ==
    /\ at' = "auth" => Chain' = {"17/06", "17/02"}
    /\ at' # "auth" => Chain' = {"cookie", "01/17", "01/06", "13/04"}
  BY DEF Chain

LEMMA OutNow == ASSUME Awaiting PROVE out \in Out /\ Intact(out)
  BY DEF Awaiting, IInv, TypeOK, Out

\* Each answer of the chain is followed by the next request.
LEMMA NextAsked ==
    ASSUME Awaiting, NEW snac, NEW request \in Requests, Respond(snac, request),
           request \in Chain
    PROVE  Intact(out') /\ AwaitedIsUnderWay'
<1>1. out' \in flap_send(out, request) /\ at' = at
  BY DEF Respond
<1>2. Intact(out') /\ (out'.failed = 0 => UnderWay(request)')
  BY <1>1, OutNow, SendAwaits
<1>3. Chain' = Chain
  BY <1>1 DEF Chain
<1> QED BY <1>2, <1>3 DEF AwaitedIsUnderWay

LEMMA AnswersAwait ==
    ASSUME Awaiting, bos_md5snac \/ snac_send_versions \/ snac_request_limits
    PROVE  Intact(out') /\ AwaitedIsUnderWay'
<1>0. IInv
  BY DEF Awaiting
<1>1. CASE bos_md5snac
  <2>1. at = "auth"
    BY <1>0, <1>1, ReceiveIs, Origin DEF bos_md5snac, Respond
  <2> QED BY <1>1, <2>1, NotOfTheChain, NextAsked DEF bos_md5snac
<1>2. CASE snac_send_versions
  <2>1. at = "bos"
    BY <1>0, <1>2, ReceiveIs, Origin DEF snac_send_versions, Respond
  <2> QED BY <1>2, <2>1, NotOfTheChain, NextAsked DEF snac_send_versions
<1>3. CASE snac_request_limits
  <2>1. at = "bos"
    BY <1>0, <1>3, ReceiveIs, Origin DEF snac_request_limits, Respond
  <2> QED BY <1>3, <2>1, NotOfTheChain, NextAsked DEF snac_request_limits
<1> QED BY <1>1, <1>2, <1>3

LEMMA LimitsAwait ==
    ASSUME Awaiting, snac_ack_limits
    PROVE  Intact(out') /\ AwaitedIsUnderWay'
<1>1. at = "bos" /\ at' = at
  BY ReceiveIs, Origin DEF Awaiting, snac_ack_limits
<1>2. out \in Out /\ Intact(out) /\ "01/08" \in Requests
  BY OutNow DEF Requests
<1>3. CASE out' \in flap_send_error(out)
  <2>1. out' \in flap_send(out, "01/08")
    BY <1>3 DEF flap_send
  <2>2. Intact(out')
    BY <1>2, <2>1, IntactSends
  <2>3. out'.failed # 0
    BY <1>2, <1>3, FailedCounts DEF flap_send_error
  <2> QED BY <2>2, <2>3 DEF AwaitedIsUnderWay
<1>4. CASE \E o \in flap_send_ok(out, "01/08") : out' \in flap_sendMulti(o, multireq)
  <2>1. PICK o \in flap_send_ok(out, "01/08") : out' \in flap_sendMulti(o, multireq)
    BY <1>4
  <2>2. o \in flap_send(out, "01/08")
    BY DEF flap_send
  <2>3. o \in Out /\ Intact(o)
    BY <1>2, <2>2, Sends, IntactSends
  <2>4. multireq \in Seq(Requests) /\ Len(multireq) = 7 /\ Len(multireq) \in 1..7
    BY Batches
  <2>5. Intact(out') /\ (out'.failed = 0 => Longer(o, out', multireq))
    BY <2>1, <2>3, <2>4, IntactMultiSends
  <2>6. multireq[3] = "13/04" /\ 3 \in 1..7
    BY DEF multireq
  <2>7. out'.failed = 0 => "13/04" \in Kinds(out')
    <3>1. ASSUME Longer(o, out', multireq)
          PROVE  \A k \in 1..Len(multireq) : multireq[k] \in Kinds(out')
      BY <2>3, <2>4, <3>1, LongerKinds
    <3>2. 3 \in 1..Len(multireq)
      BY <2>4, <2>6
    <3> QED BY <2>5, <2>6, <3>1, <3>2
  <2>8. out'.failed = 0 => UnderWay("13/04")'
    BY <2>7, UnderWayIs
  <2> QED BY <1>1, <2>5, <2>8, ChainNext DEF AwaitedIsUnderWay
<1> QED BY <1>3, <1>4 DEF snac_ack_limits

LEMMA CookieAwaits ==
    ASSUME Awaiting, bos_signon_phase2
    PROVE  Intact(out') /\ AwaitedIsUnderWay'
<1>1. at' = "bos" /\ out' \in flap_send(NewConnection(out), "cookie") /\ "cookie" \in Requests
  BY DEF bos_signon_phase2, Requests
<1>2. NewConnection(out) \in Out /\ Intact(NewConnection(out))
  <2>1. out \in Out /\ <<>> \in Seq(Frame)
    BY OutNow
  <2> QED BY <2>1 DEF NewConnection, Out, Intact
<1>3. Intact(out') /\ (out'.failed = 0 => UnderWay("cookie")')
  BY <1>1, <1>2, SendAwaits
<1> QED BY <1>1, <1>3, ChainNext DEF AwaitedIsUnderWay

LEMMA HelloAwaits ==
    ASSUME Awaiting, imcomm_im_signon
    PROVE  Intact(out') /\ AwaitedIsUnderWay'
<1>1. at' = "auth" /\ "hello" \in Requests /\ "17/06" \in Requests
  BY DEF imcomm_im_signon, Requests
<1>2. PICK o \in flap_send(out, "hello") : out' \in flap_send(o, "17/06")
  BY DEF imcomm_im_signon
<1>3. o \in Out /\ Intact(o)
  BY <1>1, OutNow, Sends, IntactSends
<1>4. Intact(out') /\ (out'.failed = 0 => UnderWay("17/06")')
  BY <1>1, <1>2, <1>3, SendAwaits
<1> QED BY <1>1, <1>4, ChainNext DEF AwaitedIsUnderWay

LEMMA OtherAnswersAwait ==
    ASSUME Awaiting, snac_set_location_info \/ snac_send_icbm_params \/ snac_decode_rest
    PROVE  Intact(out') /\ AwaitedIsUnderWay'
<1>0. IInv /\ out \in Out /\ Intact(out)
  BY OutNow DEF Awaiting
<1>1. /\ "01/1e" \in Requests /\ "02/04" \in Requests /\ "04/02" \in Requests
  BY DEF Requests
<1>2. /\ Readable /\ inbox' = Tail(inbox) /\ UNCHANGED <<at, connected, server>>
      /\ Head(inbox).snac \in {"02/03", "04/05", "01/0f"}
  BY DEF snac_set_location_info, snac_send_icbm_params, snac_decode_rest, Respond, Receive
<1>3. Intact(out') /\ (out'.failed = 0 => out.failed = 0 /\ Kinds(out) \subseteq Kinds(out'))
  <2>1. CASE snac_set_location_info
    <3>1. PICK o \in flap_send(out, "01/1e") : out' \in flap_send(o, "02/04")
      BY <2>1 DEF snac_set_location_info
    <3>2. /\ o \in Out /\ Intact(o)
          /\ o.failed = 0 => out.failed = 0 /\ Longer(out, o, <<"01/1e">>)
      BY <1>0, <1>1, Sends, IntactSends
    <3>3. Len(<<"01/1e">>) \in 1..7
      OBVIOUS
    <3>4. o.failed = 0 => out.failed = 0 /\ Kinds(out) \subseteq Kinds(o)
      BY <1>0, <3>2, <3>3, LongerKinds
    <3>5. Intact(out') /\ (out'.failed = 0 => o.failed = 0 /\ Kinds(o) \subseteq Kinds(out'))
      BY <1>1, <3>1, <3>2, SendAwaits
    <3> QED BY <3>4, <3>5
  <2>2. CASE snac_send_icbm_params
    BY <1>0, <1>1, <2>2, SendAwaits DEF snac_send_icbm_params, Respond
  <2>3. CASE snac_decode_rest
    BY <1>0, <2>3 DEF snac_decode_rest
  <2> QED BY <2>1, <2>2, <2>3
<1>4. \A snac \in Chain : Head(inbox).snac \notin Answers(snac)
  BY <1>2, NotOfTheChain
<1> QED BY <1>2, <1>3, <1>4, OthersWait

LEMMA MessageAwaits ==
    ASSUME Awaiting, imcomm_im_send_message
    PROVE  Intact(out') /\ AwaitedIsUnderWay'
<1>1. /\ UNCHANGED <<at, connected, inbox, server>> /\ out' \in flap_send(out, "ping")
      /\ "ping" \in Requests
  BY DEF imcomm_im_send_message, Requests
<1>2. Intact(out') /\ (out'.failed = 0 => out.failed = 0 /\ Kinds(out) \subseteq Kinds(out'))
  BY <1>1, OutNow, SendAwaits
<1>3. \A snac : out'.failed = 0 /\ UnderWay(snac) => UnderWay(snac)'
  BY <1>1, <1>2, UnderWayIs
<1>4. Chain' = Chain
  BY <1>1 DEF Chain
<1> QED BY <1>1, <1>2, <1>3, <1>4 DEF Awaiting, AwaitedIsUnderWay

\* Once it is ready, or at an end, the sign-on waits for nothing.
LEMMA NoMoreAwaits ==
    ASSUME Awaiting, snac_ssi_activate \/ invalid_login \/ other_signon \/ disconnected
    PROVE  Intact(out') /\ AwaitedIsUnderWay'
<1>1. CASE snac_ssi_activate
  <2>1. connected'
    BY <1>1 DEF snac_ssi_activate
  <2>2. CASE connected
    BY <1>1, <2>1, <2>2, OutNow DEF snac_ssi_activate, AwaitedIsUnderWay
  <2>3. CASE ~connected
    <3>1. out' \in flap_sendMulti(out, cliready)
      BY <1>1, <2>3 DEF snac_ssi_activate
    <3>2. cliready \in Seq(Requests) /\ Len(cliready) = 3 /\ Len(cliready) \in 1..7
      BY Batches
    <3>3. Intact(out')
      BY <3>1, <3>2, OutNow, IntactMultiSends
    <3> QED BY <2>1, <3>3 DEF AwaitedIsUnderWay
  <2> QED BY <2>2, <2>3
<1>2. CASE invalid_login \/ other_signon \/ disconnected
  <2>1. at' = "closed" /\ out' = out
    BY <1>2 DEF invalid_login, other_signon, disconnected, Closed
  <2> QED BY <2>1, OutNow DEF AwaitedIsUnderWay
<1> QED BY <1>1, <1>2

\* The server takes in the request that was under way, and owes its answer:
\* with no batch lost it refuses nothing.
LEMMA ReadsAwait ==
    ASSUME Awaiting, server_reads
    PROVE  Intact(out') /\ AwaitedIsUnderWay'
<1>0. IInv /\ IInv'
  BY ReadsKeep DEF Awaiting
<1>1. /\ out \in Out /\ out' = [out EXCEPT !.wire = Tail(@)] /\ inbox' = inbox
      /\ UNCHANGED <<at, connected>>
  BY OutNow DEF server_reads
<1>2. out'.failed = out.failed /\ out'.broken = out.broken /\ out'.lost = out.lost
  BY <1>1 DEF Out
<1>3. Intact(out')
  BY <1>2, OutNow DEF Intact
<1>4. Chain' = Chain
  BY <1>1 DEF Chain
<1> SUFFICES ASSUME at \in {"auth", "bos"}, ~connected, out'.failed = 0
             PROVE  \E snac \in Chain : UnderWay(snac)'
  BY <1>1, <1>3, <1>4 DEF AwaitedIsUnderWay
<1>5. PICK snac \in Chain : UnderWay(snac)
  BY <1>2 DEF Awaiting, AwaitedIsUnderWay
<1>6. ~server'.refused
  BY <1>0, <1>3 DEF Intact, IInv, Follow
<1> DEFINE f == out.wire[1]
           m == Len(out.wire)
<1>7. /\ m \in Nat \ {0} /\ Head(out.wire) = f /\ Len(out'.wire) = m - 1
      /\ \A i \in 1..Len(out'.wire) : out'.wire[i] = out.wire[i + 1]
  BY <1>0, ReadsWire
<1>8. server.pending \subseteq server'.pending
      /\ (Answers(f.snac) # {} => f.snac \in server'.pending)
  BY <1>0, <1>6, ReadsServer
<1> HIDE DEF f, m
<1>9. ASSUME snac \in Kinds(out) PROVE snac \in Kinds(out') \/ snac = f.snac
  <2>1. PICK j \in 1..m : out.wire[j].snac = snac
    BY <1>9 DEF Kinds, m
  <2>2. CASE j = 1
    BY <2>1, <2>2 DEF f
  <2>3. CASE j # 1
    <3>1. j - 1 \in 1..Len(out'.wire) /\ (j - 1) + 1 = j
      BY <1>7, <2>3
    <3>2. out'.wire[j - 1] = out.wire[j]
      BY <1>7, <3>1
    <3> QED BY <2>1, <3>1, <3>2 DEF Kinds
  <2> QED BY <2>2, <2>3
<1>10. Answers(snac) # {}
  BY NotOfTheChain
<1>11. UnderWay(snac)'
  BY <1>1, <1>5, <1>8, <1>9, <1>10, UnderWayIs
<1> QED BY <1>11

\* The answer takes the place of the request.
LEMMA ArrivesAwait ==
    ASSUME Awaiting, server_kicks \/ \E snac \in Requests : server_answers(snac)
    PROVE  Intact(out') /\ AwaitedIsUnderWay'
<1>1. UNCHANGED <<at, connected, out>>
  BY DEF server_kicks, server_answers
<1>2. inbox \in Seq(Packet)
  BY DEF Awaiting, IInv, TypeOK, Packet
<1>3. PICK p : inbox' = Append(inbox, p)
  BY DEF server_kicks, server_answers
<1>4. /\ Len(inbox) \in Nat /\ Len(inbox') = Len(inbox) + 1
      /\ \A i \in 1..Len(inbox) : inbox'[i] = inbox[i]
      /\ inbox'[Len(inbox) + 1] = p
  BY <1>2, <1>3
<1>5. \A i \in 1..Len(inbox) : i \in 1..Len(inbox')
  BY <1>4
<1>6. Len(inbox) + 1 \in 1..Len(inbox')
  BY <1>4
<1>7. ASSUME NEW snac, UnderWay(snac) PROVE UnderWay(snac)'
  <2>1. CASE snac \in Kinds(out)
    BY <1>1, <2>1, UnderWayIs
  <2>2. CASE \E i \in 1..Len(inbox) : inbox[i].snac \in Answers(snac)
    BY <1>4, <1>5, <2>2, UnderWayIs
  <2>3. CASE snac \in server.pending /\ server_kicks
    BY <2>3, UnderWayIs DEF server_kicks
  <2>4. CASE snac \in server.pending /\ \E k \in Requests : server_answers(k)
    <3>1. PICK k \in Requests : server_answers(k)
      BY <2>4
    <3>2. PICK reply \in Answers(k), first \in BOOLEAN :
              inbox' = Append(inbox, [snac |-> reply, first |-> first])
      BY <3>1 DEF server_answers
    <3>3. inbox'[Len(inbox) + 1] = [snac |-> reply, first |-> first]
      BY <1>2, <3>2
    <3>4. k = snac => UnderWay(snac)'
      BY <1>6, <3>3, UnderWayIs
    <3>5. k # snac => snac \in server'.pending
      <4>1. \/ server' = [server EXCEPT !.pending = @ \ {k}]
            \/ server' = [server EXCEPT !.parts = @ + 1]
        BY <3>1, Zenon DEF server_answers, Answered
      <4>2. server \in ServerType
        BY DEF Awaiting, IInv, TypeOK, ServerType
      <4> QED BY <2>4, <4>1, <4>2 DEF ServerType
    <3> QED BY <3>4, <3>5, UnderWayIs
  <2> QED BY <1>7, <2>1, <2>2, <2>3, <2>4, UnderWayIs
<1>8. Chain' = Chain
  BY <1>1 DEF Chain
<1> QED BY <1>1, <1>7, <1>8, OutNow DEF Awaiting, AwaitedIsUnderWay

LEMMA AwaitingInv == Awaiting /\ [Next]_vars => Awaiting'
<1> SUFFICES ASSUME Awaiting, [Next]_vars PROVE Awaiting'
  OBVIOUS
<1>0. IInv'
  BY NextInv DEF Awaiting
<1>1. CASE Next
  <2>1. Intact(out') /\ AwaitedIsUnderWay'
    BY <1>1, AnswersAwait, LimitsAwait, CookieAwaits, HelloAwaits, OtherAnswersAwait,
       MessageAwaits, NoMoreAwaits, ReadsAwait, ArrivesAwait, Zenon
       DEF Next, snac_decode, Server
  <2> QED BY <1>0, <2>1 DEF Awaiting
<1>2. CASE UNCHANGED vars
  <2>1. Intact(out') /\ AwaitedIsUnderWay'
    BY <1>2 DEF vars, Awaiting, Intact, AwaitedIsUnderWay, Chain, UnderWay
  <2> QED BY <1>0, <2>1 DEF Awaiting
<1> QED BY <1>1, <1>2

-----------------------------------------------------------------------------
(* Nothing is asked twice.                                                 *)

\* The requests whose answer makes the client ask for more, that answer, and
\* what it asks for then.
Triggers == {"17/06", "cookie", "01/17", "01/06", "02/02", "04/04"}

Lead(t) ==
    CASE t = "17/06" -> "17/07"
      [] t = "cookie" -> "01/03"
      [] t = "01/17" -> "01/18"
      [] t = "01/06" -> "01/07"
      [] t = "02/02" -> "02/03"
      [] t = "04/04" -> "04/05"

FollowUps(t) ==
    CASE t = "17/06" -> {"17/02"}
      [] t = "cookie" -> {"01/17"}
      [] t = "01/17" -> {"01/06"}
      [] t = "01/06" -> {"01/08"} \cup Range(multireq)
      [] t = "02/02" -> {"02/04"}
      [] t = "04/04" -> {"04/02"}

\* What was said on a connection, heard or not.
Used(o, s) == Kinds(o) \cup s.asked

Distinct(o, s) ==
    \A i \in 1..Len(o.wire) : o.wire[i].snac \notin Repeated =>
        /\ o.wire[i].snac \notin s.asked
        /\ \A j \in 1..Len(o.wire) : o.wire[j].snac = o.wire[i].snac => j = i

\* The answer comes once, and the server has no other.
Alone(box, s) ==
    \A t \in Triggers : \A i \in 1..Len(box) : box[i].snac = Lead(t) =>
        /\ t \in s.asked /\ t \notin s.pending
        /\ \A j \in 1..Len(box) : box[j].snac = Lead(t) => j = i

\* The answer was read.
Spent(t, box, s) ==
    /\ t \in s.asked /\ t \notin s.pending
    /\ \A i \in 1..Len(box) : box[i].snac # Lead(t)

Earned(o, box, s) ==
    \A t \in Triggers : \A snac \in FollowUps(t) :
        snac \in Used(o, s) => Spent(t, box, s)

Silent(o, s) == {"01/02", "13/07"} \cap Used(o, s) = {}

Asking ==
    /\ IInv
    /\ Distinct(out, server)
    /\ Alone(inbox, server)
    /\ Earned(out, inbox, server)
    /\ at # "closed" /\ ~connected => Silent(out, server)

LEMMA Follows ==
    /\ FollowUps("17/06") = {"17/02"} /\ Lead("17/06") = "17/07"
    /\ FollowUps("cookie") = {"01/17"} /\ Lead("cookie") = "01/03"
    /\ FollowUps("01/17") = {"01/06"} /\ Lead("01/17") = "01/18"
    /\ FollowUps("01/06") = {"01/08"} \cup Range(multireq) /\ Lead("01/06") = "01/07"
    /\ FollowUps("02/02") = {"02/04"} /\ Lead("02/02") = "02/03"
    /\ FollowUps("04/04") = {"04/02"} /\ Lead("04/04") = "04/05"
  BY DEF FollowUps, Lead

\* A packet is asked for by one answer only, and some by none.
LEMMA FollowsOne ==
    /\ \A t, u \in Triggers : \A snac \in FollowUps(t) : snac \in FollowUps(u) => t = u
    /\ \A t \in Triggers :
          {"hello", "17/06", "cookie", "ping", "01/1e", "01/02", "13/07"} \cap FollowUps(t) = {}
<1>1. Range(multireq) = {"01/0e", "13/02", "13/04", "02/02", "03/02", "04/04", "09/02"}
  BY Batches
<1> QED BY <1>1, Follows DEF Triggers

LEMMA LeadsBack ==
    ASSUME NEW t \in Triggers, NEW snac, Lead(t) \in Answers(snac)
    PROVE  snac = t
  BY AnswersTo, Follows DEF Triggers

LEMMA LeadsApart ==
    /\ \A t, u \in Triggers : Lead(t) = Lead(u) => t = u
    /\ \A t \in Triggers : Lead(t) # "04:09/02"
  BY Follows DEF Triggers

\* Packets that are new, or may come again, keep everything distinct.
LEMMA DistinctKept ==
    ASSUME NEW o, NEW r, NEW snacs, NEW s, Sending(o, r, snacs), Distinct(o, s),
           \A k \in 1..Len(snacs) : snacs[k] \notin Repeated =>
               /\ snacs[k] \notin Used(o, s)
               /\ \A l \in 1..Len(snacs) : snacs[l] = snacs[k] => l = k
    PROVE  /\ Distinct(r, s)
           /\ Used(r, s) \subseteq Used(o, s) \cup {snacs[k] : k \in 1..Len(snacs)}
<1>1. CASE r.wire = o.wire
  BY <1>1 DEF Distinct, Used, Kinds
<1>2. CASE r.wire # o.wire
  <2> DEFINE m == Len(o.wire)
             n == Len(snacs)
  <2>1. /\ m \in Nat
        /\ \A i \in 1..Len(r.wire) :
              \/ i \in 1..m /\ r.wire[i] = o.wire[i]
              \/ \E k \in 1..n : i = m + k /\ r.wire[i].snac = snacs[k]
    BY <1>2, WireOf
  <2>2. \A i \in 1..m : o.wire[i].snac \in Used(o, s)
    BY DEF Used, Kinds
  <2>3. Used(r, s) \subseteq Used(o, s) \cup {snacs[k] : k \in 1..n}
    <3> SUFFICES ASSUME NEW i \in 1..Len(r.wire)
                 PROVE  r.wire[i].snac \in Used(o, s) \cup {snacs[k] : k \in 1..n}
      BY DEF Used, Kinds
    <3> QED BY <2>1, <2>2
  <2> HIDE DEF m, n
  <2>4. ASSUME NEW i \in 1..Len(r.wire), r.wire[i].snac \notin Repeated
        PROVE  /\ r.wire[i].snac \notin s.asked
               /\ \A j \in 1..Len(r.wire) : r.wire[j].snac = r.wire[i].snac => j = i
    <3>1. CASE i \in 1..m /\ r.wire[i] = o.wire[i]
      <4>1. /\ o.wire[i].snac \notin s.asked
            /\ \A j \in 1..m : o.wire[j].snac = o.wire[i].snac => j = i
        BY <2>4, <3>1 DEF Distinct, m
      <4>2. \A k \in 1..n : snacs[k] # o.wire[i].snac
        BY <2>2, <2>4, <3>1 DEF n
      <4> QED BY <2>1, <3>1, <4>1, <4>2
    <3>2. CASE \E k \in 1..n : i = m + k /\ r.wire[i].snac = snacs[k]
      <4>1. PICK k \in 1..n : i = m + k /\ r.wire[i].snac = snacs[k]
        BY <3>2
      <4>2. /\ snacs[k] \notin Used(o, s)
            /\ \A l \in 1..n : snacs[l] = snacs[k] => l = k
        BY <2>4, <4>1 DEF n
      <4>3. \A j \in 1..m : o.wire[j].snac # snacs[k]
        BY <2>2, <4>2
      <4>4. snacs[k] \notin s.asked
        BY <4>2 DEF Used
      <4> QED BY <2>1, <4>1, <4>2, <4>3, <4>4
    <3> QED BY <2>1, <3>1, <3>2
  <2> QED BY <2>3, <2>4 DEF Distinct, n
<1> QED BY <1>1, <1>2

LEMMA DistinctSend ==
    ASSUME NEW o \in Out, NEW snac \in Requests, NEW r \in flap_send(o, snac), NEW s,
           Distinct(o, s), snac \in Repeated \/ snac \notin Used(o, s)
    PROVE  r \in Out /\ Distinct(r, s) /\ Used(r, s) \subseteq Used(o, s) \cup {snac}
<1>1. <<snac>> \in Seq(Requests) /\ Len(<<snac>>) = 1 /\ <<snac>>[1] = snac
  OBVIOUS
<1>2. \A k \in 1..1 : k = 1
  OBVIOUS
<1>3. r \in Out /\ Sending(o, r, <<snac>>)
  BY <1>1, Sends DEF Sending
<1> DEFINE snacs == <<snac>>
<1> HIDE DEF snacs
<1>4. /\ Sending(o, r, snacs)
      /\ \A k \in 1..Len(snacs) : k = 1 /\ snacs[k] = snac
  BY <1>1, <1>2, <1>3 DEF snacs
<1>5. {snacs[k] : k \in 1..Len(snacs)} \subseteq {snac}
  BY <1>4
<1>6. \A k \in 1..Len(snacs) : snacs[k] \notin Repeated =>
         /\ snacs[k] \notin Used(o, s)
         /\ \A l \in 1..Len(snacs) : snacs[l] = snacs[k] => l = k
  BY <1>4
<1> QED BY <1>3, <1>4, <1>5, <1>6, DistinctKept

\* Reading a packet brings no answer back.
LEMMA SpentStays ==
    ASSUME Asking, server' = server,
           inbox' = inbox \/ (inbox # <<>> /\ inbox' = Tail(inbox))
    PROVE  /\ Alone(inbox', server')
           /\ \A t : Spent(t, inbox, server) => Spent(t, inbox', server')
<1>1. CASE inbox' = inbox
  BY <1>1 DEF Asking
<1>2. CASE inbox # <<>> /\ inbox' = Tail(inbox)
  <2>1. inbox \in Seq(Packet)
    BY DEF Asking, IInv, TypeOK, Packet
  <2>2. /\ Len(inbox) \in Nat /\ Len(inbox') = Len(inbox) - 1
        /\ \A i \in 1..Len(inbox') : i + 1 \in 2..Len(inbox) /\ inbox'[i] = inbox[i + 1]
    BY <1>2, <2>1, TailOf
  <2>3. \A i \in 1..Len(inbox') : i + 1 \in 1..Len(inbox) /\ inbox'[i] = inbox[i + 1]
    BY <2>2
  <2>4. ASSUME NEW t \in Triggers, NEW i \in 1..Len(inbox'), inbox'[i].snac = Lead(t)
        PROVE  /\ t \in server.asked /\ t \notin server.pending
               /\ \A j \in 1..Len(inbox') : inbox'[j].snac = Lead(t) => j = i
    <3>1. i + 1 \in 1..Len(inbox) /\ inbox[i + 1].snac = Lead(t)
      BY <2>3, <2>4
    <3>2. /\ t \in server.asked /\ t \notin server.pending
          /\ \A j \in 1..Len(inbox) : inbox[j].snac = Lead(t) => j = i + 1
      BY <3>1 DEF Asking, Alone
    <3>3. ASSUME NEW j \in 1..Len(inbox'), inbox'[j].snac = Lead(t) PROVE j = i
      <4>1. j + 1 = i + 1
        BY <2>3, <3>2, <3>3
      <4> QED BY <4>1
    <3> QED BY <3>2, <3>3
  <2>5. Alone(inbox', server')
    BY <2>4 DEF Alone
  <2>6. \A t : Spent(t, inbox, server) => Spent(t, inbox', server')
    BY <2>3 DEF Spent
  <2> QED BY <2>5, <2>6
<1> QED BY <1>1, <1>2

\* The answer that is read is the only one: what it leads to was not said yet.
LEMMA Takes ==
    ASSUME Asking, NEW t \in Triggers, Receive(Lead(t)), server' = server
    PROVE  /\ Spent(t, inbox', server')
           /\ FollowUps(t) \cap Used(out, server) = {}
           /\ at \in {"auth", "bos"} /\ inbox # <<>> /\ inbox' = Tail(inbox)
<1>1. /\ Head(inbox).snac = Lead(t) /\ inbox # <<>> /\ inbox' = Tail(inbox)
      /\ at \in {"auth", "bos"}
  BY ReceiveIs DEF Asking
<1>2. inbox \in Seq(Packet)
  BY DEF Asking, IInv, TypeOK, Packet
<1>3. /\ Len(inbox) \in Nat \ {0} /\ Head(inbox) = inbox[1]
      /\ Len(inbox') = Len(inbox) - 1
      /\ \A i \in 1..Len(inbox') : i + 1 \in 2..Len(inbox) /\ inbox'[i] = inbox[i + 1]
  BY <1>1, <1>2, TailOf
<1>4. 1 \in 1..Len(inbox) /\ inbox[1].snac = Lead(t)
  BY <1>1, <1>3
<1>5. /\ t \in server.asked /\ t \notin server.pending
      /\ \A j \in 1..Len(inbox) : inbox[j].snac = Lead(t) => j = 1
  BY <1>4 DEF Asking, Alone
<1>6. ASSUME NEW i \in 1..Len(inbox') PROVE inbox'[i].snac # Lead(t)
  <2>1. i + 1 \in 1..Len(inbox) /\ i + 1 # 1 /\ inbox'[i] = inbox[i + 1]
    BY <1>3
  <2> QED BY <1>5, <2>1
<1>7. Spent(t, inbox', server')
  BY <1>5, <1>6 DEF Spent
<1>8. ~Spent(t, inbox, server)
  BY <1>4 DEF Spent
<1>9. FollowUps(t) \cap Used(out, server) = {}
  BY <1>8 DEF Asking, Earned
<1> QED BY <1>1, <1>7, <1>9

\* A step that sends what it may.
LEMMA AskingStep ==
    ASSUME Asking, IInv', server' = server, Alone(inbox', server'),
           \A t : Spent(t, inbox, server) => Spent(t, inbox', server'),
           NEW new, Distinct(out', server), Used(out', server) \subseteq Used(out, server) \cup new,
           \A t \in Triggers : \A snac \in FollowUps(t) : snac \in new => Spent(t, inbox', server'),
           at' # "closed" => at # "closed",
           ~connected' => ~connected /\ {"01/02", "13/07"} \cap new = {}
    PROVE  Asking'
<1>1. Earned(out', inbox', server')
  BY DEF Asking, Earned
<1>2. at' # "closed" /\ ~connected' => Silent(out', server')
  BY DEF Asking, Silent
<1> QED BY <1>1, <1>2 DEF Asking

LEMMA RespondAsks ==
    ASSUME Asking, NEW t \in Triggers, NEW request \in Requests,
           FollowUps(t) = {request}, Respond(Lead(t), request), IInv'
    PROVE  Asking'
<1>1. /\ Receive(Lead(t)) /\ out' \in flap_send(out, request)
      /\ UNCHANGED <<at, connected, status, messages, server>>
  BY DEF Respond
<1>2. /\ Spent(t, inbox', server') /\ request \notin Used(out, server)
      /\ inbox # <<>> /\ inbox' = Tail(inbox)
  BY <1>1, Takes
<1>3. out \in Out /\ Distinct(out, server)
  BY DEF Asking, IInv, TypeOK, Out
<1>4. Distinct(out', server) /\ Used(out', server) \subseteq Used(out, server) \cup {request}
  BY <1>1, <1>2, <1>3, DistinctSend
<1>5. \A u \in Triggers : \A snac \in FollowUps(u) :
         snac \in {request} => Spent(u, inbox', server')
  BY <1>2, FollowsOne
<1>6. {"01/02", "13/07"} \cap {request} = {}
  BY FollowsOne
<1>7. Alone(inbox', server') /\ \A u : Spent(u, inbox, server) => Spent(u, inbox', server')
  BY <1>1, <1>2, SpentStays
<1> QED BY <1>1, <1>4, <1>5, <1>6, <1>7, AskingStep

LEMMA RespondsAsk ==
    ASSUME Asking, IInv',
           bos_md5snac \/ snac_send_versions \/ snac_request_limits \/ snac_send_icbm_params
    PROVE  Asking'
<1>1. \A snac \in {"17/02", "01/17", "01/06", "04/02"} : snac \in Requests
  BY DEF Requests
<1>2. \A t \in {"17/06", "cookie", "01/17", "04/04"} : t \in Triggers
  BY DEF Triggers
<1>3. CASE bos_md5snac
  BY <1>1, <1>2, <1>3, Follows, RespondAsks DEF bos_md5snac
<1>4. CASE snac_send_versions
  BY <1>1, <1>2, <1>4, Follows, RespondAsks DEF snac_send_versions
<1>5. CASE snac_request_limits
  BY <1>1, <1>2, <1>5, Follows, RespondAsks DEF snac_request_limits
<1>6. CASE snac_send_icbm_params
  BY <1>1, <1>2, <1>6, Follows, RespondAsks DEF snac_send_icbm_params
<1> QED BY <1>3, <1>4, <1>5, <1>6

\* The batch is asked for with the acknowledgement, by the one answer to both.
LEMMA LimitsAsk ==
    ASSUME Asking, IInv', snac_ack_limits
    PROVE  Asking'
<1> DEFINE t == "01/06"
           new == {"01/08"} \cup Range(multireq)
<1>0. t \in Triggers /\ FollowUps(t) = new /\ Lead(t) = "01/07"
  BY Follows DEF Triggers
<1>1. Receive(Lead(t)) /\ UNCHANGED <<at, connected, status, messages, server>>
  BY <1>0 DEF snac_ack_limits
<1> HIDE DEF t, new
<1>2. /\ Spent(t, inbox', server') /\ new \cap Used(out, server) = {}
      /\ inbox # <<>> /\ inbox' = Tail(inbox)
  BY <1>0, <1>1, Takes
<1>3. out \in Out /\ Distinct(out, server) /\ "01/08" \in Requests /\ "01/08" \in new
  BY DEF Asking, IInv, TypeOK, Out, Requests, new
<1>4. \A o \in flap_send(out, "01/08") :
         o \in Out /\ Distinct(o, server) /\ Used(o, server) \subseteq Used(out, server) \cup {"01/08"}
  BY <1>2, <1>3, DistinctSend
<1>5. Distinct(out', server) /\ Used(out', server) \subseteq Used(out, server) \cup new
  <2>1. CASE out' \in flap_send_error(out)
    <3>1. out' \in flap_send(out, "01/08")
      BY <2>1 DEF flap_send
    <3> QED BY <1>3, <1>4, <3>1
  <2>2. CASE \E o \in flap_send_ok(out, "01/08") : out' \in flap_sendMulti(o, multireq)
    <3>1. PICK o \in flap_send_ok(out, "01/08") : out' \in flap_sendMulti(o, multireq)
      BY <2>2
    <3>2. /\ o \in Out /\ Distinct(o, server)
          /\ Used(o, server) \subseteq Used(out, server) \cup {"01/08"}
      BY <1>4 DEF flap_send
    <3>3. /\ multireq \in Seq(Requests) /\ Len(multireq) = 7 /\ Len(multireq) \in 1..7
          /\ \A k \in 1..7 : multireq[k] \in Range(multireq)
          /\ "01/08" \notin Range(multireq)
      BY Batches
    <3>4. Sending(o, out', multireq)
      BY <3>1, <3>2, <3>3, MultiSends DEF Sending, Sent
    <3>5. \A k, l \in 1..7 : multireq[l] = multireq[k] => l = k
      BY DEF multireq
    <3>6. \A k \in 1..7 : multireq[k] \in new /\ multireq[k] \notin Used(o, server)
      BY <1>2, <3>2, <3>3 DEF new
    <3>7. /\ Distinct(out', server)
          /\ Used(out', server) \subseteq Used(o, server) \cup {multireq[k] : k \in 1..Len(multireq)}
      BY <3>2, <3>3, <3>4, <3>5, <3>6, DistinctKept
    <3> QED BY <1>3, <3>2, <3>3, <3>6, <3>7
  <2> QED BY <2>1, <2>2 DEF snac_ack_limits
<1>6. \A u \in Triggers : \A snac \in FollowUps(u) : snac \in new => Spent(u, inbox', server')
  BY <1>0, <1>2, FollowsOne
<1>7. {"01/02", "13/07"} \cap new = {}
  BY <1>0, FollowsOne
<1>8. Alone(inbox', server') /\ \A u : Spent(u, inbox, server) => Spent(u, inbox', server')
  BY <1>1, <1>2, SpentStays
<1> QED BY <1>1, <1>5, <1>6, <1>7, <1>8, AskingStep

\* The extended status may be sent again, the location information is not.
LEMMA LocationAsks ==
    ASSUME Asking, IInv', snac_set_location_info
    PROVE  Asking'
<1> DEFINE t == "02/02"
           new == {"01/1e", "02/04"}
<1>0. t \in Triggers /\ FollowUps(t) = {"02/04"} /\ Lead(t) = "02/03"
  BY Follows DEF Triggers
<1>1. Receive(Lead(t)) /\ UNCHANGED <<at, connected, status, messages, server>>
  BY <1>0 DEF snac_set_location_info
<1> HIDE DEF t
<1>2. /\ Spent(t, inbox', server') /\ "02/04" \notin Used(out, server)
      /\ inbox # <<>> /\ inbox' = Tail(inbox)
  BY <1>0, <1>1, Takes
<1>3. /\ out \in Out /\ Distinct(out, server)
      /\ "01/1e" \in Requests /\ "02/04" \in Requests /\ "01/1e" \in Repeated
  BY DEF Asking, IInv, TypeOK, Out, Requests, Repeated
<1>4. PICK o \in flap_send(out, "01/1e") : out' \in flap_send(o, "02/04")
  BY DEF snac_set_location_info
<1>5. o \in Out /\ Distinct(o, server) /\ Used(o, server) \subseteq Used(out, server) \cup {"01/1e"}
  BY <1>3, <1>4, DistinctSend
<1>6. "02/04" \notin Used(o, server)
  BY <1>2, <1>5
<1>7. Distinct(out', server) /\ Used(out', server) \subseteq Used(out, server) \cup new
  BY <1>3, <1>4, <1>5, <1>6, DistinctSend
<1>8. \A u \in Triggers : \A snac \in FollowUps(u) : snac \in new => Spent(u, inbox', server')
  BY <1>0, <1>2, FollowsOne
<1>9. {"01/02", "13/07"} \cap new = {}
  OBVIOUS
<1>10. Alone(inbox', server') /\ \A u : Spent(u, inbox, server) => Spent(u, inbox', server')
  BY <1>1, <1>2, SpentStays
<1> HIDE DEF new
<1> QED BY <1>1, <1>7, <1>8, <1>9, <1>10, AskingStep

\* The first packets of the first connection.
LEMMA HelloAsks ==
    ASSUME Asking, IInv', imcomm_im_signon
    PROVE  Asking'
<1> DEFINE new == {"hello", "17/06"}
<1>1. /\ at = "none" /\ at' = "auth"
      /\ UNCHANGED <<connected, messages, inbox, server>>
      /\ out.wire = <<>> /\ server.asked = {}
  BY DEF imcomm_im_signon, Asking, IInv, Fitting
<1>2. Used(out, server) = {}
  <2>1. Len(out.wire) = 0
    BY <1>1
  <2> QED BY <1>1, <2>1 DEF Used, Kinds
<1>3. /\ out \in Out /\ Distinct(out, server) /\ "hello" \in Requests /\ "17/06" \in Requests
  BY DEF Asking, IInv, TypeOK, Out, Requests
<1>4. PICK o \in flap_send(out, "hello") : out' \in flap_send(o, "17/06")
  BY DEF imcomm_im_signon
<1>5. o \in Out /\ Distinct(o, server) /\ Used(o, server) \subseteq Used(out, server) \cup {"hello"}
  BY <1>2, <1>3, <1>4, DistinctSend
<1>6. "17/06" \notin Used(o, server)
  BY <1>2, <1>5
<1>7. Distinct(out', server) /\ Used(out', server) \subseteq Used(out, server) \cup new
  BY <1>3, <1>4, <1>5, <1>6, DistinctSend
<1>8. \A u \in Triggers : \A snac \in FollowUps(u) : snac \in new => Spent(u, inbox', server')
  BY FollowsOne
<1>9. {"01/02", "13/07"} \cap new = {}
  OBVIOUS
<1>10. Alone(inbox', server') /\ \A u : Spent(u, inbox, server) => Spent(u, inbox', server')
  BY <1>1, SpentStays
<1> HIDE DEF new
<1> QED BY <1>1, <1>7, <1>8, <1>9, <1>10, AskingStep

LEMMA MessageAsks ==
    ASSUME Asking, IInv', imcomm_im_send_message
    PROVE  Asking'
<1>1. /\ UNCHANGED <<at, connected, inbox, server>> /\ out' \in flap_send(out, "ping")
      /\ "ping" \in Requests /\ "ping" \in Repeated
      /\ out \in Out /\ Distinct(out, server)
  BY DEF imcomm_im_send_message, Requests, Repeated, Asking, IInv, TypeOK, Out
<1>2. Distinct(out', server) /\ Used(out', server) \subseteq Used(out, server) \cup {"ping"}
  BY <1>1, DistinctSend
<1>3. \A u \in Triggers : \A snac \in FollowUps(u) :
         snac \in {"ping"} => Spent(u, inbox', server')
  BY FollowsOne
<1>4. Alone(inbox', server') /\ \A u : Spent(u, inbox, server) => Spent(u, inbox', server')
  BY <1>1, SpentStays
<1>5. {"01/02", "13/07"} \cap {"ping"} = {}
  OBVIOUS
<1> QED BY <1>1, <1>2, <1>3, <1>4, <1>5, AskingStep

\* On a new connection nothing was said.
LEMMA CookieAsks ==
    ASSUME Asking, IInv', bos_signon_phase2
    PROVE  Asking'
<1> DEFINE fresh == NewConnection(out)
<1>1. /\ inbox' = <<>> /\ server' = NewServer /\ NewServer.asked = {}
      /\ out' \in flap_send(fresh, "cookie")
  BY DEF bos_signon_phase2, NewServer
<1>2. fresh \in Out /\ fresh.wire = <<>> /\ "cookie" \in Requests
  <2>1. out \in Out /\ <<>> \in Seq(Frame)
    BY DEF Asking, IInv, TypeOK, Out
  <2> QED BY <2>1 DEF NewConnection, Out, Requests
<1> HIDE DEF fresh
<1>3. Len(fresh.wire) = 0 /\ \A i \in 1..Len(fresh.wire) : FALSE
  BY <1>2
<1>4. Distinct(fresh, NewServer) /\ Used(fresh, NewServer) = {}
  BY <1>1, <1>3 DEF Distinct, Used, Kinds
<1>5. Distinct(out', NewServer) /\ Used(out', NewServer) \subseteq {"cookie"}
  BY <1>1, <1>2, <1>4, DistinctSend
<1>6. \A i \in 1..Len(inbox') : FALSE
  BY <1>1
<1>7. Alone(inbox', server')
  BY <1>6 DEF Alone
<1>8. Earned(out', inbox', server')
  BY <1>1, <1>5, FollowsOne DEF Earned
<1>9. Silent(out', server')
  BY <1>1, <1>5 DEF Silent
<1> QED BY <1>1, <1>5, <1>7, <1>8, <1>9 DEF Asking

\* Being ready is said when the connection becomes one, and was not before.
LEMMA RosterAsks ==
    ASSUME Asking, IInv', snac_ssi_activate
    PROVE  Asking'
<1> DEFINE new == Range(cliready)
<1>1. /\ inbox # <<>> /\ inbox' = Tail(inbox) /\ at \in {"auth", "bos"}
      /\ UNCHANGED <<at, messages, server>>
  BY ReceiveIs DEF snac_ssi_activate, Asking
<1>2. connected'
  BY DEF snac_ssi_activate
<1>3. Distinct(out', server) /\ Used(out', server) \subseteq Used(out, server) \cup new
  <2>1. CASE connected
    BY <2>1 DEF snac_ssi_activate, Asking
  <2>2. CASE ~connected
    <3>1. out' \in flap_sendMulti(out, cliready) /\ out \in Out /\ Distinct(out, server)
          /\ {"01/02", "13/07"} \cap Used(out, server) = {}
      BY <1>1, <2>2 DEF snac_ssi_activate, Asking, Silent, IInv, TypeOK, Out
    <3>2. /\ cliready \in Seq(Requests) /\ Len(cliready) = 3 /\ Len(cliready) \in 1..7
          /\ \A k \in 1..3 : cliready[k] \in new
      BY Batches
    <3>3. Sending(out, out', cliready)
      BY <3>1, <3>2, MultiSends DEF Sending, Sent
    <3>4. /\ \A k, l \in 1..3 : cliready[l] = cliready[k] => l = k
          /\ \A k \in 1..3 : cliready[k] \notin Repeated => cliready[k] \in {"01/02", "13/07"}
      BY DEF cliready, Repeated
    <3>5. /\ Distinct(out', server)
          /\ Used(out', server) \subseteq Used(out, server) \cup {cliready[k] : k \in 1..Len(cliready)}
      BY <3>1, <3>2, <3>3, <3>4, DistinctKept
    <3> QED BY <3>2, <3>5
  <2> QED BY <2>1, <2>2
<1>4. \A u \in Triggers : \A snac \in FollowUps(u) : snac \in new => Spent(u, inbox', server')
  BY Batches, FollowsOne
<1>5. Alone(inbox', server') /\ \A u : Spent(u, inbox, server) => Spent(u, inbox', server')
  BY <1>1, SpentStays
<1> HIDE DEF new
<1> QED BY <1>1, <1>2, <1>3, <1>4, <1>5, AskingStep

LEMMA OthersAsk ==
    ASSUME Asking, IInv',
           snac_decode_rest \/ invalid_login \/ other_signon \/ disconnected \/ UNCHANGED vars
    PROVE  Asking'
<1>1. /\ out' = out /\ server' = server
      /\ inbox' = inbox \/ (inbox # <<>> /\ inbox' = Tail(inbox)) \/ (inbox' = <<>> /\ disconnected)
      /\ (at' = at /\ connected' = connected) \/ at' = "closed"
  <2>1. CASE snac_decode_rest
    BY <2>1, ReceiveIs DEF snac_decode_rest, Asking
  <2>2. CASE invalid_login
    <3>1. \E snac : Receive(snac)
      BY <2>2, Zenon DEF invalid_login
    <3>2. inbox # <<>> /\ inbox' = Tail(inbox)
      BY <3>1, ReceiveIs DEF Asking
    <3> QED BY <2>2, <3>2, Zenon DEF invalid_login, Closed
  <2>3. CASE other_signon
    BY <2>3, ReceiveIs DEF other_signon, Closed, Asking
  <2>4. CASE disconnected
    BY <2>4 DEF disconnected
  <2>5. CASE UNCHANGED vars
    BY <2>5 DEF vars
  <2> QED BY <2>1, <2>2, <2>3, <2>4, <2>5
<1>2. /\ Alone(inbox', server')
      /\ \A t : Spent(t, inbox, server) => Spent(t, inbox', server')
  <2>1. CASE inbox' = <<>>
    <3>1. \A i \in 1..Len(inbox') : FALSE
      BY <2>1
    <3> QED BY <1>1, <3>1 DEF Alone, Spent
  <2>2. CASE inbox' # <<>>
    BY <1>1, <2>2, SpentStays
  <2> QED BY <2>1, <2>2
<1>3. Distinct(out', server') /\ Earned(out', inbox', server')
  BY <1>1, <1>2 DEF Asking, Earned
<1>4. at' # "closed" /\ ~connected' => Silent(out', server')
  BY <1>1 DEF Asking
<1> QED BY <1>2, <1>3, <1>4 DEF Asking

\* What the server takes in was on the wire once, and is not there any more.
LEMMA ReadsAsk ==
    ASSUME Asking, IInv', server_reads
    PROVE  Asking'
<1> DEFINE f == out.wire[1]
           m == Len(out.wire)
<1>0. IInv
  BY DEF Asking
<1>1. /\ m \in Nat \ {0} /\ Len(out'.wire) = m - 1
      /\ \A i \in 1..Len(out'.wire) : i + 1 \in 2..m /\ out'.wire[i] = out.wire[i + 1]
  BY <1>0, ReadsWire
<1>2. /\ UNCHANGED <<at, connected, inbox>>
      /\ \/ /\ server'.asked = server.asked \cup {f.snac}
            /\ server'.pending \subseteq server.pending \cup {f.snac}
         \/ server'.asked = server.asked /\ server'.pending = {}
  BY <1>0, ReadsServer
<1>3. 1 \in 1..m /\ \A i \in 1..Len(out'.wire) : i + 1 \in 1..m /\ i + 1 # 1
  BY <1>1
<1> HIDE DEF f, m
<1>4. Used(out', server') \subseteq Used(out, server)
  <2>1. Kinds(out') \subseteq Kinds(out)
    BY <1>1, <1>3 DEF Kinds, m
  <2>2. f.snac \in Kinds(out)
    BY <1>3 DEF Kinds, f, m
  <2> QED BY <1>2, <2>1, <2>2 DEF Used
<1>5. f.snac \in server.asked => f.snac \in Repeated
  BY <1>3 DEF Asking, Distinct, f, m
<1>6. Distinct(out', server')
  <2> SUFFICES ASSUME NEW i \in 1..Len(out'.wire), out'.wire[i].snac \notin Repeated
               PROVE  /\ out'.wire[i].snac \notin server'.asked
                      /\ \A j \in 1..Len(out'.wire) : out'.wire[j].snac = out'.wire[i].snac => j = i
    BY DEF Distinct
  <2>1. i + 1 \in 1..m /\ i + 1 # 1 /\ out'.wire[i] = out.wire[i + 1]
    BY <1>1, <1>3
  <2>2. /\ out.wire[i + 1].snac \notin server.asked
        /\ \A j \in 1..m : out.wire[j].snac = out.wire[i + 1].snac => j = i + 1
    BY <2>1 DEF Asking, Distinct, m
  <2>3. f.snac # out.wire[i + 1].snac
    BY <1>3, <2>1, <2>2 DEF f
  <2>4. ASSUME NEW j \in 1..Len(out'.wire), out'.wire[j].snac = out'.wire[i].snac PROVE j = i
    <3>1. j + 1 = i + 1
      BY <1>1, <1>3, <2>1, <2>2, <2>4
    <3> QED BY <3>1
  <2> QED BY <1>2, <2>1, <2>2, <2>3, <2>4
<1>7. \A t \in Triggers : t \in server.asked /\ t \notin server.pending =>
          t \in server'.asked /\ t \notin server'.pending
  <2>1. \A t \in Triggers : t \notin Repeated
    BY DEF Triggers, Repeated
  <2> QED BY <1>2, <1>5, <2>1
<1>8. Alone(inbox', server')
  BY <1>2, <1>7 DEF Asking, Alone
<1>9. Earned(out', inbox', server')
  BY <1>2, <1>4, <1>7 DEF Asking, Earned, Spent
<1>10. at' # "closed" /\ ~connected' => Silent(out', server')
  BY <1>2, <1>4 DEF Asking, Silent
<1> QED BY <1>6, <1>8, <1>9, <1>10 DEF Asking

\* An answer that leads to more is the last to its request, and nothing of what
\* it leads to was said.
LEMMA ArrivesAsk ==
    ASSUME Asking, IInv', server_kicks \/ \E snac \in Requests : server_answers(snac)
    PROVE  Asking'
<1>1. UNCHANGED <<at, connected, out>>
  BY DEF server_kicks, server_answers
<1>2. inbox \in Seq(Packet) /\ server \in ServerType
  BY DEF Asking, IInv, TypeOK, Packet, ServerType
<1>3. PICK p : /\ inbox' = Append(inbox, p)
               /\ server'.asked = server.asked /\ server'.pending \subseteq server.pending
               /\ \A t \in Triggers : p.snac = Lead(t) =>
                     t \in server.pending /\ t \notin server'.pending
  <2>1. CASE server_kicks
    <3> DEFINE p == [snac |-> "04:09/02", first |-> TRUE]
    <3>1. inbox' = Append(inbox, p) /\ server' = server
      BY <2>1 DEF server_kicks
    <3>2. p.snac = "04:09/02"
      OBVIOUS
    <3>3. \A t \in Triggers : p.snac # Lead(t)
      BY <3>2, LeadsApart
    <3> QED BY <3>1, <3>3
  <2>2. CASE \E snac \in Requests : server_answers(snac)
    <3>1. PICK snac \in Requests : server_answers(snac)
      BY <2>2
    <3>2. PICK reply \in Answers(snac), first \in BOOLEAN :
              inbox' = Append(inbox, [snac |-> reply, first |-> first])
      BY <3>1 DEF server_answers
    <3> DEFINE p == [snac |-> reply, first |-> first]
    <3>3. p.snac = reply
      OBVIOUS
    <3> HIDE DEF p
    <3>4. \/ server' = [server EXCEPT !.pending = @ \ {snac}]
          \/ snac = "13/04" /\ server' = [server EXCEPT !.parts = @ + 1]
      BY <3>1, Zenon DEF server_answers, Answered
    <3>5. "13/04" \notin Triggers
      BY DEF Triggers
    <3>6. /\ server'.asked = server.asked /\ server'.pending \subseteq server.pending
          /\ snac \in Triggers => snac \notin server'.pending
      BY <1>2, <3>4, <3>5 DEF ServerType
    <3>7. snac \in server.pending
      BY <3>1 DEF server_answers
    <3>8. \A t \in Triggers : p.snac = Lead(t) => snac = t
      BY <3>3, LeadsBack
    <3>9. inbox' = Append(inbox, p)
      BY <3>2 DEF p
    <3> QED BY <3>6, <3>7, <3>8, <3>9
  <2> QED BY <2>1, <2>2
<1>4. /\ Len(inbox) \in Nat /\ Len(inbox') = Len(inbox) + 1
      /\ \A i \in 1..Len(inbox) : inbox'[i] = inbox[i]
      /\ inbox'[Len(inbox) + 1] = p
  BY <1>2, <1>3
<1>5. \A i \in 1..Len(inbox') : \/ i \in 1..Len(inbox) /\ inbox'[i] = inbox[i]
                                \/ i = Len(inbox) + 1 /\ inbox'[i] = p
  BY <1>4
<1>6. server.pending \subseteq server.asked
  BY DEF Asking, IInv, Heard
<1>7. ASSUME NEW t \in Triggers, Spent(t, inbox, server)
      PROVE  Spent(t, inbox', server')
  <2>1. /\ t \in server.asked /\ t \notin server.pending
        /\ \A i \in 1..Len(inbox) : inbox[i].snac # Lead(t)
    BY <1>7 DEF Spent
  <2>2. p.snac # Lead(t)
    BY <1>3, <2>1
  <2>3. \A i \in 1..Len(inbox') : inbox'[i].snac # Lead(t)
    BY <1>5, <2>1, <2>2
  <2> QED BY <1>3, <2>1, <2>3 DEF Spent
<1>8. Alone(inbox', server')
  <2> SUFFICES ASSUME NEW t \in Triggers, NEW i \in 1..Len(inbox'), inbox'[i].snac = Lead(t)
               PROVE  /\ t \in server'.asked /\ t \notin server'.pending
                      /\ \A j \in 1..Len(inbox') : inbox'[j].snac = Lead(t) => j = i
    BY DEF Alone
  <2>1. CASE p.snac = Lead(t)
    <3>1. t \in server.pending /\ t \notin server'.pending
      BY <1>3, <2>1
    <3>2. \A j \in 1..Len(inbox) : inbox[j].snac # Lead(t)
      BY <3>1 DEF Asking, Alone
    <3>3. \A j \in 1..Len(inbox') : inbox'[j].snac = Lead(t) => j = Len(inbox) + 1
      BY <1>5, <3>2
    <3> QED BY <1>3, <1>6, <3>1, <3>3
  <2>2. CASE p.snac # Lead(t)
    <3>1. \A j \in 1..Len(inbox') : inbox'[j].snac = Lead(t) =>
              j \in 1..Len(inbox) /\ inbox[j].snac = Lead(t)
      BY <1>5, <2>2
    <3>2. i \in 1..Len(inbox) /\ inbox[i].snac = Lead(t)
      BY <3>1
    <3>3. /\ t \in server.asked /\ t \notin server.pending
          /\ \A j \in 1..Len(inbox) : inbox[j].snac = Lead(t) => j = i
      BY <3>2 DEF Asking, Alone
    <3> QED BY <1>3, <3>1, <3>3
  <2> QED BY <2>1, <2>2
<1>9. Distinct(out', server') /\ Used(out', server') = Used(out, server)
  BY <1>1, <1>3 DEF Asking, Distinct, Used
<1>10. Earned(out', inbox', server')
  BY <1>7, <1>9 DEF Asking, Earned
<1>11. at' # "closed" /\ ~connected' => Silent(out', server')
  BY <1>1, <1>9 DEF Asking, Silent
<1> QED BY <1>8, <1>9, <1>10, <1>11 DEF Asking

LEMMA InitAsks == Init => Asking
<1> SUFFICES ASSUME Init PROVE Asking
  OBVIOUS
<1>1. out.wire = <<>> /\ inbox = <<>> /\ server.asked = {}
  BY DEF Init, NewServer
<1>2. Len(out.wire) = 0 /\ (\A i \in 1..Len(out.wire) : FALSE) /\ (\A i \in 1..Len(inbox) : FALSE)
  BY <1>1
<1>3. Used(out, server) = {} /\ Distinct(out, server)
  BY <1>1, <1>2 DEF Used, Kinds, Distinct
<1>4. Alone(inbox, server)
  BY <1>2 DEF Alone
<1> QED BY <1>3, <1>4, InitInv DEF Asking, Earned, Silent

LEMMA AskingInv == Asking /\ [Next]_vars => Asking'
<1> SUFFICES ASSUME Asking, [Next]_vars PROVE Asking'
  OBVIOUS
<1>1. IInv'
  BY NextInv DEF Asking
<1> QED BY <1>1, HelloAsks, MessageAsks, RespondsAsk, LimitsAsk, LocationAsks, CookieAsks,
           RosterAsks, OthersAsk, ReadsAsk, ArrivesAsk, Zenon DEF Next, snac_decode, Server

-----------------------------------------------------------------------------
(* What the program is told.                                               *)

LEMMA Stages ==
    /\ status = "none" => stage = "none"
    /\ status = "dialled" => stage = "auth"
    /\ status = "AUTHDONE" => stage = "bos"
    /\ status = "CONNECTED" => stage = "online"
    /\ status = "DISCONNECTED" => stage = "lost"
    /\ status \in {"INVALID_LOGIN", "OTHER_SIGNON"} => stage = "dead"
  BY DEF stage

LEMMA NextStages ==
    /\ status' = "dialled" => stage' = "auth"
    /\ status' = "AUTHDONE" => stage' = "bos"
    /\ status' = "CONNECTED" => stage' = "online"
    /\ status' = "DISCONNECTED" => stage' = "lost"
    /\ status' \in {"INVALID_LOGIN", "OTHER_SIGNON"} => stage' = "dead"
    /\ status' = status => stage' = stage
  BY DEF stage

LEMMA TellsStep == IInv /\ [Next]_vars => [G!LoginNext]_stage
<1> SUFFICES ASSUME IInv, [Next]_vars PROVE [G!LoginNext]_stage
  OBVIOUS
<1>1. CASE status' = status
  BY <1>1, NextStages
<1>2. CASE imcomm_im_signon
  <2>1. status' = "dialled"
    BY <1>2 DEF imcomm_im_signon
  <2>2. stage' = "auth"
    BY <2>1, NextStages
  <2> QED BY <2>2 DEF G!LoginNext, G!Dial
<1>3. CASE bos_signon_phase2
  <2>1. status = "dialled" /\ status' = "AUTHDONE"
    BY <1>3, Origin DEF bos_signon_phase2, IInv, Told
  <2>2. stage = "auth" /\ stage' = "bos"
    BY <2>1, Stages, NextStages
  <2> QED BY <2>2 DEF G!LoginNext, G!Authorized
<1>4. CASE snac_ssi_activate
  <2>1. at = "bos"
    BY <1>4, ReceiveIs, Origin DEF snac_ssi_activate
  <2>2. CASE connected
    BY <1>1, <1>4, <2>2 DEF snac_ssi_activate
  <2>3. CASE ~connected
    <3>1. status = "AUTHDONE" /\ status' = "CONNECTED"
      BY <1>4, <2>1, <2>3 DEF snac_ssi_activate, IInv, Told
    <3>2. stage = "bos" /\ stage' = "online"
      BY <3>1, Stages, NextStages
    <3> QED BY <3>2 DEF G!LoginNext, G!Connected
  <2> QED BY <2>2, <2>3
<1>5. CASE invalid_login \/ other_signon \/ disconnected
  <2>1. at \in {"auth", "bos"}
    BY <1>5, ReceiveIs DEF invalid_login, other_signon, disconnected
  <2>2. status \in {"dialled", "AUTHDONE", "CONNECTED"}
    BY <2>1 DEF IInv, Told
  <2>3. stage \in G!Live
    BY <2>2, Stages DEF G!Live
  <2>4. status' \in {"INVALID_LOGIN", "OTHER_SIGNON", "DISCONNECTED"}
    BY <1>5 DEF invalid_login, other_signon, disconnected, Closed
  <2>5. stage' \in {"lost", "dead"}
    BY <2>4, NextStages
  <2> QED BY <2>3, <2>5 DEF G!LoginNext, G!Disconnected, G!Closed
<1>6. CASE \/ imcomm_im_send_message \/ bos_md5snac \/ snac_send_versions
           \/ snac_request_limits \/ snac_ack_limits \/ snac_set_location_info
           \/ snac_send_icbm_params \/ snac_decode_rest
  <2>1. status' = status
    BY <1>6 DEF imcomm_im_send_message, bos_md5snac, snac_send_versions, Respond,
       snac_request_limits, snac_ack_limits, snac_set_location_info,
       snac_send_icbm_params, snac_decode_rest
  <2> QED BY <1>1, <2>1
<1>7. CASE Server \/ UNCHANGED vars
  <2>1. status' = status
    BY <1>7 DEF Server, server_reads, server_answers, server_kicks, vars
  <2> QED BY <1>1, <2>1
<1> QED BY <1>2, <1>3, <1>4, <1>5, <1>6, <1>7, Zenon DEF Next, snac_decode

-----------------------------------------------------------------------------
(* Theorems.                                                               *)

\* The types: every frame has a number that fits, and a request of the sign-on.
THEOREM TypeCorrect == Spec => []TypeOK
<1>1. IInv => TypeOK
  BY DEF IInv
<1> QED BY <1>1, Inductive, PTL

\* Whatever writes fail, whatever is sent in between and however often the
\* numbers wrap, the server refuses no frame unless a batch was lost
\* (flap_send, flap_sendMulti, bos_signon_phase2).
THEOREM NumbersGoOn == Spec => []NumbersFollow
<1>1. IInv => NumbersFollow
  BY DEF IInv, Follow, NumbersFollow
<1> QED BY <1>1, Inductive, PTL

\* No request reaches the server before what it builds on (snac_decode).
THEOREM NothingOutOfTurn == Spec => []InTurn
<1>1. IInv => InTurn
  BY DEF IInv
<1> QED BY <1>1, Inductive, PTL

\* However many parts the roster has, the client says once that it is ready,
\* and not before the program knows that it is connected (snac_ssi_activate).
THEOREM ReadyAtMostOnce == Spec => []ReadyOnce
<1>1. IInv => ReadyOnce
  <2> SUFFICES ASSUME IInv PROVE ReadyOnce
    OBVIOUS
  <2>1. server.ready <= 1
    BY DEF IInv, Ready, Once
  <2>2. ASSUME server.ready = 1 PROVE status # "AUTHDONE"
    <3>1. at # "closed" => connected
      BY <2>2 DEF IInv, Ready, Unready
    <3> QED BY <3>1 DEF IInv, Told, TypeOK
  <2> QED BY <2>1, <2>2 DEF ReadyOnce
<1> QED BY <1>1, Inductive, PTL

\* The client asks for nothing twice on a connection, but for the keepalives and
\* the extended status: whatever the order of the answers, however many parts
\* the roster has and whatever writes fail, each request is on the wire once,
\* and not again once it was heard (snac_decode, snac_ssi_activate).
THEOREM AsksOnce == Spec => []AskedOnce
<1>1. Asking => AskedOnce
  BY DEF Asking, Distinct, AskedOnce
<1> QED BY <1>1, InitAsks, AskingInv, PTL DEF Spec

\* What the program was told last is so (imcomm_exec_callback's callers).
THEOREM StatusTrue == Spec => []StatusIsTrue
<1>1. IInv => StatusIsTrue
  BY DEF IInv, Told, TypeOK, StatusIsTrue
<1> QED BY <1>1, Inductive, PTL

\* The packets' story of a sign-on is the one that Login tells.
THEOREM KeepsToLogin == Spec => LoginSpec
<1>1. Init => G!LoginInit
  BY DEF Init, stage, G!LoginInit
<1> QED BY <1>1, Inductive, TellsStep, PTL DEF Spec, LoginSpec, G!LoginSpec

\* The sign-on never waits for something that nobody is going to send: until it
\* is connected, the next request of the chain or its answer is under way, with
\* whatever is sent in between and however the server orders its answers, as
\* long as no write has failed (snac_decode, bos_signon_phase2, flap_sendMulti).
THEOREM NeverWaitsInVain == Spec => []AwaitedIsUnderWay
<1>1. Init => Awaiting
  BY InitInv DEF Init, Awaiting, Intact, AwaitedIsUnderWay
<1>2. Awaiting => AwaitedIsUnderWay
  BY DEF Awaiting
<1> QED BY <1>1, <1>2, AwaitingInv, PTL DEF Spec

\* Who has something to do: the server a frame to read or an answer to give,
\* the client a packet that select shows it; or packets are stuck in the TLS
\* library.
SomeoneActs ==
    at \in {"auth", "bos"} /\ ~connected /\ out.failed = 0 =>
        \/ out.wire # <<>> /\ ~server.refused
        \/ \E snac \in server.pending : Answers(snac) # {} /\ Len(inbox) < MaxInbox
        \/ Readable
        \/ Stalled

\* Client and server never wait for each other: an unfinished sign-on always
\* has a next step, unless a write failed or select does not see what has come
\* (imcomm_select, snac_decode).
THEOREM NeverBothWait ==
    ASSUME MaxInbox # 0 PROVE Spec => []SomeoneActs
<1>1. Awaiting => SomeoneActs
  <2> SUFFICES ASSUME Awaiting, at \in {"auth", "bos"}, ~connected, out.failed = 0
               PROVE  \/ out.wire # <<>> /\ ~server.refused
                      \/ \E snac \in server.pending : Answers(snac) # {} /\ Len(inbox) < MaxInbox
                      \/ Readable
                      \/ Stalled
    BY DEF SomeoneActs
  <2>1. PICK snac \in Chain : UnderWay(snac)
    BY DEF Awaiting, AwaitedIsUnderWay
  <2>2. ~server.refused
    BY DEF Awaiting, Intact, IInv, Follow
  <2>3. CASE inbox # <<>>
    BY <2>3 DEF Stalled
  <2>4. CASE inbox = <<>>
    <3>1. Len(inbox) = 0 /\ ~ \E i \in 1..Len(inbox) : inbox[i].snac \in Answers(snac)
      BY <2>4
    <3>2. Len(inbox) < MaxInbox
      BY <3>1, BoundsAssumption
    <3>3. CASE snac \in Kinds(out)
      <4>1. Len(out.wire) # 0
        BY <3>3, OutNow, OutIs DEF Kinds
      <4> QED BY <2>2, <4>1
    <3>4. CASE snac \in server.pending
      BY <3>2, <3>4, NotOfTheChain
    <3> QED BY <2>1, <3>1, <3>3, <3>4, UnderWayIs
  <2> QED BY <2>3, <2>4
<1>2. Init => Awaiting
  BY InitInv DEF Init, Awaiting, Intact, AwaitedIsUnderWay
<1> QED BY <1>1, <1>2, AwaitingInv, PTL DEF Spec
=============================================================================
