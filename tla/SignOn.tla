------------------------------- MODULE SignOn -------------------------------
(***************************************************************************)
(* One handle signing on: the packets of both connections (bos_signon.c,   *)
(* snac.c), the FLAP sequence numbers they carry (flap.c), and what        *)
(* imcomm_select can see of a TLS session that hands over several packets  *)
(* at once.                                                                *)
(*                                                                         *)
(* Packets are named by family and subtype; "hello", "cookie" and "ping"   *)
(* are those of the FLAP channels 1 and 5, "04:..." those of channel 4.    *)
(* What a packet carries is left out: the SNAC request id, which nobody    *)
(* reads, the MD5 digest, versions, rate classes, limits.                  *)
(* So are the batches with which load_buddylist adds the names of a local  *)
(* list once the program is told that it is connected (bsf.c:817): they    *)
(* are no part of the sign-on, and module Roster has them as additions.    *)
(*                                                                         *)
(* The server is external.  It reads the frames in order, closes the       *)
(* connection on a sequence number that is not the next one, answers what  *)
(* it was asked in any order, may send the roster in parts, and may put    *)
(* several packets into one TLS record.                                    *)
(***************************************************************************)
EXTENDS Naturals, Sequences, SequencesExt

CONSTANTS FirstSeq,    \* the first sequence number of a handle, 0x1000
          MaxSeq,      \* the last one, 0xFFFF
          MaxFailures, \* bound of the writes that fail
          MaxMessages, \* bound of what is sent besides the sign-on
          MaxParts,    \* bound of the packets that make up a roster
          MaxInbox     \* bound of the packets on their way to the client

ASSUME SeqAssumption == FirstSeq \in Nat /\ MaxSeq \in Nat /\ FirstSeq <= MaxSeq
\* A batch has at most seven packets and does not go round the numbers.
ASSUME BatchAssumption == MaxSeq >= 7
ASSUME BoundsAssumption == {MaxFailures, MaxMessages, MaxParts, MaxInbox} \subseteq Nat

VARIABLES at,        \* where the socket leads to
          connected, \* handle->connected
          status,    \* what the error callback told the program last
          out,       \* the sending side
          messages,  \* how many messages and keepalives were sent
          inbox,     \* packets under way to the client
          server     \* what the server knows and has to do

vars == <<at, connected, status, out, messages, inbox, server>>

multireq == <<"01/0e", "13/02", "13/04", "02/02", "03/02", "04/04", "09/02">>
cliready == <<"01/1e", "01/02", "13/07">>

Requests == {"hello", "17/06", "17/02", "cookie", "01/17", "01/06", "01/08",
             "01/1e", "02/04", "04/02", "ping"} \cup Range(multireq) \cup Range(cliready)

\* What the server may answer a request with.  The client only stores what
\* 13/03, 03/03 and 09/03 tell it; 01/0f stands for them.
Answers(snac) ==
    CASE snac = "17/06"  -> {"17/07", "17/03 error"}
      [] snac = "17/02"  -> {"17/03", "17/03 error", "04:01/05", "04:01/08"}
      [] snac = "cookie" -> {"01/03"}
      [] snac = "01/17"  -> {"01/18"}
      [] snac = "01/06"  -> {"01/07"}
      [] snac = "02/02"  -> {"02/03"}
      [] snac = "04/04"  -> {"04/05"}
      [] snac = "13/04"  -> {"13/06"}
      [] snac = "01/0e"  -> {"01/0f"}
      [] OTHER -> {}

Replies == {"04:09/02"} \cup UNION {Answers(snac) : snac \in Requests}

Frame == [seq : 0..MaxSeq, snac : Requests]

TypeOK ==
    /\ at \in {"none", "auth", "bos", "closed"}
    /\ connected \in BOOLEAN
    /\ status \in {"none", "dialled", "AUTHDONE", "CONNECTED", "INVALID_LOGIN",
                   "OTHER_SIGNON", "DISCONNECTED"}
    /\ out \in [seqnum : 0..MaxSeq, wire : Seq(Frame), broken : BOOLEAN,
                lost : Nat, failed : Nat]
    /\ messages \in 0..MaxMessages
    /\ inbox \in Seq([snac : Replies, first : BOOLEAN])
    /\ server \in [new : BOOLEAN, expects : 0..MaxSeq, refused : BOOLEAN,
                   asked : SUBSET Requests, pending : SUBSET Requests,
                   parts : Nat, ready : Nat]

-----------------------------------------------------------------------------
(* Sending (flap.c).  A write may fail with an error, and nothing says     *)
(* that the next one will; or it comes to nothing because the connection   *)
(* is gone, which flap_send does not take for an error.                    *)

NextSeq(s) == IF s < MaxSeq THEN s + 1 ELSE 0

SeqAfter(s, n) == IF s + n <= MaxSeq THEN s + n ELSE s + n - (MaxSeq + 1)

MayFail(o) == o.broken \/ o.failed < MaxFailures

Failed(o) == IF o.broken THEN o ELSE [o EXCEPT !.failed = @ + 1]

\* Fault: the number is used up whatever became of the write.
flap_send_error_advances(o) ==
    IF MayFail(o) THEN {[Failed(o) EXCEPT !.seqnum = NextSeq(@)]} ELSE {}

\* The results of a flap_send that returns an error.
flap_send_error(o) == IF MayFail(o) THEN {Failed(o)} ELSE {}

\* The results of a flap_send that returns no error.
flap_send_ok(o, snac) ==
    LET used == [o EXCEPT !.seqnum = NextSeq(@)]
    IN  (IF o.broken THEN {}
         ELSE {[used EXCEPT !.wire = Append(@, [seq |-> o.seqnum, snac |-> snac])]})
        \cup (IF MayFail(o) THEN {[Failed(used) EXCEPT !.broken = TRUE]} ELSE {})

flap_send(o, snac) == flap_send_error(o) \cup flap_send_ok(o, snac)

\* The numbers of a batch are used up before its one write, which may fail;
\* its callers do not look at the result.
flap_sendMulti(o, snacs) ==
    LET n    == Len(snacs)
        used == [o EXCEPT !.seqnum = SeqAfter(@, n)]
        gone == [Failed(used) EXCEPT !.lost = @ + n]
    IN  (IF o.broken THEN {}
         ELSE {[used EXCEPT !.wire = @ \o [i \in 1..n |->
                   [seq |-> SeqAfter(o.seqnum, i - 1), snac |-> snacs[i]]]]})
        \cup (IF MayFail(o) THEN {gone, [gone EXCEPT !.broken = TRUE]} ELSE {})

NewConnection(o) == [o EXCEPT !.wire = <<>>, !.broken = FALSE, !.lost = 0]

NewServer == [new |-> TRUE, expects |-> 0, refused |-> FALSE, asked |-> {},
              pending |-> {}, parts |-> 0, ready |-> 0]

-----------------------------------------------------------------------------
Init ==
    /\ at = "none"
    /\ connected = FALSE
    /\ status = "none"
    /\ out = [seqnum |-> FirstSeq, wire |-> <<>>, broken |-> FALSE, lost |-> 0,
              failed |-> 0]
    /\ messages = 0
    /\ inbox = <<>>
    /\ server = NewServer

\* The authorizer is dialled; the result of the first packet is not looked at.
imcomm_im_signon ==
    /\ at = "none"
    /\ at' = "auth"
    /\ status' = "dialled"
    /\ \E o \in flap_send(out, "hello") : out' \in flap_send(o, "17/06")
    /\ UNCHANGED <<connected, messages, inbox, server>>

\* m, the other commands that send, and the keepalive ask for a handle or a
\* socket, not for how far the sign-on has come.
imcomm_im_send_message ==
    /\ at \in {"auth", "bos"}
    /\ messages < MaxMessages
    /\ messages' = messages + 1
    /\ out' \in flap_send(out, "ping")
    /\ UNCHANGED <<at, connected, status, inbox, server>>

-----------------------------------------------------------------------------
(* Receiving.                                                              *)

\* Fault: a handle without a socket is not skipped.
Readable_any == \E i \in 1..Len(inbox) : inbox[i].first

\* imcomm_select asks the socket.  The rest of a TLS record whose first packet
\* was read is inside the TLS library, where select does not see it.
Readable ==
    /\ at \in {"auth", "bos"}
    /\ \E i \in 1..Len(inbox) : inbox[i].first

Receive(snac) ==
    /\ Readable
    /\ Head(inbox).snac = snac
    /\ inbox' = Tail(inbox)

\* A packet whose handler sends one packet and does nothing else.
Respond(snac, request) ==
    /\ Receive(snac)
    /\ out' \in flap_send(out, request)
    /\ UNCHANGED <<at, connected, status, messages, server>>

\* The challenge of the authorizer.
bos_md5snac == Respond("17/07", "17/02")

\* Fault: the batch is sent even if the acknowledgement was not.
snac_ack_limits_anyway ==
    /\ Receive("01/07")
    /\ \E o \in flap_send(out, "01/08") : out' \in flap_sendMulti(o, multireq)
    /\ UNCHANGED <<at, connected, status, messages, server>>

\* Rate limits: acknowledged, and then everything is asked for at once.
snac_ack_limits ==
    /\ Receive("01/07")
    /\ \/ out' \in flap_send_error(out)
       \/ \E o \in flap_send_ok(out, "01/08") : out' \in flap_sendMulti(o, multireq)
    /\ UNCHANGED <<at, connected, status, messages, server>>

\* A cookie, in either of the packets that may carry it: the connection is
\* replaced, and the numbers go on where they were.
bos_signon_phase2 ==
    /\ Readable
    /\ Head(inbox).snac \in {"17/03", "04:01/05"}
    /\ at' = "bos"
    /\ status' = "AUTHDONE"
    /\ out' \in flap_send(NewConnection(out), "cookie")
    /\ inbox' = <<>>
    /\ server' = NewServer
    /\ UNCHANGED <<connected, messages>>

\* The server's families, its versions of them.
snac_send_versions == Respond("01/03", "01/17")

\* Fault: the families' versions are not taken for an answer.
snac_request_limits_ignored ==
    /\ Receive("01/18")
    /\ UNCHANGED <<at, connected, status, out, messages, server>>

snac_request_limits == Respond("01/18", "01/06")

\* Location rights: the extended status, then profile and away message.
snac_set_location_info ==
    /\ Receive("02/03")
    /\ \E o \in flap_send(out, "01/1e") : out' \in flap_send(o, "02/04")
    /\ UNCHANGED <<at, connected, status, messages, server>>

snac_send_icbm_params == Respond("04/05", "04/02")

\* Fault: every part of the roster activates it.
snac_ssi_activate_again ==
    /\ Receive("13/06")
    /\ connected' = TRUE
    /\ status' = "CONNECTED"
    /\ out' \in flap_sendMulti(out, cliready)
    /\ UNCHANGED <<at, messages, server>>

\* The roster, or a part of it: the first one makes the client ready.
snac_ssi_activate ==
    /\ Receive("13/06")
    /\ IF connected
       THEN UNCHANGED <<connected, status, out>>
       ELSE /\ connected' = TRUE
            /\ status' = "CONNECTED"
            /\ out' \in flap_sendMulti(out, cliready)
    /\ UNCHANGED <<at, messages, server>>

\* One's own screen name, and the limits of other services.
snac_decode_rest ==
    /\ Receive("01/0f")
    /\ UNCHANGED <<at, connected, status, out, messages, server>>

-----------------------------------------------------------------------------
(* Ends.                                                                   *)

Closed(told) ==
    /\ at' = "closed"
    /\ status' = told
    /\ UNCHANGED <<connected, out, messages, server>>

invalid_login ==
    /\ Receive("17/03 error") \/ Receive("04:01/08")
    /\ Closed("INVALID_LOGIN")

other_signon == Receive("04:09/02") /\ Closed("OTHER_SIGNON")

\* SSL_read failed.
disconnected ==
    /\ at \in {"auth", "bos"}
    /\ at' = "closed"
    /\ connected' = FALSE
    /\ status' = "DISCONNECTED"
    /\ inbox' = <<>>
    /\ UNCHANGED <<out, messages, server>>

-----------------------------------------------------------------------------
(* The server (external).                                                  *)

server_reads ==
    LET f == Head(out.wire)
    IN  /\ at \in {"auth", "bos"}
        /\ out.wire # <<>> /\ ~server.refused
        /\ out' = [out EXCEPT !.wire = Tail(@)]
        /\ server' =
             IF server.new \/ f.seq = server.expects
             THEN [server EXCEPT
                     !.new = FALSE,
                     !.expects = NextSeq(f.seq),
                     !.asked = @ \cup {f.snac},
                     !.pending = IF Answers(f.snac) = {} THEN @ ELSE @ \cup {f.snac},
                     !.ready = IF f.snac = "01/02" THEN @ + 1 ELSE @]
             ELSE [server EXCEPT !.refused = TRUE, !.pending = {}]
        /\ UNCHANGED <<at, connected, status, messages, inbox>>

\* What is left to do after an answer: the roster may have another part.
Answered(snac) ==
    {[server EXCEPT !.pending = @ \ {snac}]}
    \cup (IF snac = "13/04" /\ server.parts + 1 < MaxParts
          THEN {[server EXCEPT !.parts = @ + 1]} ELSE {})

\* An answer in a TLS record of its own, or in one with the answer before it,
\* which the client then has not begun to read.
server_answers(snac) ==
    /\ at \in {"auth", "bos"}
    /\ snac \in server.pending
    /\ Len(inbox) < MaxInbox
    /\ \E reply \in Answers(snac), first \in BOOLEAN :
         /\ ~first => Readable
         /\ inbox' = Append(inbox, [snac |-> reply, first |-> first])
    /\ server' \in Answered(snac)
    /\ UNCHANGED <<at, connected, status, out, messages>>

\* The user signs on somewhere else.
server_kicks ==
    /\ at = "bos"
    /\ Len(inbox) < MaxInbox
    /\ \A i \in 1..Len(inbox) : inbox[i].snac # "04:09/02"
    /\ inbox' = Append(inbox, [snac |-> "04:09/02", first |-> TRUE])
    /\ UNCHANGED <<at, connected, status, out, messages, server>>

-----------------------------------------------------------------------------
snac_decode ==
    \/ bos_md5snac
    \/ bos_signon_phase2
    \/ snac_send_versions
    \/ snac_request_limits
    \/ snac_ack_limits
    \/ snac_set_location_info
    \/ snac_send_icbm_params
    \/ snac_ssi_activate
    \/ snac_decode_rest
    \/ invalid_login
    \/ other_signon

Server ==
    \/ server_reads
    \/ \E snac \in Requests : server_answers(snac)
    \/ server_kicks

Next ==
    \/ imcomm_im_signon
    \/ imcomm_im_send_message
    \/ snac_decode
    \/ disconnected
    \/ Server

Spec == Init /\ [][Next]_vars

\* The client's loop runs, and the server reads and answers everything.
FairSpec ==
    /\ Spec
    /\ WF_vars(imcomm_im_signon)
    /\ WF_vars(snac_decode)
    /\ WF_vars(server_reads)
    /\ \A snac \in Requests : WF_vars(server_answers(snac))

-----------------------------------------------------------------------------
(* Properties.                                                             *)

\* The server never hears a number out of order, through both connections and
\* over the wrap, unless a whole batch was lost: a failed flap_send uses up no
\* number, a failed flap_sendMulti all of its own (flap_send, flap_sendMulti).
NumbersFollow == out.lost = 0 => ~server.refused

\* What the server must have heard before it hears a request.
Needs(snac) ==
    CASE snac = "17/02" -> {"17/06"}
      [] snac = "01/17" -> {"cookie"}
      [] snac = "01/06" -> {"01/17"}
      [] snac = "01/08" -> {"01/06"}
      [] snac \in Range(multireq) -> {"01/08"}
      [] snac = "02/04" -> {"02/02"}
      [] snac = "04/02" -> {"04/04"}
      [] snac \in {"01/02", "13/07"} -> {"13/04"}
      [] OTHER -> {}

\* Nothing is asked out of turn: whatever writes fail and in whatever order
\* answers come, the server has heard what a request builds on, above all the
\* acknowledgement of the rate limits (snac_ack_limits, snac_decode).
InTurn == \A snac \in server.asked : Needs(snac) \subseteq server.asked

\* The client says that it is ready once on a connection, however many packets
\* the roster comes in, and only to a program that knows it is connected
\* (snac_ssi_activate).
ReadyOnce == server.ready <= 1 /\ (server.ready = 1 => status # "AUTHDONE")

\* Sent more than once on a connection: keepalives and messages, and the
\* extended status, which goes with the location information too.
Repeated == {"ping", "01/1e"}

\* The client asks for nothing twice on a connection: what is under way was
\* not heard yet and is under way once, in whatever order the answers come and
\* in however many packets the roster (snac_decode, snac_ssi_activate).  So
\* what is said of one sign-on is finite, and readiness is announced once.
AskedOnce ==
    \A i \in 1..Len(out.wire) : out.wire[i].snac \notin Repeated =>
        /\ out.wire[i].snac \notin server.asked
        /\ \A j \in 1..Len(out.wire) : out.wire[j].snac = out.wire[i].snac => j = i

\* The program is told the truth: connected only on a BOS connection that
\* asked for the roster, authorized only on one that left the authorizer
\* (bos_md5snac, multi_ssiact_cliready).
StatusIsTrue ==
    /\ status \in {"AUTHDONE", "CONNECTED"} => at = "bos"
    /\ at = "bos" => (status = "CONNECTED" <=> connected)
    /\ status = "CONNECTED" => "13/04" \in server.asked

\* The requests that the sign-on waits for, one after the other, and the ones
\* of them that were sent and whose answer was not read yet.
Chain == IF at = "auth" THEN {"17/06", "17/02"} ELSE {"cookie", "01/17", "01/06", "13/04"}

UnderWay(snac) ==
    \/ \E i \in 1..Len(out.wire) : out.wire[i].snac = snac
    \/ snac \in server.pending
    \/ \E i \in 1..Len(inbox) : inbox[i].snac \in Answers(snac)

\* The client never waits for something that nobody is going to send: until it
\* is connected one of the requests of the chain, or the answer to one, is
\* under way, whatever else comes in between and in whatever order, as long as
\* no write has failed (snac_decode, bos_signon_phase2, flap_sendMulti).
AwaitedIsUnderWay ==
    at \in {"auth", "bos"} /\ ~connected /\ out.failed = 0 =>
        \E snac \in Chain : UnderWay(snac)

\* The stages as Login names them, from what the program was told.
stage ==
    CASE status = "none" -> "none"
      [] status = "dialled" -> "auth"
      [] status = "AUTHDONE" -> "bos"
      [] status = "CONNECTED" -> "online"
      [] status = "DISCONNECTED" -> "lost"
      [] OTHER -> "dead"

G == INSTANCE Login WITH stage <- stage

\* The callbacks tell the story of one sign-on, in order: authorized, then
\* connected, and one end (Login).
LoginSpec == G!LoginSpec

Done == connected \/ at = "closed"

\* A packet waits inside the TLS library, and select sees nothing.
Stalled == inbox # <<>> /\ ~Readable

\* The sign-on comes to an end by itself, unless a write failed or packets
\* that share a TLS record are left in it; no answer that is read leads into a
\* wait for something nobody sends (snac_decode, imcomm_select).
CompletesOrStalls == <>(Done \/ out.failed > 0 \/ []Stalled)

\* imcomm_select checks every handle for input and processes it (imcomm/README).
SignOnCompletes == <>(Done \/ out.failed > 0)
=============================================================================
