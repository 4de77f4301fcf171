--------------------------- MODULE SessionProofs ---------------------------
(***************************************************************************)
(* Proofs about Session, for any set of addresses, any outcome of the      *)
(* connections and any setting.  The two lists and conn->conn can be in    *)
(* four shapes only, and where the program's thread is decides which:      *)
(* nobody, a sole handle, a handle that is leaving, and one that is        *)
(* leaving while its successor has been created.  The inductive invariant  *)
(* is the type invariant with that Shape, the marks and the list shown.    *)
(***************************************************************************)
EXTENDS Session, SequenceTheorems, TLAPS

\* Where the loop of main is when no handle is being made or freed.
Loop == {"select", "trim", "fdset", "poll", "keys"}

Nobody == handles = <<>> /\ clist = <<>> /\ conn = NULL

Sole(a) == handles = <<a>> /\ clist = <<a>>

Leaving(a) == handles = <<a>> /\ clist = <<>> /\ conn = NULL /\ h[a].to_delete

Replaced(a, b) == /\ a # b
                  /\ handles = <<a, b>> /\ clist = <<b>>
                  /\ h[a].to_delete /\ ~h[b].to_delete

Alive(S) == \A id \in Ids : h[id].alive <=> id \in S

NobodyAt == Nobody /\ Alive({}) /\ pc \in {"start"} \cup Loop \cup Final

SoleAt(a) ==
    /\ Sole(a) /\ Alive({a})
    /\ \/ pc \in Loop \cup Final /\ conn = a
       \/ pc \in {"dial"} \cup Final /\ conn = NULL
            /\ ~h[a].to_delete /\ h[a].stage = "auth"
       \/ pc \in {"dial"} /\ conn = a
            /\ ~h[a].to_delete /\ h[a].stage = "bos"

LeavingAt(a) == Leaving(a) /\ Alive({a}) /\ pc \in {"sleep", "unlink"} \cup Final

ReplacedAt(a, b) ==
    /\ Replaced(a, b) /\ Alive({a, b})
    /\ \/ pc \in {"dial"} \cup Final /\ conn = NULL /\ h[b].stage = "auth"
       \/ pc \in {"unlink"} \cup Final /\ conn = b

Shape == \/ NobodyAt
         \/ \E a \in Ids : SoleAt(a)
         \/ \E a \in Ids : LeavingAt(a)
         \/ \E a, b \in Ids : ReplacedAt(a, b)

\* A marked handle is known to be marked, exists, and has no socket: it will
\* not be read from again.
Marks == \A id \in Ids : h[id].to_delete =>
            nodes_to_delete /\ h[id].alive /\ h[id].socket = "closed"

IInv == TypeOK /\ Shape /\ Marks /\ ShownSession

-----------------------------------------------------------------------------
(* Lists of one and two.                                                   *)

\* Heads, tails and ranges of the lists that occur.
LEMMA ShortLists ==
    ASSUME NEW a \in Ids, NEW b \in Ids
    PROVE  /\ <<>> \in Seq(Ids) /\ <<a>> \in Seq(Ids) /\ <<a, b>> \in Seq(Ids)
           /\ Len(<<>>) = 0 /\ Len(<<a>>) = 1 /\ Len(<<a, b>>) = 2
           /\ Head(<<a>>) = a /\ Head(<<a, b>>) = a
           /\ Tail(<<a>>) = <<>> /\ Tail(<<a, b>>) = <<b>>
           /\ Append(<<>>, a) = <<a>> /\ Append(<<a>>, b) = <<a, b>>
           /\ <<>> # <<a>> /\ <<>> # <<a, b>> /\ <<a>> # <<a, b>>
<1>1. <<>> \in Seq(Ids) /\ <<a>> \in Seq(Ids) /\ <<a, b>> \in Seq(Ids)
  OBVIOUS
<1>2. Len(<<>>) = 0 /\ Len(<<a>>) = 1 /\ Len(<<a, b>>) = 2
  OBVIOUS
<1>3. Head(<<a>>) = a /\ Head(<<a, b>>) = a
  OBVIOUS
<1>4. Tail(<<a>>) = <<>>
  OBVIOUS
<1>5. Append(<<>>, a) = <<a>> /\ Append(<<>>, b) = <<b>>
  OBVIOUS
<1>6. Append(<<a>>, b) = <<a, b>>
  <2>1. /\ Append(<<a>>, b) \in Seq(Ids)
        /\ Len(Append(<<a>>, b)) = 2
        /\ Append(<<a>>, b)[1] = a
        /\ Append(<<a>>, b)[2] = b
    BY <1>1, <1>2, AppendProperties
  <2>2. \A i \in 1..Len(Append(<<a>>, b)) : Append(<<a>>, b)[i] = <<a, b>>[i]
    BY <2>1
  <2> QED BY <1>1, <1>2, <2>1, <2>2, SeqEqual
<1>7. Tail(<<a, b>>) = <<b>>
  BY <1>1, <1>4, <1>5, <1>6, HeadTailAppend
<1>9. <<>> # <<a>> /\ <<>> # <<a, b>> /\ <<a>> # <<a, b>>
  BY <1>2
<1> QED BY <1>1, <1>2, <1>3, <1>4, <1>5, <1>6, <1>7, <1>9

\* What is on them.
LEMMA ShortRanges ==
    ASSUME NEW a \in Ids, NEW b \in Ids
    PROVE  /\ Range(<<>>) = {} /\ Range(<<a>>) = {a} /\ Range(<<a, b>>) = {a, b}
           /\ IsInjective(<<>>) /\ IsInjective(<<a>>)
           /\ a # b => IsInjective(<<a, b>>)
BY DEF Range, IsInjective

\* Sending leads on, ends the program, or hangs.
LEMMA Sending ==
    ASSUME NEW handle, NEW next
    PROVE  flap_send(handle, next) \subseteq {next, "crashed", "killed", "hung"}
BY DEF flap_send

-----------------------------------------------------------------------------
(* Kinds of steps.                                                         *)

\* The invariant holds at the start.
LEMMA InitInv == Init => IInv
<1> SUFFICES ASSUME Init PROVE IInv
  OBVIOUS
<1>1. Freed \in Handle
  BY DEF Freed, Handle
<1>2. <<>> \in Seq(Ids)
  OBVIOUS
<1>3. TypeOK
  BY <1>1, <1>2 DEF Init, TypeOK, Places
<1>4. NobodyAt
  BY DEF Init, NobodyAt, Nobody, Alive, Freed
<1>5. Marks /\ ShownSession
  BY DEF Init, Marks, ShownSession, Freed
<1> QED BY <1>3, <1>4, <1>5 DEF IInv, Shape

\* Steps that only move the program's thread: within the loop, or to its end.
LEMMA PcOnly ==
    ASSUME IInv, UNCHANGED <<lists, h, shownBy>>,
           pc' \in Final \/ pc' = pc \/ (pc \in Loop /\ pc' \in Loop)
    PROVE  IInv'
<1>0. UNCHANGED <<handles, clist, conn, nodes_to_delete, h, shownBy>>
  BY DEF lists
<1>1. TypeOK'
  <2>1. pc' \in Places
    BY DEF IInv, TypeOK, Places, Loop
  <2> QED BY <1>0, <2>1 DEF IInv, TypeOK
<1>2. Marks' /\ ShownSession'
  BY <1>0 DEF IInv, Marks, ShownSession
<1>3. Shape'
  <2>1. CASE NobodyAt
    <3>1. NobodyAt'
      BY <1>0, <2>1 DEF NobodyAt, Nobody, Alive, Loop, Final, Held, Stopped
    <3> QED BY <3>1 DEF Shape
  <2>2. ASSUME NEW a \in Ids, SoleAt(a) PROVE Shape'
    <3>1. SoleAt(a)'
      BY <1>0, <2>2 DEF SoleAt, Sole, Alive, Loop, Final, Held, Stopped
    <3> QED BY <3>1 DEF Shape
  <2>3. ASSUME NEW a \in Ids, LeavingAt(a) PROVE Shape'
    <3>1. LeavingAt(a)'
      BY <1>0, <2>3 DEF LeavingAt, Leaving, Alive, Loop, Final, Held, Stopped
    <3> QED BY <3>1 DEF Shape
  <2>4. ASSUME NEW a \in Ids, NEW b \in Ids, ReplacedAt(a, b) PROVE Shape'
    <3>1. ReplacedAt(a, b)'
      BY <1>0, <2>4 DEF ReplacedAt, Replaced, Alive, Loop, Final, Held, Stopped
    <3> QED BY <3>1 DEF Shape
  <2> QED BY <2>1, <2>2, <2>3, <2>4 DEF IInv, Shape
<1> QED BY <1>1, <1>2, <1>3 DEF IInv

\* In the loop there is nobody, or one handle that everything points to.
LEMMA InLoop ==
    ASSUME IInv, pc \in Loop
    PROVE  NobodyAt \/ \E a \in Ids : SoleAt(a) /\ conn = a
BY DEF IInv, Shape, SoleAt, LeavingAt, ReplacedAt, Loop, Final, Held, Stopped

\* The handle that is trimmed is that handle, and is found.
LEMMA HandleDeletedHead ==
    ASSUME IInv, handle_deleted
    PROVE  \E a \in Ids : /\ SoleAt(a) /\ conn = a /\ h[a].to_delete
                          /\ clist' = <<>> /\ conn' = NULL /\ shownBy' = NULL
                          /\ pc' = IF auto_reconnect THEN "sleep" ELSE "unlink"
                          /\ UNCHANGED <<handles, h, nodes_to_delete>>
<1>1. pc \in Loop /\ handles # <<>>
  BY DEF handle_deleted, Loop
<1>2. PICK a \in Ids : SoleAt(a) /\ conn = a
  BY <1>1, InLoop DEF NobodyAt, Nobody
<1>3. /\ Head(handles) = a /\ Head(clist) = a /\ Tail(clist) = <<>>
      /\ clist # <<>>
  BY <1>2, ShortLists DEF SoleAt, Sole
<1>4. /\ h[a].to_delete /\ clist' = <<>> /\ conn' = NULL /\ shownBy' = NULL
      /\ UNCHANGED <<handles, h, nodes_to_delete>>
  BY <1>3 DEF handle_deleted
<1>5. pc' = IF auto_reconnect THEN "sleep" ELSE "unlink"
  BY <1>3 DEF handle_deleted
<1> QED BY <1>2, <1>4, <1>5

\* What is polled is that handle.
LEMMA Polled ==
    ASSUME IInv, NEW id \in Ids, Readable(id)
    PROVE  /\ handles = <<id>> /\ clist = <<id>> /\ conn = id /\ Alive({id})
           /\ ~h[id].to_delete
<1>1. id \in Range(handles) /\ pc \in Loop /\ h[id].socket # "closed"
  BY DEF Readable, Loop
<1>2. ~NobodyAt
  BY <1>1, ShortRanges DEF NobodyAt, Nobody
<1>3. PICK a \in Ids : SoleAt(a) /\ conn = a
  BY <1>1, <1>2, InLoop
<1>4. id = a
  BY <1>1, <1>3, ShortRanges DEF SoleAt, Sole
<1> QED BY <1>1, <1>3, <1>4 DEF SoleAt, Sole, IInv, Marks

\* A packet or a failure changes the one handle there is.
LEMMA HandleOnly ==
    ASSUME IInv, NEW id \in Ids, Readable(id), NEW new \in Handle,
           new.alive, h' = [h EXCEPT ![id] = new],
           UNCHANGED <<handles, clist, conn>>,
           nodes_to_delete' \in BOOLEAN, nodes_to_delete => nodes_to_delete',
           new.to_delete => nodes_to_delete' /\ new.socket = "closed",
           \/ pc' \in Loop \cup Final
           \/ pc' = "dial" /\ ~new.to_delete /\ new.stage = "bos",
           shownBy' \in {NULL, id}, shownBy' = id => new.stage = "online"
    PROVE  IInv'
<1>1. /\ handles = <<id>> /\ clist = <<id>> /\ conn = id /\ Alive({id})
  BY Polled
<1>2. h' \in [Ids -> Handle] /\ h'[id] = new
  BY DEF IInv, TypeOK
<1>3. \A i \in Ids : i # id => h'[i] = h[i]
  BY DEF IInv, TypeOK
<1>4. TypeOK'
  <2>1. pc' \in Places
    BY DEF Places, Loop
  <2> QED BY <1>2, <2>1 DEF IInv, TypeOK
<1>5. Marks'
  BY <1>2, <1>3 DEF IInv, Marks
<1>6. ShownSession'
  BY <1>1, <1>2 DEF ShownSession
<1>7. SoleAt(id)'
  <2>1. Alive({id})'
    BY <1>1, <1>2, <1>3 DEF Alive
  <2> QED BY <1>1, <1>2, <2>1 DEF SoleAt, Sole
<1> QED BY <1>4, <1>5, <1>6, <1>7 DEF IInv, Shape

-----------------------------------------------------------------------------
(* Making and freeing handles.                                             *)

\* A new handle is alive, unmarked and about to sign on.
LEMMA Created ==
    /\ imcomm_create_handle \in Handle
    /\ imcomm_create_handle.alive /\ ~imcomm_create_handle.to_delete
    /\ imcomm_create_handle.stage = "auth"
    /\ Freed \in Handle /\ ~Freed.alive /\ ~Freed.to_delete
BY DEF imcomm_create_handle, Freed, Handle

\* Where nothing is left, a new handle is the only one.
LEMMA CreateSole ==
    ASSUME IInv, NEW g \in [Ids -> Handle],
           \A i \in Ids : ~g[i].alive /\ ~g[i].to_delete,
           create_new_connection(<<>>, <<>>, g),
           conn' = NULL, shownBy' = NULL, UNCHANGED nodes_to_delete
    PROVE  IInv'
<1>1. PICK a \in Ids : /\ handles' = Append(<<>>, a) /\ clist' = Append(<<>>, a)
                       /\ h' = [g EXCEPT ![a] = imcomm_create_handle]
                       /\ pc' = "dial"
  BY DEF create_new_connection
<1>2. handles' = <<a>> /\ clist' = <<a>> /\ <<a>> \in Seq(Ids)
  BY <1>1, ShortLists
<1>3. /\ h' \in [Ids -> Handle] /\ h'[a] = imcomm_create_handle
      /\ \A i \in Ids : i # a => h'[i] = g[i]
  BY <1>1, Created
<1>4. TypeOK'
  BY <1>1, <1>2, <1>3 DEF IInv, TypeOK, Places
<1>5. Marks' /\ ShownSession'
  BY <1>3, Created DEF Marks, ShownSession
<1>6. Alive({a})'
  BY <1>3, Created DEF Alive
<1>7. SoleAt(a)'
  BY <1>1, <1>2, <1>3, <1>6, Created DEF SoleAt, Sole
<1> QED BY <1>4, <1>5, <1>7 DEF IInv, Shape

\* While a handle is leaving, a new one is its successor.
LEMMA CreateSuccessor ==
    ASSUME IInv, NEW a \in Ids, LeavingAt(a), handle_deleted_wakes
    PROVE  IInv'
<1>0. /\ handles = <<a>> /\ clist = <<>> /\ conn = NULL /\ h[a].to_delete
      /\ Alive({a})
  BY DEF LeavingAt, Leaving
<1>1. PICK b \in Ids : /\ ~h[b].alive
                       /\ handles' = Append(handles, b) /\ clist' = Append(clist, b)
                       /\ h' = [h EXCEPT ![b] = imcomm_create_handle]
                       /\ pc' = "dial"
  BY DEF handle_deleted_wakes, create_new_connection
<1>2. UNCHANGED <<conn, nodes_to_delete, shownBy>>
  BY DEF handle_deleted_wakes
<1>3. /\ handles' = <<a, b>> /\ clist' = <<b>>
      /\ <<a, b>> \in Seq(Ids) /\ <<b>> \in Seq(Ids)
  BY <1>0, <1>1, ShortLists
<1>4. a # b
  BY <1>0, <1>1 DEF Alive
<1>5. /\ h' \in [Ids -> Handle] /\ h'[b] = imcomm_create_handle
      /\ \A i \in Ids : i # b => h'[i] = h[i]
  BY <1>1, Created DEF IInv, TypeOK
<1>6. TypeOK'
  BY <1>1, <1>2, <1>3, <1>5 DEF IInv, TypeOK, Places
<1>7. Marks'
  BY <1>2, <1>5, Created DEF IInv, Marks
<1>8. ShownSession'
  BY <1>0, <1>2 DEF IInv, ShownSession, TypeOK
<1>9. Alive({a, b})'
  BY <1>0, <1>5, Created DEF Alive
<1>10. ReplacedAt(a, b)'
  BY <1>0, <1>1, <1>2, <1>3, <1>4, <1>5, <1>9, Created DEF ReplacedAt, Replaced
<1> QED BY <1>6, <1>7, <1>8, <1>10 DEF IInv, Shape

\* The callback of a marked handle takes it off the program's list.
LEMMA HandleDeletedInv == ASSUME IInv, handle_deleted PROVE IInv'
<1>1. PICK a \in Ids :
        /\ SoleAt(a) /\ h[a].to_delete /\ shownBy' = NULL /\ conn' = NULL
        /\ clist' = <<>> /\ pc' \in {"sleep", "unlink"}
        /\ UNCHANGED <<handles, h, nodes_to_delete>>
  BY HandleDeletedHead
<1>3. handles = <<a>> /\ clist = <<a>> /\ Alive({a})
  BY <1>1 DEF SoleAt, Sole
<1>5. /\ h[a].to_delete /\ shownBy' = NULL /\ conn' = NULL
      /\ clist' = <<>> /\ pc' \in {"sleep", "unlink"}
      /\ UNCHANGED <<handles, h, nodes_to_delete>>
  BY <1>1
<1>6. TypeOK'
  BY <1>5 DEF IInv, TypeOK, Places
<1>7. Marks' /\ ShownSession'
  BY <1>5 DEF IInv, Marks, ShownSession
<1>8. LeavingAt(a)'
  BY <1>3, <1>5 DEF LeavingAt, Leaving, Alive
<1> QED BY <1>6, <1>7, <1>8 DEF IInv, Shape

\* Unlinking the head leaves nobody, or its successor.
LEMMA UnlinkInv == ASSUME IInv, unlink_head PROVE IInv'
<1>0. pc = "unlink" /\ pc' = "trim" /\ UNCHANGED <<clist, conn, nodes_to_delete, shownBy>>
  BY DEF unlink_head
<1>1. PICK a \in Ids : LeavingAt(a) \/ \E b \in Ids : ReplacedAt(a, b)
  BY <1>0 DEF IInv, Shape, NobodyAt, SoleAt, Loop, Final, Held, Stopped
<1>2. Head(handles) = a
  <2>1. ASSUME NEW b \in Ids, ReplacedAt(a, b) PROVE Head(handles) = a
    <3>1. handles = <<a, b>>
      BY <2>1 DEF ReplacedAt, Replaced
    <3> QED BY <3>1, ShortLists
  <2>2. CASE LeavingAt(a)
    BY <2>2, ShortLists DEF LeavingAt, Leaving
  <2> QED BY <1>1, <2>1, <2>2
<1>3. handles' = Tail(handles) /\ h' = [h EXCEPT ![a] = Freed]
  BY <1>2 DEF unlink_head
<1>4. /\ h' \in [Ids -> Handle] /\ h'[a] = Freed
      /\ \A i \in Ids : i # a => h'[i] = h[i]
  BY <1>3, Created DEF IInv, TypeOK
<1>5. Marks'
  BY <1>0, <1>4, Created DEF IInv, Marks
<1>6. CASE LeavingAt(a)
  <2>1. handles' = <<>> /\ <<>> \in Seq(Ids) /\ clist' = <<>> /\ conn' = NULL
    BY <1>0, <1>3, <1>6, ShortLists DEF LeavingAt, Leaving
  <2>2. Alive({})'
    BY <1>4, <1>6, Created DEF LeavingAt, Alive
  <2>3. NobodyAt'
    BY <1>0, <2>1, <2>2 DEF NobodyAt, Nobody, Loop
  <2>4. TypeOK'
    BY <1>0, <1>4, <2>1 DEF IInv, TypeOK, Places
  <2>5. ShownSession'
    BY <1>0, <1>6, <2>1 DEF IInv, TypeOK, ShownSession, LeavingAt, Leaving
  <2> QED BY <1>5, <2>3, <2>4, <2>5 DEF IInv, Shape
<1>7. ASSUME NEW b \in Ids, ReplacedAt(a, b) PROVE IInv'
  <2>1. /\ handles' = <<b>> /\ <<b>> \in Seq(Ids) /\ clist' = <<b>>
        /\ conn' = b /\ conn = b
    BY <1>0, <1>3, <1>7, ShortLists DEF ReplacedAt, Replaced, Final, Held, Stopped
  <2>2. Alive({b})' /\ a # b
    BY <1>4, <1>7, Created DEF ReplacedAt, Replaced, Alive
  <2>3. SoleAt(b)'
    BY <1>0, <2>1, <2>2 DEF SoleAt, Sole, Loop
  <2>4. TypeOK'
    BY <1>0, <1>4, <2>1 DEF IInv, TypeOK, Places
  <2>5. ShownSession'
    BY <1>0, <1>4, <2>1, <2>2 DEF IInv, ShownSession
  <2> QED BY <1>5, <2>3, <2>4, <2>5 DEF IInv, Shape
<1> QED BY <1>1, <1>6, <1>7

\* The trimming stops at a head that is not marked; it never meets a second
\* handle there.
LEMMA TrimDoneInv ==
    ASSUME IInv, trim_done
    PROVE  /\ IInv' /\ Len(handles) <= 1
           /\ \A id \in Ids : ~h[id].to_delete
<1>0. /\ pc = "trim" /\ pc \in Loop
      /\ UNCHANGED <<handles, h, clist, conn, shownBy>>
      /\ handles # <<>> => ~h[Head(handles)].to_delete
  BY DEF trim_done, Loop
<1>1. NobodyAt \/ \E a \in Ids : SoleAt(a) /\ conn = a
  BY <1>0, InLoop
<1>2. /\ Len(handles) <= 1
      /\ \A id \in Ids : h[id].alive => ~h[id].to_delete
  <2>1. CASE NobodyAt
    BY <2>1, ShortLists DEF NobodyAt, Nobody, Alive
  <2>2. ASSUME NEW a \in Ids, SoleAt(a) PROVE <1>2
    <3>1. handles = <<a>> /\ Head(handles) = a /\ handles # <<>> /\ Len(handles) = 1
      BY <2>2, ShortLists DEF SoleAt, Sole
    <3> QED BY <1>0, <2>2, <3>1 DEF SoleAt, Alive
  <2> QED BY <1>1, <2>1, <2>2
<1>3. \A id \in Ids : ~h[id].to_delete
  BY <1>2 DEF IInv, Marks
<1>4. nodes_to_delete' = FALSE /\ pc' = "fdset"
  BY <1>2 DEF trim_done
<1>5. TypeOK'
  BY <1>0, <1>4 DEF IInv, TypeOK, Places
<1>6. Marks' /\ ShownSession'
  BY <1>0, <1>3 DEF IInv, Marks, ShownSession
<1>7. Shape'
  <2>1. CASE NobodyAt
    <3>1. NobodyAt'
      BY <1>0, <1>4, <2>1 DEF NobodyAt, Nobody, Alive, Loop
    <3> QED BY <3>1 DEF Shape
  <2>2. ASSUME NEW a \in Ids, SoleAt(a), conn = a PROVE Shape'
    <3>1. SoleAt(a)'
      BY <1>0, <1>4, <2>2 DEF SoleAt, Sole, Alive, Loop
    <3> QED BY <3>1 DEF Shape
  <2> QED BY <1>1, <2>1, <2>2
<1> QED BY <1>2, <1>3, <1>5, <1>6, <1>7 DEF IInv

-----------------------------------------------------------------------------
(* The other steps.                                                        *)

\* Connecting, with any outcome.
LEMMA ConnectInv ==
    ASSUME IInv, NEW outcome \in ConnectOutcomes, connect_ssl(outcome)
    PROVE  IInv'
<1> DEFINE id   == Head(clist)
           new  == CASE outcome = "ok" -> [h[id] EXCEPT !.socket = "open", !.ssl = "live"]
                     [] outcome = "refused" -> [h[id] EXCEPT !.socket = "unconnected"]
                     [] outcome = "nosock" -> [h[id] EXCEPT !.socket = "closed"]
                     [] outcome = "handshake" -> [h[id] EXCEPT !.socket = "open"]
           next == IF h[id].stage = "bos" THEN "keys"
                   ELSE IF Len(handles) > 1 THEN "unlink" ELSE "select"
<1>0. /\ pc = "dial"
      /\ h' = [h EXCEPT ![id] = new]
      /\ conn' = IF h[id].stage = "auth" THEN id ELSE conn
      /\ pc' \in IF outcome = "handshake" THEN {"crashed"} ELSE flap_send(new, next)
      /\ UNCHANGED <<handles, clist, nodes_to_delete, shownBy>>
  BY DEF connect_ssl
<1>1. pc' \in {next} \cup Final
  <2>1. flap_send(new, next) \subseteq {next, "crashed", "killed", "hung"}
    BY Sending
  <2> HIDE DEF new, next
  <2> QED BY <1>0, <2>1 DEF Final, Held, Stopped
<1>2. ASSUME NEW a \in Ids, id = a
      PROVE  /\ new \in Handle /\ new.alive = h[a].alive
             /\ new.to_delete = h[a].to_delete /\ new.stage = h[a].stage
  <2>1. h[a] \in Handle
    BY DEF IInv, TypeOK
  <2>2. outcome \in {"ok", "refused", "nosock", "handshake"}
    BY OutcomesAssumption
  <2>3. CASE outcome = "ok"
    BY <1>2, <2>1, <2>3 DEF Handle
  <2>4. CASE outcome = "refused"
    BY <1>2, <2>1, <2>4 DEF Handle
  <2>5. CASE outcome = "nosock"
    BY <1>2, <2>1, <2>5 DEF Handle
  <2>6. CASE outcome = "handshake"
    BY <1>2, <2>1, <2>6 DEF Handle
  <2> QED BY <2>2, <2>3, <2>4, <2>5, <2>6
<1> HIDE DEF id, new
<1>3. ASSUME NEW a \in Ids, id = a
      PROVE  /\ h' \in [Ids -> Handle]
             /\ h'[a].alive = h[a].alive /\ h'[a].to_delete = h[a].to_delete
             /\ h'[a].stage = h[a].stage
             /\ \A i \in Ids : i # a => h'[i] = h[i]
  BY <1>0, <1>2, <1>3 DEF IInv, TypeOK
<1>4. pc' \in Places
  BY <1>1 DEF Places
<1>5. ASSUME NEW a \in Ids, SoleAt(a) PROVE IInv'
  <2>1. handles = <<a>> /\ clist = <<a>> /\ id = a /\ Alive({a})
    BY <1>5, ShortLists DEF SoleAt, Sole, id
  <2>2. /\ ~h[a].to_delete
        /\ \/ h[a].stage = "auth" /\ conn = NULL
           \/ h[a].stage = "bos" /\ conn = a
    BY <1>0, <1>5 DEF SoleAt, Loop, Final, Held, Stopped
  <2>3. conn' = a
    BY <1>0, <2>1, <2>2
  <2>4. next \in {"keys", "select"}
    BY <2>1, <2>2, ShortLists
  <2>5. TypeOK'
    BY <1>0, <1>3, <1>4, <2>1, <2>3 DEF IInv, TypeOK
  <2>6. Alive({a})'
    BY <1>3, <2>1 DEF Alive
  <2>7. SoleAt(a)'
    BY <1>0, <1>1, <2>1, <2>3, <2>4, <2>6 DEF SoleAt, Sole, Loop, Final, Held, Stopped
  <2>8. Marks'
    <3>1. \A i \in Ids : i # a => ~h[i].to_delete
      BY <2>1 DEF IInv, Marks, Alive
    <3> QED BY <1>3, <2>1, <2>2, <3>1 DEF Marks
  <2>9. ShownSession'
    BY <1>0, <2>2 DEF IInv, ShownSession
  <2> QED BY <2>5, <2>7, <2>8, <2>9 DEF IInv, Shape
<1>6. ASSUME NEW a \in Ids, NEW b \in Ids, ReplacedAt(a, b) PROVE IInv'
  <2>1. /\ handles = <<a, b>> /\ clist = <<b>> /\ a # b /\ Alive({a, b})
        /\ h[a].to_delete /\ ~h[b].to_delete /\ h[b].stage = "auth" /\ conn = NULL
    BY <1>0, <1>6 DEF ReplacedAt, Replaced, Final, Held, Stopped
  <2>2. id = b /\ Len(handles) = 2
    BY <2>1, ShortLists DEF id
  <2>3. conn' = b /\ next = "unlink"
    BY <1>0, <2>1, <2>2
  <2>4. TypeOK'
    BY <1>0, <1>3, <1>4, <2>2, <2>3 DEF IInv, TypeOK
  <2>5. Alive({a, b})'
    BY <1>3, <2>1, <2>2 DEF Alive
  <2>6. ReplacedAt(a, b)'
    BY <1>0, <1>1, <1>3, <2>1, <2>2, <2>3, <2>5 DEF ReplacedAt, Replaced
  <2>7. Marks'
    BY <1>0, <1>3, <2>1, <2>2 DEF IInv, Marks
  <2>8. ShownSession'
    BY <1>0, <2>1, NullAssumption DEF IInv, ShownSession, TypeOK
  <2> QED BY <2>4, <2>6, <2>7, <2>8 DEF IInv, Shape
<1> QED BY <1>0, <1>5, <1>6
        DEF IInv, Shape, NobodyAt, LeavingAt, Loop, Final, Held, Stopped

\* R!, with or without a connection.
LEMMA ReconnectInv == ASSUME IInv, input_reconnect PROVE IInv'
<1>0. pc = "keys" /\ pc \in Loop /\ conn' = NULL /\ UNCHANGED nodes_to_delete
  BY DEF input_reconnect, Loop
<1>1. CASE NobodyAt
  <2>1. conn = NULL /\ handles = <<>> /\ clist = <<>>
    BY <1>1 DEF NobodyAt, Nobody
  <2>2. create_new_connection(<<>>, <<>>, h) /\ shownBy' = shownBy
    BY <2>1 DEF input_reconnect
  <2>3. shownBy = NULL
    BY <2>1 DEF IInv, ShownSession
  <2>4. \A i \in Ids : ~h[i].alive /\ ~h[i].to_delete
    BY <1>1 DEF NobodyAt, Alive, IInv, Marks
  <2> QED BY <1>0, <2>2, <2>3, <2>4, CreateSole DEF IInv, TypeOK
<1>2. ASSUME NEW a \in Ids, SoleAt(a), conn = a PROVE IInv'
  <2> DEFINE g == [h EXCEPT ![a] = Freed]
  <2>1. /\ Head(handles) = a /\ Tail(handles) = <<>> /\ Tail(clist) = <<>>
        /\ Alive({a}) /\ conn # NULL
    BY <1>2, ShortLists, NullAssumption DEF SoleAt, Sole
  <2>2. create_new_connection(<<>>, <<>>, g) /\ shownBy' = NULL
    BY <1>2, <2>1 DEF input_reconnect, imcomm_delete_handle_now
  <2>3. g \in [Ids -> Handle]
    BY Created DEF IInv, TypeOK
  <2>4. \A i \in Ids : ~g[i].alive /\ ~g[i].to_delete
    <3>1. \A i \in Ids : i # a => ~h[i].alive /\ ~h[i].to_delete
      BY <2>1 DEF Alive, IInv, Marks
    <3>2. \A i \in Ids : g[i] = IF i = a THEN Freed ELSE h[i]
      BY DEF IInv, TypeOK
    <3> QED BY <3>1, <3>2, Created
  <2> HIDE DEF g
  <2> QED BY <1>0, <2>2, <2>3, <2>4, CreateSole
<1> QED BY <1>0, <1>1, <1>2, InLoop

\* What a packet finds.
LEMMA PacketFacts ==
    ASSUME IInv, NEW id \in Ids, Readable(id)
    PROVE  /\ h[id] \in Handle /\ h[id].alive /\ pc = "poll" /\ pc \in Loop
           /\ conn = id /\ shownBy \in {NULL, id}
           /\ shownBy = id => h[id].stage = "online"
<1>1. conn = id /\ Alive({id})
  BY Polled
<1>2. h[id] \in Handle /\ h[id].alive
  BY <1>1 DEF IInv, TypeOK, Alive
<1>3. shownBy \in {NULL, id} /\ (shownBy = id => h[id].stage = "online")
  BY <1>1, NullAssumption DEF IInv, ShownSession
<1> QED BY <1>1, <1>2, <1>3 DEF Readable, Loop

\* Packets and failures.
LEMMA PacketInv ==
    ASSUME IInv, NEW id \in Ids,
           \/ bos_signon_phase2(id) \/ multi_ssiact_cliready(id)
           \/ snac_get_signon(id) \/ ClosedByServer(id)
           \/ Disconnected(id) \/ EndOfStream(id) \/ flap_hangs(id)
    PROVE  IInv'
<1>0. Readable(id)
  BY DEF bos_signon_phase2, multi_ssiact_cliready, snac_get_signon,
         ClosedByServer, Disconnected, EndOfStream, flap_hangs, Packet
<1>1. /\ h[id] \in Handle /\ h[id].alive /\ pc = "poll" /\ pc \in Loop
      /\ conn = id /\ shownBy \in {NULL, id}
      /\ shownBy = id => h[id].stage = "online"
      /\ ~h[id].to_delete /\ nodes_to_delete \in BOOLEAN
  BY <1>0, PacketFacts, Polled DEF IInv, TypeOK
<1>2. CASE bos_signon_phase2(id)
  <2> DEFINE new == [h[id] EXCEPT !.ssl = "freed", !.stage = "bos"]
  <2>1. /\ h' = [h EXCEPT ![id] = new] /\ pc' = "dial" /\ h[id].stage = "auth"
        /\ UNCHANGED <<handles, clist, conn, nodes_to_delete, shownBy>>
    BY <1>2 DEF bos_signon_phase2, lists
  <2>2. /\ new \in Handle /\ new.alive /\ ~new.to_delete /\ new.stage = "bos"
    BY <1>1 DEF Handle
  <2>3. shownBy' = NULL
    BY <1>1, <2>1
  <2>4. shownBy' = id => new.stage = "online"
    BY <2>3, NullAssumption
  <2> HIDE DEF new
  <2> QED BY <1>0, <1>1, <2>1, <2>2, <2>3, <2>4, HandleOnly
<1>3. CASE multi_ssiact_cliready(id)
  <2> DEFINE new == [h[id] EXCEPT !.stage = "online"]
  <2>1. /\ h' = [h EXCEPT ![id] = new] /\ pc' \in Loop
        /\ UNCHANGED <<handles, clist, conn, nodes_to_delete, shownBy>>
    BY <1>3 DEF multi_ssiact_cliready, lists, Loop
  <2>2. /\ new \in Handle /\ new.alive /\ ~new.to_delete /\ new.stage = "online"
    BY <1>1 DEF Handle
  <2> HIDE DEF new
  <2> QED BY <1>0, <1>1, <2>1, <2>2, HandleOnly
<1>4. CASE snac_get_signon(id)
  <2>1. /\ h' = h /\ pc' \in Loop \cup Final
        /\ shownBy' = id /\ h[id].stage = "online"
        /\ UNCHANGED <<handles, clist, conn, nodes_to_delete>>
    BY <1>4 DEF snac_get_signon, lists, Loop, Final, Stopped
  <2>2. h' = [h EXCEPT ![id] = h[id]]
    BY <2>1 DEF IInv, TypeOK
  <2> QED BY <1>0, <1>1, <2>1, <2>2, HandleOnly
<1>5. CASE ClosedByServer(id)
  <2> DEFINE new == [h[id] EXCEPT !.socket = "closed"]
  <2>1. /\ h' = [h EXCEPT ![id] = new]
        /\ pc' \in {"keys"} \cup flap_send(new, "keys")
        /\ UNCHANGED <<handles, clist, conn, nodes_to_delete, shownBy>>
    BY <1>5 DEF ClosedByServer, lists
  <2>2. /\ new \in Handle /\ new.alive /\ ~new.to_delete
        /\ new.stage = h[id].stage
    BY <1>1 DEF Handle
  <2> HIDE DEF new
  <2>3. pc' \in Loop \cup Final
    BY <2>1, Sending DEF Loop, Final, Held, Stopped
  <2> QED BY <1>0, <1>1, <2>1, <2>2, <2>3, HandleOnly
<1>6. CASE Disconnected(id)
  <2> DEFINE new == [h[id] EXCEPT !.socket = "closed", !.to_delete = TRUE,
                               !.ssl = IF h[id].ssl = "live" THEN "shutdown" ELSE h[id].ssl]
  <2>1. /\ h' = [h EXCEPT ![id] = new]
        /\ nodes_to_delete' = TRUE
        /\ UNCHANGED <<handles, clist, conn, shownBy>>
    BY <1>6 DEF Disconnected
  <2>2. pc' \in Loop \cup Final
    BY <1>6 DEF Disconnected, Loop, Final, Held, Stopped
  <2>3. /\ new \in Handle /\ new.alive /\ new.socket = "closed"
        /\ new.stage = h[id].stage
    BY <1>1 DEF Handle
  <2> HIDE DEF new
  <2> QED BY <1>0, <1>1, <2>1, <2>2, <2>3, HandleOnly
<1>7. CASE EndOfStream(id) \/ flap_hangs(id)
  BY <1>7, PcOnly DEF EndOfStream, flap_hangs, Final, Held, Stopped
<1> QED BY <1>2, <1>3, <1>4, <1>5, <1>6, <1>7

\* Every step keeps the invariant.
LEMMA NextInv == IInv /\ [Next]_vars => IInv'
<1> SUFFICES ASSUME IInv, [Next]_vars PROVE IInv'
  OBVIOUS
<1>1. CASE main_start
  <2>1. NobodyAt
    BY <1>1 DEF main_start, IInv, Shape, SoleAt, LeavingAt, ReplacedAt, Loop, Final, Held, Stopped
  <2>2. handles = <<>> /\ clist = <<>> /\ conn = NULL
    BY <2>1 DEF NobodyAt, Nobody
  <2>3. /\ create_new_connection(<<>>, <<>>, h)
        /\ conn' = NULL /\ UNCHANGED <<nodes_to_delete, shownBy>>
    BY <1>1, <2>2 DEF main_start
  <2>4. shownBy' = NULL
    BY <2>2, <2>3 DEF IInv, ShownSession
  <2>5. \A i \in Ids : ~h[i].alive /\ ~h[i].to_delete
    BY <2>1 DEF NobodyAt, Alive, IInv, Marks
  <2> QED BY <2>3, <2>4, <2>5, CreateSole DEF IInv, TypeOK
<1>2. CASE \E outcome \in ConnectOutcomes : connect_ssl(outcome)
  BY <1>2, ConnectInv
<1>3. CASE imcomm_select
  BY <1>3, PcOnly DEF imcomm_select, Loop
<1>4. CASE handle_deleted
  BY <1>4, HandleDeletedInv
<1>5. CASE handle_deleted_wakes
  <2>1. PICK a \in Ids : LeavingAt(a)
    BY <1>5 DEF handle_deleted_wakes, IInv, Shape, NobodyAt, SoleAt, ReplacedAt,
                Loop, Final, Held, Stopped
  <2> QED BY <1>5, <2>1, CreateSuccessor
<1>6. CASE unlink_head
  BY <1>6, UnlinkInv
<1>7. CASE trim_done
  BY <1>7, TrimDoneInv
<1>8. CASE fd_set_handles
  <2>1. pc \in Loop /\ pc' \in Loop \cup Final /\ UNCHANGED <<lists, h, shownBy>>
    BY <1>8 DEF fd_set_handles, Loop, Final, Held, Stopped
  <2> QED BY <2>1, PcOnly
<1>9. CASE nothing_to_read
  <2>1. /\ pc \in Loop /\ UNCHANGED <<lists, h, shownBy>>
        /\ \/ pc' = "keys"
           \/ \E id \in Range(handles) : pc' \in flap_send(h[id], "keys")
    BY <1>9 DEF nothing_to_read, Loop
  <2>2. pc' \in Loop \cup Final
    BY <2>1, Sending DEF Loop, Final, Held, Stopped
  <2> QED BY <2>1, <2>2, PcOnly
<1>10. CASE \E id \in Ids : \/ bos_signon_phase2(id) \/ multi_ssiact_cliready(id)
                            \/ snac_get_signon(id) \/ ClosedByServer(id)
                            \/ Disconnected(id) \/ EndOfStream(id) \/ flap_hangs(id)
  BY <1>10, PacketInv
<1>11. CASE input_reconnect
  BY <1>11, ReconnectInv
<1>12. CASE input_quit \/ no_command \/ handshake_hangs
  BY <1>12, PcOnly DEF input_quit, no_command, handshake_hangs, Loop, Final, Held,
     Stopped
<1>13. CASE input_set_invisible
  <2>1. /\ pc \in Loop /\ UNCHANGED <<lists, h, shownBy>>
        /\ pc' \in IF conn = NULL THEN {"crashed"} ELSE flap_send(h[conn], "select")
    BY <1>13 DEF input_set_invisible, Loop
  <2>2. pc' \in Loop \cup Final
    BY <2>1, Sending DEF Loop, Final, Held, Stopped
  <2> QED BY <2>1, <2>2, PcOnly
<1>14. CASE input_reload_profile
  <2>1. /\ pc \in Loop /\ UNCHANGED <<lists, h, shownBy>>
        /\ pc' \in IF conn = NULL THEN {"select"} ELSE flap_send(h[conn], "select")
    BY <1>14 DEF input_reload_profile, Loop
  <2>2. pc' \in Loop \cup Final
    BY <2>1, Sending DEF Loop, Final, Held, Stopped
  <2> QED BY <2>1, <2>2, PcOnly
<1>15. CASE sigusr1_handler
  <2> DEFINE back == IF pc = "poll" THEN "select" ELSE pc
  <2>1. /\ UNCHANGED <<lists, h, shownBy>>
        /\ pc' \in IF clist = <<>> THEN {"crashed"} ELSE flap_send(h[Head(clist)], back)
    BY <1>15 DEF sigusr1_handler
  <2>2. back = pc \/ (pc \in Loop /\ back \in Loop)
    BY DEF Loop
  <2> HIDE DEF back
  <2>3. pc' \in {back} \cup Final
    BY <2>1, Sending DEF Final, Held, Stopped
  <2> QED BY <2>1, <2>2, <2>3, PcOnly
<1>16. CASE UNCHANGED vars
  <2>1. UNCHANGED <<lists, h, shownBy>> /\ pc' = pc
    BY <1>16 DEF vars, lists
  <2> QED BY <2>1, PcOnly
<1> QED
  BY <1>1, <1>2, <1>3, <1>4, <1>5, <1>6, <1>7, <1>8, <1>9, <1>10, <1>11,
     <1>12, <1>13, <1>14, <1>15, <1>16
  DEF Next, main, Select, parse_input

\* The invariant is inductive.
LEMMA Inductive == Spec => []IInv
<1>1. IInv /\ [Next]_vars => IInv'
  BY NextInv
<1> QED BY InitInv, <1>1, PTL DEF Spec

\* While a handle is dialled its socket is not closed: a new one, or one that
\* the authorizer has just sent on.
Dialling == \A a \in Ids : (pc = "dial" /\ clist = <<a>>) => h[a].socket # "closed"

\* Dialling is invariant as well.
LEMMA DiallingInv == IInv /\ Dialling /\ [Next]_vars => Dialling'
<1> SUFFICES ASSUME IInv, Dialling, [Next]_vars, pc' = "dial" PROVE Dialling'
  BY DEF Dialling
<1>1. ASSUME NEW hs, NEW cl, NEW g \in [Ids -> Handle],
             create_new_connection(hs, cl, g), cl = <<>>
      PROVE  Dialling'
  <2>1. PICK b \in Ids : /\ clist' = Append(<<>>, b)
                         /\ h' = [g EXCEPT ![b] = imcomm_create_handle]
    BY <1>1 DEF create_new_connection
  <2>2. clist' = <<b>> /\ h'[b].socket # "closed"
    BY <2>1, ShortLists DEF imcomm_create_handle, Freed
  <2> QED BY <2>2 DEF Dialling
<1>2. clist = <<>> => (main_start \/ handle_deleted_wakes => Dialling')
  BY <1>1 DEF main_start, handle_deleted_wakes, IInv, TypeOK
<1>3. main_start \/ handle_deleted_wakes => clist = <<>>
  BY DEF main_start, handle_deleted_wakes, IInv, Shape, NobodyAt, Nobody,
         SoleAt, LeavingAt, Leaving, ReplacedAt, Loop, Final, Held, Stopped
<1>4. CASE input_reconnect
  <2>1. PICK hs, cl, g : create_new_connection(hs, cl, g) /\ g \in [Ids -> Handle]
                         /\ cl = <<>>
    <3>1. pc \in Loop
      BY <1>4 DEF input_reconnect, Loop
    <3>2. NobodyAt \/ \E a \in Ids : SoleAt(a) /\ conn = a
      BY <3>1, InLoop
    <3>3. CASE NobodyAt
      <4>1. create_new_connection(handles, clist, h) /\ clist = <<>>
        BY <1>4, <3>3 DEF input_reconnect, NobodyAt, Nobody
      <4> QED BY <4>1 DEF IInv, TypeOK
    <3>4. ASSUME NEW a \in Ids, SoleAt(a), conn = a
          PROVE  \E hs, cl, g : /\ create_new_connection(hs, cl, g)
                                /\ g \in [Ids -> Handle] /\ cl = <<>>
      <4>1. clist = <<a>> /\ Tail(clist) = <<>> /\ conn # NULL
        BY <3>4, ShortLists, NullAssumption DEF SoleAt, Sole
      <4>2. PICK hs : create_new_connection(hs, <<>>, [h EXCEPT ![a] = Freed])
        BY <1>4, <3>4, <4>1 DEF input_reconnect, imcomm_delete_handle_now
      <4>3. [h EXCEPT ![a] = Freed] \in [Ids -> Handle]
        BY Created DEF IInv, TypeOK
      <4> QED BY <4>2, <4>3
    <3> QED BY <3>2, <3>3, <3>4
  <2> QED BY <2>1, <1>1
<1>5. ASSUME NEW id \in Ids, bos_signon_phase2(id) PROVE Dialling'
  <2>1. Readable(id) /\ clist' = clist
        /\ h' = [h EXCEPT ![id] = [h[id] EXCEPT !.ssl = "freed", !.stage = "bos"]]
    BY <1>5 DEF bos_signon_phase2, Packet, lists
  <2>2. clist = <<id>>
    BY <2>1, Polled
  <2>3. h[id] \in Handle /\ h[id].socket # "closed"
    BY <2>1 DEF Readable, IInv, TypeOK
  <2>4. h'[id].socket = h[id].socket
    BY <2>1, <2>3 DEF Handle, IInv, TypeOK
  <2> QED BY <2>1, <2>2, <2>3, <2>4, ShortLists DEF Dialling
<1>6. ASSUME UNCHANGED <<clist, h>>, pc = "dial" PROVE Dialling'
  BY <1>6 DEF Dialling
<1>7. CASE sigusr1_handler
  <2>1. UNCHANGED <<clist, h>>
    BY <1>7 DEF sigusr1_handler, lists
  <2>2. pc' \in {IF pc = "poll" THEN "select" ELSE pc} \cup {"crashed", "killed", "hung"}
    BY <1>7, Sending DEF sigusr1_handler
  <2> QED BY <1>6, <2>1, <2>2
<1>8. ASSUME NEW outcome \in ConnectOutcomes, connect_ssl(outcome) PROVE FALSE
  <2>1. PICK new, next : /\ pc' \in {"crashed"} \cup flap_send(new, next)
                         /\ next # "dial"
    BY <1>8 DEF connect_ssl
  <2> QED BY <2>1, Sending
<1>9. /\ ~nothing_to_read /\ ~input_set_invisible /\ ~input_reload_profile
      /\ \A id \in Ids : ~ClosedByServer(id)
  <2>1. \A handle : pc' \notin flap_send(handle, "keys")
                     /\ pc' \notin flap_send(handle, "select")
    BY Sending
  <2>2. ~nothing_to_read
    BY <2>1 DEF nothing_to_read
  <2>3. ~input_set_invisible
    BY <2>1 DEF input_set_invisible
  <2>4. ~input_reload_profile
    BY <2>1 DEF input_reload_profile
  <2>5. ASSUME NEW id \in Ids, ClosedByServer(id) PROVE FALSE
    <3>1. pc' \in {"keys"} \cup flap_send([h[id] EXCEPT !.socket = "closed"], "keys")
      BY <2>5 DEF ClosedByServer
    <3> QED BY <2>1, <3>1
  <2> QED BY <2>2, <2>3, <2>4, <2>5
<1>10. ~imcomm_select /\ ~handle_deleted /\ ~unlink_head /\ ~trim_done
       /\ ~fd_set_handles /\ ~input_quit /\ ~no_command /\ ~handshake_hangs
       /\ \A id \in Ids : /\ ~multi_ssiact_cliready(id) /\ ~snac_get_signon(id)
                          /\ ~Disconnected(id) /\ ~EndOfStream(id) /\ ~flap_hangs(id)
  BY DEF imcomm_select, handle_deleted, unlink_head, trim_done, fd_set_handles,
         input_quit, no_command, handshake_hangs, multi_ssiact_cliready,
         snac_get_signon, Disconnected, EndOfStream, flap_hangs
<1>11. CASE UNCHANGED vars
  BY <1>6, <1>11 DEF vars
<1> QED
  BY <1>2, <1>3, <1>4, <1>5, <1>7, <1>8, <1>9, <1>10, <1>11
  DEF Next, main, Select, parse_input

\* And it holds all the time.
LEMMA AlwaysDialling == Spec => []Dialling
<1>1. Init => Dialling
  BY DEF Init, Dialling
<1> QED BY <1>1, Inductive, DiallingInv, PTL DEF Spec

-----------------------------------------------------------------------------
(* The theorems.                                                           *)

\* The variables keep their types.
THEOREM TypeCorrect == Spec => []TypeOK
<1>1. IInv => TypeOK
  BY DEF IInv
<1> QED BY <1>1, Inductive, PTL

\* No list and no pointer outlives its handle, however sessions end and begin
\* (handle_deleted, imcomm_delete_handle_now).
THEOREM NothingDangles == Spec => []NoDangling
<1>1. IInv => NoDangling
  <2> SUFFICES ASSUME IInv PROVE NoDangling
    OBVIOUS
  <2>1. CASE NobodyAt
    <3>1. /\ IsInjective(handles) /\ Range(handles) = {} /\ Range(clist) = {}
          /\ conn = NULL
      BY <2>1, ShortRanges DEF NobodyAt, Nobody, IsInjective, Range
    <3> QED BY <2>1, <3>1 DEF NoDangling, NobodyAt, Alive
  <2>2. ASSUME NEW a \in Ids, SoleAt(a) PROVE NoDangling
    <3>1. /\ IsInjective(handles) /\ Range(handles) = {a} /\ Range(clist) = {a}
          /\ conn \in {NULL, a}
      BY <2>2, ShortRanges DEF SoleAt, Sole
    <3> QED BY <2>2, <3>1 DEF NoDangling, SoleAt, Alive
  <2>3. ASSUME NEW a \in Ids, LeavingAt(a) PROVE NoDangling
    <3>1. /\ IsInjective(handles) /\ Range(handles) = {a} /\ Range(clist) = {}
          /\ conn = NULL
      BY <2>3, ShortRanges DEF LeavingAt, Leaving
    <3> QED BY <2>3, <3>1 DEF NoDangling, LeavingAt, Alive
  <2>4. ASSUME NEW a \in Ids, NEW b \in Ids, ReplacedAt(a, b) PROVE NoDangling
    <3>1. /\ IsInjective(handles) /\ Range(handles) = {a, b} /\ Range(clist) = {b}
          /\ conn \in {NULL, b}
      BY <2>4, ShortRanges DEF ReplacedAt, Replaced
    <3> QED BY <2>4, <3>1 DEF NoDangling, ReplacedAt, Alive
  <2> QED BY <2>1, <2>2, <2>3, <2>4 DEF IInv, Shape
<1> QED BY <1>1, Inductive, PTL

\* A marked handle is never forgotten (imcomm_select, nodes_to_delete).
THEOREM MarksAlwaysSeen == Spec => []MarksAreSeen
<1>1. IInv => MarksAreSeen
  <2> SUFFICES ASSUME IInv, NEW id \in Range(handles), h[id].to_delete
               PROVE  nodes_to_delete
    BY DEF MarksAreSeen
  <2>1. id \in Ids
    BY DEF IInv, TypeOK, Range
  <2> QED BY <2>1 DEF IInv, Marks
<1> QED BY <1>1, Inductive, PTL

\* Where the loop stops there is at most one connection, and everything
\* points to it (create_new_connection, handle_deleted, input_reconnect).
THEOREM AtMostOneConnection == Spec => []OneConnection
<1>1. IInv => OneConnection
  <2> SUFFICES ASSUME IInv, pc \in {"select", "fdset", "poll", "keys"}
               PROVE  /\ Len(handles) <= 1
                      /\ clist = handles
                      /\ conn = IF handles = <<>> THEN NULL ELSE Head(handles)
    BY DEF OneConnection
  <2>1. CASE NobodyAt
    BY <2>1, ShortLists DEF NobodyAt, Nobody
  <2>2. ASSUME NEW a \in Ids, SoleAt(a), conn = a
        PROVE  /\ Len(handles) <= 1
               /\ clist = handles
               /\ conn = IF handles = <<>> THEN NULL ELSE Head(handles)
    <3>1. handles = <<a>> /\ clist = <<a>>
      BY <2>2 DEF SoleAt, Sole
    <3> QED BY <2>2, <3>1, ShortLists
  <2> QED BY <2>1, <2>2, InLoop DEF Loop
<1> QED BY <1>1, Inductive, PTL

\* The list of buddies is never one of a session that is gone
\* (delete_buddylist).
THEOREM ShownIsCurrent == Spec => []ShownSession
<1>1. IInv => ShownSession
  BY DEF IInv
<1> QED BY <1>1, Inductive, PTL

\* Where a handle is dialled, it is the one on the program's list.
LEMMA Dialled ==
    ASSUME IInv, Dialling, pc = "dial"
    PROVE  \E a \in Ids : clist = <<a>> /\ Head(clist) = a
                          /\ ~h[a].to_delete /\ h[a].socket # "closed"
<1>1. PICK a \in Ids : clist = <<a>> /\ ~h[a].to_delete
  BY DEF IInv, Shape, NobodyAt, SoleAt, Sole, LeavingAt, ReplacedAt, Replaced,
         Loop, Final, Held, Stopped
<1> QED BY <1>1, ShortLists DEF Dialling

\* What is unlinked is marked; the program's list does not hold it.
LEMMA Unlinked ==
    ASSUME IInv, unlink_head
    PROVE  \E a \in Ids :
             /\ Head(handles) = a /\ h[a].to_delete
             /\ clist = <<>> \/ \E b \in Ids : b # a /\ clist = <<b>>
<1>1. pc = "unlink"
  BY DEF unlink_head
<1>2. PICK a \in Ids : LeavingAt(a) \/ \E b \in Ids : ReplacedAt(a, b)
  BY <1>1 DEF IInv, Shape, NobodyAt, SoleAt, Loop, Final, Held, Stopped
<1>3. CASE LeavingAt(a)
  BY <1>3, ShortLists DEF LeavingAt, Leaving
<1>4. ASSUME NEW b \in Ids, ReplacedAt(a, b)
      PROVE  /\ Head(handles) = a /\ h[a].to_delete
             /\ \E c \in Ids : c # a /\ clist = <<c>>
  <2>1. handles = <<a, b>> /\ clist = <<b>> /\ a # b /\ h[a].to_delete
    BY <1>4 DEF ReplacedAt, Replaced
  <2> QED BY <2>1, ShortLists
<1> QED BY <1>2, <1>3, <1>4

\* A session that the server closed is touched by R! only: the program never
\* signs on again by itself (error_callback, imcomm_select).
THEOREM ClosedIsLeftAlone == Spec => ClosedStaysClosed
<1>1. IInv /\ Dialling /\ [Next]_vars =>
        [\A id \in Ids : Dead(id) => h'[id] = h[id] \/ input_reconnect]_vars
  <2> SUFFICES ASSUME IInv, Dialling, Next, NEW id \in Ids, Dead(id),
                      ~input_reconnect
               PROVE  h'[id] = h[id]
    OBVIOUS
  <2>0. /\ h \in [Ids -> Handle] /\ h[id].alive /\ ~h[id].to_delete
        /\ h[id].socket = "closed"
    BY DEF IInv, TypeOK, Dead
  <2>1. CASE main_start \/ handle_deleted_wakes
    <3>1. PICK b \in Ids : ~h[b].alive /\ h' = [h EXCEPT ![b] = imcomm_create_handle]
      BY <2>1 DEF main_start, handle_deleted_wakes, create_new_connection
    <3> QED BY <2>0, <3>1
  <2>2. ASSUME NEW outcome \in ConnectOutcomes, connect_ssl(outcome)
        PROVE  h'[id] = h[id]
    <3>1. PICK a \in Ids : Head(clist) = a /\ h[a].socket # "closed"
      BY <2>2, Dialled DEF connect_ssl
    <3>2. PICK new : h' = [h EXCEPT ![a] = new]
      BY <2>2, <3>1 DEF connect_ssl
    <3> QED BY <2>0, <3>1, <3>2
  <2>3. CASE unlink_head
    <3>1. PICK a \in Ids : h[a].to_delete /\ h' = [h EXCEPT ![a] = Freed]
      BY <2>3, Unlinked DEF unlink_head
    <3> QED BY <2>0, <3>1
  <2>4. ASSUME NEW i \in Ids,
               \/ bos_signon_phase2(i) \/ multi_ssiact_cliready(i)
               \/ snac_get_signon(i) \/ ClosedByServer(i)
               \/ Disconnected(i) \/ EndOfStream(i) \/ flap_hangs(i)
        PROVE  h'[id] = h[id]
    <3>1. i # id
      BY <2>0, <2>4 DEF bos_signon_phase2, multi_ssiact_cliready, snac_get_signon,
           ClosedByServer, Disconnected, EndOfStream, flap_hangs, Packet, Readable
    <3>2. h' = h \/ \E new : h' = [h EXCEPT ![i] = new]
      <4>1. bos_signon_phase2(i) => \E new : h' = [h EXCEPT ![i] = new]
        BY DEF bos_signon_phase2
      <4>2. multi_ssiact_cliready(i) => \E new : h' = [h EXCEPT ![i] = new]
        BY DEF multi_ssiact_cliready
      <4>3. ClosedByServer(i) => \E new : h' = [h EXCEPT ![i] = new]
        BY DEF ClosedByServer
      <4>4. Disconnected(i) => \E new : h' = [h EXCEPT ![i] = new]
        BY DEF Disconnected
      <4>5. snac_get_signon(i) \/ EndOfStream(i) \/ flap_hangs(i) => h' = h
        BY DEF snac_get_signon, EndOfStream, flap_hangs
      <4> QED BY <2>4, <4>1, <4>2, <4>3, <4>4, <4>5
    <3> QED BY <2>0, <3>1, <3>2
  <2>5. CASE \/ imcomm_select \/ handle_deleted \/ trim_done \/ fd_set_handles
             \/ nothing_to_read \/ input_quit \/ input_set_invisible
             \/ input_reload_profile \/ no_command \/ sigusr1_handler
             \/ handshake_hangs
    BY <2>5 DEF imcomm_select, handle_deleted, trim_done, fd_set_handles,
         nothing_to_read, input_quit, input_set_invisible,
         input_reload_profile, no_command, sigusr1_handler, handshake_hangs
  <2> QED BY <2>1, <2>2, <2>3, <2>4, <2>5 DEF Next, main, Select, parse_input
<1> QED BY <1>1, Inductive, AlwaysDialling, PTL DEF Spec, ClosedStaysClosed

-----------------------------------------------------------------------------
(* The refinement of the abstract connection.                              *)

\* The abstract connection of a list of one.
LEMMA LinkOf ==
    ASSUME NEW a \in Ids, clist = <<a>>
    PROVE  link = IF h[a].to_delete THEN "lost"
                  ELSE IF h[a].socket = "closed" THEN "dead" ELSE "up"
BY ShortLists DEF link

\* The same of the next state.
LEMMA NextLinkOf ==
    ASSUME NEW a \in Ids, clist' = <<a>>
    PROVE  link' = IF h'[a].to_delete THEN "lost"
                   ELSE IF h'[a].socket = "closed" THEN "dead" ELSE "up"
BY ShortLists DEF link

\* The stage of a list of one, now and in the next state.
LEMMA StageOf ==
    ASSUME NEW a \in Ids, clist = <<a>>
    PROVE  stage = IF link = "up" THEN h[a].stage ELSE link
BY ShortLists DEF stage

LEMMA NextStageOf ==
    ASSUME NEW a \in Ids, clist' = <<a>>
    PROVE  stage' = IF link' = "up" THEN h'[a].stage ELSE link'
BY ShortLists DEF stage

\* A new handle is a new sign-on.
LEMMA CreateStage ==
    ASSUME NEW hs, NEW g \in [Ids -> Handle], create_new_connection(hs, <<>>, g)
    PROVE  G!Dial
<1>1. PICK b \in Ids : /\ clist' = Append(<<>>, b)
                       /\ h' = [g EXCEPT ![b] = imcomm_create_handle]
  BY DEF create_new_connection
<1>2. clist' = <<b>> /\ h'[b] = imcomm_create_handle
  BY <1>1, ShortLists
<1>3. link' = "up"
  BY <1>2, NextLinkOf DEF imcomm_create_handle, Freed
<1>4. stage' = "auth"
  BY <1>2, <1>3, NextStageOf DEF imcomm_create_handle, Freed
<1> QED BY <1>4 DEF G!Dial

\* Every step is a step of a sign-on, or none.
LEMMA LoginStep == IInv /\ Dialling /\ [Next]_vars => [G!LoginNext]_stage
<1> SUFFICES ASSUME IInv, Dialling, [Next]_vars PROVE G!LoginNext \/ stage' = stage
  OBVIOUS
<1>0. h \in [Ids -> Handle]
  BY DEF IInv, TypeOK
<1>1. CASE main_start \/ handle_deleted_wakes
  <2>1. clist = <<>>
    BY <1>1 DEF main_start, handle_deleted_wakes, IInv, Shape, NobodyAt, Nobody,
         SoleAt, LeavingAt, Leaving, ReplacedAt, Loop, Final, Held, Stopped
  <2> QED BY <1>0, <1>1, <2>1, CreateStage DEF main_start, handle_deleted_wakes, G!LoginNext
<1>2. ASSUME NEW outcome \in ConnectOutcomes, connect_ssl(outcome)
      PROVE  G!LoginNext \/ stage' = stage
  <2>1. PICK a \in Ids : /\ clist = <<a>> /\ Head(clist) = a
                         /\ ~h[a].to_delete /\ h[a].socket # "closed"
    BY <1>2, Dialled DEF connect_ssl
  <2>2. clist' = <<a>>
    BY <1>2, <2>1 DEF connect_ssl
  <2>3. h'[a].to_delete = h[a].to_delete /\ h'[a].stage = h[a].stage
    <3>0. h[a] \in Handle
      BY <1>0
    <3>1. outcome \in {"ok", "refused", "nosock", "handshake"}
      BY OutcomesAssumption
    <3>2. CASE outcome = "ok"
      BY <1>0, <1>2, <2>1, <3>0, <3>2 DEF connect_ssl, Handle
    <3>3. CASE outcome = "refused"
      BY <1>0, <1>2, <2>1, <3>0, <3>3 DEF connect_ssl, Handle
    <3>4. CASE outcome = "nosock"
      BY <1>0, <1>2, <2>1, <3>0, <3>4 DEF connect_ssl, Handle
    <3>5. CASE outcome = "handshake"
      BY <1>0, <1>2, <2>1, <3>0, <3>5 DEF connect_ssl, Handle
    <3> QED BY <3>1, <3>2, <3>3, <3>4, <3>5
  <2>4. stage = h[a].stage
    BY <2>1, LinkOf, StageOf
  <2>5. h[a].stage \in G!Live
    BY <1>0, <2>1 DEF Handle, G!Live
  <2>6. link' \in {"up", "dead"} /\ (link' = "up" => stage' = h'[a].stage)
                                 /\ (link' = "dead" => stage' = "dead")
    BY <2>1, <2>2, <2>3, NextLinkOf, NextStageOf
  <2> QED BY <2>3, <2>4, <2>5, <2>6 DEF G!LoginNext, G!Closed
<1>3. CASE handle_deleted
  <2>1. PICK a \in Ids : SoleAt(a) /\ h[a].to_delete /\ clist' = <<>>
    BY <1>3, HandleDeletedHead
  <2>2. clist = <<a>>
    BY <2>1 DEF SoleAt, Sole
  <2>3. h[a].to_delete /\ clist' = <<>>
    BY <2>1
  <2>4. link = "lost" /\ link' = "none"
    BY <2>2, <2>3, LinkOf DEF link
  <2>5. stage = "lost" /\ stage' = "none"
    BY <2>4 DEF stage
  <2> QED BY <2>5 DEF G!LoginNext, G!Trimmed
<1>4. CASE unlink_head
  <2>1. PICK a \in Ids :
             /\ h' = [h EXCEPT ![a] = Freed]
             /\ clist = <<>> \/ \E b \in Ids : b # a /\ clist = <<b>>
    BY <1>4, Unlinked DEF unlink_head
  <2>2. clist' = clist
    BY <1>4 DEF unlink_head
  <2>3. CASE clist = <<>>
    BY <2>2, <2>3 DEF link, stage
  <2>4. ASSUME NEW b \in Ids, b # a, clist = <<b>> PROVE stage' = stage
    <3>1. h'[b] = h[b]
      BY <1>0, <2>1, <2>4
    <3> QED BY <2>2, <2>4, <3>1, LinkOf, NextLinkOf, StageOf, NextStageOf
  <2> QED BY <2>1, <2>3, <2>4
<1>5. ASSUME NEW id \in Ids,
             \/ bos_signon_phase2(id) \/ multi_ssiact_cliready(id)
             \/ snac_get_signon(id) \/ ClosedByServer(id)
             \/ Disconnected(id) \/ EndOfStream(id) \/ flap_hangs(id)
      PROVE  G!LoginNext \/ stage' = stage
  <2>1. Readable(id) /\ clist' = clist
    BY <1>5 DEF bos_signon_phase2, multi_ssiact_cliready, snac_get_signon,
         ClosedByServer, Disconnected, EndOfStream, flap_hangs, Packet, lists
  <2>2. clist = <<id>> /\ clist' = <<id>> /\ ~h[id].to_delete /\ h[id] \in Handle
    BY <1>0, <2>1, Polled
  <2>3. stage = h[id].stage /\ stage \in G!Live
    <3>1. link = "up"
      BY <2>1, <2>2, LinkOf DEF Readable
    <3> QED BY <2>2, <3>1, StageOf DEF Handle, G!Live
  <2>4. CASE bos_signon_phase2(id)
    <3>1. h'[id] = [h[id] EXCEPT !.ssl = "freed", !.stage = "bos"]
      BY <1>0, <2>4 DEF bos_signon_phase2
    <3>2. link' = "up"
      BY <2>1, <2>2, <3>1, NextLinkOf DEF Readable, Handle
    <3>3. h[id].stage = "auth"
      BY <2>4 DEF bos_signon_phase2
    <3>4. h'[id].stage = "bos"
      BY <2>2, <3>1 DEF Handle
    <3>5. stage' = "bos"
      BY <2>2, <3>2, <3>4, NextStageOf
    <3> QED BY <2>3, <3>3, <3>5 DEF G!LoginNext, G!Authorized
  <2>5. CASE multi_ssiact_cliready(id)
    <3>1. h'[id] = [h[id] EXCEPT !.stage = "online"]
      BY <1>0, <2>5 DEF multi_ssiact_cliready
    <3>2. link' = "up"
      BY <2>1, <2>2, <3>1, NextLinkOf DEF Readable, Handle
    <3>3. h[id].stage = "bos"
      BY <2>5 DEF multi_ssiact_cliready
    <3>4. h'[id].stage = "online"
      BY <2>2, <3>1 DEF Handle
    <3>5. stage' = "online"
      BY <2>2, <3>2, <3>4, NextStageOf
    <3> QED BY <2>3, <3>3, <3>5 DEF G!LoginNext, G!Connected
  <2>6. CASE snac_get_signon(id) \/ EndOfStream(id) \/ flap_hangs(id)
    <3>1. h' = h
      BY <2>6 DEF snac_get_signon, EndOfStream, flap_hangs, lists
    <3> QED BY <2>2, <3>1, LinkOf, NextLinkOf, StageOf, NextStageOf
  <2>7. CASE ClosedByServer(id)
    <3>1. h'[id] = [h[id] EXCEPT !.socket = "closed"]
      BY <1>0, <2>7 DEF ClosedByServer
    <3>2. link' = "dead"
      BY <2>2, <3>1, NextLinkOf DEF Handle
    <3>3. stage' = "dead"
      BY <3>2 DEF stage
    <3> QED BY <2>3, <3>3 DEF G!LoginNext, G!Closed
  <2>8. CASE Disconnected(id)
    <3>1. h'[id].to_delete
      BY <1>0, <2>2, <2>8 DEF Disconnected, Handle
    <3>2. link' = "lost"
      BY <2>2, <3>1, NextLinkOf
    <3>3. stage' = "lost"
      BY <3>2 DEF stage
    <3> QED BY <2>3, <3>3 DEF G!LoginNext, G!Disconnected
  <2> QED BY <1>5, <2>4, <2>5, <2>6, <2>7, <2>8
<1>6. CASE input_reconnect
  <2>1. pc \in Loop
    BY <1>6 DEF input_reconnect, Loop
  <2>2. CASE NobodyAt
    <3>1. create_new_connection(handles, <<>>, h)
      BY <1>6, <2>2 DEF input_reconnect, NobodyAt, Nobody
    <3> QED BY <1>0, <3>1, CreateStage DEF G!LoginNext
  <2>3. ASSUME NEW a \in Ids, SoleAt(a), conn = a PROVE G!LoginNext
    <3>1. clist = <<a>> /\ Tail(clist) = <<>> /\ conn # NULL
      BY <2>3, ShortLists, NullAssumption DEF SoleAt, Sole
    <3>2. PICK hs : create_new_connection(hs, <<>>, [h EXCEPT ![a] = Freed])
      BY <1>6, <2>3, <3>1 DEF input_reconnect, imcomm_delete_handle_now
    <3>3. [h EXCEPT ![a] = Freed] \in [Ids -> Handle]
      BY <1>0, Created
    <3> QED BY <3>2, <3>3, CreateStage DEF G!LoginNext
  <2> QED BY <2>1, <2>2, <2>3, InLoop
<1>7. ASSUME UNCHANGED <<clist, h>> PROVE stage' = stage
  BY <1>7 DEF link, stage
<1>8. CASE \/ imcomm_select \/ trim_done \/ fd_set_handles
           \/ nothing_to_read \/ input_quit \/ input_set_invisible
           \/ input_reload_profile \/ no_command \/ sigusr1_handler
           \/ handshake_hangs \/ UNCHANGED vars
  BY <1>7, <1>8 DEF imcomm_select, trim_done, fd_set_handles,
       nothing_to_read, input_quit, input_set_invisible, input_reload_profile,
       no_command, sigusr1_handler, handshake_hangs, lists, vars
<1> QED BY <1>1, <1>2, <1>3, <1>4, <1>5, <1>6, <1>8
        DEF Next, main, Select, parse_input

\* The connection can be read off the stage.
LEMMA LinkFromStage ==
    TypeOK => link = IF stage \in G!Live THEN "up" ELSE stage
<1> SUFFICES ASSUME TypeOK PROVE link = IF stage \in G!Live THEN "up" ELSE stage
  OBVIOUS
<1>1. link \in {"none", "lost", "dead", "up"}
  BY DEF link
<1>2. CASE link = "up"
  <2>1. clist # <<>>
    BY <1>2 DEF link
  <2>2. Head(clist) \in Ids
    BY <2>1 DEF TypeOK
  <2>3. stage \in G!Live
    BY <1>2, <2>2 DEF TypeOK, Handle, stage, G!Live
  <2> QED BY <1>2, <2>3
<1>3. CASE link # "up"
  BY <1>1, <1>3 DEF stage, G!Live
<1> QED BY <1>2, <1>3

LEMMA NextLinkFromStage ==
    TypeOK' => link' = IF stage' \in G!Live THEN "up" ELSE stage'
<1> SUFFICES ASSUME TypeOK'
             PROVE  link' = IF stage' \in G!Live THEN "up" ELSE stage'
  OBVIOUS
<1>1. link' \in {"none", "lost", "dead", "up"}
  BY DEF link
<1>2. CASE link' = "up"
  <2>1. clist' # <<>>
    BY <1>2 DEF link
  <2>2. Head(clist') \in Ids
    BY <2>1 DEF TypeOK
  <2>3. stage' \in G!Live
    BY <1>2, <2>2 DEF TypeOK, Handle, stage, G!Live
  <2> QED BY <1>2, <2>3
<1>3. CASE link' # "up"
  BY <1>1, <1>3 DEF stage, G!Live
<1> QED BY <1>2, <1>3

\* So a step of a sign-on is a step of the abstract connection: Login keeps
\* to Link.
LEMMA LoginIsLink ==
    TypeOK /\ TypeOK' /\ [G!LoginNext]_stage => [L!LinkNext]_link
<1> SUFFICES ASSUME TypeOK, TypeOK', [G!LoginNext]_stage PROVE [L!LinkNext]_link
  OBVIOUS
<1>1. link = IF stage \in G!Live THEN "up" ELSE stage
  BY LinkFromStage
<1>2. link' = IF stage' \in G!Live THEN "up" ELSE stage'
  BY NextLinkFromStage
<1>3. CASE stage' = stage
  BY <1>1, <1>2, <1>3
<1>4. CASE G!LoginNext
  BY <1>1, <1>2, <1>4 DEF G!LoginNext, G!Dial, G!Authorized, G!Connected,
     G!Disconnected, G!Closed, G!Trimmed, G!Live, L!LinkNext, L!Dial,
     L!Disconnected, L!ClosedByServer, L!Trimmed
<1> QED BY <1>3, <1>4

\* The event loop goes through the stages of a sign-on in their order.
THEOREM KeepsToLogin == Spec => LoginSpec
<1>1. Init => G!LoginInit
  BY DEF Init, G!LoginInit, stage, link
<1> QED BY <1>1, LoginStep, Inductive, AlwaysDialling, PTL
        DEF Spec, LoginSpec, G!LoginSpec

\* The event loop implements the abstract connection, which Presence assumes.
THEOREM KeepsToLink == Spec => LinkSpec
<1>1. Init => L!LinkInit
  BY DEF Init, L!LinkInit, link
<1>2. IInv => TypeOK
  BY DEF IInv
<1> QED BY <1>1, <1>2, LoginStep, LoginIsLink, Inductive, AlwaysDialling, PTL
        DEF Spec, LinkSpec, L!LinkSpec

-----------------------------------------------------------------------------
(* What hangs and what crashes.                                            *)

\* Trimming finds nobody or a sole handle, which is first on both lists.
LEMMA Trimming ==
    ASSUME IInv, pc = "trim"
    PROVE  /\ Len(handles) <= 1
           /\ handles # <<>> => Head(clist) = Head(handles)
<1>1. CASE NobodyAt
  BY <1>1, ShortLists DEF NobodyAt, Nobody
<1>2. ASSUME NEW a \in Ids, SoleAt(a)
      PROVE  Len(handles) <= 1 /\ Head(clist) = Head(handles)
  BY <1>2, ShortLists DEF SoleAt, Sole
<1> QED BY <1>1, <1>2, InLoop DEF Loop

\* No search of the lists runs for ever: only reading from a session that has
\* ended does (handle_deleted, remove_deleted_handles, imcomm_select).
THEOREM OnlyReadingHangs == Spec => LoopsEnd
<1>1. IInv /\ [Next]_vars =>
        [pc' = "spin" /\ pc # "spin" => \E id \in Ids : EndOfStream(id)]_vars
  <2> SUFFICES ASSUME IInv, Next, pc' = "spin", pc # "spin",
                      \A id \in Ids : ~EndOfStream(id)
               PROVE  FALSE
    OBVIOUS
  <2>1. ~handle_deleted /\ ~trim_done
    <3>1. handle_deleted => pc' \in {"sleep", "unlink"}
      BY HandleDeletedHead
    <3>2. trim_done => pc' = "fdset"
      BY Trimming DEF trim_done
    <3> QED BY <3>1, <3>2
  <2>2. \A handle : /\ pc' \notin flap_send(handle, "keys")
                    /\ pc' \notin flap_send(handle, "select")
                    /\ pc' \notin flap_send(handle, pc)
                    /\ pc' \notin flap_send(handle, "unlink")
    BY Sending
  <2>3. /\ ~nothing_to_read /\ ~input_set_invisible /\ ~input_reload_profile
        /\ \A id \in Ids : ~ClosedByServer(id)
    <3>1. ~nothing_to_read
      BY <2>2 DEF nothing_to_read
    <3>2. ~input_set_invisible /\ ~input_reload_profile
      BY <2>2 DEF input_set_invisible, input_reload_profile
    <3>3. ASSUME NEW id \in Ids, ClosedByServer(id) PROVE FALSE
      <4>1. pc' \in {"keys"} \cup flap_send([h[id] EXCEPT !.socket = "closed"], "keys")
        BY <3>3 DEF ClosedByServer
      <4> QED BY <2>2, <4>1
    <3> QED BY <3>1, <3>2, <3>3
  <2>4. ~sigusr1_handler
    BY <2>2 DEF sigusr1_handler
  <2>5. ASSUME NEW outcome \in ConnectOutcomes, connect_ssl(outcome) PROVE FALSE
    <3>1. PICK new, next : /\ pc' \in {"crashed"} \cup flap_send(new, next)
                           /\ next \in {"keys", "unlink", "select"}
      BY <2>5 DEF connect_ssl
    <3> QED BY <2>2, <3>1
  <2>6. /\ ~main_start /\ ~handle_deleted_wakes /\ ~input_reconnect
        /\ ~imcomm_select /\ ~unlink_head /\ ~fd_set_handles
        /\ ~input_quit /\ ~no_command /\ ~handshake_hangs
    BY DEF main_start, handle_deleted_wakes, input_reconnect,
         create_new_connection, imcomm_select, unlink_head, fd_set_handles,
         input_quit, no_command, handshake_hangs
  <2>7. \A id \in Ids : /\ ~bos_signon_phase2(id) /\ ~multi_ssiact_cliready(id)
                        /\ ~snac_get_signon(id) /\ ~Disconnected(id)
                        /\ ~flap_hangs(id)
    BY DEF bos_signon_phase2, multi_ssiact_cliready, snac_get_signon, Disconnected,
         flap_hangs
  <2> QED BY <2>1, <2>3, <2>4, <2>5, <2>6, <2>7 DEF Next, main, Select, parse_input
<1> QED BY <1>1, Inductive, PTL DEF Spec, LoopsEnd

\* A session that has signed on has a TLS session, shut down or not.
Secured == \A id \in Ids : h[id].stage = "online" => ~Wild(h[id])

\* A handle that is dialled has not signed on.
LEMMA DialledStage ==
    ASSUME IInv, pc = "dial"
    PROVE  Head(clist) \in Ids /\ h[Head(clist)].stage # "online"
<1>1. PICK a \in Ids : clist = <<a>> /\ h[a].stage # "online"
  BY DEF IInv, Shape, NobodyAt, SoleAt, Sole, LeavingAt, ReplacedAt, Replaced,
         Loop, Final, Held, Stopped
<1> QED BY <1>1, ShortLists

\* Secured is invariant as well.
LEMMA SecuredInv == IInv /\ Secured /\ [Next]_vars => Secured'
<1> SUFFICES ASSUME IInv, Secured, [Next]_vars PROVE Secured'
  OBVIOUS
<1>0. h \in [Ids -> Handle]
  BY DEF IInv, TypeOK
<1>1. ASSUME NEW hs, NEW cl, NEW g \in [Ids -> Handle],
             create_new_connection(hs, cl, g),
             \A id \in Ids : g[id].stage = "online" => ~Wild(g[id])
      PROVE  Secured'
  <2>1. PICK b \in Ids : h' = [g EXCEPT ![b] = imcomm_create_handle]
    BY <1>1 DEF create_new_connection
  <2>2. imcomm_create_handle.stage # "online"
    BY DEF imcomm_create_handle, Freed
  <2> QED BY <1>1, <2>1, <2>2 DEF Secured, Wild
<1>2. CASE main_start \/ handle_deleted_wakes
  BY <1>0, <1>1, <1>2 DEF main_start, handle_deleted_wakes, Secured
<1>3. ASSUME NEW a \in Ids, h' = [h EXCEPT ![a] = Freed] PROVE Secured'
  BY <1>0, <1>3 DEF Secured, Freed, Wild
<1>4. CASE input_reconnect
  <2>1. CASE conn = NULL
    BY <1>0, <1>1, <1>4, <2>1 DEF input_reconnect, Secured
  <2>2. CASE conn # NULL
    <3>1. conn \in Ids
      BY <2>2 DEF IInv, TypeOK
    <3>2. PICK hs, cl : create_new_connection(hs, cl, [h EXCEPT ![conn] = Freed])
      BY <1>4, <2>2 DEF input_reconnect, imcomm_delete_handle_now
    <3>3. [h EXCEPT ![conn] = Freed] \in [Ids -> Handle]
      BY <1>0, Created
    <3>4. \A id \in Ids : [h EXCEPT ![conn] = Freed][id].stage = "online"
                           => ~Wild([h EXCEPT ![conn] = Freed][id])
      BY <1>0, <3>1 DEF Secured, Freed, Wild
    <3> QED BY <1>1, <3>2, <3>3, <3>4
  <2> QED BY <2>1, <2>2
<1>5. CASE unlink_head
  <2>1. PICK a \in Ids : h' = [h EXCEPT ![a] = Freed]
    BY <1>5, Unlinked DEF unlink_head
  <2> QED BY <1>3, <2>1
<1>6. ASSUME NEW outcome \in ConnectOutcomes, connect_ssl(outcome) PROVE Secured'
  <2>1. PICK a \in Ids : Head(clist) = a /\ h[a].stage # "online"
    BY <1>6, DialledStage DEF connect_ssl
  <2>2. h[a] \in Handle
    BY <1>0, <2>1
  <2>3. \E new : h' = [h EXCEPT ![a] = new] /\ new.stage = h[a].stage
    <3>1. outcome \in {"ok", "refused", "nosock", "handshake"}
      BY OutcomesAssumption
    <3> DEFINE new ==
          CASE outcome = "ok" -> [h[a] EXCEPT !.socket = "open", !.ssl = "live"]
            [] outcome = "refused" -> [h[a] EXCEPT !.socket = "unconnected"]
            [] outcome = "nosock" -> [h[a] EXCEPT !.socket = "closed"]
            [] outcome = "handshake" -> [h[a] EXCEPT !.socket = "open"]
    <3>2. h' = [h EXCEPT ![a] = new]
      BY <1>6, <2>1 DEF connect_ssl
    <3>3. new.stage = h[a].stage
      BY <2>2, <3>1 DEF Handle
    <3> HIDE DEF new
    <3> QED BY <3>2, <3>3
  <2> QED BY <1>0, <2>1, <2>3 DEF Secured, Wild
<1>7. ASSUME NEW id \in Ids, NEW new, h' = [h EXCEPT ![id] = new],
             new.stage = "online" => ~Wild(new)
      PROVE  Secured'
  BY <1>0, <1>7 DEF Secured, Wild
<1>8. ASSUME NEW id \in Ids,
             \/ bos_signon_phase2(id) \/ multi_ssiact_cliready(id)
             \/ ClosedByServer(id) \/ Disconnected(id)
      PROVE  Secured'
  <2>0. h[id] \in Handle
    BY <1>0
  <2>1. CASE bos_signon_phase2(id)
    <3> DEFINE new == [h[id] EXCEPT !.ssl = "freed", !.stage = "bos"]
    <3>1. h' = [h EXCEPT ![id] = new] /\ new.stage = "bos"
      BY <2>0, <2>1 DEF bos_signon_phase2, Handle
    <3> QED BY <1>7, <3>1
  <2>2. CASE multi_ssiact_cliready(id)
    <3> DEFINE new == [h[id] EXCEPT !.stage = "online"]
    <3>1. h' = [h EXCEPT ![id] = new] /\ new.ssl = "live"
      BY <2>0, <2>2 DEF multi_ssiact_cliready, Packet, Handle
    <3>2. ~Wild(new)
      BY <3>1 DEF Wild
    <3> QED BY <1>7, <3>1, <3>2
  <2>3. CASE ClosedByServer(id)
    <3> DEFINE new == [h[id] EXCEPT !.socket = "closed"]
    <3>1. h' = [h EXCEPT ![id] = new] /\ new.ssl = "live"
      BY <2>0, <2>3 DEF ClosedByServer, Packet, Handle
    <3>2. ~Wild(new)
      BY <3>1 DEF Wild
    <3> QED BY <1>7, <3>1, <3>2
  <2>4. CASE Disconnected(id)
    <3> DEFINE new == [h[id] EXCEPT !.socket = "closed", !.to_delete = TRUE,
                          !.ssl = IF h[id].ssl = "live" THEN "shutdown" ELSE h[id].ssl]
    <3>1. /\ h' = [h EXCEPT ![id] = new] /\ new.stage = h[id].stage
          /\ new.ssl = IF h[id].ssl = "live" THEN "shutdown" ELSE h[id].ssl
      BY <2>0, <2>4 DEF Disconnected, Handle
    <3>2. new.stage = "online" => ~Wild(new)
      BY <3>1 DEF Wild, Secured
    <3> QED BY <1>7, <3>1, <3>2
  <2> QED BY <1>8, <2>1, <2>2, <2>3, <2>4
<1>9. ASSUME UNCHANGED h PROVE Secured'
  BY <1>9 DEF Secured, Wild
<1>10. CASE \/ imcomm_select \/ handle_deleted \/ trim_done \/ fd_set_handles
            \/ nothing_to_read \/ input_quit \/ input_set_invisible
            \/ input_reload_profile \/ no_command \/ sigusr1_handler
            \/ handshake_hangs \/ UNCHANGED vars
  BY <1>9, <1>10 DEF imcomm_select, handle_deleted, trim_done, fd_set_handles,
       nothing_to_read, input_quit, input_set_invisible,
       input_reload_profile, no_command, sigusr1_handler, handshake_hangs, vars
<1>11. ASSUME NEW id \in Ids, snac_get_signon(id) \/ EndOfStream(id) \/ flap_hangs(id)
       PROVE  Secured'
  BY <1>9, <1>11 DEF snac_get_signon, EndOfStream, flap_hangs
<1> QED BY <1>2, <1>4, <1>5, <1>6, <1>8, <1>10, <1>11
        DEF Next, main, Select, parse_input

\* A list holds elements of its set.
LEMMA RangeOfList == ASSUME NEW s \in Seq(Ids) PROVE Range(s) \subseteq Ids
BY DEF Range

\* Sending crashes on a TLS session that was never made, or is freed.
LEMMA SendingCrashes ==
    ASSUME NEW handle, NEW next, next # "crashed", "crashed" \in flap_send(handle, next)
    PROVE  Wild(handle)
BY DEF flap_send

\* Where the configuration says otr, nothing that happens to a session that has
\* signed on makes the program crash on it; where it does not, a buddy who signs
\* on does (flap_send, imcomm_select, connect_ssl, buddy_online).
THEOREM CrashesHaveCauses == Spec => CrashesAreKnown
<1>1. Init => Secured
  BY DEF Init, Secured, Freed
<1>2. IInv /\ Secured /\ [Next]_vars =>
        [pc' = "crashed" /\ pc # "crashed" =>
           \/ clist = <<>>
           \/ pc = "dial"
           \/ ~otr /\ \E id \in Ids : snac_get_signon(id)
           \/ \E id \in Range(handles) : h[id].stage # "online" /\ Wild(h[id])]_vars
  <2> SUFFICES ASSUME IInv, Secured, Next, pc' = "crashed", pc # "crashed",
                      clist # <<>>, pc # "dial",
                      ~(~otr /\ \E id \in Ids : snac_get_signon(id)),
                      ~\E id \in Range(handles) : h[id].stage # "online" /\ Wild(h[id])
               PROVE  FALSE
    OBVIOUS
  <2>0. \A id \in Range(handles) : ~Wild(h[id])
    <3>1. handles \in Seq(Ids)
      BY DEF IInv, TypeOK
    <3>2. Range(handles) \subseteq Ids
      BY <3>1, RangeOfList
    <3> QED BY <3>2 DEF Secured
  <2>1. \A id \in Range(handles) : /\ pc' \notin flap_send(h[id], "keys")
                                   /\ pc' \notin flap_send(h[id], "select")
                                   /\ pc' \notin flap_send(h[id], pc)
    BY <2>0, SendingCrashes
  <2>2. ~nothing_to_read /\ ~fd_set_handles
    BY <2>0, <2>1 DEF nothing_to_read, fd_set_handles
  <2>3. pc = "keys" => conn \in Range(handles) /\ conn # NULL
    <3>1. ASSUME NEW a \in Ids, SoleAt(a), conn = a
          PROVE  conn \in Range(handles) /\ conn # NULL
      BY <3>1, ShortRanges, NullAssumption DEF SoleAt, Sole
    <3> QED BY <3>1, InLoop DEF Loop, NobodyAt, Nobody
  <2>4. /\ ~input_set_invisible /\ ~input_reload_profile /\ ~input_quit
    BY <2>1, <2>3 DEF input_set_invisible, input_reload_profile, input_quit
  <2>5. Head(clist) \in Range(handles)
    <3>1. ASSUME NEW a \in Ids, SoleAt(a) PROVE Head(clist) \in Range(handles)
      BY <3>1, ShortLists, ShortRanges DEF SoleAt, Sole
    <3>2. ASSUME NEW a \in Ids, NEW b \in Ids, ReplacedAt(a, b)
          PROVE  Head(clist) \in Range(handles)
      BY <3>2, ShortLists, ShortRanges DEF ReplacedAt, Replaced
    <3> QED BY <3>1, <3>2 DEF IInv, Shape, NobodyAt, Nobody, LeavingAt, Leaving
  <2>6. ~sigusr1_handler
    BY <2>1, <2>5 DEF sigusr1_handler
  <2>7. ASSUME NEW id \in Ids, Readable(id) PROVE ~Wild(h[id])
    BY <2>0, <2>7 DEF Readable
  <2>8. \A id \in Ids : ~ClosedByServer(id) /\ ~Disconnected(id)
    <3>1. ASSUME NEW id \in Ids, ClosedByServer(id) PROVE FALSE
      <4> DEFINE new == [h[id] EXCEPT !.socket = "closed"]
      <4>1. pc' \in {"keys"} \cup flap_send(new, "keys")
        BY <3>1 DEF ClosedByServer
      <4>2. h[id] \in Handle /\ h[id].ssl = "live"
        BY <3>1 DEF ClosedByServer, Packet, IInv, TypeOK
      <4>3. new.ssl = "live"
        BY <4>2 DEF Handle
      <4>4. ~Wild(new)
        BY <4>3 DEF Wild
      <4> HIDE DEF new
      <4> QED BY <4>1, <4>4, SendingCrashes
    <3>2. ASSUME NEW id \in Ids, Disconnected(id) PROVE FALSE
      <4>1. Readable(id) /\ (pc' = "crashed" => Wild(h[id]))
        BY <3>2 DEF Disconnected
      <4> QED BY <2>7, <4>1
    <3> QED BY <3>1, <3>2
  <2>9. /\ ~main_start /\ ~handle_deleted_wakes /\ ~input_reconnect
        /\ ~imcomm_select /\ ~handle_deleted /\ ~unlink_head /\ ~trim_done
        /\ ~no_command /\ ~handshake_hangs
    <3>1. ~handle_deleted
      BY HandleDeletedHead
    <3>2. ~trim_done
      BY Trimming DEF trim_done
    <3> QED
      BY <3>1, <3>2 DEF main_start, handle_deleted_wakes, input_reconnect,
         create_new_connection, imcomm_select, unlink_head, no_command,
         handshake_hangs
  <2>10. \A id \in Ids : /\ ~bos_signon_phase2(id) /\ ~multi_ssiact_cliready(id)
                         /\ ~snac_get_signon(id) /\ ~EndOfStream(id) /\ ~flap_hangs(id)
    BY DEF bos_signon_phase2, multi_ssiact_cliready, snac_get_signon, EndOfStream, flap_hangs
  <2>11. \A outcome \in ConnectOutcomes : ~connect_ssl(outcome)
    BY DEF connect_ssl
  <2> QED BY <2>2, <2>4, <2>6, <2>8, <2>9, <2>10, <2>11
          DEF Next, main, Select, parse_input
<1> QED BY <1>1, <1>2, SecuredInv, Inductive, PTL DEF Spec, CrashesAreKnown

-----------------------------------------------------------------------------
(* Every turn comes to the keyboard.                                       *)

MarkedHead == handles # <<>> /\ h[Head(handles)].to_delete

\* How many steps of its own the thread is from the keyboard, at most.  The
\* handle that is dialled is conn->conn on its way to the BOS server only.
StepsToKeys ==
    CASE pc = "start"  -> 11
      [] pc = "dial"   -> IF conn # NULL THEN 1 ELSE IF Len(handles) > 1 THEN 6 ELSE 10
      [] pc = "select" -> 9
      [] pc = "trim"   -> IF MarkedHead THEN 8 ELSE 4
      [] pc = "sleep"  -> 7
      [] pc = "unlink" -> 5
      [] pc = "fdset"  -> 3
      [] pc = "poll"   -> 2
      [] OTHER         -> 0

KeysWithin(n) == StepsToKeys <= n

\* It is a number, and zero where the keyboard is served or nothing runs.
LEMMA StepsCount ==
    /\ StepsToKeys \in 0..11
    /\ StepsToKeys = 0 /\ TypeOK => pc \in {"keys"} \cup Final
    /\ pc \in {"keys"} \cup Final => StepsToKeys = 0
<1>1. StepsToKeys \in 0..11
  BY DEF StepsToKeys
<1>2. StepsToKeys = 0 /\ TypeOK => pc \in {"keys"} \cup Final
  BY DEF StepsToKeys, TypeOK, Places
<1>3. pc \in {"keys"} \cup Final => StepsToKeys = 0
  BY DEF StepsToKeys, Final, Held, Stopped
<1> QED BY <1>1, <1>2, <1>3

LEMMA NextStepsCount ==
    /\ StepsToKeys' \in 0..11
    /\ pc' \in {"keys"} \cup Final => StepsToKeys' = 0
BY DEF StepsToKeys, Final, Held, Stopped

\* Connecting goes on where the handle that is dialled belongs.
LEMMA DialsOn ==
    ASSUME IInv, NEW outcome \in ConnectOutcomes, connect_ssl(outcome),
           pc' \notin Final
    PROVE  pc' = IF conn # NULL THEN "keys"
                 ELSE IF Len(handles) > 1 THEN "unlink" ELSE "select"
<1> DEFINE id   == Head(clist)
           next == IF h[id].stage = "bos" THEN "keys"
                   ELSE IF Len(handles) > 1 THEN "unlink" ELSE "select"
<1>1. pc = "dial" /\ pc' \in {next, "crashed", "killed", "hung"}
  BY Sending DEF connect_ssl
<1>2. pc' = next
  BY <1>1 DEF Final, Held, Stopped
<1>3. ASSUME NEW a \in Ids, SoleAt(a)
      PROVE  h[id].stage = IF conn # NULL THEN "bos" ELSE "auth"
  <2>1. id = a
    BY <1>3, ShortLists DEF SoleAt, Sole
  <2> QED BY <1>1, <1>3, <2>1, NullAssumption DEF SoleAt, Loop, Final, Held, Stopped
<1>4. ASSUME NEW a \in Ids, NEW b \in Ids, ReplacedAt(a, b)
      PROVE  h[id].stage = "auth" /\ conn = NULL
  <2>1. id = b
    BY <1>4, ShortLists DEF ReplacedAt, Replaced
  <2> QED BY <1>1, <1>4, <2>1 DEF ReplacedAt, Final, Held, Stopped
<1> HIDE DEF id
<1> QED BY <1>1, <1>2, <1>3, <1>4
        DEF IInv, Shape, NobodyAt, LeavingAt, Loop, Final, Held, Stopped

\* What is left when the head is unlinked is not marked.
LEMMA UnlinkLeaves == ASSUME IInv, unlink_head PROVE ~MarkedHead'
<1>1. pc = "unlink"
  BY DEF unlink_head
<1>2. PICK a \in Ids : LeavingAt(a) \/ \E b \in Ids : ReplacedAt(a, b)
  BY <1>1 DEF IInv, Shape, NobodyAt, SoleAt, Loop, Final, Held, Stopped
<1>3. CASE LeavingAt(a)
  <2>1. handles' = <<>>
    BY <1>3, ShortLists DEF LeavingAt, Leaving, unlink_head
  <2> QED BY <2>1 DEF MarkedHead
<1>4. ASSUME NEW b \in Ids, ReplacedAt(a, b) PROVE ~MarkedHead'
  <2>1. handles = <<a, b>> /\ a # b /\ ~h[b].to_delete
    BY <1>4 DEF ReplacedAt, Replaced
  <2>2. handles' = <<b>> /\ Head(handles') = b /\ h' = [h EXCEPT ![a] = Freed]
    BY <2>1, ShortLists DEF unlink_head
  <2>3. h'[b] = h[b]
    BY <2>1, <2>2 DEF IInv, TypeOK
  <2> QED BY <2>1, <2>2, <2>3 DEF MarkedHead
<1> QED BY <1>2, <1>3, <1>4

\* A step of the program's thread brings it nearer.
LEMMA ThreadAdvances ==
    ASSUME IInv, main, ~CutShort, StepsToKeys > 0
    PROVE  StepsToKeys' < StepsToKeys
<1>0. pc # "keys" /\ pc \notin Final /\ StepsToKeys \in 1..11 /\ StepsToKeys' \in 0..11
  BY StepsCount, NextStepsCount
<1>1. CASE pc' \in {"keys"} \cup Final
  BY <1>0, <1>1, NextStepsCount
<1> SUFFICES ASSUME pc' \notin {"keys"} \cup Final
             PROVE  StepsToKeys' < StepsToKeys
  BY <1>1
<1>2. CASE main_start
  BY <1>2 DEF main_start, create_new_connection, StepsToKeys
<1>3. ASSUME NEW outcome \in ConnectOutcomes, connect_ssl(outcome)
      PROVE  StepsToKeys' < StepsToKeys
  <2>1. pc = "dial"
    BY <1>3 DEF connect_ssl
  <2>2. conn = NULL /\ pc' = IF Len(handles) > 1 THEN "unlink" ELSE "select"
    BY <1>3, DialsOn
  <2> QED BY <2>1, <2>2 DEF StepsToKeys
<1>4. CASE imcomm_select
  BY <1>4 DEF imcomm_select, StepsToKeys
<1>5. CASE handle_deleted
  <2>1. pc = "trim" /\ MarkedHead /\ pc' \in {"sleep", "unlink"}
    BY <1>5 DEF handle_deleted, MarkedHead, Final, Held, Stopped
  <2> QED BY <2>1 DEF StepsToKeys
<1>6. CASE handle_deleted_wakes
  <2>1. PICK a \in Ids : LeavingAt(a)
    BY <1>6 DEF handle_deleted_wakes, IInv, Shape, NobodyAt, SoleAt, ReplacedAt,
                Loop, Final, Held, Stopped
  <2>2. PICK b \in Ids : handles' = Append(<<a>>, b) /\ pc' = "dial"
    BY <1>6, <2>1 DEF handle_deleted_wakes, create_new_connection, LeavingAt, Leaving
  <2>3. Len(handles') = 2
    BY <2>2, ShortLists
  <2> QED BY <1>6, <2>2, <2>3 DEF handle_deleted_wakes, StepsToKeys
<1>7. CASE unlink_head
  <2>1. pc = "unlink" /\ pc' = "trim" /\ ~MarkedHead'
    BY <1>7, UnlinkLeaves DEF unlink_head
  <2> QED BY <2>1 DEF StepsToKeys
<1>8. CASE trim_done
  <2>1. pc = "trim" /\ ~MarkedHead /\ pc' = "fdset"
    BY <1>8 DEF trim_done, MarkedHead, Final, Held, Stopped
  <2> QED BY <2>1 DEF StepsToKeys
<1>9. CASE fd_set_handles
  <2>1. pc = "fdset" /\ pc' = "poll"
    BY <1>9 DEF fd_set_handles, Final, Held, Stopped
  <2> QED BY <2>1 DEF StepsToKeys
<1>10. CASE nothing_to_read
  BY <1>10, Sending DEF nothing_to_read, Final, Held, Stopped
<1>11. ASSUME NEW id \in Ids, bos_signon_phase2(id)
       PROVE  StepsToKeys' < StepsToKeys
  <2>1. pc = "poll" /\ pc' = "dial" /\ conn' = conn /\ Readable(id)
    BY <1>11 DEF bos_signon_phase2, Packet, Readable, lists
  <2>2. conn' # NULL
    BY <2>1, Polled, NullAssumption
  <2> QED BY <2>1, <2>2 DEF StepsToKeys
<1>12. ASSUME NEW id \in Ids,
              \/ multi_ssiact_cliready(id) \/ snac_get_signon(id)
              \/ ClosedByServer(id) \/ EndOfStream(id) \/ flap_hangs(id)
       PROVE  FALSE
  BY <1>12, Sending
  DEF multi_ssiact_cliready, snac_get_signon, ClosedByServer, EndOfStream, flap_hangs,
      Final, Held, Stopped
<1>13. ASSUME NEW id \in Ids, Disconnected(id) PROVE FALSE
  BY <1>13 DEF Disconnected, Readable, CutShort, Final, Held, Stopped
<1>14. CASE parse_input \/ handshake_hangs
  BY <1>0, <1>14 DEF parse_input, input_reconnect, input_quit,
     input_set_invisible, input_reload_profile, no_command, handshake_hangs, Final, Held
<1> QED BY <1>2, <1>3, <1>4, <1>5, <1>6, <1>7, <1>8, <1>9, <1>10, <1>11, <1>12,
           <1>13, <1>14 DEF main, Select

\* And no signal takes it back.
LEMMA SignalHoldsOn ==
    ASSUME sigusr1_handler, ~CutShort
    PROVE  StepsToKeys' <= StepsToKeys
<1>1. UNCHANGED <<handles, clist, conn, h>> /\ pc' \in {pc} \cup Final
  BY Sending DEF sigusr1_handler, lists, CutShort, Final, Held, Stopped
<1>2. CASE pc' \in Final
  BY <1>2, StepsCount, NextStepsCount
<1>3. CASE pc' = pc
  <2>1. StepsToKeys' = StepsToKeys
    BY <1>1, <1>3 DEF StepsToKeys, MarkedHead
  <2> QED BY <2>1, StepsCount
<1> QED BY <1>1, <1>2, <1>3


\* Only a keystroke or a turn that is cut short takes the thread away from the
\* keyboard: every other step of the loop brings it nearer, and no signal
\* takes it back (main, imcomm_select).
THEOREM TurnsAdvance ==
    Spec => [][StepsToKeys > 0 /\ ~CutShort =>
                 /\ StepsToKeys' <= StepsToKeys
                 /\ main => StepsToKeys' < StepsToKeys]_vars
<1>1. IInv /\ [Next]_vars =>
        [StepsToKeys > 0 /\ ~CutShort =>
           /\ StepsToKeys' <= StepsToKeys
           /\ main => StepsToKeys' < StepsToKeys]_vars
  <2> SUFFICES ASSUME IInv, Next, StepsToKeys > 0, ~CutShort
               PROVE  /\ StepsToKeys' <= StepsToKeys
                      /\ main => StepsToKeys' < StepsToKeys
    OBVIOUS
  <2>1. main => StepsToKeys' < StepsToKeys
    BY ThreadAdvances
  <2>2. sigusr1_handler => StepsToKeys' <= StepsToKeys
    BY SignalHoldsOn
  <2>3. StepsToKeys < StepsToKeys' \/ StepsToKeys' <= StepsToKeys
    BY StepsCount, NextStepsCount
  <2> QED BY <2>1, <2>2, StepsCount, NextStepsCount DEF Next
<1> QED BY <1>1, Inductive, PTL DEF Spec

\* The same for a bound: a turn that is not cut short stays within it, and a
\* step of the thread brings it down.
LEMMA WithinBound ==
    ASSUME NEW n \in 1..11, NEW m \in 0..10, n = m + 1
    PROVE  /\ IInv /\ [Next]_vars /\ [~CutShort]_vars /\ KeysWithin(n)
                => KeysWithin(0) \/ KeysWithin(n)'
           /\ IInv /\ [~CutShort]_vars /\ KeysWithin(n) /\ <<main>>_vars
                => KeysWithin(0) \/ KeysWithin(m)'
           /\ KeysWithin(0) => KeysWithin(m)
<1>1. ASSUME IInv, [Next]_vars, [~CutShort]_vars, KeysWithin(n), ~KeysWithin(0)
      PROVE  KeysWithin(n)'
  <2>1. StepsToKeys \in 1..n /\ StepsToKeys' \in 0..11
    BY <1>1, StepsCount, NextStepsCount DEF KeysWithin
  <2>2. CASE UNCHANGED vars
    <3>1. StepsToKeys' = StepsToKeys
      BY <2>2 DEF StepsToKeys, MarkedHead, vars
    <3> QED BY <2>1, <3>1 DEF KeysWithin
  <2>3. CASE main /\ ~CutShort
    BY <1>1, <2>1, <2>3, ThreadAdvances DEF KeysWithin
  <2>4. CASE sigusr1_handler /\ ~CutShort
    BY <1>1, <2>1, <2>4, SignalHoldsOn DEF KeysWithin
  <2> QED BY <1>1, <2>2, <2>3, <2>4 DEF Next
<1>2. ASSUME IInv, [~CutShort]_vars, KeysWithin(n), <<main>>_vars, ~KeysWithin(0)
      PROVE  KeysWithin(m)'
  <2>1. StepsToKeys \in 1..n /\ StepsToKeys' \in 0..11
    BY <1>2, StepsCount, NextStepsCount DEF KeysWithin
  <2>2. StepsToKeys' < StepsToKeys
    BY <1>2, <2>1, ThreadAdvances
  <2> QED BY <2>1, <2>2 DEF KeysWithin
<1>3. KeysWithin(0) => KeysWithin(m)
  BY StepsCount DEF KeysWithin
<1> QED BY <1>1, <1>2, <1>3

-----------------------------------------------------------------------------
(* What the thread needs for its next step.                                *)

\* What the next step of the thread takes for granted: an address for a new
\* handle, a handle to dial, a node to search for and a handle to free.
CanGoOn ==
    /\ pc \in {"start", "sleep"} => \E id \in Ids : ~h[id].alive
    /\ pc = "dial" => clist # <<>>
    /\ pc = "trim" /\ MarkedHead => clist # <<>> /\ Head(clist) = Head(handles)
    /\ pc = "unlink" => handles # <<>>

\* Two addresses are enough for the program to find all of it wherever it is:
\* the hypothesis []NeverStuck below is about nothing else, for the other
\* places have a step without a condition (handle_deleted,
\* create_new_connection, remove_deleted_handles).
THEOREM NothingIsMissing ==
    ASSUME NEW a \in Ids, NEW b \in Ids, a # b
    PROVE  Spec => []CanGoOn
<1>1. IInv => CanGoOn
  <2> SUFFICES ASSUME IInv PROVE CanGoOn
    OBVIOUS
  <2>1. CASE NobodyAt
    BY <2>1 DEF NobodyAt, Nobody, Alive, CanGoOn, MarkedHead, Loop, Final, Held, Stopped
  <2>2. ASSUME NEW x \in Ids, SoleAt(x) PROVE CanGoOn
    BY <2>2, ShortLists DEF SoleAt, Sole, CanGoOn, Loop, Final, Held, Stopped
  <2>3. ASSUME NEW x \in Ids, LeavingAt(x) PROVE CanGoOn
    <3>1. a # x \/ b # x
      OBVIOUS
    <3>2. \E id \in Ids : ~h[id].alive
      BY <2>3, <3>1 DEF LeavingAt, Alive
    <3> QED BY <2>3, <3>2, ShortLists DEF LeavingAt, Leaving, CanGoOn, Final, Held, Stopped
  <2>4. ASSUME NEW x \in Ids, NEW y \in Ids, ReplacedAt(x, y) PROVE CanGoOn
    BY <2>4, ShortLists DEF ReplacedAt, Replaced, CanGoOn, Final, Held, Stopped
  <2> QED BY <2>1, <2>2, <2>3, <2>4 DEF IInv, Shape
<1> QED BY <1>1, Inductive, PTL

-----------------------------------------------------------------------------
(* Liveness.  What WF_vars(main) promises where main is enabled, and that  *)
(* is wherever the program has not ended (NeverStuck), is all that is      *)
(* asked of ENABLED: the thread takes steps for ever, or ends.             *)

Ended == pc \in Final

Running == []<><<main>>_vars

\* A thread that is never stuck runs for ever, or ends.
LEMMA RunsOrEnds == FairSpec /\ []NeverStuck => Running \/ <>Ended
BY PTL DEF FairSpec, Running, NeverStuck, Ended

\* Where the program has ended nothing moves, and where it hangs only the
\* handler of a signal runs.
LEMMA EndStops == Ended /\ [Next]_vars => Ended'
<1> SUFFICES ASSUME Ended, Next PROVE Ended'
  BY DEF vars, Ended
<1>1. sigusr1_handler => Ended'
  BY Sending DEF Ended, sigusr1_handler, Final, Held, Stopped
<1>2. ~main
  BY DEF Ended, Final, Held, Stopped, main, main_start, handshake_hangs, connect_ssl, Select, imcomm_select,
     handle_deleted, handle_deleted_wakes, unlink_head, trim_done,
     fd_set_handles, nothing_to_read, bos_signon_phase2,
     multi_ssiact_cliready, snac_get_signon, ClosedByServer, Disconnected,
     EndOfStream, flap_hangs, Packet, Readable, parse_input, input_reconnect, input_quit,
     input_set_invisible, input_reload_profile, no_command, Zenon
<1> QED BY <1>1, <1>2 DEF Next

\* It ends for good.
LEMMA EndIsFinal == Spec => [](Ended => []Ended)
<1>1. Ended /\ [Next]_vars => Ended'
  BY EndStops
<1> QED BY <1>1, PTL DEF Spec

\* A thread that runs on, from here without a turn that is cut short.
Turning == []IInv /\ [][Next]_vars /\ [][~CutShort]_vars /\ Running

\* It comes to the keyboard, or to an end, again and again; step n brings the
\* bound n down by one.
LEMMA EachTurnServes == Turning => []<>KeysWithin(0)
<1>11. Turning => [](KeysWithin(11) => <>KeysWithin(10))
  <2>1. /\ IInv /\ [Next]_vars /\ [~CutShort]_vars /\ KeysWithin(11)
             => KeysWithin(0) \/ KeysWithin(11)'
        /\ IInv /\ [~CutShort]_vars /\ KeysWithin(11) /\ <<main>>_vars
             => KeysWithin(0) \/ KeysWithin(10)'
        /\ KeysWithin(0) => KeysWithin(10)
    BY WithinBound, 11 \in 1..11, 10 \in 0..10, 11 = 10 + 1
  <2> QED BY <2>1, PTL DEF Turning, Running
<1>10. Turning => [](KeysWithin(10) => <>KeysWithin(9))
  <2>1. /\ IInv /\ [Next]_vars /\ [~CutShort]_vars /\ KeysWithin(10)
             => KeysWithin(0) \/ KeysWithin(10)'
        /\ IInv /\ [~CutShort]_vars /\ KeysWithin(10) /\ <<main>>_vars
             => KeysWithin(0) \/ KeysWithin(9)'
        /\ KeysWithin(0) => KeysWithin(9)
    BY WithinBound, 10 \in 1..11, 9 \in 0..10, 10 = 9 + 1
  <2> QED BY <2>1, PTL DEF Turning, Running
<1>9. Turning => [](KeysWithin(9) => <>KeysWithin(8))
  <2>1. /\ IInv /\ [Next]_vars /\ [~CutShort]_vars /\ KeysWithin(9)
             => KeysWithin(0) \/ KeysWithin(9)'
        /\ IInv /\ [~CutShort]_vars /\ KeysWithin(9) /\ <<main>>_vars
             => KeysWithin(0) \/ KeysWithin(8)'
        /\ KeysWithin(0) => KeysWithin(8)
    BY WithinBound, 9 \in 1..11, 8 \in 0..10, 9 = 8 + 1
  <2> QED BY <2>1, PTL DEF Turning, Running
<1>8. Turning => [](KeysWithin(8) => <>KeysWithin(7))
  <2>1. /\ IInv /\ [Next]_vars /\ [~CutShort]_vars /\ KeysWithin(8)
             => KeysWithin(0) \/ KeysWithin(8)'
        /\ IInv /\ [~CutShort]_vars /\ KeysWithin(8) /\ <<main>>_vars
             => KeysWithin(0) \/ KeysWithin(7)'
        /\ KeysWithin(0) => KeysWithin(7)
    BY WithinBound, 8 \in 1..11, 7 \in 0..10, 8 = 7 + 1
  <2> QED BY <2>1, PTL DEF Turning, Running
<1>7. Turning => [](KeysWithin(7) => <>KeysWithin(6))
  <2>1. /\ IInv /\ [Next]_vars /\ [~CutShort]_vars /\ KeysWithin(7)
             => KeysWithin(0) \/ KeysWithin(7)'
        /\ IInv /\ [~CutShort]_vars /\ KeysWithin(7) /\ <<main>>_vars
             => KeysWithin(0) \/ KeysWithin(6)'
        /\ KeysWithin(0) => KeysWithin(6)
    BY WithinBound, 7 \in 1..11, 6 \in 0..10, 7 = 6 + 1
  <2> QED BY <2>1, PTL DEF Turning, Running
<1>6. Turning => [](KeysWithin(6) => <>KeysWithin(5))
  <2>1. /\ IInv /\ [Next]_vars /\ [~CutShort]_vars /\ KeysWithin(6)
             => KeysWithin(0) \/ KeysWithin(6)'
        /\ IInv /\ [~CutShort]_vars /\ KeysWithin(6) /\ <<main>>_vars
             => KeysWithin(0) \/ KeysWithin(5)'
        /\ KeysWithin(0) => KeysWithin(5)
    BY WithinBound, 6 \in 1..11, 5 \in 0..10, 6 = 5 + 1
  <2> QED BY <2>1, PTL DEF Turning, Running
<1>5. Turning => [](KeysWithin(5) => <>KeysWithin(4))
  <2>1. /\ IInv /\ [Next]_vars /\ [~CutShort]_vars /\ KeysWithin(5)
             => KeysWithin(0) \/ KeysWithin(5)'
        /\ IInv /\ [~CutShort]_vars /\ KeysWithin(5) /\ <<main>>_vars
             => KeysWithin(0) \/ KeysWithin(4)'
        /\ KeysWithin(0) => KeysWithin(4)
    BY WithinBound, 5 \in 1..11, 4 \in 0..10, 5 = 4 + 1
  <2> QED BY <2>1, PTL DEF Turning, Running
<1>4. Turning => [](KeysWithin(4) => <>KeysWithin(3))
  <2>1. /\ IInv /\ [Next]_vars /\ [~CutShort]_vars /\ KeysWithin(4)
             => KeysWithin(0) \/ KeysWithin(4)'
        /\ IInv /\ [~CutShort]_vars /\ KeysWithin(4) /\ <<main>>_vars
             => KeysWithin(0) \/ KeysWithin(3)'
        /\ KeysWithin(0) => KeysWithin(3)
    BY WithinBound, 4 \in 1..11, 3 \in 0..10, 4 = 3 + 1
  <2> QED BY <2>1, PTL DEF Turning, Running
<1>3. Turning => [](KeysWithin(3) => <>KeysWithin(2))
  <2>1. /\ IInv /\ [Next]_vars /\ [~CutShort]_vars /\ KeysWithin(3)
             => KeysWithin(0) \/ KeysWithin(3)'
        /\ IInv /\ [~CutShort]_vars /\ KeysWithin(3) /\ <<main>>_vars
             => KeysWithin(0) \/ KeysWithin(2)'
        /\ KeysWithin(0) => KeysWithin(2)
    BY WithinBound, 3 \in 1..11, 2 \in 0..10, 3 = 2 + 1
  <2> QED BY <2>1, PTL DEF Turning, Running
<1>2. Turning => [](KeysWithin(2) => <>KeysWithin(1))
  <2>1. /\ IInv /\ [Next]_vars /\ [~CutShort]_vars /\ KeysWithin(2)
             => KeysWithin(0) \/ KeysWithin(2)'
        /\ IInv /\ [~CutShort]_vars /\ KeysWithin(2) /\ <<main>>_vars
             => KeysWithin(0) \/ KeysWithin(1)'
        /\ KeysWithin(0) => KeysWithin(1)
    BY WithinBound, 2 \in 1..11, 1 \in 0..10, 2 = 1 + 1
  <2> QED BY <2>1, PTL DEF Turning, Running
<1>1. Turning => [](KeysWithin(1) => <>KeysWithin(0))
  <2>1. /\ IInv /\ [Next]_vars /\ [~CutShort]_vars /\ KeysWithin(1)
             => KeysWithin(0) \/ KeysWithin(1)'
        /\ IInv /\ [~CutShort]_vars /\ KeysWithin(1) /\ <<main>>_vars
             => KeysWithin(0) \/ KeysWithin(0)'
        /\ KeysWithin(0) => KeysWithin(0)
    BY WithinBound, 1 \in 1..11, 0 \in 0..10, 1 = 0 + 1
  <2> QED BY <2>1, PTL DEF Turning, Running
<1>12. IInv => KeysWithin(11)
  BY StepsCount DEF KeysWithin
<1>13. Turning => []KeysWithin(11)
  BY <1>12, PTL DEF Turning
<1> QED BY <1>1, <1>2, <1>3, <1>4, <1>5, <1>6, <1>7, <1>8, <1>9, <1>10, <1>11,
           <1>13, PTL DEF Turning

Served == pc \in {"keys"} \cup Final

\* The keyboard is served again and again until the program ends, unless
\* signals cut the turns short for ever or a call on the network does not
\* return (the while loop of main around imcomm_select).
THEOREM KeyboardIsServed == FairSpec /\ []NeverStuck => KeyboardServed
<1>1. IInv /\ KeysWithin(0) => Served
  BY StepsCount DEF KeysWithin, Served, IInv
<1>2. Spec /\ Running /\ <>[][~CutShort]_vars => []<>Served
  <2>1. Spec /\ Running /\ <>[][~CutShort]_vars => []IInv /\ <>Turning
    BY Inductive, PTL DEF Spec, Turning, Running
  <2> QED BY <1>1, <2>1, EachTurnServes, PTL
<1>3. Spec /\ <>Ended => []<>Served
  <2>1. Ended => Served
    BY DEF Ended, Served
  <2> QED BY <2>1, EndIsFinal, PTL
<1>4. FairSpec /\ []NeverStuck /\ <>[][~CutShort]_vars => []<>Served
  BY <1>2, <1>3, RunsOrEnds, PTL DEF FairSpec
<1>5. Served <=> pc \in {"keys"} \cup Stopped \/ pc \in Held
  BY DEF Served, Final
<1> QED BY <1>4, <1>5, PTL DEF KeyboardServed

\* How many steps of the thread free a marked handle, at most.
MarkSteps(id) ==
    IF ~h[id].to_delete THEN 0
    ELSE CASE pc = "keys"   -> 6
           [] pc = "select" -> 5
           [] pc = "trim"   -> 4
           [] pc = "sleep"  -> 3
           [] pc = "dial"   -> 2
           [] pc = "unlink" -> 1
           [] pc \in Final  -> 0
           [] OTHER         -> 7

MarkWithin(id, n) == MarkSteps(id) <= n

\* Nothing is marked any more where the loop waits for input.
Tidy == pc \in {"start", "fdset", "poll"} => \A id \in Ids : ~h[id].to_delete

\* With auto_reconnect there is a handle on the program's list except before
\* the first one and while the program sleeps.
Supplied == auto_reconnect /\ clist = <<>> => pc \in {"start", "sleep"} \cup Final

\* Only these steps lead to where the loop waits.
LEMMA TidyInv == IInv /\ Tidy /\ [Next]_vars => Tidy'
<1> SUFFICES ASSUME IInv, Tidy, [Next]_vars, pc' \in {"start", "fdset", "poll"}
             PROVE  \A id \in Ids : ~h'[id].to_delete
  BY DEF Tidy
<1>1. CASE imcomm_select
  BY <1>1 DEF imcomm_select, IInv, Marks
<1>2. CASE trim_done
  BY <1>2, TrimDoneInv DEF trim_done
<1>3. CASE fd_set_handles
  BY <1>3 DEF fd_set_handles, Tidy
<1>4. CASE sigusr1_handler
  <2>1. pc' = pc /\ h' = h
    BY <1>4, Sending DEF sigusr1_handler
  <2> QED BY <2>1 DEF Tidy
<1>5. CASE UNCHANGED vars
  BY <1>5 DEF vars, Tidy
<1>6. CASE main_start \/ handle_deleted_wakes \/ input_reconnect
  BY <1>6 DEF main_start, handle_deleted_wakes, input_reconnect, create_new_connection
<1>7. ASSUME NEW outcome \in ConnectOutcomes, connect_ssl(outcome) PROVE FALSE
  <2>1. pc' \notin Final
    BY DEF Final, Held, Stopped
  <2> QED BY <1>7, <2>1, DialsOn
<1>8. CASE handle_deleted \/ unlink_head \/ input_quit \/ no_command
           \/ handshake_hangs
  BY <1>8 DEF handle_deleted, unlink_head, input_quit, no_command, handshake_hangs
<1>9. CASE nothing_to_read \/ input_set_invisible \/ input_reload_profile
  BY <1>9, Sending DEF nothing_to_read, input_set_invisible, input_reload_profile
<1>10. ASSUME NEW id \in Ids,
              \/ bos_signon_phase2(id) \/ multi_ssiact_cliready(id)
              \/ snac_get_signon(id) \/ ClosedByServer(id)
              \/ Disconnected(id) \/ EndOfStream(id) \/ flap_hangs(id)
       PROVE  FALSE
  BY <1>10, Sending DEF bos_signon_phase2, multi_ssiact_cliready,
     snac_get_signon, ClosedByServer, Disconnected, EndOfStream, flap_hangs
<1> QED BY <1>1, <1>2, <1>3, <1>4, <1>5, <1>6, <1>7, <1>8, <1>9, <1>10
        DEF Next, main, Select, parse_input

\* A list that something was appended to is not empty.
LEMMA Appended ==
    ASSUME NEW s \in Seq(Ids), NEW a \in Ids PROVE Append(s, a) # <<>>
<1>1. Len(Append(s, a)) = Len(s) + 1 /\ Len(s) \in Nat
  BY AppendProperties
<1> QED BY <1>1

\* A handle leaves the program's list only where the program goes to sleep, or
\* makes another one.
LEMMA SuppliedInv == IInv /\ Supplied /\ [Next]_vars => Supplied'
<1> SUFFICES ASSUME IInv, Supplied, [Next]_vars, auto_reconnect, clist' = <<>>,
                    pc' \notin Final
             PROVE  pc' \in {"start", "sleep"}
  BY DEF Supplied
<1>0. clist \in Seq(Ids)
  BY DEF IInv, TypeOK
<1>1. CASE handle_deleted
  BY <1>1, HandleDeletedHead
<1>2. CASE main_start \/ handle_deleted_wakes
  BY <1>0, <1>2, Appended DEF main_start, handle_deleted_wakes, create_new_connection
<1>3. CASE input_reconnect
  <2>1. Tail(clist) \in Seq(Ids) \/ clist = <<>>
    BY <1>0
  <2>2. conn # NULL => clist # <<>>
    <3>1. ASSUME NEW a \in Ids, SoleAt(a) PROVE clist # <<>>
      BY <3>1, ShortLists DEF SoleAt, Sole
    <3>2. pc \in Loop
      BY <1>3 DEF input_reconnect, Loop
    <3> QED BY <3>1, <3>2, InLoop DEF NobodyAt, Nobody
  <2> QED BY <1>0, <1>3, <2>1, <2>2, Appended
          DEF input_reconnect, create_new_connection
<1>4. ASSUME UNCHANGED clist, pc \in {"start", "sleep"} => pc' = pc
      PROVE  pc' \in {"start", "sleep"}
  <2>1. pc \in {"start", "sleep"} \cup Final
    BY <1>4 DEF Supplied
  <2>2. pc \notin Final
    BY EndStops DEF Ended, vars
  <2> QED BY <1>4, <2>1, <2>2
<1>5. ASSUME NEW outcome \in ConnectOutcomes, connect_ssl(outcome)
      PROVE  pc' \in {"start", "sleep"}
  BY <1>4, <1>5 DEF connect_ssl
<1>6. CASE imcomm_select \/ unlink_head \/ trim_done \/ fd_set_handles
  BY <1>4, <1>6 DEF imcomm_select, unlink_head, trim_done, fd_set_handles, lists
<1>7. CASE nothing_to_read \/ input_set_invisible \/ input_reload_profile
           \/ input_quit \/ no_command \/ handshake_hangs
  BY <1>4, <1>7 DEF nothing_to_read, input_set_invisible, input_reload_profile,
     input_quit, no_command, handshake_hangs, lists
<1>8. ASSUME NEW id \in Ids,
             \/ bos_signon_phase2(id) \/ multi_ssiact_cliready(id)
             \/ snac_get_signon(id) \/ ClosedByServer(id)
             \/ Disconnected(id) \/ EndOfStream(id) \/ flap_hangs(id)
      PROVE  pc' \in {"start", "sleep"}
  <2>1. Readable(id) /\ UNCHANGED clist
    BY <1>8 DEF bos_signon_phase2, multi_ssiact_cliready, snac_get_signon,
       ClosedByServer, Disconnected, EndOfStream, flap_hangs, Packet, lists
  <2> QED BY <1>4, <2>1 DEF Readable
<1>9. CASE sigusr1_handler
  <2>1. UNCHANGED clist /\ pc' \in {pc, "select"} \cup Final
        /\ (pc' = "select" => pc \in {"poll", "select"})
    <3> DEFINE back == IF pc = "poll" THEN "select" ELSE pc
    <3>1. UNCHANGED clist /\ pc' \in {back, "crashed", "killed", "hung"}
      BY <1>9, Sending DEF sigusr1_handler, lists
    <3> QED BY <3>1 DEF Final, Held, Stopped
  <2> QED BY <1>4, <2>1
<1>10. CASE UNCHANGED vars
  BY <1>4, <1>10 DEF vars
<1> QED BY <1>1, <1>2, <1>3, <1>5, <1>6, <1>7, <1>8, <1>9, <1>10
        DEF Next, main, Select, parse_input

\* Each turn has freed what was marked before it waits, and with
\* auto_reconnect it never waits, or reads a key, without a connection
\* (remove_deleted_handles, handle_deleted).
THEOREM TurnsTidyUp == Spec => []TurnTidies
<1>1. Init => Tidy /\ Supplied
  BY DEF Init, Tidy, Supplied, Freed
<1>2. IInv /\ Tidy /\ Supplied => TurnTidies
  <2> SUFFICES ASSUME IInv, Tidy, Supplied PROVE TurnTidies
    OBVIOUS
  <2>1. pc \in {"fdset", "poll"} => \A id \in Ids : ~h[id].to_delete
    BY DEF Tidy
  <2>2. auto_reconnect /\ pc \in {"select", "fdset", "poll", "keys"} => conn # NULL
    <3>1. auto_reconnect /\ pc \in {"select", "fdset", "poll", "keys"} => ~NobodyAt
      BY DEF Supplied, NobodyAt, Nobody, Final, Held, Stopped
    <3> QED BY <3>1, InLoop, NullAssumption DEF Loop
  <2> QED BY <2>1, <2>2 DEF TurnTidies
<1> QED BY <1>1, <1>2, Inductive, TidyInv, SuppliedInv, PTL DEF Spec

-----------------------------------------------------------------------------
(* Marked handles are freed.                                               *)

\* Where a marked handle is, is told by where the thread is.
LEMMA MarkedAt ==
    ASSUME IInv, NEW id \in Ids, h[id].to_delete
    PROVE  /\ pc \in Loop => SoleAt(id) /\ conn = id
           /\ pc = "sleep" => LeavingAt(id)
           /\ pc = "dial" => \E b \in Ids : ReplacedAt(id, b)
           /\ pc = "unlink" => LeavingAt(id) \/ \E b \in Ids : ReplacedAt(id, b)
<1>0. h[id].alive
  BY DEF IInv, Marks
<1>1. CASE NobodyAt
  BY <1>0, <1>1 DEF NobodyAt, Alive
<1>2. ASSUME NEW a \in Ids, SoleAt(a)
      PROVE  a = id /\ pc \in Loop \cup Final /\ conn = a
  BY <1>0, <1>2 DEF SoleAt, Alive, Final, Held, Stopped
<1>3. ASSUME NEW a \in Ids, LeavingAt(a)
      PROVE  a = id /\ pc \in {"sleep", "unlink"} \cup Final
  BY <1>0, <1>3 DEF LeavingAt, Alive
<1>4. ASSUME NEW a \in Ids, NEW b \in Ids, ReplacedAt(a, b)
      PROVE  a = id /\ pc \in {"dial", "unlink"} \cup Final
  BY <1>0, <1>4 DEF ReplacedAt, Replaced, Alive
<1>5. CASE \E a \in Ids : SoleAt(a)
  BY <1>2, <1>5 DEF Loop, Final, Held, Stopped
<1>6. CASE \E a \in Ids : LeavingAt(a)
  BY <1>3, <1>6 DEF Loop, Final, Held, Stopped
<1>7. CASE \E a, b \in Ids : ReplacedAt(a, b)
  BY <1>4, <1>7 DEF Loop, Final, Held, Stopped
<1> QED BY <1>1, <1>5, <1>6, <1>7 DEF IInv, Shape

LEMMA MarksCount ==
    ASSUME NEW id \in Ids
    PROVE  /\ MarkSteps(id) \in 0..7 /\ MarkSteps(id)' \in 0..7
           /\ ~h'[id].to_delete \/ pc' \in Final => MarkSteps(id)' = 0
<1>1. MarkSteps(id) \in 0..7
  BY DEF MarkSteps
<1>2. MarkSteps(id)' \in 0..7
  BY DEF MarkSteps
<1>3. ~h'[id].to_delete \/ pc' \in Final => MarkSteps(id)' = 0
  BY DEF MarkSteps, Final, Held, Stopped
<1> QED BY <1>1, <1>2, <1>3

\* What the thread does is told by where it is.
LEMMA StepAt ==
    ASSUME main
    PROVE  /\ pc = "keys" => parse_input
           /\ pc = "select" => imcomm_select
           /\ pc = "trim" => handle_deleted \/ trim_done
           /\ pc = "sleep" => handle_deleted_wakes
           /\ pc = "dial" => \/ handshake_hangs
                             \/ \E outcome \in ConnectOutcomes : connect_ssl(outcome)
           /\ pc = "unlink" => unlink_head
<1>1. /\ main_start => pc = "start"
      /\ imcomm_select => pc = "select"
      /\ handle_deleted \/ trim_done => pc = "trim"
      /\ handle_deleted_wakes => pc = "sleep"
      /\ unlink_head => pc = "unlink"
      /\ fd_set_handles => pc = "fdset"
      /\ nothing_to_read => pc = "poll"
      /\ handshake_hangs => pc = "dial"
  BY DEF main_start, imcomm_select, handle_deleted, trim_done, handshake_hangs,
     handle_deleted_wakes, unlink_head, fd_set_handles, nothing_to_read
<1>2. \A outcome \in ConnectOutcomes : connect_ssl(outcome) => pc = "dial"
  BY DEF connect_ssl
<1>3. ASSUME NEW id \in Ids,
             \/ bos_signon_phase2(id) \/ multi_ssiact_cliready(id)
             \/ snac_get_signon(id) \/ ClosedByServer(id)
             \/ Disconnected(id) \/ EndOfStream(id) \/ flap_hangs(id)
      PROVE  pc = "poll"
  BY <1>3 DEF bos_signon_phase2, multi_ssiact_cliready, snac_get_signon,
     ClosedByServer, Disconnected, EndOfStream, flap_hangs, Packet, Readable
<1>4. parse_input => pc = "keys"
  BY DEF parse_input, input_reconnect, input_quit, input_set_invisible,
     input_reload_profile, no_command
<1> QED BY <1>1, <1>2, <1>3, <1>4 DEF main, Select

\* A step of the thread brings a marked handle nearer to its end.
LEMMA ThreadFrees ==
    ASSUME IInv, main, NEW id \in Ids, MarkSteps(id) \in 1..6
    PROVE  MarkSteps(id)' < MarkSteps(id)
<1>0. /\ h[id].to_delete /\ h[id].alive /\ nodes_to_delete
      /\ pc \in {"keys", "select", "trim", "sleep", "dial", "unlink"}
      /\ h \in [Ids -> Handle]
  BY DEF MarkSteps, IInv, Marks, TypeOK, Places
<1>1. CASE ~h'[id].to_delete \/ pc' \in Final
  BY <1>1, MarksCount
<1> SUFFICES ASSUME h'[id].to_delete, pc' \notin Final
             PROVE  MarkSteps(id)' < MarkSteps(id)
  BY <1>1
<1>2. CASE pc = "keys"
  <2>1. SoleAt(id) /\ conn = id
    BY <1>0, <1>2, MarkedAt DEF Loop
  <2>2. ~input_reconnect
    <3> SUFFICES ASSUME input_reconnect PROVE FALSE
      OBVIOUS
    <3>1. conn # NULL
      BY <2>1, NullAssumption
    <3>2. PICK hs, cl : create_new_connection(hs, cl, [h EXCEPT ![id] = Freed])
      BY <2>1, <3>1 DEF input_reconnect, imcomm_delete_handle_now
    <3>3. PICK b \in Ids : h' = [[h EXCEPT ![id] = Freed] EXCEPT ![b] = imcomm_create_handle]
      BY <3>2 DEF create_new_connection
    <3>4. ~h'[id].to_delete
      BY <1>0, <3>3, Created
    <3> QED BY <3>4
  <2>3. pc' = "select"
    <3>1. parse_input
      BY <1>2, StepAt
    <3> QED BY <2>2, <3>1, Sending DEF parse_input, input_quit,
               input_set_invisible, input_reload_profile, no_command, Final, Held, Stopped
  <2> QED BY <1>0, <1>2, <2>3 DEF MarkSteps
<1>3. CASE pc = "select"
  <2>1. pc' = "trim"
    BY <1>0, <1>3, StepAt DEF imcomm_select
  <2> QED BY <1>0, <1>3, <2>1 DEF MarkSteps
<1>4. CASE pc = "trim"
  <2>1. Head(handles) = id
    <3>1. handles = <<id>>
      BY <1>0, <1>4, MarkedAt DEF Loop, SoleAt, Sole
    <3> QED BY <3>1, ShortLists
  <2>2. handle_deleted \/ trim_done
    BY <1>4, StepAt
  <2>3. ~trim_done
    BY <1>0, TrimDoneInv
  <2>4. pc' \in {"sleep", "unlink"}
    BY <2>2, <2>3, HandleDeletedHead
  <2> QED BY <1>0, <1>4, <2>4 DEF MarkSteps
<1>5. CASE pc = "sleep"
  <2>1. pc' = "dial"
    BY <1>5, StepAt DEF handle_deleted_wakes, create_new_connection
  <2> QED BY <1>0, <1>5, <2>1 DEF MarkSteps
<1>6. CASE pc = "dial"
  <2>1. PICK outcome \in ConnectOutcomes : connect_ssl(outcome)
    BY <1>6, StepAt DEF handshake_hangs, Final, Held
  <2>2. PICK b \in Ids : handles = <<id, b>> /\ conn = NULL
    BY <1>0, <1>6, MarkedAt DEF ReplacedAt, Replaced, Final, Held, Stopped
  <2>3. pc' = "unlink"
    BY <2>1, <2>2, DialsOn, ShortLists
  <2> QED BY <1>0, <1>6, <2>3 DEF MarkSteps
<1>7. CASE pc = "unlink"
  <2>1. unlink_head
    BY <1>7, StepAt
  <2>2. Head(handles) = id
    <3>1. handles = <<id>> \/ \E b \in Ids : handles = <<id, b>>
      BY <1>0, <1>7, MarkedAt DEF LeavingAt, Leaving, ReplacedAt, Replaced
    <3> QED BY <3>1, ShortLists
  <2>3. ~h'[id].to_delete
    BY <1>0, <2>1, <2>2, Created DEF unlink_head
  <2> QED BY <2>3
<1> QED BY <1>0, <1>2, <1>3, <1>4, <1>5, <1>6, <1>7

\* A signal leaves a marked handle where it is, or ends the program.
LEMMA SignalFrees ==
    ASSUME sigusr1_handler, NEW id \in Ids, MarkSteps(id) \in 1..6
    PROVE  MarkSteps(id)' <= MarkSteps(id)
<1>1. h' = h /\ pc' \in {pc} \cup Final
  <2>1. pc # "poll"
    BY DEF MarkSteps, Final, Held, Stopped
  <2> QED BY <2>1, Sending DEF sigusr1_handler, Final, Held, Stopped
<1>2. CASE pc' \in Final
  BY <1>2, MarksCount
<1>3. CASE pc' = pc
  <2>1. MarkSteps(id)' = MarkSteps(id)
    BY <1>1, <1>3 DEF MarkSteps
  <2> QED BY <2>1, MarksCount
<1> QED BY <1>1, <1>2, <1>3

LEMMA MarkBound ==
    ASSUME NEW id \in Ids, NEW n \in 1..6, NEW m \in 0..5, n = m + 1
    PROVE  /\ IInv /\ [Next]_vars /\ MarkWithin(id, n)
                => MarkWithin(id, 0) \/ MarkWithin(id, n)'
           /\ IInv /\ MarkWithin(id, n) /\ <<main>>_vars
                => MarkWithin(id, 0) \/ MarkWithin(id, m)'
           /\ MarkWithin(id, 0) => MarkWithin(id, m)
<1>0. MarkSteps(id) \in 0..7 /\ MarkSteps(id)' \in 0..7
  BY MarksCount
<1>1. ASSUME IInv, [Next]_vars, MarkWithin(id, n), ~MarkWithin(id, 0)
      PROVE  MarkWithin(id, n)'
  <2>1. MarkSteps(id) \in 1..n
    BY <1>0, <1>1 DEF MarkWithin
  <2>2. MarkSteps(id)' <= MarkSteps(id)
    <3>1. CASE UNCHANGED vars
      <4>1. MarkSteps(id)' = MarkSteps(id)
        BY <3>1 DEF MarkSteps, vars
      <4> QED BY <1>0, <4>1
    <3>2. main => MarkSteps(id)' < MarkSteps(id)
      BY <1>1, <2>1, ThreadFrees
    <3>3. sigusr1_handler => MarkSteps(id)' <= MarkSteps(id)
      BY <2>1, SignalFrees
    <3> QED BY <1>0, <1>1, <3>1, <3>2, <3>3 DEF Next
  <2> QED BY <1>0, <2>1, <2>2 DEF MarkWithin
<1>2. ASSUME IInv, MarkWithin(id, n), <<main>>_vars, ~MarkWithin(id, 0)
      PROVE  MarkWithin(id, m)'
  <2>1. MarkSteps(id) \in 1..n
    BY <1>0, <1>2 DEF MarkWithin
  <2>2. MarkSteps(id)' < MarkSteps(id)
    BY <1>2, <2>1, ThreadFrees
  <2> QED BY <1>0, <2>1, <2>2 DEF MarkWithin
<1>3. MarkWithin(id, 0) => MarkWithin(id, m)
  BY <1>0 DEF MarkWithin
<1> QED BY <1>1, <1>2, <1>3

\* A thread that runs on, whatever the signals do.
Freeing == []IInv /\ []Tidy /\ [][Next]_vars /\ Running

\* It frees every marked handle, or ends; again step n is about the bound n.
LEMMA EachMarkFreed ==
    ASSUME NEW id \in Ids
    PROVE  Freeing => []<>MarkWithin(id, 0)
<1>6. Freeing => [](MarkWithin(id, 6) => <>MarkWithin(id, 5))
  <2>1. /\ IInv /\ [Next]_vars /\ MarkWithin(id, 6)
             => MarkWithin(id, 0) \/ MarkWithin(id, 6)'
        /\ IInv /\ MarkWithin(id, 6) /\ <<main>>_vars
             => MarkWithin(id, 0) \/ MarkWithin(id, 5)'
        /\ MarkWithin(id, 0) => MarkWithin(id, 5)
    BY MarkBound, 6 \in 1..6, 5 \in 0..5, 6 = 5 + 1
  <2> QED BY <2>1, PTL DEF Freeing, Running
<1>5. Freeing => [](MarkWithin(id, 5) => <>MarkWithin(id, 4))
  <2>1. /\ IInv /\ [Next]_vars /\ MarkWithin(id, 5)
             => MarkWithin(id, 0) \/ MarkWithin(id, 5)'
        /\ IInv /\ MarkWithin(id, 5) /\ <<main>>_vars
             => MarkWithin(id, 0) \/ MarkWithin(id, 4)'
        /\ MarkWithin(id, 0) => MarkWithin(id, 4)
    BY MarkBound, 5 \in 1..6, 4 \in 0..5, 5 = 4 + 1
  <2> QED BY <2>1, PTL DEF Freeing, Running
<1>4. Freeing => [](MarkWithin(id, 4) => <>MarkWithin(id, 3))
  <2>1. /\ IInv /\ [Next]_vars /\ MarkWithin(id, 4)
             => MarkWithin(id, 0) \/ MarkWithin(id, 4)'
        /\ IInv /\ MarkWithin(id, 4) /\ <<main>>_vars
             => MarkWithin(id, 0) \/ MarkWithin(id, 3)'
        /\ MarkWithin(id, 0) => MarkWithin(id, 3)
    BY MarkBound, 4 \in 1..6, 3 \in 0..5, 4 = 3 + 1
  <2> QED BY <2>1, PTL DEF Freeing, Running
<1>3. Freeing => [](MarkWithin(id, 3) => <>MarkWithin(id, 2))
  <2>1. /\ IInv /\ [Next]_vars /\ MarkWithin(id, 3)
             => MarkWithin(id, 0) \/ MarkWithin(id, 3)'
        /\ IInv /\ MarkWithin(id, 3) /\ <<main>>_vars
             => MarkWithin(id, 0) \/ MarkWithin(id, 2)'
        /\ MarkWithin(id, 0) => MarkWithin(id, 2)
    BY MarkBound, 3 \in 1..6, 2 \in 0..5, 3 = 2 + 1
  <2> QED BY <2>1, PTL DEF Freeing, Running
<1>2. Freeing => [](MarkWithin(id, 2) => <>MarkWithin(id, 1))
  <2>1. /\ IInv /\ [Next]_vars /\ MarkWithin(id, 2)
             => MarkWithin(id, 0) \/ MarkWithin(id, 2)'
        /\ IInv /\ MarkWithin(id, 2) /\ <<main>>_vars
             => MarkWithin(id, 0) \/ MarkWithin(id, 1)'
        /\ MarkWithin(id, 0) => MarkWithin(id, 1)
    BY MarkBound, 2 \in 1..6, 1 \in 0..5, 2 = 1 + 1
  <2> QED BY <2>1, PTL DEF Freeing, Running
<1>1. Freeing => [](MarkWithin(id, 1) => <>MarkWithin(id, 0))
  <2>1. /\ IInv /\ [Next]_vars /\ MarkWithin(id, 1)
             => MarkWithin(id, 0) \/ MarkWithin(id, 1)'
        /\ IInv /\ MarkWithin(id, 1) /\ <<main>>_vars
             => MarkWithin(id, 0) \/ MarkWithin(id, 0)'
        /\ MarkWithin(id, 0) => MarkWithin(id, 0)
    BY MarkBound, 1 \in 1..6, 0 \in 0..5, 1 = 0 + 1
  <2> QED BY <2>1, PTL DEF Freeing, Running
<1>7. IInv /\ Tidy => MarkWithin(id, 6)
  <2> SUFFICES ASSUME IInv, Tidy PROVE MarkSteps(id) <= 6
    BY DEF MarkWithin
  <2>1. MarkSteps(id) # 7
    BY DEF MarkSteps, Tidy, IInv, TypeOK, Places
  <2> QED BY <2>1, MarksCount
<1>8. Freeing => []MarkWithin(id, 6)
  BY <1>7, PTL DEF Freeing
<1> QED BY <1>1, <1>2, <1>3, <1>4, <1>5, <1>6, <1>8, PTL DEF Freeing

\* The loop turns with its lists tidy, where it turns for ever.
LEMMA Turns == Spec => []IInv /\ []Tidy
<1>1. Init => Tidy
  BY DEF Init, Tidy, Freed
<1> QED BY <1>1, Inductive, TidyInv, PTL DEF Spec

\* A marked handle is freed in the end, or the program has ended
\* (imcomm_delete_handle, remove_deleted_handles).
THEOREM MarksAreFreed == FairSpec /\ []NeverStuck => MarkedAreFreed
<1>1. ASSUME NEW id \in Ids
      PROVE  FairSpec /\ []NeverStuck
               => (h[id].to_delete ~> (~h[id].to_delete \/ pc \in Final))
  <2>1. MarkWithin(id, 0) => ~h[id].to_delete \/ Ended
    BY DEF MarkWithin, MarkSteps, Ended
  <2>2. Spec /\ Running => []<>MarkWithin(id, 0)
    BY EachMarkFreed, Turns, PTL DEF Spec, Freeing
  <2>3. Spec /\ <>Ended => []<>Ended
    BY EndIsFinal, PTL
  <2> QED BY <2>1, <2>2, <2>3, RunsOrEnds, PTL DEF FairSpec, Ended
<1> QED BY <1>1 DEF MarkedAreFreed

-----------------------------------------------------------------------------
(* A lost session is dialled again.                                        *)

Redialled == (conn # NULL /\ link \in {"up", "dead"}) \/ pc \in Final

\* How many steps of the thread a lost session is from the next attempt.
LostSteps ==
    CASE link = "lost" /\ pc = "keys"   -> 5
      [] link = "lost" /\ pc = "select" -> 4
      [] link = "lost" /\ pc = "trim"   -> 3
      [] pc = "sleep"                   -> 2
      [] pc = "dial" /\ conn = NULL     -> 1
      [] OTHER                          -> 0

LostWithin(n) == LostSteps \in 1..n

\* What is lost is the marked handle that everything points to.
LEMMA LostAt ==
    ASSUME IInv, link = "lost", pc \in Loop
    PROVE  \E a \in Ids : SoleAt(a) /\ conn = a /\ clist = <<a>> /\ h[a].to_delete
<1>1. clist # <<>> /\ h[Head(clist)].to_delete
  BY DEF link
<1>2. PICK a \in Ids : SoleAt(a) /\ conn = a
  BY <1>1, InLoop DEF NobodyAt, Nobody
<1> QED BY <1>1, <1>2, ShortLists DEF SoleAt, Sole

\* An attempt that was made is one, whatever came of it.
LEMMA DialsAgain ==
    ASSUME IInv, NEW outcome \in ConnectOutcomes, connect_ssl(outcome), conn = NULL
    PROVE  Redialled'
<1>1. pc = "dial"
  BY DEF connect_ssl
<1>2. PICK b \in Ids : clist = <<b>> /\ ~h[b].to_delete /\ h[b].stage = "auth"
  BY <1>1, NullAssumption DEF IInv, Shape, NobodyAt, SoleAt, Sole, LeavingAt,
     ReplacedAt, Replaced, Loop, Final, Held, Stopped
<1>3. Head(clist) = b /\ h[b] \in Handle /\ outcome \in {"ok", "refused", "nosock", "handshake"}
  BY <1>2, ShortLists, OutcomesAssumption DEF IInv, TypeOK
<1>4. conn' = b /\ clist' = <<b>>
  BY <1>2, <1>3 DEF connect_ssl
<1>5. ~h'[b].to_delete
  <2> DEFINE new ==
        CASE outcome = "ok" -> [h[b] EXCEPT !.socket = "open", !.ssl = "live"]
          [] outcome = "refused" -> [h[b] EXCEPT !.socket = "unconnected"]
          [] outcome = "nosock" -> [h[b] EXCEPT !.socket = "closed"]
          [] outcome = "handshake" -> [h[b] EXCEPT !.socket = "open"]
  <2>1. h' = [h EXCEPT ![b] = new]
    BY <1>3 DEF connect_ssl
  <2>2. new.to_delete = h[b].to_delete
    BY <1>3 DEF Handle
  <2> HIDE DEF new
  <2> QED BY <1>2, <2>1, <2>2 DEF IInv, TypeOK
<1>6. link' \in {"up", "dead"}
  BY <1>4, <1>5, NextLinkOf
<1> QED BY <1>4, <1>6, NullAssumption DEF Redialled

\* A step of the thread brings a lost session nearer to it.
LEMMA ThreadRedials ==
    ASSUME IInv, main, auto_reconnect, LostSteps \in 1..5
    PROVE  Redialled' \/ LostSteps' \in 1..(LostSteps - 1)
<1> SUFFICES ASSUME ~Redialled' PROVE LostSteps' \in 1..(LostSteps - 1)
  OBVIOUS
<1>0. pc' \notin Final
  BY DEF Redialled
<1>1. ASSUME link = "lost", pc = "keys" PROVE LostSteps' \in 1..4
  <2>1. PICK a \in Ids : conn = a /\ clist = <<a>> /\ h[a].to_delete
    BY <1>1, LostAt DEF Loop
  <2>2. parse_input
    BY <1>1, StepAt
  <2>3. CASE input_reconnect
    <3>1. pc' = "dial" /\ conn' = NULL
      BY <2>3 DEF input_reconnect, create_new_connection
    <3> QED BY <3>1 DEF LostSteps
  <2>4. CASE ~input_reconnect
    <3>1. pc' = "select" /\ UNCHANGED <<clist, h>>
      BY <1>0, <2>2, <2>4, Sending DEF parse_input, input_quit,
         input_set_invisible, input_reload_profile, no_command, Final, Held, Stopped, lists
    <3>2. link' = "lost"
      BY <1>1, <3>1 DEF link
    <3> QED BY <3>1, <3>2 DEF LostSteps
  <2> QED BY <2>3, <2>4
<1>2. ASSUME link = "lost", pc = "select" PROVE LostSteps' \in 1..3
  <2>1. PICK a \in Ids : h[a].to_delete
    BY <1>2, LostAt DEF Loop
  <2>2. pc' = "trim" /\ UNCHANGED <<clist, h>>
    BY <1>2, <2>1, StepAt DEF imcomm_select, lists, IInv, Marks
  <2>3. link' = "lost"
    BY <1>2, <2>2 DEF link
  <2> QED BY <2>2, <2>3 DEF LostSteps
<1>3. ASSUME link = "lost", pc = "trim" PROVE LostSteps' \in 1..2
  <2>1. PICK a \in Ids : h[a].to_delete
    BY <1>3, LostAt DEF Loop
  <2>2. handle_deleted
    BY <1>3, <2>1, StepAt, TrimDoneInv
  <2>3. pc' = "sleep"
    BY <2>2, HandleDeletedHead
  <2> QED BY <2>3 DEF LostSteps
<1>4. ASSUME pc = "sleep" PROVE LostSteps' = 1
  <2>1. conn = NULL
    BY <1>4 DEF IInv, Shape, NobodyAt, SoleAt, LeavingAt, Leaving, ReplacedAt, Loop,
       Final, Held, Stopped
  <2>2. pc' = "dial" /\ conn' = NULL
    BY <1>4, <2>1, StepAt DEF handle_deleted_wakes, create_new_connection
  <2> QED BY <2>2 DEF LostSteps
<1>5. ASSUME pc = "dial", conn = NULL PROVE FALSE
  BY <1>0, <1>5, StepAt, DialsAgain DEF handshake_hangs, Final, Held
<1> QED BY <1>1, <1>2, <1>3, <1>4, <1>5 DEF LostSteps

\* A signal leaves it where it is, or ends the program.
LEMMA SignalRedials ==
    ASSUME sigusr1_handler, LostSteps \in 1..5
    PROVE  Redialled' \/ LostSteps' = LostSteps
<1>1. pc # "poll"
  BY DEF LostSteps
<1>2. UNCHANGED <<clist, h, conn>> /\ pc' \in {pc} \cup Final
  BY <1>1, Sending DEF sigusr1_handler, lists, Final, Held, Stopped
<1>3. link' = link
  BY <1>2 DEF link
<1> QED BY <1>2, <1>3 DEF LostSteps, Redialled

LEMMA LostBound ==
    ASSUME auto_reconnect, NEW n \in 1..5, NEW m \in 0..4, n = m + 1
    PROVE  /\ IInv /\ [Next]_vars /\ LostWithin(n) => LostWithin(n)' \/ Redialled'
           /\ IInv /\ LostWithin(n) /\ <<main>>_vars => LostWithin(m)' \/ Redialled'
<1>1. ASSUME IInv, main, LostWithin(n) PROVE LostWithin(m)' \/ Redialled'
  BY <1>1, ThreadRedials DEF LostWithin
<1>2. ASSUME sigusr1_handler \/ UNCHANGED vars, LostWithin(n)
      PROVE  LostWithin(n)' \/ Redialled'
  <2>1. UNCHANGED vars => LostSteps' = LostSteps
    BY DEF LostSteps, link, vars
  <2> QED BY <1>2, <2>1, SignalRedials DEF LostWithin
<1>3. LostWithin(m)' => LostWithin(n)'
  BY DEF LostWithin
<1> QED BY <1>1, <1>2, <1>3 DEF Next

Redialling == []IInv /\ [][Next]_vars /\ Running

\* With auto_reconnect, a session that is lost is followed by an attempt at
\* another one (handle_deleted, create_new_connection).
THEOREM LostIsRedialled == FairSpec /\ []NeverStuck => LostReconnects
<1> SUFFICES ASSUME auto_reconnect
             PROVE  FairSpec /\ []NeverStuck => ((link = "lost") ~> Redialled)
  BY DEF LostReconnects, Redialled
<1>5. Redialling => [](LostWithin(5) => <>(LostWithin(4) \/ Redialled))
  <2>1. /\ IInv /\ [Next]_vars /\ LostWithin(5) => LostWithin(5)' \/ Redialled'
        /\ IInv /\ LostWithin(5) /\ <<main>>_vars => LostWithin(4)' \/ Redialled'
    BY LostBound, 5 \in 1..5, 4 \in 0..4, 5 = 4 + 1
  <2> QED BY <2>1, PTL DEF Redialling, Running
<1>4. Redialling => [](LostWithin(4) => <>(LostWithin(3) \/ Redialled))
  <2>1. /\ IInv /\ [Next]_vars /\ LostWithin(4) => LostWithin(4)' \/ Redialled'
        /\ IInv /\ LostWithin(4) /\ <<main>>_vars => LostWithin(3)' \/ Redialled'
    BY LostBound, 4 \in 1..5, 3 \in 0..4, 4 = 3 + 1
  <2> QED BY <2>1, PTL DEF Redialling, Running
<1>3. Redialling => [](LostWithin(3) => <>(LostWithin(2) \/ Redialled))
  <2>1. /\ IInv /\ [Next]_vars /\ LostWithin(3) => LostWithin(3)' \/ Redialled'
        /\ IInv /\ LostWithin(3) /\ <<main>>_vars => LostWithin(2)' \/ Redialled'
    BY LostBound, 3 \in 1..5, 2 \in 0..4, 3 = 2 + 1
  <2> QED BY <2>1, PTL DEF Redialling, Running
<1>2. Redialling => [](LostWithin(2) => <>(LostWithin(1) \/ Redialled))
  <2>1. /\ IInv /\ [Next]_vars /\ LostWithin(2) => LostWithin(2)' \/ Redialled'
        /\ IInv /\ LostWithin(2) /\ <<main>>_vars => LostWithin(1)' \/ Redialled'
    BY LostBound, 2 \in 1..5, 1 \in 0..4, 2 = 1 + 1
  <2> QED BY <2>1, PTL DEF Redialling, Running
<1>1. Redialling => [](LostWithin(1) => <>(LostWithin(0) \/ Redialled))
  <2>1. /\ IInv /\ [Next]_vars /\ LostWithin(1) => LostWithin(1)' \/ Redialled'
        /\ IInv /\ LostWithin(1) /\ <<main>>_vars => LostWithin(0)' \/ Redialled'
    BY LostBound, 1 \in 1..5, 0 \in 0..4, 1 = 0 + 1
  <2> QED BY <2>1, PTL DEF Redialling, Running
<1>6. ~LostWithin(0)
  BY DEF LostWithin
<1>7. IInv /\ Tidy /\ link = "lost" => LostWithin(5) \/ Redialled
  <2> SUFFICES ASSUME IInv, Tidy, link = "lost", pc \notin Final
               PROVE  pc \in {"keys", "select", "trim"}
    BY DEF LostWithin, LostSteps, Redialled
  <2>1. PICK a \in Ids : Head(clist) = a /\ h[a].to_delete /\ clist # <<>>
    BY DEF link, IInv, TypeOK
  <2>2. pc \notin {"start", "fdset", "poll"}
    BY <2>1 DEF Tidy
  <2>3. ~LeavingAt(a) /\ \A b \in Ids : ~ReplacedAt(a, b)
    BY <2>1, ShortLists DEF LeavingAt, Leaving, ReplacedAt, Replaced
  <2>4. pc \notin {"sleep", "dial", "unlink"}
    BY <2>1, <2>3, MarkedAt
  <2> QED BY <2>2, <2>4 DEF IInv, TypeOK, Places
<1>8. Redialling => [](LostWithin(5) => <>Redialled)
  BY <1>1, <1>2, <1>3, <1>4, <1>5, <1>6, PTL
<1>9. Spec /\ Running => ((link = "lost") ~> Redialled)
  BY <1>7, <1>8, Turns, PTL DEF Spec, Redialling
<1>10. Spec /\ <>Ended => []<>Redialled
  <2>1. Ended => Redialled
    BY DEF Ended, Redialled
  <2> QED BY <2>1, EndIsFinal, PTL
<1> QED BY <1>9, <1>10, RunsOrEnds, PTL DEF FairSpec

=============================================================================
