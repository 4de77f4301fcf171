------------------------------ MODULE Session ------------------------------
(***************************************************************************)
(* The life of a connection: the event loop of bsf.c, imcomm_select and    *)
(* the trimming of marked handles, signing on in two connections, losing   *)
(* the connection in every way the code tells apart, reconnecting by       *)
(* itself or by R!, and the commands and the signal that use conn->conn    *)
(* and conn->clist without asking whether anything is there.               *)
(*                                                                         *)
(* The program is single threaded; pc is where its thread is, and blocking *)
(* calls (connect, select, sleep, the password prompt) are places where    *)
(* SIGUSR1 can arrive.  Handles are addresses: a freed one may come back   *)
(* from malloc.  Configuration: Unix, ENABLE_SSL and MD5_LOGIN as imcomm.h *)
(* defines them, no proxy, icon upload off as set_icon leaves it.          *)
(*                                                                         *)
(* Using an ssl_handle that was never set, or was freed, is undefined: the *)
(* step either crashes or goes on as if the call had returned.             *)
(*                                                                         *)
(* The sockets have no timeouts: a handshake, a write, or the read of a    *)
(* packet of which only a part has come may never return.  Then the thread *)
(* hangs, and only SIGUSR1's handler still runs.                           *)
(***************************************************************************)
EXTENDS Naturals, Sequences, SequencesExt

CONSTANTS Ids,             \* addresses of handles
          NULL,
          auto_reconnect,  \* conn->auto_reconnect # 0
          otr,             \* conn->otr # 0, by default it is 0
          ConnectOutcomes, \* what connecting may come to, see Dial
          CleanClose,      \* whether servers end the TLS session in order
          Signals,         \* whether SIGUSR1 is ever sent
          SigPipe          \* SIGPIPE has its default action

ASSUME NullAssumption == NULL \notin Ids
ASSUME FlagsAssumption ==
    {auto_reconnect, otr, CleanClose, Signals, SigPipe} \subseteq BOOLEAN
ASSUME OutcomesAssumption ==
    ConnectOutcomes \subseteq {"ok", "refused", "nosock", "handshake"}

VARIABLES handles,         \* the library's list of handles
          h,               \* the handles themselves
          clist,           \* conn->clist, as the list of its handles
          conn,            \* conn->conn
          nodes_to_delete,
          shownBy,         \* the handle whose buddies the list shows
          pc

vars == <<handles, h, clist, conn, nodes_to_delete, shownBy, pc>>

lists == <<handles, clist, conn, nodes_to_delete>>

Handle == [alive     : BOOLEAN,
           to_delete : BOOLEAN,
           socket    : {"zero", "open", "unconnected", "closed"},
           ssl       : {"unset", "live", "shutdown", "freed"},
           stage     : {"auth", "bos", "online"}]

Freed == [alive |-> FALSE, to_delete |-> FALSE, socket |-> "zero",
          ssl |-> "unset", stage |-> "auth"]

\* The thread stays in a call for ever.
Held == {"spin", "hung"}

\* The program has ended.
Stopped == {"crashed", "killed", "exited"}

Final == Held \cup Stopped

Places == {"start", "dial", "select", "trim", "sleep", "unlink", "fdset",
           "poll", "keys"} \cup Final

TypeOK ==
    /\ handles \in Seq(Ids)
    /\ h \in [Ids -> Handle]
    /\ clist \in Seq(Ids)
    /\ conn \in Ids \cup {NULL}
    /\ nodes_to_delete \in BOOLEAN
    /\ shownBy \in Ids \cup {NULL}
    /\ pc \in Places

-----------------------------------------------------------------------------
(* Helpers.                                                                *)

Wild(handle) == handle.ssl \in {"unset", "freed"}

\* Where sending on a handle leads.  SSL_write on a connection that the
\* program shut down itself is a broken pipe; its result, like that of every
\* send, is not looked at, but nobody ignores the signal.  To a server that
\* has stopped reading it does not return.
flap_send(handle, next) ==
    IF Wild(handle) THEN {next, "crashed"}
    ELSE IF handle.socket = "closed" /\ handle.ssl = "live" /\ SigPipe
    THEN {"killed"}
    ELSE {next, "hung"}

imcomm_create_handle == [Freed EXCEPT !.alive = TRUE]

\* A new handle at the end of both lists; conn->conn is not set before the
\* sign-on that follows has returned.
create_new_connection(hs, cl, g) ==
    \E id \in Ids :
        /\ ~g[id].alive
        /\ handles' = Append(hs, id)
        /\ clist' = Append(cl, id)
        /\ h' = [g EXCEPT ![id] = imcomm_create_handle]
        /\ pc' = "dial"

-----------------------------------------------------------------------------
Init ==
    /\ handles = <<>>
    /\ h = [id \in Ids |-> Freed]
    /\ clist = <<>>
    /\ conn = NULL
    /\ nodes_to_delete = FALSE
    /\ shownBy = NULL
    /\ pc = "start"

\* main after the user name and the password were asked for.
main_start ==
    /\ pc = "start"
    /\ create_new_connection(handles, clist, h)
    /\ UNCHANGED <<conn, nodes_to_delete, shownBy>>

\* connect_ssl has an outcome, and the first packet is sent whatever it is:
\* "refused" leaves ssl_handle as it was, "nosock" leaves no socket either,
\* and a failed handshake has no certificate whose subject could be printed.
\* Both imcomm_im_signon and bos_signon_phase2 come here; in the first case
\* conn->conn is set now.
connect_ssl(outcome) ==
    LET id   == Head(clist)
        new  == CASE outcome = "ok" -> [h[id] EXCEPT !.socket = "open", !.ssl = "live"]
                  [] outcome = "refused" -> [h[id] EXCEPT !.socket = "unconnected"]
                  [] outcome = "nosock" -> [h[id] EXCEPT !.socket = "closed"]
                  [] outcome = "handshake" -> [h[id] EXCEPT !.socket = "open"]
        next == IF h[id].stage = "bos" THEN "keys"
                ELSE IF Len(handles) > 1 THEN "unlink" ELSE "select"
    IN  /\ pc = "dial"
        /\ h' = [h EXCEPT ![id] = new]
        /\ conn' = IF h[id].stage = "auth" THEN id ELSE conn
        /\ pc' \in IF outcome = "handshake" THEN {"crashed"} ELSE flap_send(new, next)
        /\ UNCHANGED <<handles, clist, nodes_to_delete, shownBy>>

\* The server accepts the connection and never finishes the handshake.
handshake_hangs ==
    /\ pc = "dial"
    /\ pc' = "hung"
    /\ UNCHANGED <<lists, h, shownBy>>

-----------------------------------------------------------------------------
(* imcomm_select: trimming, then select, then at most one packet.          *)

\* Fault: the flag is read the wrong way round.
imcomm_select_no_trim ==
    /\ pc = "select"
    /\ pc' = IF ~nodes_to_delete THEN "trim" ELSE "fdset"
    /\ UNCHANGED <<lists, h, shownBy>>

imcomm_select ==
    /\ pc = "select"
    /\ pc' = IF nodes_to_delete THEN "trim" ELSE "fdset"
    /\ UNCHANGED <<lists, h, shownBy>>

\* Fault: the list of buddies is left for the next session.
handle_deleted_keeps_list ==
    LET id == Head(handles)
    IN  /\ pc = "trim"
        /\ handles # <<>> /\ h[id].to_delete
        /\ conn' = NULL
        /\ clist' = Tail(clist)
        /\ pc' = IF auto_reconnect THEN "sleep" ELSE "unlink"
        /\ UNCHANGED <<handles, h, nodes_to_delete, shownBy>>

\* Fault: the program does not wait for a new connection.
handle_deleted_no_redial ==
    LET id == Head(handles)
    IN  /\ pc = "trim"
        /\ handles # <<>> /\ h[id].to_delete
        /\ shownBy' = NULL
        /\ conn' = NULL
        /\ clist' = Tail(clist)
        /\ pc' = "unlink"
        /\ UNCHANGED <<handles, h, nodes_to_delete>>

\* Fault: the program's node is not unlinked.
handle_deleted_keeps_node ==
    /\ pc = "trim"
    /\ handles # <<>> /\ h[Head(handles)].to_delete
    /\ shownBy' = NULL
    /\ conn' = NULL
    /\ pc' = IF auto_reconnect THEN "sleep" ELSE "unlink"
    /\ UNCHANGED <<handles, h, clist, nodes_to_delete>>

\* The head of the library's list is marked: the callback runs while the
\* handle is still on that list.  It looks at the first node of the program's
\* list without asking whether there is one, and if the handle is not there
\* its search never gets beyond the second.
handle_deleted ==
    LET id    == Head(handles)
        found == clist # <<>> /\ Head(clist) = id
    IN  /\ pc = "trim"
        /\ handles # <<>> /\ h[id].to_delete
        /\ shownBy' = NULL
        /\ conn' = NULL
        /\ clist' = IF found THEN Tail(clist)
                    ELSE IF Len(clist) = 2 /\ clist[2] = id THEN <<Head(clist)>>
                    ELSE clist
        /\ pc' = IF clist = <<>> THEN "crashed"
                 ELSE IF ~found /\ Len(clist') > 1 THEN "spin"
                 ELSE IF auto_reconnect THEN "sleep" ELSE "unlink"
        /\ UNCHANGED <<handles, h, nodes_to_delete>>

\* The callback wakes up and dials again.
handle_deleted_wakes ==
    /\ pc = "sleep"
    /\ create_new_connection(handles, clist, h)
    /\ UNCHANGED <<conn, nodes_to_delete, shownBy>>

\* Fault: the last handle is freed, and the first unlinked.
unlink_head_frees_last ==
    LET id == Last(handles)
    IN  /\ pc = "unlink"
        /\ handles' = Tail(handles)
        /\ h' = [h EXCEPT ![id] = Freed]
        /\ pc' = "trim"
        /\ UNCHANGED <<clist, conn, nodes_to_delete, shownBy>>

\* The callback has returned: the head is unlinked and freed, and the
\* function calls itself.
unlink_head ==
    LET id == Head(handles)
    IN  /\ pc = "unlink"
        /\ handles' = Tail(handles)
        /\ h' = [h EXCEPT ![id] = Freed]
        /\ pc' = "trim"
        /\ UNCHANGED <<clist, conn, nodes_to_delete, shownBy>>

\* Fault: it starts over, with the flag still set.
trim_done_restarts ==
    /\ pc = "trim"
    /\ handles # <<>> => ~h[Head(handles)].to_delete
    /\ pc' = "select"
    /\ UNCHANGED <<lists, h, shownBy>>

\* The head is not marked.  With one handle there is nothing left to do; with
\* two the loop over the rest of the list never moves on, or moves on to NULL.
trim_done ==
    /\ pc = "trim"
    /\ handles # <<>> => ~h[Head(handles)].to_delete
    /\ IF Len(handles) <= 1
       THEN nodes_to_delete' = FALSE /\ pc' = "fdset"
       ELSE /\ pc' = IF h[handles[2]].to_delete THEN "crashed" ELSE "spin"
            /\ UNCHANGED nodes_to_delete
    /\ UNCHANGED <<handles, h, clist, conn, shownBy>>

\* SSL_get_fd of every handle, whatever became of its connection.
fd_set_handles ==
    /\ pc = "fdset"
    /\ pc' \in IF \E id \in Range(handles) : Wild(h[id])
               THEN {"poll", "crashed"} ELSE {"poll"}
    /\ UNCHANGED <<lists, h, shownBy>>

\* select timed out or only the terminal is readable; each handle that has a
\* socket may be due for a keepalive.
nothing_to_read ==
    /\ pc = "poll"
    /\ \/ pc' = "keys"
       \/ \E id \in Range(handles) : /\ h[id].socket # "closed"
                                     /\ pc' \in flap_send(h[id], "keys")
    /\ UNCHANGED <<lists, h, shownBy>>

\* Fault: a handle without a socket is not skipped.
Readable_any(id) == pc = "poll" /\ id \in Range(handles)

\* imcomm_select passes over handles without a socket; the socket of a
\* refused connection is readable at once.
Readable(id) == /\ pc = "poll"
                /\ id \in Range(handles)
                /\ h[id].socket \in {"open", "unconnected"}

\* A packet can be read and decoded.
Packet(id) == Readable(id) /\ h[id].ssl = "live"

-----------------------------------------------------------------------------
(* Packets and failures.                                                   *)

\* The cookie of the authorizer: its connection is torn down and the handle
\* goes on to the BOS server.
bos_signon_phase2(id) ==
    /\ Packet(id) /\ h[id].stage = "auth"
    /\ h' = [h EXCEPT ![id] = [@ EXCEPT !.ssl = "freed", !.stage = "bos"]]
    /\ pc' = "dial"
    /\ UNCHANGED <<lists, shownBy>>

\* Fault: a roster is taken from the authorizer, too.
multi_ssiact_cliready_early(id) ==
    /\ Packet(id) /\ h[id].stage # "online"
    /\ h' = [h EXCEPT ![id].stage = "online"]
    /\ pc' = "keys"
    /\ UNCHANGED <<lists, shownBy>>

\* IMCOMM_STATUS_CONNECTED.
multi_ssiact_cliready(id) ==
    /\ Packet(id) /\ h[id].stage = "bos"
    /\ h' = [h EXCEPT ![id].stage = "online"]
    /\ pc' = "keys"
    /\ UNCHANGED <<lists, shownBy>>

\* A presence packet: from now on the list shows this session's buddies.  The
\* callback asks libotr for the buddy's context, whose userstate is NULL
\* unless the configuration says otr.
snac_get_signon(id) ==
    /\ Packet(id) /\ h[id].stage = "online"
    /\ shownBy' = id
    /\ pc' = IF otr THEN "keys" ELSE "crashed"
    /\ UNCHANGED <<lists, h>>

\* IMCOMM_ERROR_INVALID_LOGIN and IMCOMM_ERROR_OTHER_SIGNON: the socket is
\* shut down, the TLS session is not, and nobody marks the handle.  If a
\* keepalive is due it is still sent.
ClosedByServer(id) ==
    /\ Packet(id)
    /\ h' = [h EXCEPT ![id].socket = "closed"]
    /\ pc' \in {"keys"} \cup flap_send([h[id] EXCEPT !.socket = "closed"], "keys")
    /\ UNCHANGED <<lists, shownBy>>

\* Fault: the TLS session is freed, where it is only shut down.
Disconnected_frees(id) ==
    /\ Readable(id)
    /\ h' = [h EXCEPT ![id] = [@ EXCEPT !.socket = "closed", !.to_delete = TRUE,
                               !.ssl = "freed"]]
    /\ nodes_to_delete' = TRUE
    /\ pc' \in {"keys"} \cup (IF Wild(h[id]) THEN {"crashed"} ELSE {})
    /\ UNCHANGED <<handles, clist, conn, shownBy>>

\* SSL_read returns an error: IMCOMM_ERROR_DISCONNECTED marks the handle.
\* After a reset SSL_shutdown writes into a broken pipe.  An errno of EINTR
\* left by an earlier signal makes the loop skip the keyboard once.
Disconnected(id) ==
    /\ Readable(id)
    /\ h' = [h EXCEPT ![id] = [@ EXCEPT !.socket = "closed", !.to_delete = TRUE,
                               !.ssl = IF h[id].ssl = "live" THEN "shutdown"
                                       ELSE h[id].ssl]]
    /\ nodes_to_delete' = TRUE
    /\ pc' \in {"keys"} \cup (IF Signals THEN {"select"} ELSE {})
                        \cup (IF SigPipe THEN {"killed"} ELSE {})
                        \cup (IF Wild(h[id]) THEN {"crashed"} ELSE {})
    /\ UNCHANGED <<handles, clist, conn, shownBy>>

\* SSL_read returns 0, now and for ever: the loop asks for the other bytes.
EndOfStream(id) ==
    /\ CleanClose
    /\ Readable(id)
    /\ pc' = "spin"
    /\ UNCHANGED <<lists, h, shownBy>>

\* A packet of which the rest never comes.
flap_hangs(id) ==
    /\ Packet(id)
    /\ pc' = "hung"
    /\ UNCHANGED <<lists, h, shownBy>>

-----------------------------------------------------------------------------
(* The keyboard and the signal.                                            *)

\* The library's lists after deleting a handle; only the head is unlinked.
imcomm_delete_handle_now(id) ==
    [handles |-> IF Head(handles) = id THEN Tail(handles) ELSE handles,
     h       |-> [h EXCEPT ![id] = Freed]]

\* Fault: R! leaves the program's node of the old handle behind.
input_reconnect_keeps_node ==
    /\ pc = "keys"
    /\ IF conn = NULL
       THEN /\ create_new_connection(handles, clist, h)
            /\ UNCHANGED shownBy
       ELSE LET rest == imcomm_delete_handle_now(conn)
            IN  /\ create_new_connection(rest.handles, clist, rest.h)
                /\ shownBy' = NULL
    /\ conn' = NULL
    /\ UNCHANGED nodes_to_delete

input_reconnect ==
    /\ pc = "keys"
    /\ IF conn = NULL
       THEN /\ create_new_connection(handles, clist, h)
            /\ UNCHANGED shownBy
       ELSE LET rest == imcomm_delete_handle_now(conn)
            IN  /\ create_new_connection(rest.handles, Tail(clist), rest.h)
                /\ shownBy' = NULL
    /\ conn' = NULL
    /\ UNCHANGED nodes_to_delete

\* q! frees everything; conn->clist is not checked.
input_quit ==
    /\ pc = "keys"
    /\ pc' = IF clist = <<>> THEN "crashed" ELSE "exited"
    /\ UNCHANGED <<lists, h, shownBy>>

\* v and p use conn->conn at once.
input_set_invisible ==
    /\ pc = "keys"
    /\ pc' \in IF conn = NULL THEN {"crashed"} ELSE flap_send(h[conn], "select")
    /\ UNCHANGED <<lists, h, shownBy>>

\* z!, m, a and all other commands that send ask for conn->conn first.
input_reload_profile ==
    /\ pc = "keys"
    /\ pc' \in IF conn = NULL THEN {"select"} ELSE flap_send(h[conn], "select")
    /\ UNCHANGED <<lists, h, shownBy>>

\* No key, or one that only edits the line.
no_command ==
    /\ pc = "keys"
    /\ pc' = "select"
    /\ UNCHANGED <<lists, h, shownBy>>

\* SIGUSR1 sends the profile on the first handle of conn->clist.  While a
\* handle is dialling its socket may be set already, its ssl_handle is not.
\* A select that it interrupts is started again by the loop; any other call
\* goes on, for ever if it would have.
sigusr1_handler ==
    /\ Signals
    /\ pc \notin Stopped
    /\ pc' \in IF clist = <<>> THEN {"crashed"}
               ELSE flap_send(h[Head(clist)], IF pc = "poll" THEN "select" ELSE pc)
    /\ UNCHANGED <<lists, h, shownBy>>

-----------------------------------------------------------------------------
Select ==
    \/ imcomm_select
    \/ handle_deleted
    \/ handle_deleted_wakes
    \/ unlink_head
    \/ trim_done
    \/ fd_set_handles
    \/ nothing_to_read
    \/ \E id \in Ids :
         \/ bos_signon_phase2(id)
         \/ multi_ssiact_cliready(id)
         \/ snac_get_signon(id)
         \/ ClosedByServer(id)
         \/ Disconnected(id)
         \/ EndOfStream(id)
         \/ flap_hangs(id)

parse_input ==
    \/ input_reconnect
    \/ input_quit
    \/ input_set_invisible
    \/ input_reload_profile
    \/ no_command

main ==
    \/ main_start
    \/ \E outcome \in ConnectOutcomes : connect_ssl(outcome)
    \/ handshake_hangs
    \/ Select
    \/ parse_input

Next == main \/ sigusr1_handler

Spec == Init /\ [][Next]_vars

\* The program's thread runs, until it hangs in a call; what it finds on the
\* network and on the keyboard is nobody's duty.
FairSpec == Spec /\ WF_vars(main)

-----------------------------------------------------------------------------
(* Properties.                                                             *)

\* The handles that exist are the ones on the library's list, each once, and
\* neither conn->clist nor conn->conn outlives its handle, although the
\* callback that unlinks a handle also creates one (handle_deleted), and
\* imcomm_delete_handle_now repairs the list only for its head.
NoDangling ==
    /\ IsInjective(handles)
    /\ Range(handles) = {id \in Ids : h[id].alive}
    /\ Range(clist) \subseteq Range(handles)
    /\ conn # NULL => conn \in Range(handles)

\* No mark is lost: nodes_to_delete is set whenever a handle waits to be
\* trimmed, even though imcomm_select clears it only after callbacks ran that
\* open connections and may fail.
MarksAreSeen ==
    \A id \in Range(handles) : h[id].to_delete => nodes_to_delete

\* Wherever the loop stops for input there is at most one handle, both lists
\* hold just that one, and it is conn->conn.  The trimming of several handles
\* would not end (remove_deleted_handles), and conn->clist->conn is used for
\* conn->conn throughout.
OneConnection ==
    pc \in {"select", "fdset", "poll", "keys"} =>
        /\ Len(handles) <= 1
        /\ clist = handles
        /\ conn = IF handles = <<>> THEN NULL ELSE Head(handles)

\* The list never shows buddies of a session that is gone, or of one that has
\* not signed on yet (delete_buddylist in handle_deleted, input_reconnect).
ShownSession ==
    shownBy # NULL => conn = shownBy /\ h[conn].stage = "online"

Dead(id) == /\ h[id].alive /\ ~h[id].to_delete
            /\ h[id].socket = "closed"

\* A session that the server closed, for a wrong password or because the user
\* signed on elsewhere, is left alone until the user asks for R!: the program
\* never fights for the account (error_callback, imcomm_select's skip).
ClosedStaysClosed ==
    [][\A id \in Ids : Dead(id) => h'[id] = h[id] \/ input_reconnect]_vars

\* The connection as the other modules see it: the first on conn->clist.
link ==
    IF clist = <<>> THEN "none"
    ELSE IF h[Head(clist)].to_delete THEN "lost"
    ELSE IF h[Head(clist)].socket = "closed" THEN "dead"
    ELSE "up"

L == INSTANCE Link WITH link <- link

\* Every step of the event loop is a step of the abstract connection: only a
\* marked handle is trimmed, and a lost or dead one is never revived.
LinkSpec == L!LinkSpec

\* The same with the stages of a sign-on, as Login names them.
stage == IF link = "up" THEN h[Head(clist)].stage ELSE link

G == INSTANCE Login WITH stage <- stage

\* The first handle goes through the stages of a sign-on in their order, over
\* reconnections, R! and failures to dial (bos_signon_phase2, handle_deleted).
LoginSpec == G!LoginSpec

\* A handle that is marked is freed in the end, by the trimming or by R!, or
\* the program has ended or hangs (imcomm_delete_handle,
\* remove_deleted_handles).
\* Freeing, even if malloc gives the address out again, unmarks it.
MarkedAreFreed ==
    \A id \in Ids : h[id].to_delete ~> (~h[id].to_delete \/ pc \in Final)

\* With auto_reconnect, a session that is lost is followed by an attempt at
\* another one, which may come to a handle without a socket, or hang
\* (handle_deleted).
LostReconnects ==
    auto_reconnect =>
        ((link = "lost") ~> ((conn # NULL /\ link \in {"up", "dead"}) \/ pc \in Final))

\* Before the loop waits for input the turn has tidied up: every handle that
\* was marked is freed, and with auto_reconnect a session that was lost has a
\* successor, so that no key is ever read without a connection
\* (imcomm_select, remove_deleted_handles, handle_deleted).
TurnTidies ==
    /\ pc \in {"fdset", "poll"} => \A id \in Ids : ~h[id].to_delete
    /\ auto_reconnect /\ pc \in {"select", "fdset", "poll", "keys"} => conn # NULL

\* Wherever the program is it can go on, until it has ended: whatever became
\* of the handles, the loop, the callbacks and the commands have a next step
\* (main, imcomm_select, create_new_connection).
NeverStuck == pc \in Final \/ ENABLED <<main>>_vars

\* A signal makes the loop start its turn again without looking at the
\* keyboard: the poll it interrupts, or the error it left its errno to.
CutShort == pc = "poll" /\ pc' = "select"

\* The keyboard is served again and again until the program ends, with three
\* exceptions: signals cut the turns short for ever; a server leaves the
\* program in a handshake, a write or half a packet, for which it has no
\* timeouts; or a server has ended the TLS session in order, and the program
\* reads on for ever (the while loop of main around imcomm_select).  Lost and
\* dead connections, trimming and redialling do not keep it from the keyboard.
KeyboardServed ==
    <>[][~CutShort]_vars =>
        []<>(pc \in {"keys"} \cup Stopped) \/ <>(pc \in Held)

\* No search of the lists and no trimming runs for ever: the only loop that
\* does not end is the one that reads from a TLS session that has ended
\* (handle_deleted, remove_deleted_handles, imcomm_select).
LoopsEnd ==
    [][pc' = "spin" /\ pc # "spin" => \E id \in Ids : EndOfStream(id)]_vars

\* A crash needs a command or a signal without a connection, a handle that is
\* dialling, one whose TLS session was never made or is freed, or a buddy who
\* signs on although the configuration does not say otr; with otr, once a
\* session has signed on, nothing that happens to it later makes the program
\* crash on it (flap_send, imcomm_select, connect_ssl, buddy_online).
CrashesAreKnown ==
    [][pc' = "crashed" /\ pc # "crashed" =>
         \/ clist = <<>>
         \/ pc = "dial"
         \/ ~otr /\ \E id \in Ids : snac_get_signon(id)
         \/ \E id \in Range(handles) : h[id].stage # "online" /\ Wild(h[id])]_vars

\* SIGUSR1 may be sent at any time to reload the profile, and q! and v work
\* whether or not there is a connection (README, bsflite.1; sigusr1_handler,
\* input_quit, input_set_invisible).
OfflineIsSafe ==
    [][sigusr1_handler \/ input_quit \/ input_set_invisible => pc' # "crashed"]_vars
=============================================================================
