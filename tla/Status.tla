------------------------------- MODULE Status -------------------------------
(***************************************************************************)
(* The user's own status (away, invisible, idle), which exists three       *)
(* times: in the program's Conn (isaway and awaymsg, isinvisible, isidle), *)
(* in the library's handle, and at the server.  A handle lasts as long as  *)
(* a connection, Conn as long as the program, so every reconnection has to *)
(* bring the three together again.                                         *)
(*                                                                         *)
(* One action is one turn of the event loop: a command, a key, a packet,   *)
(* or the idle check.  Time is counted in units of five minutes, the half  *)
(* of the library's ten.  The server takes what is sent to it once the     *)
(* handle is connected to the BOS server; the authorizer has no use for    *)
(* status.  report_idle is on, as it is by default.                        *)
(***************************************************************************)
EXTENDS Naturals

CONSTANTS Messages,       \* away messages that users enter
          NoMessage,      \* there is none: NULL, and the empty one on the wire
          Empty,          \* the empty string
          idle_rep_time,  \* conn->idle_rep_time
          MaxAge,         \* bound of the times without a key
          Otr,            \* whether incoming messages may be OTR's own
          Reconnects      \* whether connections are lost or replaced

ASSUME MessagesAssumption == Empty # NoMessage /\ NoMessage \notin Messages
ASSUME TimesAssumption == idle_rep_time \in Nat /\ MaxAge \in Nat
ASSUME OptionsAssumption == Otr \in BOOLEAN /\ Reconnects \in BOOLEAN

VARIABLES isaway, awaymsg, isinvisible, isidle, \* conn
          age,        \* time since last_keystroke_time
          quiet,      \* time since the user pressed a key
          pasted,     \* the last key was not read by main
          handle,     \* the status fields of the handle
          stage,      \* how far the connection has come
          server      \* what the server shows of the user

conn == <<isaway, awaymsg, isinvisible, isidle>>

clock == <<age, quiet, pasted>>

vars == <<conn, clock, handle, stage, server>>

IdleThreshold == 2

StatusOf == [away_msg    : Messages \cup {NoMessage},
             isinvisible : BOOLEAN,
             isidle      : BOOLEAN]

Fresh == [away_msg |-> NoMessage, isinvisible |-> FALSE, isidle |-> FALSE]

TypeOK ==
    /\ isaway \in BOOLEAN
    /\ awaymsg \in Messages \cup {NoMessage}
    /\ isinvisible \in BOOLEAN
    /\ isidle \in BOOLEAN
    /\ age \in 0..MaxAge
    /\ quiet \in 0..MaxAge
    /\ pasted \in BOOLEAN
    /\ handle \in StatusOf
    /\ stage \in {"none", "auth", "bos", "online", "lost"}
    /\ server \in StatusOf

-----------------------------------------------------------------------------
(* What the library sends (imcomm.c, snac.c).                              *)

AtBos == stage \in {"bos", "online"}

\* Location information carries the away message; a TLV without a value is
\* what takes it back, so an empty message does so as well.
OnWire(msg) == IF msg = Empty THEN NoMessage ELSE msg

snac_send_cli_update(hd, srv) == [srv EXCEPT !.isinvisible = hd.isinvisible]

snac_set_location_info(hd, srv) ==
    [snac_send_cli_update(hd, srv) EXCEPT !.away_msg = OnWire(hd.away_msg)]

Sent(srv) == IF AtBos THEN srv ELSE server

imcomm_set_away(msg) ==
    LET hd == [handle EXCEPT !.away_msg = msg]
    IN  /\ handle' = hd
        /\ server' = Sent(snac_set_location_info(hd, server))

imcomm_set_unaway == imcomm_set_away(NoMessage)

\* Fault: the library's own view is not consulted.
imcomm_set_idle_time_always(time) ==
    /\ handle' = [handle EXCEPT !.isidle = TRUE]
    /\ server' = Sent([server EXCEPT !.isidle = TRUE])

\* Idle from ten minutes on, not idle at zero, and nothing in between.
imcomm_set_idle_time(time) ==
    LET idle == time > IdleThreshold
    IN  IF (idle /\ ~handle.isidle) \/ (time = 0 /\ handle.isidle)
        THEN /\ handle' = [handle EXCEPT !.isidle = idle]
             /\ server' = Sent([server EXCEPT !.isidle = idle])
        ELSE UNCHANGED <<handle, server>>

-----------------------------------------------------------------------------
(* Connections.                                                            *)

Init ==
    /\ isaway = FALSE
    /\ awaymsg = NoMessage
    /\ isinvisible = FALSE
    /\ isidle = FALSE
    /\ age = 0
    /\ quiet = 0
    /\ pasted = FALSE
    /\ handle = Fresh
    /\ stage = "auth"
    /\ server = Fresh

\* Fault: nobody tells the new handle that the user is away.
new_session_forgets_away ==
    /\ handle' = Fresh
    /\ stage' = "auth"
    /\ server' = Fresh

\* A new handle knows nothing; after the sign-on it is told of an away
\* message, but neither of invisibility nor of idleness.
new_session ==
    /\ handle' = [Fresh EXCEPT !.away_msg = IF isaway THEN awaymsg ELSE NoMessage]
    /\ stage' = "auth"
    /\ server' = Fresh

bos_signon_phase2 ==
    /\ stage = "auth"
    /\ stage' = "bos"
    /\ UNCHANGED <<conn, clock, handle, server>>

\* The server states its limits for location information, and receives it.
location_rights ==
    /\ stage = "bos"
    /\ stage' = "online"
    /\ server' = snac_set_location_info(handle, server)
    /\ UNCHANGED <<conn, clock, handle>>

\* The connection is lost or closed by the server.
Disconnected ==
    /\ Reconnects
    /\ stage \in {"auth", "bos", "online"}
    /\ stage' = "lost"
    /\ server' = Fresh
    /\ UNCHANGED <<conn, clock, handle>>

\* The handle is trimmed, and with auto_reconnect another one is made.
handle_deleted ==
    /\ stage = "lost"
    /\ \/ /\ stage' = "none"
          /\ UNCHANGED <<handle, server>>
       \/ new_session
    /\ UNCHANGED <<conn, clock>>

-----------------------------------------------------------------------------
(* Commands: the Enter that ends one is a keystroke, and was handled.      *)

Typed == age = 0 /\ ~isidle

\* What is pasted is read by bsf_getline, and a password by b_getpassword: they
\* take any time, in which main does nothing, and last_keystroke_time stays.
ReadElsewhere ==
    /\ age' \in 0..MaxAge
    /\ quiet' = 0
    /\ pasted' = TRUE

\* R!, or R! with a name, which asks for the password.
input_reconnect ==
    /\ Reconnects
    /\ Typed
    /\ ReadElsewhere \/ UNCHANGED clock
    /\ new_session
    /\ UNCHANGED conn

\* p; the messages it sends find the handle not idle.
input_paste ==
    /\ Typed
    /\ stage # "none"
    /\ ReadElsewhere
    /\ UNCHANGED <<conn, handle, stage, server>>

input_set_away(msg) ==
    /\ Typed
    /\ stage # "none"
    /\ isaway' = ~isaway
    /\ IF isaway
       THEN awaymsg' = NoMessage /\ imcomm_set_unaway
       ELSE awaymsg' = msg /\ imcomm_set_away(msg)
    /\ UNCHANGED <<isinvisible, isidle, clock, stage>>

\* G replaces a message that is set already.
input_set_predefaway(msg) ==
    /\ Typed
    /\ stage # "none"
    /\ isaway' = TRUE
    /\ awaymsg' = msg
    /\ imcomm_set_away(msg)
    /\ UNCHANGED <<isinvisible, isidle, clock, stage>>

\* Fault: the handle is told the old state.
input_set_invisible_old ==
    LET hd == [handle EXCEPT !.isinvisible = isinvisible]
    IN  /\ Typed
        /\ stage # "none"
        /\ isinvisible' = ~isinvisible
        /\ handle' = hd
        /\ server' = Sent(snac_send_cli_update(hd, server))
        /\ UNCHANGED <<isaway, awaymsg, isidle, clock, stage>>

\* Without a handle it crashes, which is module Session's business.
input_set_invisible ==
    LET hd == [handle EXCEPT !.isinvisible = ~isinvisible]
    IN  /\ Typed
        /\ stage # "none"
        /\ isinvisible' = ~isinvisible
        /\ handle' = hd
        /\ server' = Sent(snac_send_cli_update(hd, server))
        /\ UNCHANGED <<isaway, awaymsg, isidle, clock, stage>>

\* z! and SIGUSR1 send the location information again.
set_profile ==
    /\ AtBos
    /\ server' = snac_set_location_info(handle, server)
    /\ UNCHANGED <<conn, clock, handle, stage>>

-----------------------------------------------------------------------------
(* Keys and time.                                                          *)

tick ==
    /\ age < MaxAge
    /\ age' = age + 1
    /\ quiet' = quiet + 1
    /\ UNCHANGED <<conn, pasted, handle, stage, server>>

\* A key that main reads.
keystroke ==
    /\ age' = 0
    /\ quiet' = 0
    /\ pasted' = FALSE
    /\ IF isidle
       THEN /\ isidle' = FALSE
            /\ IF stage # "none" THEN imcomm_set_idle_time(0)
                                 ELSE UNCHANGED <<handle, server>>
       ELSE UNCHANGED <<isidle, handle, server>>
    /\ UNCHANGED <<isaway, awaymsg, isinvisible, stage>>

\* The end of the loop's body, in the turn of a long paste as well.  It also
\* asks for nchr, which is set only when a key was read in this turn: the check
\* may be made in any turn, or none.
check_idle ==
    /\ ~isidle
    /\ age > idle_rep_time
    /\ isidle' = TRUE
    /\ IF stage # "none" THEN imcomm_set_idle_time(age)
                         ELSE UNCHANGED <<handle, server>>
    /\ UNCHANGED <<isaway, awaymsg, isinvisible, clock, stage>>

\* OTR answers by itself, with a message that is not marked as automatic:
\* for the library the user is back.
inject_message ==
    /\ Otr
    /\ stage = "online"
    /\ IF handle.isidle THEN imcomm_set_idle_time(0)
                        ELSE UNCHANGED <<handle, server>>
    /\ UNCHANGED <<conn, clock, stage>>

Next ==
    \/ bos_signon_phase2
    \/ location_rights
    \/ Disconnected
    \/ handle_deleted
    \/ input_reconnect
    \/ input_paste
    \/ \E msg \in Messages : input_set_away(msg) \/ input_set_predefaway(msg)
    \/ input_set_invisible
    \/ set_profile
    \/ tick
    \/ keystroke
    \/ check_idle
    \/ inject_message

Spec == Init /\ [][Next]_vars

-----------------------------------------------------------------------------
(* Properties.                                                             *)

\* Once a session is complete the server shows the away message that the
\* program would tell its user it shows, however often it was changed while
\* the connection was down or coming up (input_set_away, handle_deleted).
AwayKnown ==
    stage = "online" =>
        server.away_msg = (IF isaway THEN awaymsg ELSE NoMessage)

\* The user is never hidden without knowing it: the server hides only who
\* said v an odd number of times (input_set_invisible, snac_send_cli_update).
NeverHiddenUnawares == server.isinvisible => isinvisible

\* Nobody is shown as idle who types: idleness at the server means that the
\* program agrees, and that the user has pressed no key for as long as both
\* thresholds.  Except who pasted, or gave a password: what he pressed there
\* does not count, and the turn that read it may report him idle (main,
\* bsf_getline, imcomm_set_idle_time).
NeverFalselyIdle ==
    server.isidle =>
        isidle /\ (pasted \/ (quiet > idle_rep_time /\ quiet > IdleThreshold))

\* Idleness that the library did not report when the program noticed it, or
\* that a message of OTR's or a new session took back, is not reported before
\* the user has come back and left again (check_idle, imcomm_set_idle_time).
ReportedAtOnce ==
    [][isidle /\ ~server.isidle /\ isidle' => ~server'.isidle]_vars

\* v toggles invisibility (bsflite.1), for as long as the program runs.
HiddenAsAsked == stage = "online" => (isinvisible => server.isinvisible)
=============================================================================
