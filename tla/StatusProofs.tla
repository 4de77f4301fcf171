---------------------------- MODULE StatusProofs ----------------------------
(***************************************************************************)
(* Proofs about Status, for any messages, any idle_rep_time and any bound. *)
(* The inductive invariant says how each of the three copies of the status *)
(* follows the next: the handle's away message is the program's at all     *)
(* times, the handle is invisible or idle only if the program is, and the  *)
(* server only if the handle is.  The converse, that the user is hidden as *)
(* he asked (AsAsked), is preserved by all but the making of a session.    *)
(***************************************************************************)
EXTENDS Status, TLAPS

\* Nothing is known at the server before the BOS connection.
NoServer == ~AtBos => server = Fresh

HandleAway == handle.away_msg = (IF isaway THEN awaymsg ELSE NoMessage)

ServerAway == stage = "online" => server.away_msg = OnWire(handle.away_msg)

Hidden == /\ server.isinvisible => handle.isinvisible
          /\ handle.isinvisible => isinvisible

\* last_keystroke_time is when the last key was pressed, unless that was read
\* elsewhere.
Clocks == quiet <= age /\ (~pasted => quiet = age)

\* A handle that was given up may keep its idle flag; no other does.
Idle == /\ server.isidle => handle.isidle
        /\ stage # "none" /\ handle.isidle =>
             isidle /\ age > idle_rep_time /\ age > IdleThreshold

IInv == TypeOK /\ NoServer /\ HandleAway /\ ServerAway /\ Hidden /\ Clocks /\ Idle

\* The empty message is no message on the wire.
LEMMA OnWireType ==
    ASSUME NEW msg \in Messages \cup {NoMessage}
    PROVE  OnWire(msg) \in Messages \cup {NoMessage}
BY DEF OnWire

\* The invariant holds at the start.
LEMMA InitInv == Init => IInv
<1> SUFFICES ASSUME Init PROVE IInv
  OBVIOUS
<1>1. Fresh \in StatusOf
  BY DEF Fresh, StatusOf
<1>2. TypeOK
  <2>1. age \in 0..MaxAge /\ quiet \in 0..MaxAge
    BY TimesAssumption DEF Init
  <2>2. isaway \in BOOLEAN /\ isinvisible \in BOOLEAN /\ isidle \in BOOLEAN
        /\ pasted \in BOOLEAN
    BY DEF Init
  <2> QED BY <1>1, <2>1, <2>2 DEF Init, TypeOK
<1>3. NoServer /\ HandleAway /\ ServerAway
  BY DEF Init, NoServer, HandleAway, ServerAway, Fresh, AtBos
<1>4. Hidden /\ Clocks /\ Idle
  BY DEF Init, Hidden, Clocks, Idle, Fresh
<1> QED BY <1>2, <1>3, <1>4 DEF IInv

\* What a location packet does to the server's view.
LEMMA LocationInfo ==
    ASSUME NEW hd \in StatusOf, NEW srv \in StatusOf
    PROVE  /\ snac_set_location_info(hd, srv) \in StatusOf
           /\ snac_set_location_info(hd, srv).away_msg = OnWire(hd.away_msg)
           /\ snac_set_location_info(hd, srv).isinvisible = hd.isinvisible
           /\ snac_set_location_info(hd, srv).isidle = srv.isidle
BY OnWireType DEF snac_set_location_info, snac_send_cli_update, StatusOf

\* What the idle packet does to the handle and to the server.
LEMMA IdleTime ==
    ASSUME TypeOK, Idle, NEW time \in Nat, imcomm_set_idle_time(time)
    PROVE  /\ handle' \in StatusOf /\ server' \in StatusOf
           /\ handle'.away_msg = handle.away_msg
           /\ server'.away_msg = server.away_msg
           /\ handle'.isinvisible = handle.isinvisible
           /\ server'.isinvisible = server.isinvisible
           /\ ~AtBos => server' = server
           /\ handle'.isidle => handle.isidle \/ time > IdleThreshold
           /\ time = 0 => ~handle'.isidle
           /\ AtBos /\ server'.isidle => handle'.isidle
<1> DEFINE idle == time > IdleThreshold
<1>1. idle \in BOOLEAN
  OBVIOUS
<1>2. time = 0 => ~idle
  BY DEF IdleThreshold
<1>3. IF (idle /\ ~handle.isidle) \/ (time = 0 /\ handle.isidle)
      THEN /\ handle' = [handle EXCEPT !.isidle = idle]
           /\ server' = Sent([server EXCEPT !.isidle = idle])
      ELSE UNCHANGED <<handle, server>>
  BY DEF imcomm_set_idle_time
<1> HIDE DEF idle
<1>4. handle \in StatusOf /\ server \in StatusOf
  BY DEF TypeOK
<1>5. handle' \in StatusOf /\ server' \in StatusOf
  BY <1>1, <1>3, <1>4 DEF StatusOf, Sent
<1>6. /\ handle'.away_msg = handle.away_msg
      /\ server'.away_msg = server.away_msg
      /\ handle'.isinvisible = handle.isinvisible
      /\ server'.isinvisible = server.isinvisible
  BY <1>3, <1>4 DEF StatusOf, Sent
<1>7. ~AtBos => server' = server
  BY <1>3 DEF Sent
<1>8. /\ handle'.isidle => handle.isidle \/ idle
      /\ time = 0 => ~handle'.isidle
  BY <1>1, <1>2, <1>3, <1>4 DEF StatusOf
<1>9. AtBos /\ server'.isidle => handle'.isidle
  BY <1>1, <1>3, <1>4 DEF StatusOf, Sent, Idle
<1> QED BY <1>5, <1>6, <1>7, <1>8, <1>9 DEF idle

-----------------------------------------------------------------------------
(* Steps.                                                                  *)

\* The clocks go on together, are set back together, or part when keys are read
\* elsewhere.
LEMMA ClockStep ==
    ASSUME TypeOK, Clocks, [Next]_vars
    PROVE  /\ age' \in 0..MaxAge /\ quiet' \in 0..MaxAge /\ pasted' \in BOOLEAN
           /\ Clocks'
<1>1. UNCHANGED clock \/ ReadElsewhere \/ tick \/ keystroke
  BY DEF Next, vars, bos_signon_phase2, location_rights, Disconnected, handle_deleted,
     input_reconnect, input_paste, input_set_away, input_set_predefaway,
     input_set_invisible, set_profile, check_idle, inject_message
<1>2. /\ age \in 0..MaxAge /\ quiet \in 0..MaxAge /\ pasted \in BOOLEAN
      /\ quiet <= age /\ (~pasted => quiet = age) /\ MaxAge \in Nat
  BY TimesAssumption DEF TypeOK, Clocks
<1>3. CASE UNCHANGED clock
  BY <1>2, <1>3 DEF clock, Clocks
<1>4. CASE ReadElsewhere
  BY <1>2, <1>4 DEF ReadElsewhere, Clocks
<1>5. CASE tick
  BY <1>2, <1>5 DEF tick, Clocks
<1>6. CASE keystroke
  <2>1. age' = 0 /\ quiet' = 0
    BY <1>6 DEF keystroke
  <2>2. pasted' \in BOOLEAN
    BY <1>6 DEF keystroke
  <2> QED BY <1>2, <2>1, <2>2 DEF Clocks
<1> QED BY <1>1, <1>3, <1>4, <1>5, <1>6

\* Whatever sets the handle's away message to msg, and the program's to the
\* same, keeps the three in step.
LEMMA SetAway ==
    ASSUME IInv, NEW msg \in Messages \cup {NoMessage}, Typed,
           stage # "none", imcomm_set_away(msg),
           isaway' \in BOOLEAN, awaymsg' \in Messages \cup {NoMessage},
           msg = (IF isaway' THEN awaymsg' ELSE NoMessage),
           UNCHANGED <<isinvisible, isidle, clock, stage>>
    PROVE  IInv'
<1> DEFINE hd == [handle EXCEPT !.away_msg = msg]
           srv == snac_set_location_info(hd, server)
<1>1. handle \in StatusOf /\ server \in StatusOf
  BY DEF IInv, TypeOK
<1>2. /\ hd \in StatusOf
      /\ hd.away_msg = msg
      /\ hd.isinvisible = handle.isinvisible
      /\ hd.isidle = handle.isidle
  BY <1>1 DEF StatusOf
<1>3. handle' = hd /\ server' = (IF AtBos THEN srv ELSE server)
  BY DEF imcomm_set_away, Sent
<1> HIDE DEF hd
<1>4. /\ srv \in StatusOf
      /\ srv.away_msg = OnWire(hd.away_msg)
      /\ srv.isinvisible = hd.isinvisible
      /\ srv.isidle = server.isidle
  BY <1>1, <1>2, LocationInfo
<1> HIDE DEF srv
<1>5. TypeOK'
  <2>1. handle' \in StatusOf /\ server' \in StatusOf
    BY <1>1, <1>2, <1>3, <1>4
  <2> QED BY <2>1 DEF IInv, TypeOK, clock
<1>6. NoServer' /\ HandleAway'
  BY <1>2, <1>3 DEF IInv, NoServer, HandleAway, AtBos
<1>7. ServerAway'
  BY <1>3, <1>4 DEF ServerAway, AtBos
<1>8. Hidden'
  BY <1>2, <1>3, <1>4 DEF IInv, Hidden
<1>9. Clocks' /\ Idle'
  BY <1>2, <1>3, <1>4 DEF IInv, Clocks, Idle, clock
<1> QED BY <1>5, <1>6, <1>7, <1>8, <1>9 DEF IInv

\* A new session starts from nothing but the away message.
LEMMA NewSession ==
    ASSUME IInv, new_session, UNCHANGED conn,
           age' \in 0..MaxAge, quiet' \in 0..MaxAge, pasted' \in BOOLEAN, Clocks'
    PROVE  IInv'
<1>1. Fresh \in StatusOf
  BY DEF Fresh, StatusOf
<1>2. handle' \in StatusOf /\ server' \in StatusOf
  BY <1>1 DEF new_session, IInv, TypeOK, StatusOf, Fresh
<1>3. TypeOK'
  BY <1>2 DEF IInv, TypeOK, conn, new_session
<1>4. /\ handle'.away_msg = (IF isaway THEN awaymsg ELSE NoMessage)
      /\ handle'.isinvisible = FALSE
      /\ handle'.isidle = FALSE
      /\ server' = Fresh
      /\ stage' = "auth"
  BY DEF new_session, Fresh
<1>5. NoServer' /\ HandleAway' /\ ServerAway'
  BY <1>4 DEF NoServer, HandleAway, ServerAway, conn
<1>6. Hidden' /\ Idle'
  BY <1>4 DEF Hidden, Idle, Fresh
<1> QED BY <1>3, <1>5, <1>6 DEF IInv

\* The idle packet, sent with the time that has passed, or with zero when a
\* key ends the idleness or OTR speaks for the user.
LEMMA IdleStep ==
    ASSUME IInv, NEW time \in Nat, imcomm_set_idle_time(time),
           stage # "none", isidle' \in BOOLEAN,
           age' \in 0..MaxAge, quiet' \in 0..MaxAge, pasted' \in BOOLEAN, Clocks',
           \/ time = 0
           \/ isidle' /\ age' = time /\ age' = age /\ age > idle_rep_time,
           UNCHANGED <<isaway, awaymsg, isinvisible, stage>>
    PROVE  IInv'
<1>1. /\ handle' \in StatusOf /\ server' \in StatusOf
      /\ handle'.away_msg = handle.away_msg
      /\ server'.away_msg = server.away_msg
      /\ handle'.isinvisible = handle.isinvisible
      /\ server'.isinvisible = server.isinvisible
      /\ ~AtBos => server' = server
      /\ handle'.isidle => handle.isidle \/ time > IdleThreshold
      /\ time = 0 => ~handle'.isidle
      /\ AtBos /\ server'.isidle => handle'.isidle
  BY IdleTime DEF IInv
<1>2. TypeOK'
  BY <1>1 DEF IInv, TypeOK
<1>3. NoServer' /\ HandleAway' /\ ServerAway'
  BY <1>1 DEF IInv, NoServer, HandleAway, ServerAway, AtBos
<1>4. Hidden'
  BY <1>1 DEF IInv, Hidden
<1>5. server'.isidle => handle'.isidle
  BY <1>1 DEF IInv, NoServer, Fresh
<1>6. handle'.isidle => isidle' /\ age' > idle_rep_time /\ age' > IdleThreshold
  BY <1>1 DEF IInv, Idle
<1> QED BY <1>2, <1>3, <1>4, <1>5, <1>6 DEF IInv, Idle

\* Every step keeps the invariant.
LEMMA NextInv == IInv /\ [Next]_vars => IInv'
<1> SUFFICES ASSUME IInv, [Next]_vars PROVE IInv'
  OBVIOUS
<1> USE DEF IInv
<1>0. handle \in StatusOf /\ server \in StatusOf /\ age \in 0..MaxAge
  BY DEF TypeOK
<1>c. /\ age' \in 0..MaxAge /\ quiet' \in 0..MaxAge /\ pasted' \in BOOLEAN
      /\ Clocks'
  BY ClockStep
<1>1. CASE bos_signon_phase2
  BY <1>c, <1>1 DEF bos_signon_phase2, conn, clock, TypeOK, NoServer, HandleAway, ServerAway,
              Hidden, Idle, AtBos
<1>2. CASE location_rights
  <2>1. /\ server' \in StatusOf
        /\ server'.away_msg = OnWire(handle.away_msg)
        /\ server'.isinvisible = handle.isinvisible
        /\ server'.isidle = server.isidle
    BY <1>0, <1>2, LocationInfo DEF location_rights
  <2> QED BY <1>c, <1>2, <2>1 DEF location_rights, conn, clock, TypeOK, NoServer, HandleAway,
                           ServerAway, Hidden, Idle, AtBos
<1>3. CASE Disconnected
  <2>1. server' \in StatusOf /\ ~server'.isinvisible /\ ~server'.isidle
    BY <1>3 DEF Disconnected, Fresh, StatusOf
  <2> QED BY <1>c, <1>3, <2>1 DEF Disconnected, conn, clock, TypeOK, NoServer, HandleAway,
                           ServerAway, Hidden, Idle, AtBos
<1>4. CASE handle_deleted
  <2>1. CASE stage' = "none" /\ UNCHANGED <<handle, server>>
    <3>1. server = Fresh
      BY <1>4 DEF handle_deleted, NoServer, AtBos
    <3> QED BY <1>c, <1>4, <2>1, <3>1 DEF handle_deleted, conn, clock, TypeOK, NoServer,
                   HandleAway, ServerAway, Hidden, Idle, AtBos, Fresh
  <2>2. CASE new_session
    BY <1>c, <1>4, <2>2, NewSession DEF handle_deleted
  <2> QED BY <1>4, <2>1, <2>2 DEF handle_deleted
<1>5. CASE input_reconnect
  BY <1>c, <1>5, NewSession DEF input_reconnect
<1>6. ASSUME NEW msg \in Messages, input_set_away(msg)
      PROVE  IInv'
  <2>1. CASE isaway
    <3>1. isaway' = FALSE /\ awaymsg' = NoMessage
      BY <1>6, <2>1 DEF input_set_away, TypeOK
    <3>2. imcomm_set_away(NoMessage)
      BY <1>6, <2>1 DEF input_set_away, imcomm_set_unaway
    <3>3. Typed /\ stage # "none" /\ UNCHANGED <<isinvisible, isidle, clock, stage>>
      BY <1>6 DEF input_set_away
    <3> QED BY <3>1, <3>2, <3>3, SetAway
  <2>2. CASE ~isaway
    <3>1. isaway' = TRUE /\ awaymsg' = msg
      BY <1>6, <2>2 DEF input_set_away, TypeOK
    <3>2. imcomm_set_away(msg)
      BY <1>6, <2>2 DEF input_set_away
    <3>3. Typed /\ stage # "none" /\ UNCHANGED <<isinvisible, isidle, clock, stage>>
      BY <1>6 DEF input_set_away
    <3> QED BY <3>1, <3>2, <3>3, SetAway
  <2> QED BY <2>1, <2>2
<1>7. ASSUME NEW msg \in Messages, input_set_predefaway(msg)
      PROVE  IInv'
  <2>1. isaway' = TRUE /\ awaymsg' = msg /\ imcomm_set_away(msg)
    BY <1>7 DEF input_set_predefaway
  <2>2. Typed /\ stage # "none" /\ UNCHANGED <<isinvisible, isidle, clock, stage>>
    BY <1>7 DEF input_set_predefaway
  <2> QED BY <2>1, <2>2, SetAway
<1>8. CASE input_set_invisible
  <2> DEFINE hd == [handle EXCEPT !.isinvisible = ~isinvisible]
             srv == [server EXCEPT !.isinvisible = hd.isinvisible]
  <2>1. handle' = hd /\ server' = (IF AtBos THEN srv ELSE server)
    BY <1>8 DEF input_set_invisible, Sent, snac_send_cli_update
  <2>2. /\ hd \in StatusOf /\ srv \in StatusOf
        /\ hd.away_msg = handle.away_msg /\ srv.away_msg = server.away_msg
        /\ hd.isidle = handle.isidle /\ srv.isidle = server.isidle
        /\ hd.isinvisible = ~isinvisible /\ srv.isinvisible = ~isinvisible
    BY <1>0 DEF StatusOf, TypeOK
  <2>3. /\ isinvisible' = ~isinvisible
        /\ UNCHANGED <<isaway, awaymsg, isidle, clock, stage>>
    BY <1>8 DEF input_set_invisible
  <2> HIDE DEF hd, srv
  <2>4. TypeOK'
    BY <1>c, <1>0, <2>1, <2>2, <2>3 DEF TypeOK
  <2>5. NoServer' /\ HandleAway' /\ ServerAway'
    BY <2>1, <2>2, <2>3 DEF NoServer, HandleAway, ServerAway, AtBos
  <2>6. Hidden'
    BY <2>1, <2>2, <2>3 DEF Hidden, NoServer, Fresh
  <2>7. Idle'
    BY <2>1, <2>2, <2>3 DEF Idle, clock
  <2> QED BY <1>c, <2>4, <2>5, <2>6, <2>7
<1>9. CASE set_profile
  <2>1. /\ server' \in StatusOf
        /\ server'.away_msg = OnWire(handle.away_msg)
        /\ server'.isinvisible = handle.isinvisible
        /\ server'.isidle = server.isidle
    BY <1>0, <1>9, LocationInfo DEF set_profile
  <2> QED BY <1>c, <1>9, <2>1 DEF set_profile, conn, clock, TypeOK, NoServer, HandleAway,
                           ServerAway, Hidden, Idle, AtBos
<1>10. CASE tick
  <2>1. age' \in 0..MaxAge /\ age' > age
    BY <1>0, <1>10, TimesAssumption DEF tick
  <2>2. age' \in Nat /\ age \in Nat /\ idle_rep_time \in Nat
    BY <1>0, <2>1, TimesAssumption
  <2>3. Idle'
    BY <1>10, <2>1, <2>2 DEF tick, conn, Idle, IdleThreshold
  <2> QED BY <1>c, <1>10, <2>1, <2>3 DEF tick, conn, clock, TypeOK, NoServer, HandleAway,
                           ServerAway, Hidden, AtBos
<1>11. CASE keystroke
  <2>1. age' = 0 /\ age' \in 0..MaxAge /\ UNCHANGED <<isaway, awaymsg, isinvisible, stage>>
    BY <1>11, TimesAssumption DEF keystroke
  <2>2. CASE isidle /\ stage # "none"
    <3>1. isidle' \in BOOLEAN /\ imcomm_set_idle_time(0)
      BY <1>11, <2>2 DEF keystroke
    <3> QED BY <1>c, <2>1, <2>2, <3>1, IdleStep
  <2>3. CASE isidle /\ stage = "none"
    <3>1. isidle' \in BOOLEAN /\ UNCHANGED <<handle, server>>
      BY <1>11, <2>3 DEF keystroke
    <3> QED BY <1>c, <2>1, <2>3, <3>1 DEF TypeOK, NoServer, HandleAway, ServerAway,
                                   Hidden, Idle, AtBos, Fresh
  <2>4. CASE ~isidle
    <3>1. UNCHANGED <<isidle, handle, server>>
      BY <1>11, <2>4 DEF keystroke
    <3> QED BY <1>c, <2>1, <2>4, <3>1 DEF TypeOK, NoServer, HandleAway, ServerAway,
                                   Hidden, Idle, AtBos
  <2> QED BY <2>2, <2>3, <2>4
<1>12. CASE check_idle
  <2>1. /\ isidle' = TRUE /\ age' = age /\ age > idle_rep_time
        /\ UNCHANGED <<isaway, awaymsg, isinvisible, stage>>
    BY <1>12 DEF check_idle, clock
  <2>2. age \in Nat
    BY <1>0, TimesAssumption
  <2>3. CASE stage # "none"
    <3>1. imcomm_set_idle_time(age)
      BY <1>12, <2>3 DEF check_idle
    <3> QED BY <1>c, <1>0, <2>1, <2>2, <2>3, <3>1, IdleStep
  <2>4. CASE stage = "none"
    <3>1. UNCHANGED <<handle, server>>
      BY <1>12, <2>4 DEF check_idle
    <3> QED BY <1>c, <2>1, <2>4, <3>1 DEF TypeOK, NoServer, HandleAway, ServerAway,
                                   Hidden, Idle, AtBos
  <2> QED BY <2>3, <2>4
<1>13. CASE inject_message
  <2>1. stage = "online" /\ UNCHANGED <<isaway, awaymsg, isinvisible, isidle, clock, stage>>
    BY <1>13 DEF inject_message, conn
  <2>2. CASE handle.isidle
    <3>1. imcomm_set_idle_time(0)
      BY <1>13, <2>2 DEF inject_message
    <3>2. isidle' \in BOOLEAN
      BY <2>1 DEF TypeOK
    <3> QED BY <1>c, <2>1, <3>1, <3>2, IdleStep
  <2>3. CASE ~handle.isidle
    <3>1. UNCHANGED <<handle, server>>
      BY <1>13, <2>3 DEF inject_message
    <3> QED BY <1>c, <2>1, <3>1 DEF clock, TypeOK, NoServer, HandleAway, ServerAway, Hidden,
                             Idle, AtBos
  <2> QED BY <2>2, <2>3
<1>14. CASE UNCHANGED vars
  BY <1>c, <1>14 DEF vars, conn, clock, TypeOK, NoServer, HandleAway, ServerAway, Hidden, Idle, AtBos
<1>15. CASE input_paste
  <2>1. UNCHANGED <<conn, handle, stage, server>> /\ ~isidle /\ stage # "none"
    BY <1>15 DEF input_paste, Typed
  <2> QED BY <1>c, <2>1 DEF conn, TypeOK, NoServer, HandleAway, ServerAway, Hidden,
                           Idle, AtBos
<1> QED BY <1>1, <1>2, <1>3, <1>4, <1>5, <1>6, <1>7, <1>8, <1>9, <1>10, <1>11,
           <1>12, <1>13, <1>14, <1>15 DEF Next

\* The invariant holds always.
LEMMA Inductive == Spec => []IInv
BY InitInv, NextInv, PTL DEF Spec

-----------------------------------------------------------------------------
(* What becomes of v.                                                      *)

\* The three copies agree on invisibility: the handle's with the program's, and
\* the server's with the handle's once the session is complete.
AsAsked == /\ handle.isinvisible = isinvisible
           /\ stage = "online" => server.isinvisible = handle.isinvisible

\* An idle packet says nothing of invisibility.
LEMMA IdleKeepsAsked ==
    ASSUME IInv, AsAsked, NEW time \in Nat, imcomm_set_idle_time(time),
           UNCHANGED <<isinvisible, stage>>
    PROVE  AsAsked'
  BY IdleTime DEF IInv, AsAsked

\* Nor does an away message, which carries it along.
LEMMA AwayKeepsAsked ==
    ASSUME IInv, AsAsked, NEW msg \in Messages \cup {NoMessage}, imcomm_set_away(msg),
           UNCHANGED <<isinvisible, stage>>
    PROVE  AsAsked'
<1> DEFINE hd == [handle EXCEPT !.away_msg = msg]
           srv == snac_set_location_info(hd, server)
<1>1. handle \in StatusOf /\ server \in StatusOf
  BY DEF IInv, TypeOK
<1>2. hd \in StatusOf /\ hd.isinvisible = handle.isinvisible
  BY <1>1 DEF StatusOf
<1>3. handle' = hd /\ server' = (IF AtBos THEN srv ELSE server)
  BY DEF imcomm_set_away, Sent
<1> HIDE DEF hd
<1>4. srv.isinvisible = hd.isinvisible
  BY <1>1, <1>2, LocationInfo
<1> HIDE DEF srv
<1> QED BY <1>2, <1>3, <1>4 DEF AsAsked

\* Only the steps that make a new session part them.
LEMMA AskedStep == IInv /\ AsAsked /\ [Next]_vars => AsAsked' \/ handle_deleted \/ input_reconnect
<1> SUFFICES ASSUME IInv, AsAsked, [Next]_vars, ~handle_deleted, ~input_reconnect
             PROVE  AsAsked'
  OBVIOUS
<1>0. /\ handle \in StatusOf /\ server \in StatusOf /\ age \in Nat /\ 0 \in Nat
      /\ NoMessage \in Messages \cup {NoMessage}
      /\ isinvisible \in BOOLEAN
  BY TimesAssumption DEF IInv, TypeOK
<1>1. CASE location_rights \/ set_profile
  BY <1>0, <1>1, LocationInfo DEF location_rights, set_profile, AsAsked, conn
<1>2. CASE bos_signon_phase2 \/ Disconnected \/ tick \/ input_paste
  BY <1>2 DEF bos_signon_phase2, Disconnected, tick, input_paste, AsAsked, conn
<1>3. CASE handle_deleted \/ input_reconnect
  BY <1>3
<1>4. ASSUME NEW msg \in Messages, input_set_away(msg) \/ input_set_predefaway(msg)
      PROVE  AsAsked'
  <2>1. imcomm_set_away(NoMessage) \/ imcomm_set_away(msg)
    BY <1>4 DEF input_set_away, input_set_predefaway, imcomm_set_unaway
  <2>2. UNCHANGED <<isinvisible, stage>>
    BY <1>4 DEF input_set_away, input_set_predefaway
  <2> QED BY <1>0, <2>1, <2>2, AwayKeepsAsked
<1>5. CASE input_set_invisible
  <2> DEFINE hd == [handle EXCEPT !.isinvisible = ~isinvisible]
             srv == [server EXCEPT !.isinvisible = hd.isinvisible]
  <2>1. /\ handle' = hd /\ server' = (IF AtBos THEN srv ELSE server)
        /\ isinvisible' = ~isinvisible /\ stage' = stage
    BY <1>5 DEF input_set_invisible, Sent, snac_send_cli_update
  <2>2. hd.isinvisible = ~isinvisible /\ srv.isinvisible = ~isinvisible
    BY <1>0 DEF StatusOf
  <2> HIDE DEF hd, srv
  <2> QED BY <2>1, <2>2 DEF AsAsked, AtBos
<1>6. CASE keystroke
  <2>1. \/ imcomm_set_idle_time(0) \/ UNCHANGED <<handle, server>>
    BY <1>6 DEF keystroke
  <2>2. UNCHANGED <<isinvisible, stage>>
    BY <1>6 DEF keystroke
  <2>3. CASE UNCHANGED <<handle, server>>
    BY <2>2, <2>3 DEF AsAsked
  <2> QED BY <1>0, <2>1, <2>2, <2>3, IdleKeepsAsked
<1>7. CASE check_idle \/ inject_message
  <2>1. \/ imcomm_set_idle_time(age) \/ imcomm_set_idle_time(0)
        \/ UNCHANGED <<handle, server>>
    BY <1>7 DEF check_idle, inject_message
  <2>2. UNCHANGED <<isinvisible, stage>>
    BY <1>7 DEF check_idle, inject_message, conn
  <2>3. CASE UNCHANGED <<handle, server>>
    BY <2>2, <2>3 DEF AsAsked
  <2> QED BY <1>0, <2>1, <2>2, <2>3, IdleKeepsAsked
<1>8. CASE UNCHANGED vars
  BY <1>8 DEF vars, conn, AsAsked
<1> QED BY <1>1, <1>2, <1>3, <1>4, <1>5, <1>6, <1>7, <1>8, Zenon DEF Next

\* All variables keep their types, whatever messages, times and bounds.
THEOREM TypeCorrect == Spec => []TypeOK
<1>1. IInv => TypeOK
  BY DEF IInv
<1> QED BY <1>1, Inductive, PTL

\* If nobody enters an empty message, the server of a complete session shows
\* the away message the program believes in, over any number of reconnections.
THEOREM AwayAlwaysKnown ==
    ASSUME Empty \notin Messages PROVE Spec => []AwayKnown
<1>1. IInv => AwayKnown
  <2> SUFFICES ASSUME IInv, stage = "online"
               PROVE  server.away_msg = (IF isaway THEN awaymsg ELSE NoMessage)
    BY DEF AwayKnown
  <2>1. awaymsg # Empty
    BY MessagesAssumption DEF IInv, TypeOK
  <2> QED BY <2>1, MessagesAssumption DEF IInv, HandleAway, ServerAway, OnWire
<1> QED BY <1>1, Inductive, PTL

\* The server hides nobody whose program says it is visible.
THEOREM HiddenIsKnown == Spec => []NeverHiddenUnawares
<1>1. IInv => NeverHiddenUnawares
  BY DEF IInv, Hidden, NeverHiddenUnawares
<1> QED BY <1>1, Inductive, PTL

\* The server shows nobody idle who has pressed a key in the last ten minutes
\* or in idle_rep_time, whichever is longer, but for the keys of a paste or a
\* password, and whoever pressed those last.
THEOREM IdleIsTrue == Spec => []NeverFalselyIdle
<1>1. IInv => NeverFalselyIdle
  BY DEF IInv, Clocks, Idle, NoServer, Fresh, AtBos, NeverFalselyIdle
<1> QED BY <1>1, Inductive, PTL

\* Idleness is reported when it is noticed or not at all until the user has come
\* back: no packet, command or new session reports it later.
THEOREM IdleReportedAtOnce == Spec => ReportedAtOnce
<1>1. IInv /\ [Next]_vars => [isidle /\ ~server.isidle /\ isidle' => ~server'.isidle]_vars
  <2> SUFFICES ASSUME IInv, Next, isidle, ~server.isidle, isidle' PROVE ~server'.isidle
    OBVIOUS
  <2>1. TypeOK /\ Idle /\ handle \in StatusOf /\ server \in StatusOf /\ ~Typed
    BY DEF IInv, TypeOK, Typed
  <2>2. /\ ~check_idle /\ ~keystroke /\ ~input_reconnect /\ ~input_paste
        /\ ~input_set_invisible
    BY <2>1 DEF check_idle, keystroke, input_reconnect, input_paste, input_set_invisible
  <2>3. \A msg \in Messages : ~input_set_away(msg) /\ ~input_set_predefaway(msg)
    BY <2>1 DEF input_set_away, input_set_predefaway
  <2>4. CASE bos_signon_phase2 \/ tick
    BY <2>4 DEF bos_signon_phase2, tick
  <2>5. CASE location_rights \/ set_profile
    BY <2>1, <2>5, LocationInfo DEF location_rights, set_profile
  <2>6. CASE Disconnected \/ handle_deleted
    BY <2>6 DEF Disconnected, handle_deleted, new_session, Fresh
  <2>7. CASE inject_message
    <3>1. stage = "online" /\ (imcomm_set_idle_time(0) \/ UNCHANGED <<handle, server>>)
      BY <2>7 DEF inject_message
    <3>2. CASE imcomm_set_idle_time(0)
      BY <2>1, <3>1, <3>2, IdleTime DEF AtBos
    <3> QED BY <3>1, <3>2
  <2> QED BY <2>2, <2>3, <2>4, <2>5, <2>6, <2>7 DEF Next
<1> QED BY <1>1, Inductive, PTL DEF Spec, ReportedAtOnce

\* Once the server hides a user who asked for it, or shows one who did not, no
\* command, key, packet or timeout changes that behind the user's back: only the
\* steps that make a new session do, which is what HiddenAsAsked fails by
\* (input_set_invisible, new_session).
THEOREM OnlyNewSessionsReveal ==
    Spec => [][AsAsked => AsAsked' \/ handle_deleted \/ input_reconnect]_vars
<1>1. IInv /\ [Next]_vars => [AsAsked => AsAsked' \/ handle_deleted \/ input_reconnect]_vars
  BY AskedStep
<1> QED BY <1>1, Inductive, PTL DEF Spec

\* On the program's first connection v does what the manual says.
THEOREM HiddenTillReconnected ==
    ASSUME ~Reconnects PROVE Spec => []HiddenAsAsked
<1> DEFINE First == stage \in {"auth", "bos", "online"} /\ AsAsked
<1>1. Init => First
  <2>1. Fresh.isinvisible = FALSE
    BY DEF Fresh
  <2> QED BY <2>1 DEF Init, AsAsked
<1>2. IInv /\ First /\ [Next]_vars => First'
  <2> SUFFICES ASSUME IInv, First, [Next]_vars PROVE First'
    OBVIOUS
  <2>1. stage' \in {"auth", "bos", "online"} /\ ~(handle_deleted \/ input_reconnect \/ Disconnected)
    BY DEF Next, vars, bos_signon_phase2, location_rights, Disconnected, handle_deleted,
       input_reconnect, input_set_away, input_set_predefaway, input_set_invisible,
       input_paste, set_profile, tick, keystroke, check_idle, inject_message
  <2>2. AsAsked' \/ handle_deleted \/ input_reconnect
    BY AskedStep
  <2> QED BY <2>1, <2>2
<1>3. IInv /\ First => HiddenAsAsked
  BY DEF AsAsked, HiddenAsAsked
<1> QED BY <1>1, <1>2, <1>3, Inductive, PTL DEF Spec

G == INSTANCE Login

\* The connection that the status lives through is one of Login, as the ones of
\* Session and SignOn are: first the authorizer, then the BOS server, and only
\* a new handle after a loss (bos_signon_phase2, handle_deleted).
THEOREM KeepsToLogin == Spec => [][G!LoginNext]_stage
<1>1. [Next]_vars => [G!LoginNext]_stage
  <2> SUFFICES ASSUME [Next]_vars, stage' # stage PROVE G!LoginNext
    OBVIOUS
  <2>1. bos_signon_phase2 \/ location_rights \/ Disconnected \/ handle_deleted \/ input_reconnect
    BY DEF Next, vars, input_set_away, input_set_predefaway, input_set_invisible,
       input_paste, set_profile, tick, keystroke, check_idle, inject_message
  <2> QED BY <2>1 DEF bos_signon_phase2, location_rights, Disconnected, handle_deleted,
       input_reconnect, new_session, G!LoginNext, G!Dial, G!Authorized, G!Connected,
       G!Disconnected, G!Trimmed, G!Live
<1> QED BY <1>1, PTL DEF Spec
=============================================================================
