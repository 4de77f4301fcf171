---------------------------- MODULE PresenceAbs ----------------------------
(***************************************************************************)
(* What the buddy list promises its user: for every screen name, the list  *)
(* shows exactly what the last message about that name said, and nothing   *)
(* of an earlier session.  There is one map from screen names to a         *)
(* presence; the event that was just handled decides the next map.         *)
(***************************************************************************)
EXTENDS Naturals

CONSTANTS Sns,        \* simplified screen names
          IdleTimes,  \* idle times, in minutes, that are reported
          Offline,    \* the presence of a name that is not on the list
          IdleAfter   \* minutes of idle time from which a buddy counts as idle

VARIABLES shown,      \* what the list shows of each name
          ev          \* the event handled last

absVars == <<shown, ev>>

\* A buddy on the list: away or not, its idle minutes, and the idle mark.
Online(away, idletime) ==
    [away |-> away, idletime |-> idletime, idle |-> idletime >= IdleAfter]

Nobody == [sn \in Sns |-> Offline]

Put(sn, presence) == [shown EXCEPT ![sn] = presence]

AbsInit ==
    /\ shown = Nobody
    /\ ev = [type |-> "start"]

\* The server says that sn is online, in the given state.
Arrive(sn, away, idletime) ==
    /\ ev' = [type |-> "signon", sn |-> sn, away |-> away, idletime |-> idletime]
    /\ shown' = Put(sn, Online(away, idletime))

\* The server says that sn left, or the user took sn off the list.
Leave(sn, type) ==
    /\ ev' = [type |-> type, sn |-> sn]
    /\ shown' = Put(sn, Offline)

\* sn wrote something: whoever is on the list stops being idle, and an
\* automatic reply proves nothing about idleness.
Speak(sn, auto) ==
    /\ ev' = [type |-> "im", sn |-> sn, auto |-> auto]
    /\ shown' = IF auto \/ shown[sn] = Offline
                THEN shown
                ELSE Put(sn, Online(shown[sn].away, 0))

\* The connection is lost: the list stays until the connection is given up.
Lose(type) ==
    /\ ev' = [type |-> type]
    /\ UNCHANGED shown

\* A session ends: nobody is shown any more.
Clear(type) ==
    /\ ev' = [type |-> type]
    /\ shown' = Nobody

AbsNext ==
    \/ \E sn \in Sns, away \in BOOLEAN, t \in IdleTimes : Arrive(sn, away, t)
    \/ \E sn \in Sns, type \in {"signoff", "removed"} : Leave(sn, type)
    \/ \E sn \in Sns, auto \in BOOLEAN : Speak(sn, auto)
    \/ \E type \in {"lost", "othersignon"} : Lose(type)
    \/ \E type \in {"trimmed", "reconnect"} : Clear(type)

AbsSpec == AbsInit /\ [][AbsNext]_absVars
============================================================================
