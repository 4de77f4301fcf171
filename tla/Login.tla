------------------------------- MODULE Login -------------------------------
(***************************************************************************)
(* A sign-on as the program is told of it: the authorizer first, then the  *)
(* BOS server, then the session.  SignOn, which follows the packets, and   *)
(* Session, which follows the event loop, are both shown to keep to it,    *)
(* and so are the stages that Status and Roster know of a connection.      *)
(* Link is its coarser view, for which all three stages are "up".          *)
(*   "none"                     no handle                                  *)
(*   "auth", "bos", "online"    the handle's stages                        *)
(*   "lost", "dead"             as in Link                                 *)
(***************************************************************************)

VARIABLE stage

Live == {"auth", "bos", "online"}

LoginInit == stage = "none"

\* A new handle; there may be no socket for it.
Dial == stage' \in {"auth", "dead"}

Authorized == stage = "auth" /\ stage' = "bos"

Connected == stage = "bos" /\ stage' = "online"

Disconnected == stage \in Live /\ stage' = "lost"

Closed == stage \in Live /\ stage' = "dead"

Trimmed == stage = "lost" /\ stage' = "none"

LoginNext == Dial \/ Authorized \/ Connected \/ Disconnected \/ Closed \/ Trimmed

LoginSpec == LoginInit /\ [][LoginNext]_stage

link == IF stage \in Live THEN "up" ELSE stage

L == INSTANCE Link WITH link <- link
=============================================================================
