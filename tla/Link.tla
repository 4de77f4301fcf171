------------------------------- MODULE Link -------------------------------
(***************************************************************************)
(* The connection as the rest of the program sees it.  Two modules show    *)
(* that they keep to it: Session, which follows the event loop through     *)
(* every call, and Presence, which only needs to know when a session ends. *)
(*   "none"  no handle: before the first sign-on, while the program sleeps *)
(*           before it reconnects, or after a disconnection without        *)
(*           auto_reconnect                                                *)
(*   "up"    a handle with a socket, signing on or signed on               *)
(*   "lost"  a handle that is marked and waits to be trimmed               *)
(*   "dead"  a handle without a socket that nobody will trim               *)
(***************************************************************************)

VARIABLE link

LinkInit == link \in {"none", "up"}

Dial == link' \in {"up", "dead"}

Disconnected == link = "up" /\ link' = "lost"

ClosedByServer == link = "up" /\ link' = "dead"

\* Only the trimming of a marked handle leaves the program without one.
Trimmed == link = "lost" /\ link' = "none"

\* A handle that is lost or dead is not revived; a new one takes its place.
LinkNext == Dial \/ Disconnected \/ ClosedByServer \/ Trimmed

LinkSpec == LinkInit /\ [][LinkNext]_link
===========================================================================
