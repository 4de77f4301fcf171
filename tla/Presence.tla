------------------------------ MODULE Presence ------------------------------
(***************************************************************************)
(* Who is online, kept twice: by the library, in the handle's              *)
(* buddies_online (imcomm/imcomm.c), and by the program, in the global     *)
(* doubly linked buddylist with its counter conn->buddiesonline (aim.c).   *)
(* The library decides from ITS list which callback a packet raises, and   *)
(* the callbacks change the program's list, so every property of what the  *)
(* user sees rests on the two lists staying equal over sign-ons, messages, *)
(* deletions, disconnections and reconnections.                            *)
(*                                                                         *)
(* One action is one packet or one command: the program is single threaded *)
(* and a handler runs to its end with every callback it raises.  Names     *)
(* arrive as the server formats them and both lists are keyed on           *)
(* simplify_sn; simplified names are natural numbers in strcmp order.      *)
(* The squelch* options are off, as they are by default.                   *)
(***************************************************************************)
EXTENDS Integers, Sequences, SequencesExt

CONSTANTS Names,          \* screen names as the server or the user spells them
          simplify_sn,    \* the simplified name of each spelling
          IdleTimes,      \* idle times, in minutes, that the server reports
          Offline         \* a value that is no presence

ASSUME NamesAssumption == simplify_sn \in [Names -> Nat]
ASSUME IdleTimesAssumption == IdleTimes \subseteq Nat
ASSUME OfflineAssumption ==
    Offline \notin [away : BOOLEAN, idletime : Nat, idle : BOOLEAN]

VARIABLES buddies_online, \* handle->buddies_online
          buddylist,      \* the global buddylist
          buddiesonline,  \* conn->buddiesonline
          link,           \* the connection: "up", "lost" (marked), "dead", "none"
          told,           \* what the notices on the terminal said of each name
          ev              \* the packet or command handled last

vars == <<buddies_online, buddylist, buddiesonline, link, told, ev>>

IdleAfter == 10

Sns == {simplify_sn[n] : n \in Names}

LibBuddy == [sn : Sns, isaway : BOOLEAN, idletime : Nat]

Buddy == [sn : Sns, away : BOOLEAN, idle : BOOLEAN, idletime : Nat]

Notice == [on : BOOLEAN, away : BOOLEAN, idle : BOOLEAN]

Unseen == [on |-> FALSE, away |-> FALSE, idle |-> FALSE]

TypeOK ==
    /\ buddies_online \in Seq(LibBuddy)
    /\ buddylist \in Seq(Buddy)
    /\ buddiesonline \in Int
    /\ link \in {"up", "lost", "dead", "none"}
    /\ told \in [Sns -> Notice]

-----------------------------------------------------------------------------
(* Lists.  A traversal that stops at the first match is First; a name not  *)
(* on the list leaves it alone.                                            *)

Has(list, sn) == \E i \in 1..Len(list) : list[i].sn = sn

First(list, sn) ==
    CHOOSE i \in 1..Len(list) :
        list[i].sn = sn /\ \A j \in 1..(i - 1) : list[j].sn # sn

Get(list, sn) == list[First(list, sn)]

Unlink(list, sn) ==
    IF Has(list, sn) THEN RemoveAt(list, First(list, sn)) ELSE list

-----------------------------------------------------------------------------
(* The library's list (imcomm.c).                                          *)

imcomm_internal_add_buddy(sn, idletime, isaway) ==
    Append(buddies_online, [sn |-> sn, isaway |-> isaway, idletime |-> idletime])

imcomm_update_buddy_times(list, sn, idletime) ==
    [i \in 1..Len(list) |->
        IF list[i].sn = sn THEN [list[i] EXCEPT !.idletime = idletime] ELSE list[i]]

\* The first entry of that name whose flag differs; only then is a callback
\* raised.
Differ(list, sn, isaway) ==
    {i \in 1..Len(list) : list[i].sn = sn /\ list[i].isaway # isaway}

imcomm_update_buddy_away(list, sn, isaway) ==
    IF Differ(list, sn, isaway) = {} THEN list
    ELSE LET i == CHOOSE k \in Differ(list, sn, isaway) :
                    \A j \in Differ(list, sn, isaway) : k <= j
         IN  [list EXCEPT ![i].isaway = isaway]

\* Fault: the traversal starts at the second node.
delete_buddy_not_head(sn) ==
    IF Has(buddies_online, sn) /\ First(buddies_online, sn) > 1
    THEN Unlink(buddies_online, sn) ELSE buddies_online

imcomm_internal_delete_buddy(sn) == Unlink(buddies_online, sn)

-----------------------------------------------------------------------------
(* The program's list (aim.c): the callbacks as functions on the list.     *)

\* Fault: the node goes to the front whatever its name.
buddy_online_unsorted(list, sn) ==
    InsertAt(list, 1, [sn |-> sn, away |-> FALSE, idle |-> FALSE, idletime |-> 0])

\* Sorted insert: in front of the first larger name, else at the end.  The
\* new node's idletime is left unset; both callers of the callback set it
\* with buddy_idle before anyone reads it.
buddy_online(list, sn) ==
    LET larger == {i \in 1..Len(list) : sn < list[i].sn}
        pos    == IF larger = {} THEN Len(list) + 1
                  ELSE CHOOSE i \in larger : \A j \in larger : i <= j
    IN  InsertAt(list, pos, [sn |-> sn, away |-> FALSE, idle |-> FALSE, idletime |-> 0])

\* Fault: ten minutes do not count as idle yet.
buddy_idle_late(list, sn, idletime) ==
    IF Has(list, sn)
    THEN [list EXCEPT ![First(list, sn)] =
            [@ EXCEPT !.idletime = idletime, !.idle = (idletime > IdleAfter)]]
    ELSE list

buddy_idle(list, sn, idletime) ==
    IF Has(list, sn)
    THEN [list EXCEPT ![First(list, sn)] =
            [@ EXCEPT !.idletime = idletime, !.idle = (idletime >= IdleAfter)]]
    ELSE list

buddy_away(list, sn) ==
    IF Has(list, sn) THEN [list EXCEPT ![First(list, sn)].away = TRUE] ELSE list

buddy_unaway(list, sn) ==
    IF Has(list, sn) THEN [list EXCEPT ![First(list, sn)].away = FALSE] ELSE list

buddy_offline(sn) == Unlink(buddylist, sn)

remove_from_list(sn) == Unlink(buddylist, sn)

-----------------------------------------------------------------------------
(* The notices: "is now idle" and "is no longer idle" are printed when the *)
(* mark changed, "is away" and "is no longer away" whenever called.        *)

\* Fault: only becoming idle counts as a change.
IdleNotice_one_way(t, list, sn, idletime) ==
    IF Has(list, sn) /\ ~Get(list, sn).idle /\ idletime >= IdleAfter
    THEN [t EXCEPT ![sn].idle = TRUE]
    ELSE t

IdleNotice(t, list, sn, idletime) ==
    IF Has(list, sn) /\ Get(list, sn).idle # (idletime >= IdleAfter)
    THEN [t EXCEPT ![sn].idle = (idletime >= IdleAfter)]
    ELSE t

AwayNotice(t, sn, away) == [t EXCEPT ![sn].away = away]

-----------------------------------------------------------------------------
Init ==
    /\ buddies_online = <<>>
    /\ buddylist = <<>>
    /\ buddiesonline = 0
    /\ link = "up"
    /\ told = [sn \in Sns |-> Unseen]
    /\ ev = [type |-> "start"]

\* A sign-on packet about a name the library has on its list already.
SignonAgain(sn, isaway, idletime) ==
    LET turned == Differ(buddies_online, sn, isaway) # {}
        idled  == buddy_idle(buddylist, sn, idletime)
        idleN  == IdleNotice(told, buddylist, sn, idletime)
    IN  /\ Has(buddies_online, sn)
        /\ buddies_online' =
             imcomm_update_buddy_away(
               imcomm_update_buddy_times(buddies_online, sn, idletime), sn, isaway)
        /\ buddylist' = IF ~turned THEN idled
                        ELSE IF isaway THEN buddy_away(idled, sn)
                        ELSE buddy_unaway(idled, sn)
        /\ told' = IF turned THEN AwayNotice(idleN, sn, isaway) ELSE idleN
        /\ UNCHANGED buddiesonline

\* A sign-on packet about a name that is new to the library.
SignonNew(sn, isaway, idletime) ==
    LET added  == buddy_online(buddylist, sn)
        idled  == buddy_idle(added, sn, idletime)
        onN    == [told EXCEPT ![sn] = [Unseen EXCEPT !.on = TRUE]]
        idleN  == IdleNotice(onN, added, sn, idletime)
    IN  /\ ~Has(buddies_online, sn)
        /\ buddies_online' = imcomm_internal_add_buddy(sn, idletime, isaway)
        /\ buddylist' = IF isaway THEN buddy_away(idled, sn) ELSE idled
        /\ buddiesonline' = buddiesonline + 1
        /\ told' = IF isaway THEN AwayNotice(idleN, sn, TRUE) ELSE idleN

snac_get_signon(n, isaway, idletime) ==
    /\ link = "up"
    /\ \/ SignonAgain(simplify_sn[n], isaway, idletime)
       \/ SignonNew(simplify_sn[n], isaway, idletime)
    /\ ev' = [type |-> "signon", sn |-> simplify_sn[n], away |-> isaway,
              idletime |-> idletime]
    /\ UNCHANGED link

snac_get_signoff(n) ==
    LET sn == simplify_sn[n]
    IN  /\ link = "up"
        /\ buddies_online' = imcomm_internal_delete_buddy(sn)
        /\ buddylist' = buddy_offline(sn)
        /\ IF Has(buddylist, sn)
           THEN /\ buddiesonline' = buddiesonline - 1
                /\ told' = [told EXCEPT ![sn] = Unseen]
           ELSE UNCHANGED <<buddiesonline, told>>
        /\ ev' = [type |-> "signoff", sn |-> sn]
        /\ UNCHANGED link

\* A message: unless it is an automatic reply, its sender is not idle.  What
\* getmessage does with the text is not presence.
snac_get_incoming_im(n, auto) ==
    LET sn == simplify_sn[n]
        known == ~auto /\ Has(buddies_online, sn)
    IN  /\ link = "up"
        /\ buddies_online' = IF auto THEN buddies_online
                             ELSE imcomm_update_buddy_times(buddies_online, sn, 0)
        /\ buddylist' = IF known THEN buddy_idle(buddylist, sn, 0) ELSE buddylist
        /\ told' = IF known THEN IdleNotice(told, buddylist, sn, 0) ELSE told
        /\ ev' = [type |-> "im", sn |-> sn, auto |-> auto]
        /\ UNCHANGED <<buddiesonline, link>>

\* The d command; it is accepted while there is a handle, dead or alive.
input_delete_buddy(n) ==
    LET sn == simplify_sn[n]
    IN  /\ link # "none"
        /\ buddies_online' = imcomm_internal_delete_buddy(sn)
        /\ buddylist' = remove_from_list(sn)
        /\ buddiesonline' = IF Has(buddylist, sn) THEN buddiesonline - 1 ELSE buddiesonline
        /\ told' = [told EXCEPT ![sn] = Unseen]
        /\ ev' = [type |-> "removed", sn |-> sn]
        /\ UNCHANGED link

\* A read fails: the handle is marked, both lists stay until it is trimmed.
Disconnected ==
    /\ link = "up"
    /\ link' = "lost"
    /\ told' = [sn \in Sns |-> Unseen]
    /\ ev' = [type |-> "lost"]
    /\ UNCHANGED <<buddies_online, buddylist, buddiesonline>>

\* The server closes this session for another one: the handle is not marked.
OtherSignon ==
    /\ link = "up"
    /\ link' = "dead"
    /\ told' = [sn \in Sns |-> Unseen]
    /\ ev' = [type |-> "othersignon"]
    /\ UNCHANGED <<buddies_online, buddylist, buddiesonline>>

\* Fault: the counter keeps the old session's value.
handle_deleted_keeps_count ==
    /\ link = "lost"
    /\ buddies_online' = <<>>
    /\ buddylist' = <<>>
    /\ link' \in {"up", "none"}
    /\ ev' = [type |-> "trimmed"]
    /\ UNCHANGED <<buddiesonline, told>>

\* imcomm_select trims the marked handle: the callback empties the program's
\* list, the handle takes the library's with it, and the callback may have
\* opened a new connection.
handle_deleted ==
    /\ link = "lost"
    /\ buddies_online' = <<>>
    /\ buddylist' = <<>>
    /\ buddiesonline' = 0
    /\ link' \in {"up", "none"}    \* with auto_reconnect set, and without
    /\ ev' = [type |-> "trimmed"]
    /\ UNCHANGED told

\* The R! command.  Without a handle there is no list to throw away.
input_reconnect ==
    /\ IF link # "none"
       THEN /\ buddylist' = <<>>
            /\ buddiesonline' = 0
       ELSE UNCHANGED <<buddylist, buddiesonline>>
    /\ buddies_online' = <<>>
    /\ link' = "up"
    /\ told' = [sn \in Sns |-> Unseen]
    /\ ev' = [type |-> "reconnect"]

Next ==
    \/ \E n \in Names, isaway \in BOOLEAN, t \in IdleTimes : snac_get_signon(n, isaway, t)
    \/ \E n \in Names : snac_get_signoff(n)
    \/ \E n \in Names, auto \in BOOLEAN : snac_get_incoming_im(n, auto)
    \/ \E n \in Names : input_delete_buddy(n)
    \/ Disconnected
    \/ OtherSignon
    \/ handle_deleted
    \/ input_reconnect

Spec == Init /\ [][Next]_vars

-----------------------------------------------------------------------------
(* Properties.                                                             *)

Sorted(list) ==
    \A i, j \in 1..Len(list) : i < j => list[i].sn < list[j].sn

Unique(list) ==
    \A i, j \in 1..Len(list) : list[i].sn = list[j].sn => i = j

\* The library's list and the program's list hold the same names, each once,
\* with the same away flag and the same idle time, so that the callback the
\* library chooses (signed on, or merely changed) is the right one for the
\* program's list (snac_get_signon, aim.c's buddy_* callbacks).
ListsAgree ==
    /\ Unique(buddies_online)
    /\ \A sn \in Sns :
         /\ Has(buddies_online, sn) <=> Has(buddylist, sn)
         /\ Has(buddies_online, sn) =>
              /\ Get(buddylist, sn).away = Get(buddies_online, sn).isaway
              /\ Get(buddylist, sn).idletime = Get(buddies_online, sn).idletime

\* The program's list is strictly sorted, although the sorted insert never
\* compares for equality: a name inserted twice would stay when it leaves.
ListSorted == Sorted(buddylist)

\* conn->buddiesonline, which show_prompt and the list display trust, counts
\* the list: it is incremented and decremented by four different functions.
CountExact == buddiesonline = Len(buddylist)

\* While the connection is up, whoever read all notices knows the list: no
\* change of a buddy's presence is applied silently and none is announced
\* that did not happen (buddy_idle's "changed", buddy_away's lack of a check).
NoticesTellTheList ==
    link = "up" =>
        \A sn \in Sns :
            told[sn] = IF Has(buddylist, sn)
                       THEN [on   |-> TRUE,
                             away |-> Get(buddylist, sn).away,
                             idle |-> Get(buddylist, sn).idle]
                       ELSE Unseen

\* Refinement: what the list shows is what the abstract map shows.
shown ==
    [sn \in Sns |->
        IF Has(buddylist, sn)
        THEN [away     |-> Get(buddylist, sn).away,
              idletime |-> Get(buddylist, sn).idletime,
              idle     |-> Get(buddylist, sn).idle]
        ELSE Offline]

Abs == INSTANCE PresenceAbs WITH shown <- shown, ev <- ev, Sns <- Sns,
                                IdleTimes <- IdleTimes, Offline <- Offline,
                                IdleAfter <- IdleAfter

\* The two lists implement the one map of PresenceAbs: after every packet or
\* command the list shows, for each name, what the last message about it
\* said, and nothing after the session ended.
AbsSpec == Abs!AbsSpec

L == INSTANCE Link WITH link <- link

\* The sessions that the lists live through are sessions of Link, as the ones
\* of module Session are (error_callback, handle_deleted, input_reconnect).
LinkSpec == L!LinkSpec
=============================================================================
