------------------------------- MODULE Roster -------------------------------
(***************************************************************************)
(* The buddy list that the server stores (SSI): its parts read at sign-on, *)
(* and the additions and removals of the commands a and d, each sent as    *)
(* one batch whose answer nobody reads (snac.c, input.c).                  *)
(*                                                                         *)
(* The order of the library's list does not matter to any of this: it is a *)
(* set of nodes.  The server is external: it applies what it is sent in    *)
(* order, adds nothing under a group and number that are taken, and        *)
(* removes what has the group and number named.                            *)
(***************************************************************************)
EXTENDS Naturals, Sequences, FiniteSets

CONSTANTS Sns,      \* simplified screen names
          Groups,   \* the groups of the server's list; buddies are added to 1
          MaxId,    \* bound of the item numbers
          MaxSent,  \* bound of the batches under way
          MaxLost   \* bound of the connections that are lost

ASSUME SnsAssumption == IsFiniteSet(Sns)
ASSUME GroupsAssumption == 1 \in Groups /\ Groups \subseteq Nat \ {0}
ASSUME IdAssumption == MaxId \in Nat /\ MaxId >= Cardinality(Sns)
ASSUME BoundsAssumption == MaxSent \in Nat /\ MaxLost \in Nat

VARIABLES stage,     \* how far the connection is: "auth", "bos", "online"
          buddylist, \* handle->buddylist
          wire,      \* batches under way to the server
          list,      \* parts of the list under way to the client
          roster,    \* what the server stores
          lost,      \* how many connections were lost
          early,     \* whether a buddy was added before the list was complete
          odd        \* whether one added on this connection was removed

vars == <<stage, buddylist, wire, list, roster, lost, early, odd>>

Ids == 1..MaxId

\* The group of a node that came from the server is told; that of one that was
\* added here is whatever malloc left: 0, the group of no buddy, stands for it.
Unset == 0
AnyGroup == Groups \cup {Unset}

\* A node of the library's list, or what a batch names; and what is stored.
Item == [sn : Sns, group : AnyGroup, id : Ids]
Stored == [sn : Sns, group : Groups, id : Ids]

Batch == [op : {"add", "remove"}, item : Item]

Names(items) == {i.sn : i \in items}

\* A list that a server may store: every name and every place once.
Storable(items) ==
    \A i, j \in items :
        i.sn = j.sn \/ (i.group = j.group /\ i.id = j.id) => i = j

Lists == {items \in SUBSET Stored : Storable(items)}

TypeOK ==
    /\ stage \in {"auth", "bos", "online"}
    /\ buddylist \subseteq Item
    /\ wire \in Seq(Batch)
    /\ list \in Seq(SUBSET Stored)
    /\ roster \subseteq Stored /\ Storable(roster)
    /\ lost \in 0..MaxLost
    /\ early \in BOOLEAN
    /\ odd \in BOOLEAN

Init ==
    /\ stage = "auth"
    /\ buddylist = {}
    /\ wire = <<>>
    /\ list = <<>>
    /\ roster \in Lists
    /\ lost = 0
    /\ early = FALSE
    /\ odd = FALSE

\* The list has come, all of it.
Complete == stage = "online" /\ list = <<>>

-----------------------------------------------------------------------------
(* The sign-on, as far as the list is concerned.                           *)

\* The cookie: whatever went to the authorizer is gone with its connection.
\* The list is asked for, and the server will send it in one part or two.
bos_signon_phase2 ==
    /\ stage = "auth"
    /\ stage' = "bos"
    /\ wire' = <<>>
    /\ \E part \in SUBSET roster :
         list' \in {<<roster>>, <<part, roster \ part>>}
    /\ UNCHANGED <<buddylist, roster, lost, early, odd>>

\* A name that is on the list already keeps its node.
imcomm_addtobuddylist(nodes, items) ==
    nodes \cup {i \in items : i.sn \notin Names(nodes)}

\* A part of the list; the first one makes the client ready.
snac_ssi_get_list ==
    /\ list # <<>>
    /\ buddylist' = imcomm_addtobuddylist(buddylist, Head(list))
    /\ list' = Tail(list)
    /\ stage' = "online"
    /\ UNCHANGED <<wire, roster, lost, early, odd>>

\* The connection is lost and replaced: a new handle with an empty list.
\* What the server has applied of the batches stays.
handle_deleted ==
    /\ lost < MaxLost
    /\ lost' = lost + 1
    /\ stage' = "auth"
    /\ buddylist' = {}
    /\ wire' = <<>>
    /\ list' = <<>>
    /\ early' = FALSE
    /\ odd' = FALSE
    /\ UNCHANGED roster

-----------------------------------------------------------------------------
(* Commands.  They ask for a handle, not for the stage.                    *)

\* Fault: the number is that of the nodes.
imcomm_get_next_id_counts(nodes) == Cardinality(nodes) + 1

\* The smallest number that no node has.
imcomm_get_next_id(nodes) ==
    CHOOSE id \in Ids : /\ \A n \in nodes : n.id # id
                        /\ \A k \in 1..(id - 1) : \E n \in nodes : n.id = k

Send(op, item) == wire' = Append(wire, [op |-> op, item |-> item])

\* The node is entered and the batch sent; group_id stays what malloc left.
imcomm_im_add_buddy(sn) ==
    LET id == imcomm_get_next_id(buddylist)
    IN  IF sn \in Names(buddylist)
        THEN UNCHANGED <<buddylist, wire, early>>
        ELSE /\ buddylist' = buddylist \cup {[sn |-> sn, group |-> Unset, id |-> id]}
             /\ Send("add", [sn |-> sn, group |-> 1, id |-> id])
             /\ early' = (early \/ ~Complete)

\* What reading the group of a node may give.
GroupsOf(n) == IF n.group = Unset THEN AnyGroup ELSE {n.group}

\* Fault: a name that is not on the list is removed as the first one that is.
imcomm_im_remove_buddy_head(sn) ==
    IF buddylist = {}
    THEN UNCHANGED <<buddylist, wire, odd>>
    ELSE LET n == IF sn \in Names(buddylist)
                  THEN CHOOSE b \in buddylist : b.sn = sn
                  ELSE CHOOSE b \in buddylist : TRUE
         IN  /\ buddylist' = buddylist \ {n}
             /\ \E group \in GroupsOf(n) :
                  Send("remove", [sn |-> sn, group |-> group, id |-> n.id])
             /\ odd' = (odd \/ n.group = Unset)

\* The node is removed and the batch sent, with the group the node holds.
imcomm_im_remove_buddy(sn) ==
    IF sn \notin Names(buddylist)
    THEN UNCHANGED <<buddylist, wire, odd>>
    ELSE \E n \in buddylist :
           /\ n.sn = sn
           /\ buddylist' = buddylist \ {n}
           /\ \E group \in GroupsOf(n) :
                Send("remove", [sn |-> sn, group |-> group, id |-> n.id])
           /\ odd' = (odd \/ n.group = Unset)

input_add_buddy(sn) ==
    /\ Len(wire) < MaxSent
    /\ imcomm_im_add_buddy(sn)
    /\ UNCHANGED <<stage, list, roster, lost, odd>>

input_delete_buddy(sn) ==
    /\ Len(wire) < MaxSent
    /\ imcomm_im_remove_buddy(sn)
    /\ UNCHANGED <<stage, list, roster, lost, early>>

-----------------------------------------------------------------------------
(* The server (external).                                                  *)

\* An addition that is refused is answered, and nobody reads the answer.
Applied(items, b) ==
    IF b.op = "remove"
    THEN {i \in items : i.group # b.item.group \/ i.id # b.item.id}
    ELSE IF Storable(items \cup {b.item}) THEN items \cup {b.item} ELSE items

server_applies ==
    /\ wire # <<>>
    /\ stage # "auth"
    /\ roster' = Applied(roster, Head(wire))
    /\ wire' = Tail(wire)
    /\ UNCHANGED <<stage, buddylist, list, lost, early, odd>>

Next ==
    \/ bos_signon_phase2
    \/ snac_ssi_get_list
    \/ handle_deleted
    \/ \E sn \in Sns : input_add_buddy(sn) \/ input_delete_buddy(sn)
    \/ server_applies

Spec == Init /\ [][Next]_vars

-----------------------------------------------------------------------------
(* Properties.                                                             *)

\* Nobody is on the library's list twice, also if he was added while the list
\* was under way (imcomm_addtobuddylist, imcomm_im_add_buddy).
NamesDistinct == \A m, n \in buddylist : m.sn = n.sn => m = n

Places(items) == {<<i.sn, i.id>> : i \in items}

\* When the server has applied everything, it stores under the same numbers
\* whom the library's list names: no addition was refused for a number that
\* was taken, in any order of additions, removals and reconnections, as long
\* as nobody was added before the list was complete and nobody removed who had
\* been added on this connection (imcomm_get_next_id, imcomm_im_add_buddy).
InSync ==
    Complete /\ wire = <<>> /\ ~early /\ ~odd => Places(roster) = Places(buddylist)

\* Under the same conditions no batch is in vain, though nobody reads what the
\* server answers: what it is told to add it did not have, and has then; what
\* it is told to remove it had, and nobody else goes, whatever batches were on
\* their way when the number was chosen (imcomm_get_next_id,
\* imcomm_im_add_buddy, imcomm_im_remove_buddy).
BatchesTakeEffect ==
    [][server_applies /\ ~early /\ ~odd =>
         LET b == Head(wire)
         IN  IF b.op = "add"
             THEN b.item.sn \notin Names(roster) /\ roster' = roster \cup {b.item}
             ELSE b.item \in roster /\ roster' = roster \ {b.item}]_vars

\* Whom the server will store once it has applied what is under way: what it
\* stores and is not told to remove, and what it is told to add.
Intended ==
    {i \in roster : \A k \in 1..Len(wire) : ~(wire[k].op = "remove" /\ wire[k].item = i)}
    \cup {wire[k].item : k \in {m \in 1..Len(wire) : wire[m].op = "add"}}

\* The library's list runs ahead of the server's, and always by exactly what is
\* under way (imcomm_im_add_buddy, imcomm_im_remove_buddy).
ListedIsIntended == Complete /\ ~early /\ ~odd => Places(Intended) = Places(buddylist)

\* d deletes a screen name from the buddy list (bsflite.1): when the server
\* has applied everything, it stores nobody whom the library does not list.
DeletedIsGone ==
    Complete /\ wire = <<>> /\ ~early => Names(roster) \subseteq Names(buddylist)
=============================================================================
