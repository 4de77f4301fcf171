---------------------------- MODULE RosterProofs ----------------------------
(***************************************************************************)
(* The roster of any number of names in any number of groups: the numbers  *)
(* chosen from the library's list alone keep the server's list in step,    *)
(* and no batch is in vain.                                                *)
(***************************************************************************)
EXTENDS Roster, FiniteSetTheorems, WellFoundedInduction, SequenceTheorems, TLAPS

Removes(k) == k \in 1..Len(wire) /\ wire[k].op = "remove"
Adds(k) == k \in 1..Len(wire) /\ wire[k].op = "add"

\* The list is asked for by a connection that has none, and nothing was added.
Fresh == stage = "auth" => list = <<>> /\ (~early => buddylist = {})

\* A part of a list that can be stored can be stored.
PartsStorable == \A j \in 1..Len(list) : Storable(list[j])

AddsInOne == \A k \in 1..Len(wire) : Adds(k) => wire[k].item.group = 1

\* What is removed is stored until then, is removed once, and is off the list.
RemovesStand ==
    \A k \in 1..Len(wire) : Removes(k) =>
        /\ wire[k].item \in roster
        /\ wire[k].item \notin buddylist
        /\ \A l \in 1..Len(wire) : Removes(l) /\ l # k => wire[l].item # wire[k].item

\* A node that came from the server is still stored.
NodesStored == \A n \in buddylist : n.group # Unset => n \in roster

\* So is what is under way to the client, once.
PartsStored ==
    \A j \in 1..Len(list) : \A i \in list[j] :
        /\ i \in roster /\ i \notin buddylist
        /\ \A k \in 1..Len(wire) : Removes(k) => wire[k].item # i
        /\ \A l \in 1..Len(list) : l # j => i \notin list[l]

\* The node that an addition to the list made.
Added(i) == [sn |-> i.sn, group |-> Unset, id |-> i.id]

\* What an addition sends.
Item1(n) == [sn |-> n.sn, group |-> 1, id |-> n.id]

\* Whatever is stored is on the list, to be removed, or yet to come.
Known ==
    stage # "auth" => \A i \in roster :
        \/ i \in buddylist
        \/ i.group = 1 /\ Added(i) \in buddylist
        \/ \E k \in 1..Len(wire) : Removes(k) /\ wire[k].item = i
        \/ \E j \in 1..Len(list) : i \in list[j]

\* Whoever was added is stored, for good, or will be.
AddedStored ==
    \A n \in buddylist : n.group = Unset =>
        \/ \E k \in 1..Len(wire) : Adds(k) /\ wire[k].item = Item1(n)
        \/ /\ Item1(n) \in roster
           /\ \A k \in 1..Len(wire) : Removes(k) => wire[k].item # Item1(n)

\* Whoever is to be added is on the list, and is added once.
AddsListed ==
    \A k \in 1..Len(wire) : Adds(k) =>
        /\ Added(wire[k].item) \in buddylist
        /\ \A l \in 1..Len(wire) : Adds(l) /\ l # k => wire[l].item # wire[k].item

\* What is in the way of an addition is removed before it.
AddsFit ==
    \A k \in 1..Len(wire) : Adds(k) => \A i \in roster :
        \/ i.sn # wire[k].item.sn /\ (i.group # 1 \/ i.id # wire[k].item.id)
        \/ \E l \in 1..(k - 1) : Removes(l) /\ wire[l].item = i

\* The number of whoever was added is nobody else's, and he was added last.
NumbersFree ==
    \A n \in buddylist : n.group = Unset =>
        /\ Complete
        /\ \A m \in buddylist : m.id = n.id => m = n

Clean ==
    /\ RemovesStand /\ NodesStored /\ PartsStored /\ Known
    /\ AddedStored /\ AddsListed /\ AddsFit /\ NumbersFree

IInv == /\ TypeOK /\ NamesDistinct /\ Fresh /\ PartsStorable /\ AddsInOne
        /\ ~early /\ ~odd => Clean

USE SnsAssumption, GroupsAssumption, IdAssumption, BoundsAssumption

-----------------------------------------------------------------------------
(* A free number.                                                          *)

LEMMA Least == ASSUME NEW T, T \subseteq Nat, T # {} PROVE \E x \in T : \A y \in T : x <= y
<1> DEFINE R == OpToRel(<, Nat)
<1>1. IsWellFoundedOn(R, Nat)
  BY NatLessThanWellFounded
<1>2. \A x, y \in Nat : x < y => <<x, y>> \in R
  BY DEF OpToRel
<1> HIDE DEF R
<1>3. PICK x \in T : \A y \in T : ~ (<<y, x>> \in R)
  BY <1>1, WFMin
<1>4. \A y \in T : ~(y < x)
  BY <1>2, <1>3
<1> QED BY <1>4

\* There are more numbers than names, so that one is free for another name.
LEMMA FreeNumber ==
    ASSUME NEW sn \in Sns, buddylist \subseteq Item, NamesDistinct,
           sn \notin Names(buddylist)
    PROVE  \E id \in Ids : \A n \in buddylist : n.id # id
<1> SUFFICES ASSUME \A id \in Ids : \E n \in buddylist : n.id = id PROVE FALSE
  OBVIOUS
<1> DEFINE Others == Sns \ {sn}
           Of(id) == CHOOSE n \in buddylist : n.id = id
           f == [id \in Ids |-> Of(id).sn]
<1>1. IsFiniteSet(Ids) /\ Cardinality(Ids) = MaxId
  BY FS_Interval DEF Ids
<1>2. IsFiniteSet(Others) /\ Cardinality(Others) < MaxId
  <2>1. IsFiniteSet(Others) /\ Cardinality(Others) = Cardinality(Sns) - 1
    BY FS_RemoveElement
  <2>2. Cardinality(Sns) \in Nat
    BY FS_CardinalityType
  <2> QED BY <2>1, <2>2
<1>3. \A id \in Ids : Of(id) \in buddylist /\ Of(id).id = id
  OBVIOUS
<1>4. \A n \in buddylist : n.sn \in Others
  BY DEF Item, Names
<1>5. f \in [Ids -> Others]
  BY <1>3, <1>4
<1>6. PICK x, y \in Ids : x # y /\ f[x] = f[y]
  <2> HIDE DEF f, Others
  <2> QED BY <1>1, <1>2, <1>5, FS_PigeonHole
<1>7. Of(x).sn = Of(y).sn
  BY <1>6
<1> HIDE DEF Of
<1> QED BY <1>3, <1>6, <1>7 DEF NamesDistinct

LEMMA NextId ==
    ASSUME NEW sn \in Sns, buddylist \subseteq Item, NamesDistinct,
           sn \notin Names(buddylist)
    PROVE  /\ imcomm_get_next_id(buddylist) \in Ids
           /\ \A n \in buddylist : n.id # imcomm_get_next_id(buddylist)
<1> DEFINE T == {id \in Ids : \A n \in buddylist : n.id # id}
           P(id) == /\ \A n \in buddylist : n.id # id
                    /\ \A k \in 1..(id - 1) : \E n \in buddylist : n.id = k
<1>1. T # {} /\ T \subseteq Nat
  BY FreeNumber DEF Ids
<1>2. PICK id \in T : \A y \in T : id <= y
  <2> HIDE DEF T
  <2> QED BY <1>1, Least
<1>3. ASSUME NEW k \in 1..(id - 1) PROVE \E n \in buddylist : n.id = k
  <2>1. k \in Ids /\ ~(id <= k)
    BY DEF Ids
  <2> QED BY <1>2, <2>1
<1>4. \E i \in Ids : P(i)
  BY <1>2, <1>3
<1>5. imcomm_get_next_id(buddylist) = CHOOSE i \in Ids : P(i)
  BY DEF imcomm_get_next_id
<1> HIDE DEF P
<1>6. (CHOOSE i \in Ids : P(i)) \in Ids /\ P(CHOOSE i \in Ids : P(i))
  BY <1>4
<1> QED BY <1>5, <1>6 DEF P

-----------------------------------------------------------------------------
(* The wire.                                                               *)

\* The oldest batch leaves the wire.
LEMMA Shorter ==
    ASSUME wire \in Seq(Batch), wire # <<>>, wire' = Tail(wire)
    PROVE  /\ Len(wire) \in Nat \ {0} /\ wire' \in Seq(Batch)
           /\ Head(wire) = wire[1] /\ wire[1] \in Batch
           /\ \A k \in 1..Len(wire') : /\ k + 1 \in 2..Len(wire)
                                       /\ wire'[k] = wire[k + 1]
           /\ \A k \in 2..Len(wire) : /\ k - 1 \in 1..Len(wire')
                                      /\ wire'[k - 1] = wire[k]
<1>1. /\ wire' \in Seq(Batch) /\ Len(wire') = Len(wire) - 1 /\ Len(wire) \in Nat \ {0}
      /\ \A k \in 1..Len(wire') : wire'[k] = wire[k + 1]
  BY HeadTailProperties, EmptySeq
<1>2. Head(wire) = wire[1] /\ wire[1] \in Batch
  BY <1>1
<1>3. ASSUME NEW k \in 2..Len(wire)
      PROVE  k - 1 \in 1..Len(wire') /\ wire'[k - 1] = wire[k]
  BY <1>1
<1> QED BY <1>1, <1>2, <1>3

\* A batch is sent.
LEMMA Longer ==
    ASSUME wire \in Seq(Batch), NEW b \in Batch, wire' = Append(wire, b)
    PROVE  /\ wire' \in Seq(Batch)
           /\ Len(wire) \in Nat /\ Len(wire') = Len(wire) + 1
           /\ \A k \in 1..Len(wire) : wire'[k] = wire[k]
           /\ wire'[Len(wire) + 1] = b
  BY AppendProperties, LenProperties

LEMMA TypeParts ==
    ASSUME TypeOK
    PROVE  /\ buddylist \subseteq Item /\ wire \in Seq(Batch) /\ list \in Seq(SUBSET Stored)
           /\ roster \subseteq Stored /\ Storable(roster)
           /\ early \in BOOLEAN /\ odd \in BOOLEAN /\ lost \in 0..MaxLost
  BY DEF TypeOK

\* What is stored could be a node, and none that was added here.
LEMMA StoredItems == \A i \in Stored : i \in Item /\ i.group # Unset /\ i.group \in Groups
  BY DEF Stored, Item, AnyGroup, Unset

\* Items are told apart by their fields.
LEMMA ItemsEqual ==
    \A i, j \in Item : i.sn = j.sn /\ i.group = j.group /\ i.id = j.id => i = j
  BY DEF Item

-----------------------------------------------------------------------------
(* A step keeps the invariant: what is not about the batches.              *)

Plain == TypeOK /\ NamesDistinct /\ Fresh /\ PartsStorable /\ AddsInOne

LEMMA InitPlain == Init => Plain
<1> SUFFICES ASSUME Init PROVE Plain
  OBVIOUS
<1>1. roster \subseteq Stored /\ Storable(roster)
  BY DEF Init, Lists
<1>2. <<>> \in Seq(Batch) /\ <<>> \in Seq(SUBSET Stored) /\ Len(<<>>) = 0
  OBVIOUS
<1>3. TypeOK
  <2>1. 0 \in 0..MaxLost
    OBVIOUS
  <2> QED BY <1>1, <1>2, <2>1 DEF Init, TypeOK
<1> QED BY <1>2, <1>3 DEF Init, Plain, NamesDistinct, Fresh, PartsStorable, AddsInOne, Adds

LEMMA Phase2Plain == ASSUME Plain, bos_signon_phase2 PROVE Plain'
<1>1. /\ stage' = "bos" /\ wire' = <<>>
      /\ UNCHANGED <<buddylist, roster, lost, early, odd>>
  BY DEF bos_signon_phase2
<1>2. PICK part \in SUBSET roster : list' \in {<<roster>>, <<part, roster \ part>>}
  BY DEF bos_signon_phase2
<1>3. roster \subseteq Stored /\ Storable(roster)
  BY TypeParts DEF Plain
<1>4. Storable(part) /\ Storable(roster \ part)
  BY <1>3 DEF Storable
<1>5. list' \in Seq(SUBSET Stored) /\ PartsStorable'
  <2>1. roster \in SUBSET Stored /\ part \in SUBSET Stored /\ roster \ part \in SUBSET Stored
    BY <1>3
  <2>2. CASE list' = <<roster>>
    <3>1. list' \in Seq(SUBSET Stored) /\ Len(list') = 1 /\ list'[1] = roster
      BY <2>1, <2>2
    <3> QED BY <1>3, <3>1 DEF PartsStorable
  <2>3. CASE list' = <<part, roster \ part>>
    <3>1. /\ list' \in Seq(SUBSET Stored) /\ Len(list') = 2
          /\ list'[1] = part /\ list'[2] = roster \ part
      BY <2>1, <2>3
    <3>2. \A j \in 1..Len(list') : j = 1 \/ j = 2
      BY <3>1
    <3>3. \A j \in 1..Len(list') : Storable(list'[j])
      BY ONLY <1>4, <3>1, <3>2
    <3> QED BY ONLY <3>1, <3>3 DEF PartsStorable
  <2>4. list' = <<roster>> \/ list' = <<part, roster \ part>>
    BY <1>2
  <2> QED BY ONLY <2>2, <2>3, <2>4
<1>6. <<>> \in Seq(Batch) /\ Len(<<>>) = 0
  OBVIOUS
<1>7. TypeOK'
  BY <1>1, <1>5, <1>6 DEF Plain, TypeOK
<1> QED BY <1>1, <1>5, <1>6, <1>7 DEF Plain, NamesDistinct, Fresh, AddsInOne, Adds

LEMMA PartPlain == ASSUME Plain, snac_ssi_get_list PROVE Plain'
<1>1. /\ list # <<>> /\ list' = Tail(list) /\ stage' = "online"
      /\ buddylist' = imcomm_addtobuddylist(buddylist, Head(list))
      /\ UNCHANGED <<wire, roster, lost, early, odd>>
  BY DEF snac_ssi_get_list
<1>2. /\ list \in Seq(SUBSET Stored) /\ buddylist \subseteq Item
      /\ roster \subseteq Stored /\ Storable(roster)
  BY TypeParts DEF Plain
<1>3. /\ Head(list) \subseteq Stored /\ list' \in Seq(SUBSET Stored)
      /\ Len(list) \in Nat \ {0} /\ Head(list) = list[1] /\ Len(list') = Len(list) - 1
      /\ \A j \in 1..Len(list') : list'[j] = list[j + 1]
  BY <1>1, <1>2, HeadTailProperties, EmptySeq
<1>6. Storable(Head(list)) /\ PartsStorable'
  BY <1>3 DEF Plain, PartsStorable
<1>4. TypeOK'
  BY <1>1, <1>2, <1>3, StoredItems DEF Plain, TypeOK, imcomm_addtobuddylist
<1>5. NamesDistinct'
  <2>1. SUFFICES ASSUME NEW m \in buddylist', NEW n \in buddylist', m.sn = n.sn
                 PROVE  m = n
    BY DEF NamesDistinct
  <2> QED BY <1>1, <1>6, <2>1
          DEF Plain, NamesDistinct, imcomm_addtobuddylist, Names, Storable
<1> QED BY <1>1, <1>4, <1>5, <1>6 DEF Plain, Fresh, AddsInOne, Adds

LEMMA LostPlain == ASSUME Plain, handle_deleted PROVE Plain'
<1>1. <<>> \in Seq(Batch) /\ <<>> \in Seq(SUBSET Stored) /\ Len(<<>>) = 0
  OBVIOUS
<1>2. TypeOK'
  <2>1. lost' \in 0..MaxLost
    BY DEF Plain, TypeOK, handle_deleted
  <2> QED BY <1>1, <2>1 DEF Plain, TypeOK, handle_deleted
<1> QED BY <1>1, <1>2
        DEF handle_deleted, Plain, NamesDistinct, Fresh, PartsStorable, AddsInOne, Adds

\* What the command a does for a name that is not on the list.
LEMMA AddedBatch ==
    ASSUME Plain, NEW sn \in Sns, imcomm_im_add_buddy(sn), sn \notin Names(buddylist)
    PROVE  \E id \in Ids :
             /\ \A n \in buddylist : n.id # id
             /\ buddylist' = buddylist \cup {[sn |-> sn, group |-> Unset, id |-> id]}
             /\ wire' = Append(wire, [op |-> "add", item |-> [sn |-> sn, group |-> 1, id |-> id]])
             /\ [op |-> "add", item |-> [sn |-> sn, group |-> 1, id |-> id]] \in Batch
             /\ [sn |-> sn, group |-> Unset, id |-> id] \in Item
             /\ early' = (early \/ ~Complete)
<1>1. /\ imcomm_get_next_id(buddylist) \in Ids
      /\ \A n \in buddylist : n.id # imcomm_get_next_id(buddylist)
  BY NextId, TypeParts DEF Plain
<1>2. ASSUME NEW id \in Ids
      PROVE  /\ [op |-> "add", item |-> [sn |-> sn, group |-> 1, id |-> id]] \in Batch
             /\ [sn |-> sn, group |-> Unset, id |-> id] \in Item
  BY DEF Batch, Item, AnyGroup
<1> QED BY <1>1, <1>2 DEF imcomm_im_add_buddy, Send

\* What the command d does for a name that is.
LEMMA RemovedBatch ==
    ASSUME Plain, NEW sn \in Sns, imcomm_im_remove_buddy(sn), sn \in Names(buddylist)
    PROVE  \E n \in buddylist, group \in AnyGroup :
             /\ n.sn = sn /\ n \in Item
             /\ n.group = Unset \/ group = n.group
             /\ buddylist' = buddylist \ {n}
             /\ wire' = Append(wire, [op |-> "remove",
                                      item |-> [sn |-> sn, group |-> group, id |-> n.id]])
             /\ [op |-> "remove", item |-> [sn |-> sn, group |-> group, id |-> n.id]] \in Batch
             /\ odd' = (odd \/ n.group = Unset)
<1>1. PICK n \in buddylist :
        /\ n.sn = sn
        /\ buddylist' = buddylist \ {n}
        /\ \E group \in GroupsOf(n) :
             Send("remove", [sn |-> sn, group |-> group, id |-> n.id])
        /\ odd' = (odd \/ n.group = Unset)
  BY DEF imcomm_im_remove_buddy
<1>2. PICK group \in GroupsOf(n) :
        Send("remove", [sn |-> sn, group |-> group, id |-> n.id])
  BY <1>1
<1>3. n \in Item
  BY TypeParts DEF Plain
<1>4. group \in AnyGroup /\ (n.group = Unset \/ group = n.group)
  BY <1>2, <1>3 DEF GroupsOf, Item
<1>5. [op |-> "remove", item |-> [sn |-> sn, group |-> group, id |-> n.id]] \in Batch
  BY <1>3, <1>4 DEF Batch, Item
<1> QED BY <1>1, <1>2, <1>3, <1>4, <1>5 DEF Send

LEMMA AddPlain == ASSUME Plain, NEW sn \in Sns, input_add_buddy(sn) PROVE Plain'
<1>1. imcomm_im_add_buddy(sn) /\ UNCHANGED <<stage, list, roster, lost, odd>>
  BY DEF input_add_buddy
<1>2. CASE sn \in Names(buddylist)
  <2>1. UNCHANGED <<buddylist, wire, early>>
    BY <1>1, <1>2 DEF imcomm_im_add_buddy
  <2> QED BY <1>1, <2>1 DEF Plain, TypeOK, NamesDistinct, Fresh, PartsStorable, AddsInOne, Adds
<1>3. CASE sn \notin Names(buddylist)
  <2> DEFINE node(id) == [sn |-> sn, group |-> Unset, id |-> id]
             b(id) == [op |-> "add", item |-> [sn |-> sn, group |-> 1, id |-> id]]
  <2>1. PICK id \in Ids : /\ buddylist' = buddylist \cup {node(id)}
                          /\ wire' = Append(wire, b(id))
                          /\ b(id) \in Batch /\ node(id) \in Item
                          /\ early' = (early \/ ~Complete)
    BY <1>1, <1>3, AddedBatch
  <2>2. node(id).sn = sn /\ b(id).item.group = 1
    OBVIOUS
  <2>3. wire \in Seq(Batch) /\ early \in BOOLEAN
    BY TypeParts DEF Plain
  <2> HIDE DEF node, b
  <2>4. wire' \in Seq(Batch) /\ early' \in BOOLEAN
    BY <2>1, <2>3, Longer
  <2>5. TypeOK'
    BY <1>1, <2>1, <2>4 DEF Plain, TypeOK
  <2>6. NamesDistinct'
    BY <1>3, <2>1, <2>2 DEF Plain, NamesDistinct, Names
  <2>7. Fresh' /\ PartsStorable'
    BY <1>1, <2>1 DEF Plain, Fresh, PartsStorable, Complete
  <2>8. AddsInOne'
    BY <2>1, <2>2, <2>3, Longer DEF Plain, AddsInOne, Adds
  <2> QED BY <2>5, <2>6, <2>7, <2>8 DEF Plain
<1> QED BY <1>2, <1>3

LEMMA RemovePlain == ASSUME Plain, NEW sn \in Sns, input_delete_buddy(sn) PROVE Plain'
<1>1. imcomm_im_remove_buddy(sn) /\ UNCHANGED <<stage, list, roster, lost, early>>
  BY DEF input_delete_buddy
<1>2. CASE sn \notin Names(buddylist)
  <2>1. UNCHANGED <<buddylist, wire, odd>>
    BY <1>1, <1>2 DEF imcomm_im_remove_buddy
  <2> QED BY <1>1, <2>1 DEF Plain, TypeOK, NamesDistinct, Fresh, PartsStorable, AddsInOne, Adds
<1>3. CASE sn \in Names(buddylist)
  <2> DEFINE b(n, group) == [op |-> "remove",
                             item |-> [sn |-> sn, group |-> group, id |-> n.id]]
  <2>1. PICK n \in buddylist, group \in AnyGroup :
          /\ buddylist' = buddylist \ {n}
          /\ wire' = Append(wire, b(n, group))
          /\ b(n, group) \in Batch
          /\ odd' = (odd \/ n.group = Unset)
    BY <1>1, <1>3, RemovedBatch
  <2>2. b(n, group).op = "remove"
    OBVIOUS
  <2>3. wire \in Seq(Batch) /\ odd \in BOOLEAN
    BY TypeParts DEF Plain
  <2> HIDE DEF b
  <2>4. wire' \in Seq(Batch) /\ odd' \in BOOLEAN
    BY <2>1, <2>3, Longer
  <2>5. TypeOK'
    BY <1>1, <2>1, <2>4 DEF Plain, TypeOK
  <2>6. NamesDistinct' /\ Fresh' /\ PartsStorable'
    BY <1>1, <2>1 DEF Plain, NamesDistinct, Fresh, PartsStorable
  <2>7. AddsInOne'
    BY <2>1, <2>2, <2>3, Longer DEF Plain, AddsInOne, Adds
  <2> QED BY <2>5, <2>6, <2>7 DEF Plain
<1> QED BY <1>2, <1>3

\* The server's list stays one that can be stored.
LEMMA AppliedStorable ==
    ASSUME NEW b \in Batch, roster \subseteq Stored, Storable(roster),
           b.op = "add" => b.item.group = 1
    PROVE  Applied(roster, b) \subseteq Stored /\ Storable(Applied(roster, b))
<1>1. CASE b.op = "remove"
  BY <1>1 DEF Applied, Storable
<1>2. CASE b.op = "add"
  <2>1. b.item \in Stored
    BY <1>2 DEF Batch, Item, Stored
  <2> QED BY <1>2, <2>1 DEF Applied
<1> QED BY <1>1, <1>2 DEF Batch

LEMMA AppliedPlain == ASSUME Plain, server_applies PROVE Plain'
<1>1. /\ wire # <<>> /\ stage # "auth" /\ wire' = Tail(wire)
      /\ roster' = Applied(roster, Head(wire))
      /\ UNCHANGED <<stage, buddylist, list, lost, early, odd>>
  BY DEF server_applies
<1>2. wire \in Seq(Batch) /\ roster \subseteq Stored /\ Storable(roster)
  BY TypeParts DEF Plain
<1>3. /\ Len(wire) \in Nat \ {0} /\ wire' \in Seq(Batch)
      /\ Head(wire) = wire[1] /\ wire[1] \in Batch
      /\ \A k \in 1..Len(wire') : k + 1 \in 2..Len(wire) /\ wire'[k] = wire[k + 1]
  BY <1>1, <1>2, Shorter
<1>4. wire[1].op = "add" => wire[1].item.group = 1
  BY <1>3 DEF Plain, AddsInOne, Adds
<1>5. roster' \subseteq Stored /\ Storable(roster')
  BY <1>1, <1>2, <1>3, <1>4, AppliedStorable
<1>6. TypeOK'
  BY <1>1, <1>3, <1>5 DEF Plain, TypeOK
<1>7. NamesDistinct' /\ Fresh' /\ PartsStorable'
  BY <1>1 DEF Plain, NamesDistinct, Fresh, PartsStorable
<1>8. AddsInOne'
  BY <1>3 DEF Plain, AddsInOne, Adds
<1> QED BY <1>6, <1>7, <1>8 DEF Plain

LEMMA NextPlain == Plain /\ [Next]_vars => Plain'
<1> SUFFICES ASSUME Plain, [Next]_vars PROVE Plain'
  OBVIOUS
<1>1. CASE UNCHANGED vars
  BY <1>1 DEF vars, Plain, TypeOK, NamesDistinct, Fresh, PartsStorable, AddsInOne, Adds
<1>2. CASE Next
  BY <1>2, Phase2Plain, PartPlain, LostPlain, AddPlain, RemovePlain, AppliedPlain DEF Next
<1> QED BY <1>1, <1>2

-----------------------------------------------------------------------------
(* A step keeps the invariant: the batches and the list.                   *)

LEMMA Phase2Clean == ASSUME Plain, ~early, bos_signon_phase2 PROVE Clean'
<1>1. /\ stage' = "bos" /\ wire' = <<>> /\ roster' = roster /\ buddylist' = {}
  BY DEF bos_signon_phase2, Plain, Fresh
<1>2. /\ Len(wire') = 0
      /\ RemovesStand' /\ NodesStored' /\ AddedStored' /\ AddsListed' /\ AddsFit'
      /\ NumbersFree'
  BY <1>1 DEF RemovesStand, NodesStored, AddedStored, AddsListed, AddsFit, NumbersFree
<1>3. PICK part \in SUBSET roster : list' = <<roster>> \/ list' = <<part, roster \ part>>
  BY DEF bos_signon_phase2
<1>4. PartsStored' /\ Known'
  <2>1. CASE list' = <<roster>>
    <3>1. Len(list') = 1 /\ list'[1] = roster
      BY <2>1
    <3> QED BY <1>1, <1>2, <3>1 DEF PartsStored, Known
  <2>2. CASE list' = <<part, roster \ part>>
    <3>1. Len(list') = 2 /\ list'[1] = part /\ list'[2] = roster \ part
      BY <2>2
    <3> QED BY <1>1, <1>2, <3>1 DEF PartsStored, Known
  <2> QED BY ONLY <1>3, <2>1, <2>2
<1> QED BY <1>2, <1>4 DEF Clean

LEMMA LostClean == ASSUME handle_deleted PROVE Clean'
<1>1. /\ stage' = "auth" /\ buddylist' = {} /\ Len(wire') = 0 /\ Len(list') = 0
  BY DEF handle_deleted
<1> QED BY <1>1 DEF Clean, RemovesStand, NodesStored, PartsStored, Known, AddedStored,
               AddsListed, AddsFit, NumbersFree

\* A part of the list: all of it is new to the client.
LEMMA PartClean == ASSUME Plain, Clean, snac_ssi_get_list PROVE Clean'
<1>1. /\ list # <<>> /\ list' = Tail(list) /\ stage' = "online"
      /\ buddylist' = imcomm_addtobuddylist(buddylist, Head(list))
      /\ UNCHANGED <<wire, roster>>
  BY DEF snac_ssi_get_list
<1>2. /\ list \in Seq(SUBSET Stored) /\ buddylist \subseteq Item
      /\ roster \subseteq Stored /\ Storable(roster)
  BY TypeParts DEF Plain
<1>3. /\ Len(list) \in Nat \ {0} /\ Head(list) = list[1] /\ Len(list') = Len(list) - 1
      /\ \A j \in 1..Len(list') : j + 1 \in 2..Len(list) /\ list'[j] = list[j + 1]
      /\ \A j \in 2..Len(list) : j - 1 \in 1..Len(list') /\ list'[j - 1] = list[j]
  <2>1. /\ Len(list) \in Nat \ {0} /\ Head(list) = list[1] /\ Len(list') = Len(list) - 1
        /\ \A j \in 1..Len(list') : list'[j] = list[j + 1]
    BY <1>1, <1>2, HeadTailProperties, EmptySeq
  <2>2. ASSUME NEW j \in 2..Len(list)
        PROVE  j - 1 \in 1..Len(list') /\ list'[j - 1] = list[j]
    BY <2>1
  <2> QED BY <2>1, <2>2
<1>4. \A n \in buddylist : n.group # Unset
  BY <1>1 DEF Clean, NumbersFree, Complete
<1>5. \A i \in list[1] : i \in roster /\ i \notin buddylist /\ i \in Stored
  BY <1>2, <1>3 DEF Clean, PartsStored
<1>6. \A i \in list[1] : i.sn \notin Names(buddylist)
  BY <1>2, <1>4, <1>5 DEF Clean, NodesStored, Storable, Names
<1>7. buddylist' = buddylist \cup list[1]
  BY <1>1, <1>3, <1>6 DEF imcomm_addtobuddylist
<1>8. \A n \in buddylist' : n.group # Unset
  BY <1>4, <1>5, <1>7, StoredItems
<1>9. \A k \in 1..Len(wire) : ~Adds(k)
  BY <1>4 DEF Clean, AddsListed, Added
<1>10. Len(wire') = Len(wire) /\ \A k : (Removes(k)' <=> Removes(k)) /\ (Adds(k)' <=> Adds(k))
  BY <1>1 DEF Removes, Adds
<1>11. RemovesStand'
  <2> SUFFICES ASSUME NEW k \in 1..Len(wire), Removes(k)
               PROVE  /\ wire[k].item \in roster
                      /\ wire[k].item \notin buddylist'
                      /\ \A l \in 1..Len(wire) :
                            Removes(l) /\ l # k => wire[l].item # wire[k].item
    BY <1>1, <1>10 DEF RemovesStand
  <2>1. wire[k].item \notin list[1]
    BY <1>3 DEF Clean, PartsStored
  <2> QED BY <1>7, <2>1 DEF Clean, RemovesStand
<1>12. NodesStored'
  BY <1>1, <1>5, <1>7 DEF Clean, NodesStored
<1>13. PartsStored'
  <2> SUFFICES ASSUME NEW j \in 1..Len(list'), NEW i \in list'[j]
               PROVE  /\ i \in roster /\ i \notin buddylist'
                      /\ \A k \in 1..Len(wire) : Removes(k) => wire[k].item # i
                      /\ \A l \in 1..Len(list') : l # j => i \notin list'[l]
    BY <1>1, <1>10 DEF PartsStored
  <2>1. j + 1 \in 2..Len(list) /\ i \in list[j + 1]
    BY <1>3
  <2>2. /\ i \in roster /\ i \notin buddylist
        /\ \A k \in 1..Len(wire) : Removes(k) => wire[k].item # i
        /\ \A l \in 1..Len(list) : l # j + 1 => i \notin list[l]
    BY <1>3, <2>1 DEF Clean, PartsStored
  <2>3. i \notin list[1]
    BY <1>3, <2>1, <2>2
  <2>4. \A l \in 1..Len(list') : l # j => i \notin list'[l]
    BY <1>3, <2>2
  <2> QED BY <1>7, <2>2, <2>3, <2>4
<1>14. Known'
  <2> SUFFICES ASSUME NEW i \in roster
               PROVE  \/ i \in buddylist'
                      \/ \E k \in 1..Len(wire) : Removes(k) /\ wire[k].item = i
                      \/ \E j \in 1..Len(list') : i \in list'[j]
    BY <1>1, <1>10 DEF Known
  <2>1. stage # "auth"
    BY <1>1 DEF Plain, Fresh
  <2>2. CASE \E j \in 1..Len(list) : i \in list[j]
    <3>1. PICK j \in 1..Len(list) : i \in list[j]
      BY <2>2
    <3>2. CASE j = 1
      BY <1>7, <3>1, <3>2
    <3>3. CASE j # 1
      <4>1. j \in 2..Len(list)
        BY <3>3
      <4> QED BY <1>3, <3>1, <4>1
    <3> QED BY <3>2, <3>3
  <2>3. Added(i) \notin buddylist
    BY <1>4 DEF Added
  <2> QED BY <1>7, <2>1, <2>2, <2>3 DEF Clean, Known
<1>15. AddedStored' /\ NumbersFree'
  BY <1>8 DEF AddedStored, NumbersFree
<1>16. AddsListed' /\ AddsFit'
  BY <1>9, <1>10 DEF AddsListed, AddsFit
<1> QED BY <1>11, <1>12, <1>13, <1>14, <1>15, <1>16 DEF Clean

\* Somebody is added, to a list that is complete.
LEMMA AddClean ==
    ASSUME Plain, Clean, NEW sn \in Sns, input_add_buddy(sn), ~early'
    PROVE  Clean'
<1>1. imcomm_im_add_buddy(sn) /\ UNCHANGED <<stage, list, roster>>
  BY DEF input_add_buddy
<1>2. CASE sn \in Names(buddylist)
  <2>1. UNCHANGED <<buddylist, wire>>
    BY <1>1, <1>2 DEF imcomm_im_add_buddy
  <2> QED BY <1>1, <2>1
          DEF Clean, RemovesStand, NodesStored, PartsStored, Known, AddedStored, AddsListed,
              AddsFit, NumbersFree, Removes, Adds, Complete
<1>3. CASE sn \notin Names(buddylist)
  <2> DEFINE node(id) == [sn |-> sn, group |-> Unset, id |-> id]
             item(id) == [sn |-> sn, group |-> 1, id |-> id]
             b(id) == [op |-> "add", item |-> item(id)]
  <2>1. PICK id \in Ids : /\ \A n \in buddylist : n.id # id
                          /\ buddylist' = buddylist \cup {node(id)}
                          /\ wire' = Append(wire, b(id))
                          /\ b(id) \in Batch /\ node(id) \in Item
                          /\ early' = (early \/ ~Complete)
    BY <1>1, <1>3, AddedBatch
  <2>2. /\ b(id).op = "add" /\ b(id).item = item(id)
        /\ item(id).sn = sn /\ item(id).group = 1 /\ item(id).id = id
        /\ node(id).sn = sn /\ node(id).group = Unset /\ node(id).id = id
        /\ Added(item(id)) = node(id) /\ Item1(node(id)) = item(id)
    BY DEF Added, Item1
  <2>3. /\ wire \in Seq(Batch) /\ buddylist \subseteq Item
        /\ roster \subseteq Stored /\ Storable(roster)
    BY TypeParts DEF Plain
  <2> HIDE DEF node, item, b
  <2>4. PICK last \in Nat :
           /\ Len(wire) \in Nat /\ last = Len(wire) + 1 /\ Len(wire') = last
           /\ \A k \in 1..Len(wire) : wire'[k] = wire[k]
           /\ wire'[last] = b(id)
    BY <2>1, <2>3, Longer
  <2>5. Complete /\ stage # "auth" /\ Len(list) = 0
    BY <1>1, <2>1 DEF Complete
  <2>6. /\ \A k \in 1..Len(wire) : (Removes(k)' <=> Removes(k)) /\ (Adds(k)' <=> Adds(k))
        /\ ~Removes(last)' /\ Adds(last)' /\ wire'[last].item = item(id)
        /\ \A k \in 1..Len(wire') : k \in 1..Len(wire) \/ k = last
    <3>1. \A k \in 1..Len(wire) : (Removes(k)' <=> Removes(k)) /\ (Adds(k)' <=> Adds(k))
      BY <2>4 DEF Removes, Adds
    <3>2. ~Removes(last)' /\ Adds(last)'
      BY <2>2, <2>4 DEF Removes, Adds
    <3> QED BY <2>2, <2>4, <3>1, <3>2
  <2>7. node(id) \notin roster /\ \A k \in 1..Len(wire) : Removes(k) => wire[k].item # node(id)
    BY <2>2, <2>3, StoredItems DEF Clean, RemovesStand
  <2>8. RemovesStand'
    <3> SUFFICES ASSUME NEW k \in 1..Len(wire'), Removes(k)'
                 PROVE  /\ wire'[k].item \in roster'
                        /\ wire'[k].item \notin buddylist'
                        /\ \A l \in 1..Len(wire') :
                              Removes(l)' /\ l # k => wire'[l].item # wire'[k].item
      BY DEF RemovesStand
    <3>1. k \in 1..Len(wire) /\ Removes(k) /\ wire'[k] = wire[k]
      BY <2>4, <2>6
    <3>2. \A l \in 1..Len(wire') : Removes(l)' =>
            l \in 1..Len(wire) /\ Removes(l) /\ wire'[l] = wire[l]
      BY <2>4, <2>6
    <3> QED BY <1>1, <2>1, <2>7, <3>1, <3>2 DEF Clean, RemovesStand
  <2>9. NodesStored'
    BY <1>1, <2>1, <2>2 DEF Clean, NodesStored
  <2>10. PartsStored'
    BY <1>1, <2>5 DEF PartsStored
  <2>11. Known'
    <3> SUFFICES ASSUME NEW i \in roster
                 PROVE  \/ i \in buddylist'
                        \/ i.group = 1 /\ Added(i) \in buddylist'
                        \/ \E k \in 1..Len(wire') : Removes(k)' /\ wire'[k].item = i
                        \/ \E j \in 1..Len(list') : i \in list'[j]
      BY <1>1 DEF Known, Added
    <3>1. CASE \E k \in 1..Len(wire) : Removes(k) /\ wire[k].item = i
      <4>1. PICK k \in 1..Len(wire) : Removes(k) /\ wire[k].item = i
        BY <3>1
      <4>2. k \in 1..Len(wire') /\ Removes(k)' /\ wire'[k].item = i
        BY <2>4, <2>6, <4>1
      <4> QED BY <4>2
    <3>2. \/ i \in buddylist
          \/ i.group = 1 /\ Added(i) \in buddylist
          \/ \E k \in 1..Len(wire) : Removes(k) /\ wire[k].item = i
      BY <2>5 DEF Clean, Known
    <3> QED BY <2>1, <3>1, <3>2
  <2>12. AddedStored'
    <3> SUFFICES ASSUME NEW n \in buddylist', n.group = Unset
                 PROVE  \/ \E k \in 1..Len(wire') : Adds(k)' /\ wire'[k].item = Item1(n)
                        \/ /\ Item1(n) \in roster
                           /\ \A k \in 1..Len(wire') : Removes(k)' => wire'[k].item # Item1(n)
      BY <1>1 DEF AddedStored, Item1
    <3>1. CASE n = node(id)
      <4>1. last \in 1..Len(wire')
        BY <2>4
      <4> QED BY <2>2, <2>6, <3>1, <4>1
    <3>2. CASE n \in buddylist
      <4>1. CASE \E k \in 1..Len(wire) : Adds(k) /\ wire[k].item = Item1(n)
        <5>1. PICK k \in 1..Len(wire) : Adds(k) /\ wire[k].item = Item1(n)
          BY <4>1
        <5>2. k \in 1..Len(wire') /\ Adds(k)' /\ wire'[k].item = Item1(n)
          BY <2>4, <2>6, <5>1
        <5> QED BY <5>2
      <4>2. CASE /\ Item1(n) \in roster
                 /\ \A k \in 1..Len(wire) : Removes(k) => wire[k].item # Item1(n)
        BY <2>4, <2>6, <4>2
      <4> QED BY <3>2, <4>1, <4>2 DEF Clean, AddedStored
    <3> QED BY <2>1, <3>1, <3>2
  <2>13. \A k \in 1..Len(wire) : Adds(k) => wire[k].item # item(id)
    <3> SUFFICES ASSUME NEW k \in 1..Len(wire), Adds(k), wire[k].item = item(id) PROVE FALSE
      OBVIOUS
    <3>1. node(id) \in buddylist
      BY <2>2 DEF Clean, AddsListed
    <3> QED BY <2>1, <2>2, <3>1
  <2>14. AddsListed'
    <3> SUFFICES ASSUME NEW k \in 1..Len(wire'), Adds(k)'
                 PROVE  /\ Added(wire'[k].item) \in buddylist'
                        /\ \A l \in 1..Len(wire') :
                              Adds(l)' /\ l # k => wire'[l].item # wire'[k].item
      BY DEF AddsListed, Added
    <3>1. CASE k = last
      BY <2>1, <2>2, <2>4, <2>6, <2>13, <3>1
    <3>2. CASE k # last
      <4>1. k \in 1..Len(wire) /\ Adds(k) /\ wire'[k] = wire[k]
        BY <2>4, <2>6, <3>2
      <4>2. Added(wire[k].item) \in buddylist'
        BY <2>1, <4>1 DEF Clean, AddsListed
      <4>3. ASSUME NEW l \in 1..Len(wire'), Adds(l)', l # k
            PROVE  wire'[l].item # wire'[k].item
        <5>1. CASE l = last
          BY <2>6, <2>13, <4>1, <5>1
        <5>2. CASE l # last
          <6>1. l \in 1..Len(wire) /\ Adds(l) /\ wire'[l] = wire[l]
            BY <2>4, <2>6, <4>3, <5>2
          <6> QED BY <4>1, <4>3, <6>1 DEF Clean, AddsListed
        <5> QED BY <5>1, <5>2
      <4> QED BY <4>1, <4>2, <4>3
    <3> QED BY <3>1, <3>2
  <2>15. AddsFit'
    <3> SUFFICES ASSUME NEW k \in 1..Len(wire'), Adds(k)', NEW i \in roster,
                        i.sn = wire'[k].item.sn \/ (i.group = 1 /\ i.id = wire'[k].item.id)
                 PROVE  \E l \in 1..(k - 1) : Removes(l)' /\ wire'[l].item = i
      BY <1>1 DEF AddsFit
    <3>1. \E l \in 1..(k - 1) : l \in 1..Len(wire) /\ Removes(l) /\ wire[l].item = i
      <4>1. CASE k = last
        <5>1. i.sn = sn \/ (i.group = 1 /\ i.id = id)
          BY <2>2, <2>6, <4>1
        <5>2. i \notin buddylist
          BY <1>3, <2>1, <5>1 DEF Names
        <5>3. ~(i.group = 1 /\ Added(i) \in buddylist)
          BY <1>3, <2>1, <5>1 DEF Names, Added
        <5>4. PICK l \in 1..Len(wire) : Removes(l) /\ wire[l].item = i
          BY <2>5, <5>2, <5>3 DEF Clean, Known
        <5> QED BY <2>4, <4>1, <5>4
      <4>2. CASE k # last
        <5>1. k \in 1..Len(wire) /\ Adds(k) /\ wire'[k] = wire[k]
          BY <2>4, <2>6, <4>2
        <5>2. PICK l \in 1..(k - 1) : Removes(l) /\ wire[l].item = i
          BY <5>1 DEF Clean, AddsFit
        <5> QED BY <5>2 DEF Removes
      <4> QED BY <4>1, <4>2
    <3>2. PICK l \in 1..(k - 1) : l \in 1..Len(wire) /\ Removes(l) /\ wire[l].item = i
      BY <3>1
    <3>3. Removes(l)' /\ wire'[l].item = i
      BY <2>4, <2>6, <3>2
    <3> QED BY <3>3
  <2>16. NumbersFree'
    BY <1>1, <2>1, <2>2, <2>5 DEF Clean, NumbersFree, Complete
  <2> QED BY <2>8, <2>9, <2>10, <2>11, <2>12, <2>14, <2>15, <2>16 DEF Clean
<1> QED BY <1>2, <1>3

\* Somebody is removed whom the server told of.
LEMMA RemoveClean ==
    ASSUME Plain, Clean, NEW sn \in Sns, input_delete_buddy(sn), ~odd'
    PROVE  Clean'
<1>1. imcomm_im_remove_buddy(sn) /\ UNCHANGED <<stage, list, roster>>
  BY DEF input_delete_buddy
<1>2. CASE sn \notin Names(buddylist)
  <2>1. UNCHANGED <<buddylist, wire>>
    BY <1>1, <1>2 DEF imcomm_im_remove_buddy
  <2> QED BY <1>1, <2>1
          DEF Clean, RemovesStand, NodesStored, PartsStored, Known, AddedStored, AddsListed,
              AddsFit, NumbersFree, Removes, Adds, Complete
<1>3. CASE sn \in Names(buddylist)
  <2> DEFINE item(n, group) == [sn |-> sn, group |-> group, id |-> n.id]
             b(n, group) == [op |-> "remove", item |-> item(n, group)]
  <2>1. PICK n \in buddylist, group \in AnyGroup :
          /\ n.sn = sn /\ n \in Item
          /\ n.group = Unset \/ group = n.group
          /\ buddylist' = buddylist \ {n}
          /\ wire' = Append(wire, b(n, group))
          /\ b(n, group) \in Batch
          /\ odd' = (odd \/ n.group = Unset)
    BY <1>1, <1>3, RemovedBatch
  <2>2. n.group # Unset /\ group = n.group
    BY <2>1
  <2>3. b(n, group).op = "remove" /\ b(n, group).item = n
    BY <2>1, <2>2 DEF Item
  <2>4. wire \in Seq(Batch) /\ roster \subseteq Stored
    BY TypeParts DEF Plain
  <2> HIDE DEF item, b
  <2>5. PICK last \in Nat :
           /\ Len(wire) \in Nat /\ last = Len(wire) + 1 /\ Len(wire') = last
           /\ \A k \in 1..Len(wire) : wire'[k] = wire[k]
           /\ wire'[last] = b(n, group)
    BY <2>1, <2>4, Longer
  <2>6. /\ \A k \in 1..Len(wire) : (Removes(k)' <=> Removes(k)) /\ (Adds(k)' <=> Adds(k))
        /\ Removes(last)' /\ ~Adds(last)' /\ wire'[last].item = n
        /\ \A k \in 1..Len(wire') : k \in 1..Len(wire) \/ k = last
        /\ last \in 1..Len(wire')
    <3>1. \A k \in 1..Len(wire) : (Removes(k)' <=> Removes(k)) /\ (Adds(k)' <=> Adds(k))
      BY <2>5 DEF Removes, Adds
    <3>2. Removes(last)' /\ ~Adds(last)'
      BY <2>3, <2>5 DEF Removes, Adds
    <3> QED BY <2>3, <2>5, <3>1, <3>2
  <2>7. n \in roster /\ \A k \in 1..Len(wire) : Removes(k) => wire[k].item # n
    BY <2>2 DEF Clean, NodesStored, RemovesStand
  <2>8. RemovesStand'
    <3> SUFFICES ASSUME NEW k \in 1..Len(wire'), Removes(k)'
                 PROVE  /\ wire'[k].item \in roster'
                        /\ wire'[k].item \notin buddylist'
                        /\ \A l \in 1..Len(wire') :
                              Removes(l)' /\ l # k => wire'[l].item # wire'[k].item
      BY DEF RemovesStand
    <3>1. \A l \in 1..Len(wire') : Removes(l)' /\ l # last =>
            l \in 1..Len(wire) /\ Removes(l) /\ wire'[l] = wire[l]
      BY <2>5, <2>6
    <3>2. CASE k = last
      BY <1>1, <2>1, <2>6, <2>7, <3>1, <3>2
    <3>3. CASE k # last
      <4>1. k \in 1..Len(wire) /\ Removes(k) /\ wire'[k] = wire[k]
        BY <3>1, <3>3
      <4>2. wire'[k].item \in roster' /\ wire'[k].item \notin buddylist'
        BY <1>1, <2>1, <4>1 DEF Clean, RemovesStand
      <4>3. ASSUME NEW l \in 1..Len(wire'), Removes(l)', l # k
            PROVE  wire'[l].item # wire'[k].item
        <5>1. CASE l = last
          BY <2>6, <2>7, <4>1, <5>1
        <5>2. CASE l # last
          <6>1. l \in 1..Len(wire) /\ Removes(l) /\ wire'[l] = wire[l]
            BY <3>1, <4>3, <5>2
          <6> QED BY <4>1, <4>3, <6>1 DEF Clean, RemovesStand
        <5> QED BY <5>1, <5>2
      <4> QED BY <4>2, <4>3
    <3> QED BY <3>2, <3>3
  <2>9. NodesStored'
    BY <1>1, <2>1 DEF Clean, NodesStored
  <2>10. PartsStored'
    <3> SUFFICES ASSUME NEW j \in 1..Len(list), NEW i \in list[j]
                 PROVE  /\ i \in roster /\ i \notin buddylist'
                        /\ \A k \in 1..Len(wire') : Removes(k)' => wire'[k].item # i
                        /\ \A l \in 1..Len(list) : l # j => i \notin list[l]
      BY <1>1 DEF PartsStored
    <3>1. /\ i \in roster /\ i \notin buddylist
          /\ \A k \in 1..Len(wire) : Removes(k) => wire[k].item # i
          /\ \A l \in 1..Len(list) : l # j => i \notin list[l]
      BY DEF Clean, PartsStored
    <3> QED BY <2>1, <2>5, <2>6, <3>1
  <2>11. Known'
    <3> SUFFICES ASSUME NEW i \in roster, stage # "auth"
                 PROVE  \/ i \in buddylist'
                        \/ i.group = 1 /\ Added(i) \in buddylist'
                        \/ \E k \in 1..Len(wire') : Removes(k)' /\ wire'[k].item = i
                        \/ \E j \in 1..Len(list) : i \in list[j]
      BY <1>1 DEF Known, Added
    <3>1. CASE i = n
      BY <2>6, <3>1
    <3>2. CASE \E k \in 1..Len(wire) : Removes(k) /\ wire[k].item = i
      <4>1. PICK k \in 1..Len(wire) : Removes(k) /\ wire[k].item = i
        BY <3>2
      <4>2. k \in 1..Len(wire') /\ Removes(k)' /\ wire'[k].item = i
        BY <2>5, <2>6, <4>1
      <4> QED BY <4>2
    <3>3. Added(i) # n
      BY <2>2 DEF Added
    <3>4. \/ i \in buddylist
          \/ i.group = 1 /\ Added(i) \in buddylist
          \/ \E k \in 1..Len(wire) : Removes(k) /\ wire[k].item = i
          \/ \E j \in 1..Len(list) : i \in list[j]
      BY DEF Clean, Known
    <3> QED BY <2>1, <3>1, <3>2, <3>3, <3>4
  <2>12. AddedStored'
    <3> SUFFICES ASSUME NEW m \in buddylist', m.group = Unset
                 PROVE  \/ \E k \in 1..Len(wire') : Adds(k)' /\ wire'[k].item = Item1(m)
                        \/ /\ Item1(m) \in roster
                           /\ \A k \in 1..Len(wire') : Removes(k)' => wire'[k].item # Item1(m)
      BY <1>1 DEF AddedStored, Item1
    <3>1. m \in buddylist /\ m # n
      BY <2>1
    <3>2. Item1(m) # n
      <4>1. m.sn # n.sn
        BY <2>1, <3>1 DEF Plain, NamesDistinct
      <4> QED BY <4>1 DEF Item1
    <3>3. CASE \E k \in 1..Len(wire) : Adds(k) /\ wire[k].item = Item1(m)
      <4>1. PICK k \in 1..Len(wire) : Adds(k) /\ wire[k].item = Item1(m)
        BY <3>3
      <4>2. k \in 1..Len(wire') /\ Adds(k)' /\ wire'[k].item = Item1(m)
        BY <2>5, <2>6, <4>1
      <4> QED BY <4>2
    <3>4. CASE /\ Item1(m) \in roster
               /\ \A k \in 1..Len(wire) : Removes(k) => wire[k].item # Item1(m)
      BY <2>5, <2>6, <3>2, <3>4
    <3> QED BY <3>1, <3>3, <3>4 DEF Clean, AddedStored
  <2>13. \A k \in 1..Len(wire') : Adds(k)' =>
           k \in 1..Len(wire) /\ Adds(k) /\ wire'[k] = wire[k]
    BY <2>5, <2>6
  <2>14. AddsListed'
    <3> SUFFICES ASSUME NEW k \in 1..Len(wire'), Adds(k)'
                 PROVE  /\ Added(wire'[k].item) \in buddylist'
                        /\ \A l \in 1..Len(wire') :
                              Adds(l)' /\ l # k => wire'[l].item # wire'[k].item
      BY DEF AddsListed, Added
    <3>1. k \in 1..Len(wire) /\ Adds(k) /\ wire'[k] = wire[k]
      BY <2>13
    <3>2. Added(wire[k].item) # n
      BY <2>2 DEF Added
    <3> QED BY <2>1, <2>13, <3>1, <3>2 DEF Clean, AddsListed
  <2>15. AddsFit'
    <3> SUFFICES ASSUME NEW k \in 1..Len(wire'), Adds(k)', NEW i \in roster,
                        i.sn = wire'[k].item.sn \/ (i.group = 1 /\ i.id = wire'[k].item.id)
                 PROVE  \E l \in 1..(k - 1) : Removes(l)' /\ wire'[l].item = i
      BY <1>1 DEF AddsFit
    <3>1. k \in 1..Len(wire) /\ Adds(k) /\ wire'[k] = wire[k]
      BY <2>13
    <3>2. PICK l \in 1..(k - 1) : Removes(l) /\ wire[l].item = i
      BY <3>1 DEF Clean, AddsFit
    <3>3. Removes(l)' /\ wire'[l].item = i
      BY <2>5, <2>6, <3>2 DEF Removes
    <3> QED BY <3>3
  <2>16. NumbersFree'
    BY <1>1, <2>1 DEF Clean, NumbersFree, Complete
  <2> QED BY <2>8, <2>9, <2>10, <2>11, <2>12, <2>14, <2>15, <2>16 DEF Clean
<1> QED BY <1>2, <1>3

\* What a removal takes from the server's list is the one item it names.
LEMMA OneRemoved ==
    ASSUME Plain, Clean, wire # <<>>, Head(wire).op = "remove"
    PROVE  /\ Head(wire).item \in roster
           /\ Applied(roster, Head(wire)) = roster \ {Head(wire).item}
<1>1. wire \in Seq(Batch) /\ Storable(roster)
  BY TypeParts DEF Plain
<1>2. Len(wire) \in Nat \ {0} /\ Head(wire) = wire[1]
  BY <1>1, EmptySeq
<1>3. Head(wire).item \in roster
  BY <1>2 DEF Clean, RemovesStand, Removes
<1> QED BY <1>1, <1>3 DEF Applied, Storable

\* An addition is not refused.
LEMMA NoneRefused ==
    ASSUME Plain, Clean, wire # <<>>, Head(wire).op = "add"
    PROVE  /\ Applied(roster, Head(wire)) = roster \cup {Head(wire).item}
           /\ Head(wire).item \notin roster
           /\ Head(wire).item.sn \notin Names(roster)
<1>1. wire \in Seq(Batch) /\ Storable(roster)
  BY TypeParts DEF Plain
<1>2. Len(wire) \in Nat \ {0} /\ Head(wire) = wire[1]
  BY <1>1, EmptySeq
<1>3. Adds(1) /\ wire[1].item.group = 1
  BY <1>2 DEF Plain, AddsInOne, Adds
<1>4. \A i \in roster : /\ i.sn # wire[1].item.sn
                        /\ i.group # wire[1].item.group \/ i.id # wire[1].item.id
  BY <1>2, <1>3 DEF Clean, AddsFit
<1>5. Storable(roster \cup {wire[1].item})
  BY <1>1, <1>4 DEF Storable
<1> QED BY <1>2, <1>4, <1>5 DEF Applied, Names

\* The server applies a batch.
LEMMA AppliedClean == ASSUME Plain, Clean, server_applies PROVE Clean'
<1>1. /\ wire # <<>> /\ stage # "auth" /\ wire' = Tail(wire)
      /\ roster' = Applied(roster, Head(wire))
      /\ UNCHANGED <<stage, buddylist, list>>
  BY DEF server_applies
<1>2. /\ wire \in Seq(Batch) /\ buddylist \subseteq Item
      /\ roster \subseteq Stored /\ Storable(roster)
  BY TypeParts DEF Plain
<1>3. /\ Len(wire) \in Nat \ {0} /\ Head(wire) = wire[1] /\ wire[1] \in Batch
      /\ \A k \in 1..Len(wire') : k + 1 \in 2..Len(wire) /\ wire'[k] = wire[k + 1]
      /\ \A k \in 2..Len(wire) : k - 1 \in 1..Len(wire') /\ wire'[k - 1] = wire[k]
  BY <1>1, <1>2, Shorter
<1>4. /\ \A k \in 1..Len(wire') : (Removes(k)' <=> Removes(k + 1)) /\ (Adds(k)' <=> Adds(k + 1))
      /\ \A k \in 2..Len(wire) : (Removes(k) <=> Removes(k - 1)') /\ (Adds(k) <=> Adds(k - 1)')
  <2>1. ASSUME NEW k \in 1..Len(wire')
        PROVE  (Removes(k)' <=> Removes(k + 1)) /\ (Adds(k)' <=> Adds(k + 1))
    BY <1>3 DEF Removes, Adds
  <2>2. ASSUME NEW k \in 2..Len(wire)
        PROVE  (Removes(k) <=> Removes(k - 1)') /\ (Adds(k) <=> Adds(k - 1)')
    BY <1>3 DEF Removes, Adds
  <2> QED BY <2>1, <2>2
<1> DEFINE item == wire[1].item
<1>5. CASE wire[1].op = "remove"
  <2>1. item \in roster /\ roster' = roster \ {item} /\ Removes(1) /\ ~Adds(1)
    BY <1>1, <1>3, <1>5, OneRemoved DEF Removes, Adds
  <2>2. /\ item \notin buddylist
        /\ \A l \in 2..Len(wire) : Removes(l) => wire[l].item # item
    BY <1>3, <2>1 DEF Clean, RemovesStand
  <2>3. \A j \in 1..Len(list) : item \notin list[j]
    BY <1>3, <2>1 DEF Clean, PartsStored
  <2> HIDE DEF item
  <2>4. RemovesStand'
    <3> SUFFICES ASSUME NEW k \in 1..Len(wire'), Removes(k)'
                 PROVE  /\ wire'[k].item \in roster'
                        /\ wire'[k].item \notin buddylist'
                        /\ \A l \in 1..Len(wire') :
                              Removes(l)' /\ l # k => wire'[l].item # wire'[k].item
      BY DEF RemovesStand
    <3>1. k + 1 \in 2..Len(wire) /\ Removes(k + 1) /\ wire'[k] = wire[k + 1]
      BY <1>3, <1>4
    <3>2. wire[k + 1].item \in roster /\ wire[k + 1].item \notin buddylist
      BY <3>1 DEF Clean, RemovesStand
    <3>3. ASSUME NEW l \in 1..Len(wire'), Removes(l)', l # k
          PROVE  wire'[l].item # wire'[k].item
      <4>1. /\ l + 1 \in 2..Len(wire) /\ Removes(l + 1) /\ wire'[l] = wire[l + 1]
            /\ l + 1 # k + 1
        BY <1>3, <1>4, <3>3
      <4> QED BY <3>1, <4>1 DEF Clean, RemovesStand
    <3> QED BY <1>1, <2>1, <2>2, <3>1, <3>2, <3>3
  <2>5. NodesStored'
    BY <1>1, <2>1, <2>2 DEF Clean, NodesStored
  <2>6. PartsStored'
    <3> SUFFICES ASSUME NEW j \in 1..Len(list), NEW i \in list[j]
                 PROVE  /\ i \in roster' /\ i \notin buddylist
                        /\ \A k \in 1..Len(wire') : Removes(k)' => wire'[k].item # i
                        /\ \A l \in 1..Len(list) : l # j => i \notin list[l]
      BY <1>1 DEF PartsStored
    <3>1. /\ i \in roster /\ i \notin buddylist
          /\ \A k \in 1..Len(wire) : Removes(k) => wire[k].item # i
          /\ \A l \in 1..Len(list) : l # j => i \notin list[l]
      BY DEF Clean, PartsStored
    <3>2. ASSUME NEW k \in 1..Len(wire'), Removes(k)'
          PROVE  wire'[k].item # i
      <4>1. k + 1 \in 2..Len(wire) /\ Removes(k + 1) /\ wire'[k] = wire[k + 1]
        BY <1>3, <1>4, <3>2
      <4> QED BY <3>1, <4>1
    <3>3. i # item
      BY <2>3
    <3>4. i \in roster'
      BY <2>1, <3>1, <3>3
    <3> QED BY <3>1, <3>2, <3>4
  <2>7. Known'
    <3> SUFFICES ASSUME NEW i \in roster'
                 PROVE  \/ i \in buddylist
                        \/ i.group = 1 /\ Added(i) \in buddylist
                        \/ \E k \in 1..Len(wire') : Removes(k)' /\ wire'[k].item = i
                        \/ \E j \in 1..Len(list) : i \in list[j]
      BY <1>1 DEF Known, Added
    <3>1. i \in roster /\ i # item
      BY <2>1
    <3>2. CASE \E k \in 1..Len(wire) : Removes(k) /\ wire[k].item = i
      <4>1. PICK k \in 1..Len(wire) : Removes(k) /\ wire[k].item = i
        BY <3>2
      <4>2. k \in 2..Len(wire)
        BY <1>3, <3>1, <4>1 DEF item
      <4>3. k - 1 \in 1..Len(wire') /\ Removes(k - 1)' /\ wire'[k - 1].item = i
        BY <1>3, <1>4, <4>1, <4>2
      <4> QED BY <4>3
    <3> QED BY <1>1, <3>1, <3>2 DEF Clean, Known
  <2>8. AddedStored'
    <3> SUFFICES ASSUME NEW n \in buddylist, n.group = Unset
                 PROVE  \/ \E k \in 1..Len(wire') : Adds(k)' /\ wire'[k].item = Item1(n)
                        \/ /\ Item1(n) \in roster'
                           /\ \A k \in 1..Len(wire') : Removes(k)' => wire'[k].item # Item1(n)
      BY <1>1 DEF AddedStored, Item1
    <3>1. CASE \E k \in 1..Len(wire) : Adds(k) /\ wire[k].item = Item1(n)
      <4>1. PICK k \in 1..Len(wire) : Adds(k) /\ wire[k].item = Item1(n)
        BY <3>1
      <4>2. k \in 2..Len(wire)
        BY <1>3, <2>1, <4>1
      <4>3. k - 1 \in 1..Len(wire') /\ Adds(k - 1)' /\ wire'[k - 1].item = Item1(n)
        BY <1>3, <1>4, <4>1, <4>2
      <4> QED BY <4>3
    <3>2. CASE /\ Item1(n) \in roster
               /\ \A k \in 1..Len(wire) : Removes(k) => wire[k].item # Item1(n)
      <4>1. Item1(n) # item
        BY <1>3, <2>1, <3>2 DEF item
      <4> QED BY <1>3, <1>4, <2>1, <3>2, <4>1
    <3> QED BY <3>1, <3>2 DEF Clean, AddedStored
  <2>9. AddsFit'
    <3> SUFFICES ASSUME NEW k \in 1..Len(wire'), Adds(k)', NEW i \in roster',
                        i.sn = wire'[k].item.sn \/ (i.group = 1 /\ i.id = wire'[k].item.id)
                 PROVE  \E l \in 1..(k - 1) : Removes(l)' /\ wire'[l].item = i
      BY DEF AddsFit
    <3>1. k + 1 \in 2..Len(wire) /\ Adds(k + 1) /\ wire'[k] = wire[k + 1]
      BY <1>3, <1>4
    <3>2. i \in roster /\ i # item
      BY <2>1
    <3>3. PICK l \in 1..(k + 1 - 1) : Removes(l) /\ wire[l].item = i
      BY <3>1, <3>2 DEF Clean, AddsFit
    <3>4. l \in 2..Len(wire) /\ l - 1 \in 1..(k - 1)
      BY <1>3, <3>2, <3>3 DEF item, Removes
    <3>5. Removes(l - 1)' /\ wire'[l - 1].item = i
      BY <1>3, <1>4, <3>3, <3>4
    <3> QED BY <3>4, <3>5
  <2>10. AddsListed'
    <3> SUFFICES ASSUME NEW k \in 1..Len(wire'), Adds(k)'
                 PROVE  /\ Added(wire'[k].item) \in buddylist
                        /\ \A l \in 1..Len(wire') :
                              Adds(l)' /\ l # k => wire'[l].item # wire'[k].item
      BY <1>1 DEF AddsListed, Added
    <3>1. k + 1 \in 2..Len(wire) /\ Adds(k + 1) /\ wire'[k] = wire[k + 1]
      BY <1>3, <1>4
    <3>2. ASSUME NEW l \in 1..Len(wire'), Adds(l)', l # k
          PROVE  wire'[l].item # wire'[k].item
      <4>1. /\ l + 1 \in 2..Len(wire) /\ Adds(l + 1) /\ wire'[l] = wire[l + 1]
            /\ l + 1 # k + 1
        BY <1>3, <1>4, <3>2
      <4> QED BY <3>1, <4>1 DEF Clean, AddsListed
    <3> QED BY <3>1, <3>2 DEF Clean, AddsListed
  <2>11. NumbersFree'
    BY <1>1 DEF Clean, NumbersFree, Complete
  <2> QED BY <2>4, <2>5, <2>6, <2>7, <2>8, <2>9, <2>10, <2>11 DEF Clean
<1>6. CASE wire[1].op = "add"
  <2>1. /\ item \notin roster /\ roster' = roster \cup {item} /\ Adds(1) /\ ~Removes(1)
        /\ item.group = 1 /\ Added(item) \in buddylist
    <3>1. item \notin roster /\ roster' = roster \cup {item} /\ Adds(1) /\ ~Removes(1)
      BY <1>1, <1>3, <1>6, NoneRefused DEF Removes, Adds
    <3> QED BY <1>3, <3>1 DEF Plain, AddsInOne, Clean, AddsListed
  <2>2. \A l \in 2..Len(wire) : Adds(l) => wire[l].item # item
    BY <1>3, <2>1 DEF Clean, AddsListed
  <2>3. item \in Item
    BY <1>3 DEF Batch
  <2>4. \A k \in 1..Len(wire') : Removes(k)' => wire'[k].item \in roster /\ wire'[k].item # item
    <3> SUFFICES ASSUME NEW k \in 1..Len(wire'), Removes(k)'
                 PROVE  wire'[k].item \in roster /\ wire'[k].item # item
      OBVIOUS
    <3>1. k + 1 \in 2..Len(wire) /\ Removes(k + 1) /\ wire'[k] = wire[k + 1]
      BY <1>3, <1>4
    <3>2. wire[k + 1].item \in roster
      BY <3>1 DEF Clean, RemovesStand
    <3> HIDE DEF item
    <3> QED BY <2>1, <3>1, <3>2
  <2> HIDE DEF item
  <2>5. RemovesStand'
    <3> SUFFICES ASSUME NEW k \in 1..Len(wire'), Removes(k)'
                 PROVE  /\ wire'[k].item \in roster'
                        /\ wire'[k].item \notin buddylist
                        /\ \A l \in 1..Len(wire') :
                              Removes(l)' /\ l # k => wire'[l].item # wire'[k].item
      BY <1>1 DEF RemovesStand
    <3>1. k + 1 \in 2..Len(wire) /\ Removes(k + 1) /\ wire'[k] = wire[k + 1]
      BY <1>3, <1>4
    <3>2. wire[k + 1].item \in roster /\ wire[k + 1].item \notin buddylist
      BY <3>1 DEF Clean, RemovesStand
    <3>3. ASSUME NEW l \in 1..Len(wire'), Removes(l)', l # k
          PROVE  wire'[l].item # wire'[k].item
      <4>1. /\ l + 1 \in 2..Len(wire) /\ Removes(l + 1) /\ wire'[l] = wire[l + 1]
            /\ l + 1 # k + 1
        BY <1>3, <1>4, <3>3
      <4> QED BY <3>1, <4>1 DEF Clean, RemovesStand
    <3> QED BY <2>1, <3>1, <3>2, <3>3
  <2>6. NodesStored'
    BY <1>1, <2>1 DEF Clean, NodesStored
  <2>7. Complete
    BY <2>1 DEF Clean, NumbersFree, Added
  <2>8. PartsStored'
    <3>1. Len(list') = 0
      BY <1>1, <2>7 DEF Complete
    <3> QED BY <3>1 DEF PartsStored
  <2>9. Known'
    <3> SUFFICES ASSUME NEW i \in roster'
                 PROVE  \/ i \in buddylist
                        \/ i.group = 1 /\ Added(i) \in buddylist
                        \/ \E k \in 1..Len(wire') : Removes(k)' /\ wire'[k].item = i
                        \/ \E j \in 1..Len(list) : i \in list[j]
      BY <1>1 DEF Known, Added
    <3>1. CASE i = item
      BY <2>1, <3>1
    <3>2. CASE \E k \in 1..Len(wire) : Removes(k) /\ wire[k].item = i
      <4>1. PICK k \in 1..Len(wire) : Removes(k) /\ wire[k].item = i
        BY <3>2
      <4>2. k \in 2..Len(wire)
        BY <1>3, <2>1, <4>1
      <4>3. k - 1 \in 1..Len(wire') /\ Removes(k - 1)' /\ wire'[k - 1].item = i
        BY <1>3, <1>4, <4>1, <4>2
      <4> QED BY <4>3
    <3> QED BY <1>1, <2>1, <3>1, <3>2 DEF Clean, Known
  <2>10. AddedStored'
    <3> SUFFICES ASSUME NEW n \in buddylist, n.group = Unset
                 PROVE  \/ \E k \in 1..Len(wire') : Adds(k)' /\ wire'[k].item = Item1(n)
                        \/ /\ Item1(n) \in roster'
                           /\ \A k \in 1..Len(wire') : Removes(k)' => wire'[k].item # Item1(n)
      BY <1>1 DEF AddedStored, Item1
    <3>1. CASE Item1(n) = item
      BY <2>1, <2>4, <3>1
    <3>2. CASE \E k \in 1..Len(wire) : Adds(k) /\ wire[k].item = Item1(n) /\ Item1(n) # item
      <4>1. PICK k \in 1..Len(wire) : Adds(k) /\ wire[k].item = Item1(n) /\ Item1(n) # item
        BY <3>2
      <4>2. k \in 2..Len(wire)
        BY <1>3, <4>1 DEF item
      <4>3. k - 1 \in 1..Len(wire') /\ Adds(k - 1)' /\ wire'[k - 1].item = Item1(n)
        BY <1>3, <1>4, <4>1, <4>2
      <4> QED BY <4>3
    <3>3. CASE /\ Item1(n) \in roster
               /\ \A k \in 1..Len(wire) : Removes(k) => wire[k].item # Item1(n)
      BY <1>3, <1>4, <2>1, <3>3
    <3> QED BY <3>1, <3>2, <3>3 DEF Clean, AddedStored
  <2>11. AddsListed'
    <3> SUFFICES ASSUME NEW k \in 1..Len(wire'), Adds(k)'
                 PROVE  /\ Added(wire'[k].item) \in buddylist
                        /\ \A l \in 1..Len(wire') :
                              Adds(l)' /\ l # k => wire'[l].item # wire'[k].item
      BY <1>1 DEF AddsListed, Added
    <3>1. k + 1 \in 2..Len(wire) /\ Adds(k + 1) /\ wire'[k] = wire[k + 1]
      BY <1>3, <1>4
    <3>2. ASSUME NEW l \in 1..Len(wire'), Adds(l)', l # k
          PROVE  wire'[l].item # wire'[k].item
      <4>1. /\ l + 1 \in 2..Len(wire) /\ Adds(l + 1) /\ wire'[l] = wire[l + 1]
            /\ l + 1 # k + 1
        BY <1>3, <1>4, <3>2
      <4> QED BY <3>1, <4>1 DEF Clean, AddsListed
    <3> QED BY <3>1, <3>2 DEF Clean, AddsListed
  <2>12. AddsFit'
    <3> SUFFICES ASSUME NEW k \in 1..Len(wire'), Adds(k)', NEW i \in roster',
                        i.sn = wire'[k].item.sn \/ (i.group = 1 /\ i.id = wire'[k].item.id)
                 PROVE  \E l \in 1..(k - 1) : Removes(l)' /\ wire'[l].item = i
      BY DEF AddsFit
    <3>1. k + 1 \in 2..Len(wire) /\ Adds(k + 1) /\ wire'[k] = wire[k + 1]
      BY <1>3, <1>4
    <3>2. i # item
      <4> SUFFICES ASSUME i = item PROVE FALSE
        OBVIOUS
      <4> DEFINE other == wire[k + 1].item
      <4>1. /\ other \in Item /\ other.group = 1 /\ Added(other) \in buddylist
            /\ other # item
        <5>1. wire[k + 1] \in Batch /\ k + 1 \in 1..Len(wire)
          BY <1>2, <3>1, ElementOfSeq
        <5>2. other \in Item
          BY <5>1 DEF Batch
        <5>3. Adds(k + 1)
          BY <3>1
        <5>4. other.group = 1
          BY <5>1, <5>3 DEF Plain, AddsInOne
        <5>5. Added(other) \in buddylist
          BY <5>1, <5>3 DEF Clean, AddsListed
        <5>6. other # item
          BY <2>2, <3>1
        <5> QED BY <5>2, <5>4, <5>5, <5>6
      <4>2. item.sn = other.sn \/ item.id = other.id
        BY <3>1
      <4> HIDE DEF other
      <4>3. /\ Added(item).sn = item.sn /\ Added(item).id = item.id
            /\ Added(item).group = Unset
            /\ Added(other).sn = other.sn /\ Added(other).id = other.id
        BY DEF Added
      <4>4. Added(item) = Added(other)
        BY <2>1, <4>1, <4>2, <4>3 DEF Plain, NamesDistinct, Clean, NumbersFree
      <4>5. item.sn = other.sn /\ item.id = other.id
        BY <4>3, <4>4
      <4> QED BY <2>1, <2>3, <4>1, <4>5, ItemsEqual
    <3>3. i \in roster
      BY <2>1, <3>2
    <3>4. PICK l \in 1..(k + 1 - 1) : Removes(l) /\ wire[l].item = i
      BY <3>1, <3>3 DEF Clean, AddsFit
    <3>5. l \in 2..Len(wire) /\ l - 1 \in 1..(k - 1)
      BY <1>3, <2>1, <3>4 DEF Removes
    <3>6. Removes(l - 1)' /\ wire'[l - 1].item = i
      BY <1>3, <1>4, <3>4, <3>5
    <3> QED BY <3>5, <3>6
  <2>13. NumbersFree'
    BY <1>1 DEF Clean, NumbersFree, Complete
  <2> QED BY <2>5, <2>6, <2>8, <2>9, <2>10, <2>11, <2>12, <2>13 DEF Clean
<1> QED BY <1>3, <1>5, <1>6 DEF Batch

LEMMA NextClean ==
    ASSUME Plain, ~early /\ ~odd => Clean, [Next]_vars, ~early', ~odd'
    PROVE  Clean'
<1>1. CASE UNCHANGED vars
  BY <1>1 DEF vars, Clean, RemovesStand, NodesStored, PartsStored, Known, AddedStored,
     AddsListed, AddsFit, NumbersFree, Removes, Adds, Complete
<1>2. CASE handle_deleted
  BY <1>2, LostClean
<1>3. CASE bos_signon_phase2
  <2>1. ~early
    BY <1>3 DEF bos_signon_phase2
  <2> QED BY <1>3, <2>1, Phase2Clean
<1>4. CASE snac_ssi_get_list
  <2>1. ~early /\ ~odd
    BY <1>4 DEF snac_ssi_get_list
  <2> QED BY <1>4, <2>1, PartClean
<1>5. CASE server_applies
  <2>1. ~early /\ ~odd
    BY <1>5 DEF server_applies
  <2> QED BY <1>5, <2>1, AppliedClean
<1>6. ASSUME NEW sn \in Sns, input_add_buddy(sn) PROVE Clean'
  <2>1. ~early /\ ~odd
    BY <1>6 DEF input_add_buddy, imcomm_im_add_buddy
  <2> QED BY <1>6, <2>1, AddClean
<1>7. ASSUME NEW sn \in Sns, input_delete_buddy(sn) PROVE Clean'
  <2>1. ~early
    BY <1>7 DEF input_delete_buddy
  <2>2. CASE sn \notin Names(buddylist)
    <3>1. ~odd
      BY <1>7, <2>2 DEF input_delete_buddy, imcomm_im_remove_buddy
    <3> QED BY <1>7, <2>1, <3>1, RemoveClean
  <2>3. CASE sn \in Names(buddylist)
    <3>1. PICK n \in buddylist : odd' = (odd \/ n.group = Unset)
      BY <1>7, <2>3 DEF input_delete_buddy, imcomm_im_remove_buddy
    <3>2. ~odd
      BY <3>1
    <3> QED BY <1>7, <2>1, <3>2, RemoveClean
  <2> QED BY <2>2, <2>3
<1> QED BY <1>1, <1>2, <1>3, <1>4, <1>5, <1>6, <1>7 DEF Next

LEMMA InitInv == Init => IInv
<1> SUFFICES ASSUME Init PROVE IInv
  OBVIOUS
<1>1. stage = "auth" /\ buddylist = {} /\ Len(wire) = 0 /\ Len(list) = 0
  BY DEF Init
<1>2. Clean
  BY <1>1 DEF Clean, RemovesStand, NodesStored, PartsStored, Known, AddedStored,
     AddsListed, AddsFit, NumbersFree
<1> QED BY <1>2, InitPlain DEF Plain, IInv

LEMMA NextInv == IInv /\ [Next]_vars => IInv'
<1> SUFFICES ASSUME IInv, [Next]_vars PROVE IInv'
  OBVIOUS
<1>1. Plain /\ (~early /\ ~odd => Clean)
  BY DEF IInv, Plain
<1>2. Plain'
  BY <1>1, NextPlain
<1>3. ~early' /\ ~odd' => Clean'
  BY <1>1, NextClean
<1> QED BY <1>2, <1>3 DEF Plain, IInv

\* The invariant holds of every state.
LEMMA Inductive == Spec => []IInv
  BY InitInv, NextInv, PTL DEF Spec

-----------------------------------------------------------------------------
\* Every variable keeps its type; a number is always found, and what the
\* server stores stays storable.
THEOREM TypeCorrect == Spec => []TypeOK
<1>1. IInv => TypeOK
  BY DEF IInv
<1> QED BY <1>1, Inductive, PTL

\* Nobody is on the library's list twice.
THEOREM NobodyTwice == Spec => []NamesDistinct
<1>1. IInv => NamesDistinct
  BY DEF IInv
<1> QED BY <1>1, Inductive, PTL

\* The library's list and the server's agree once the batches are applied.
THEOREM ListsAgree == Spec => []InSync
<1>1. IInv => InSync
  <2> SUFFICES ASSUME IInv, Complete, wire = <<>>, ~early, ~odd
               PROVE  Places(roster) = Places(buddylist)
    BY DEF InSync
  <2>1. Clean /\ stage # "auth" /\ Len(wire) = 0 /\ Len(list) = 0
    BY DEF IInv, Complete
  <2>2. ASSUME NEW i \in roster PROVE <<i.sn, i.id>> \in Places(buddylist)
    <3>1. CASE i \in buddylist
      BY <3>1 DEF Places
    <3>2. CASE Added(i) \in buddylist
      <4>1. Added(i).sn = i.sn /\ Added(i).id = i.id
        BY DEF Added
      <4> QED BY <3>2, <4>1 DEF Places
    <3> QED BY <2>1, <3>1, <3>2 DEF Clean, Known
  <2>3. ASSUME NEW n \in buddylist PROVE <<n.sn, n.id>> \in Places(roster)
    <3>1. CASE n.group # Unset
      BY <2>1, <3>1 DEF Clean, NodesStored, Places
    <3>2. CASE n.group = Unset
      <4>1. Item1(n) \in roster /\ Item1(n).sn = n.sn /\ Item1(n).id = n.id
        BY <2>1, <3>2 DEF Clean, AddedStored, Item1
      <4> QED BY <4>1 DEF Places
    <3> QED BY <3>1, <3>2
  <2> QED BY <2>2, <2>3 DEF Places
<1> QED BY <1>1, Inductive, PTL

\* The library's list runs ahead of the server's by what is under way.
THEOREM ListIsAhead == Spec => []ListedIsIntended
<1>1. IInv => ListedIsIntended
  <2> SUFFICES ASSUME IInv, Complete, ~early, ~odd
               PROVE  Places(Intended) = Places(buddylist)
    BY DEF ListedIsIntended
  <2>1. Clean /\ stage # "auth" /\ Len(list) = 0
    BY DEF IInv, Complete
  <2>2. ASSUME NEW i \in roster, \A k \in 1..Len(wire) : ~(Removes(k) /\ wire[k].item = i)
        PROVE  i \in Intended
    BY <2>2 DEF Intended, Removes
  <2>3. ASSUME NEW k \in 1..Len(wire), Adds(k) PROVE wire[k].item \in Intended
    BY <2>3 DEF Intended, Adds
  <2>4. ASSUME NEW i \in Intended PROVE <<i.sn, i.id>> \in Places(buddylist)
    <3>1. Added(i).sn = i.sn /\ Added(i).id = i.id
      BY DEF Added
    <3>2. CASE /\ i \in roster
               /\ \A k \in 1..Len(wire) : ~(Removes(k) /\ wire[k].item = i)
      <4>1. i \in buddylist \/ Added(i) \in buddylist
        BY <2>1, <3>2 DEF Clean, Known
      <4> QED BY <3>1, <4>1 DEF Places
    <3>3. CASE \E k \in 1..Len(wire) : Adds(k) /\ i = wire[k].item
      <4>1. Added(i) \in buddylist
        BY <2>1, <3>3 DEF Clean, AddsListed
      <4> QED BY <3>1, <4>1 DEF Places
    <3>4. \/ /\ i \in roster
             /\ \A k \in 1..Len(wire) : ~(Removes(k) /\ wire[k].item = i)
          \/ \E k \in 1..Len(wire) : Adds(k) /\ i = wire[k].item
      BY DEF Intended, Removes, Adds
    <3> QED BY <3>2, <3>3, <3>4
  <2>5. ASSUME NEW n \in buddylist PROVE <<n.sn, n.id>> \in Places(Intended)
    <3>1. CASE n.group # Unset
      <4>1. n \in roster /\ \A k \in 1..Len(wire) : ~(Removes(k) /\ wire[k].item = n)
        BY <2>1, <3>1 DEF Clean, NodesStored, RemovesStand
      <4> QED BY <2>2, <4>1 DEF Places
    <3>2. CASE n.group = Unset
      <4>1. Item1(n) \in Intended
        BY <2>1, <2>2, <2>3, <3>2 DEF Clean, AddedStored
      <4>2. Item1(n).sn = n.sn /\ Item1(n).id = n.id
        BY DEF Item1
      <4> QED BY <4>1, <4>2 DEF Places
    <3> QED BY <3>1, <3>2
  <2> QED BY <2>4, <2>5 DEF Places
<1> QED BY <1>1, Inductive, PTL

\* Nobody who was removed stays behind, unless he was added on the connection:
\* what RosterDelete shows happens to nobody else.
THEOREM DeletedAreGone == Spec => [](~odd => DeletedIsGone)
<1>1. InSync => (~odd => DeletedIsGone)
  <2> SUFFICES ASSUME InSync, ~odd, Complete, wire = <<>>, ~early, NEW i \in roster
               PROVE  i.sn \in Names(buddylist)
    BY DEF DeletedIsGone, Names
  <2>1. <<i.sn, i.id>> \in Places(buddylist)
    BY DEF InSync, Places
  <2> QED BY <2>1 DEF Places, Names
<1> QED BY <1>1, ListsAgree, PTL

\* No batch is in vain: an addition is never refused, a removal removes who was
\* named and nobody else.
THEOREM NoneInVain == Spec => BatchesTakeEffect
<1> DEFINE Effect == server_applies /\ ~early /\ ~odd =>
                       LET b == Head(wire)
                       IN  IF b.op = "add"
                           THEN b.item.sn \notin Names(roster) /\ roster' = roster \cup {b.item}
                           ELSE b.item \in roster /\ roster' = roster \ {b.item}
<1>1. IInv /\ [Next]_vars => [Effect]_vars
  <2> SUFFICES ASSUME IInv, server_applies, ~early, ~odd PROVE Effect
    OBVIOUS
  <2>1. Plain /\ Clean /\ wire # <<>> /\ roster' = Applied(roster, Head(wire))
    BY DEF IInv, Plain, server_applies
  <2>2. CASE Head(wire).op = "remove"
    BY <2>1, <2>2, OneRemoved
  <2>3. CASE Head(wire).op = "add"
    BY <2>1, <2>3, NoneRefused
  <2>4. Head(wire) \in Batch
    BY <2>1, TypeParts, HeadTailProperties DEF Plain
  <2> QED BY <2>2, <2>3, <2>4 DEF Batch
<1> QED BY <1>1, Inductive, PTL DEF Spec, BatchesTakeEffect

G == INSTANCE Login

\* The connections that the roster lives through are those of Login, as the
\* ones of Session and SignOn are: no part of the list comes before the BOS
\* connection, and each loss leads to a new sign-on (snac_ssi_get_list).
THEOREM KeepsToLogin == Spec => [][G!LoginNext]_stage
<1>1. IInv /\ [Next]_vars => [G!LoginNext]_stage
  <2> SUFFICES ASSUME IInv, [Next]_vars, stage' # stage PROVE G!LoginNext
    OBVIOUS
  <2>1. bos_signon_phase2 \/ snac_ssi_get_list \/ handle_deleted
    BY DEF Next, vars, input_add_buddy, input_delete_buddy, server_applies
  <2>2. CASE snac_ssi_get_list
    <3>1. stage = "bos" /\ stage' = "online"
      BY <2>2 DEF snac_ssi_get_list, IInv, TypeOK, Fresh
    <3> QED BY <3>1 DEF G!LoginNext, G!Connected
  <2>3. CASE bos_signon_phase2 \/ handle_deleted
    BY <2>3 DEF bos_signon_phase2, handle_deleted, G!LoginNext, G!Dial, G!Authorized
  <2> QED BY <2>1, <2>2, <2>3
<1> QED BY <1>1, Inductive, PTL DEF Spec
=============================================================================
