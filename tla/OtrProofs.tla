----------------------------- MODULE OtrProofs -----------------------------
(***************************************************************************)
(* What a node says of a conversation, what the window says of a message,  *)
(* and where the program may crash, for any buddies.                       *)
(***************************************************************************)
EXTENDS Otr, TLAPS

\* A node does not say active of a plain conversation; it may of one that the
\* other side has ended.
ActiveIsPrivate == \A sn \in Sns : node[sn].otr = 1 => msgstate[sn] # "plaintext"

\* The thread computes the key before it says so.
KeyInOrder ==
    /\ key_gen_state = 2 => thread = "done" /\ newkey \in {"computed", "freed"}
    /\ thread = "computed" => newkey = "computed"

IInv == TypeOK /\ ActiveIsPrivate /\ LabelIsTrue /\ NotLogged /\ KeyInOrder

\* The parts of TypeOK that a step of the list or of a conversation touches.
NodesOK ==
    /\ node \in [Sns -> [on : BOOLEAN, otr : {0, 1}, ctx : BOOLEAN]]
    /\ \A sn \in Sns : ~node[sn].on => node[sn] = Off

ShownOK ==
    shown \in [how : {"clear", "encrypted", "not sent"}, last : BOOLEAN,
               label : {"none", "plain", "otr", "warning"}, logged : BOOLEAN]

KeysOK ==
    /\ key_gen_state \in {-1, 0, 1, 2}
    /\ key_gen_error \in BOOLEAN
    /\ newkey \in {"none", "started", "computed", "freed"}
    /\ thread \in {"none", "begun", "computing", "computed", "failed", "ending", "done"}

LEMMA TypeParts ==
    TypeOK <=> /\ NodesOK /\ ShownOK /\ KeysOK
               /\ msgstate \in [Sns -> {"plaintext", "encrypted", "finished"}]
               /\ fingerprint \in [Sns -> {"none", "untrusted", "trusted"}]
               /\ crashed \in BOOLEAN
  BY DEF TypeOK, NodesOK, ShownOK, KeysOK

LEMMA NextTypeParts ==
    TypeOK' <=> /\ NodesOK' /\ ShownOK' /\ KeysOK'
                /\ msgstate' \in [Sns -> {"plaintext", "encrypted", "finished"}]
                /\ fingerprint' \in [Sns -> {"none", "untrusted", "trusted"}]
                /\ crashed' \in BOOLEAN
  BY DEF TypeOK, NodesOK, ShownOK, KeysOK

\* Initially nobody is on the list and nothing was shown.
LEMMA InitInv == Init => IInv
<1> SUFFICES ASSUME Init PROVE IInv
  OBVIOUS
<1>1. NodesOK /\ ActiveIsPrivate
  BY DEF Init, NodesOK, Off, ActiveIsPrivate
<1>2. ShownOK /\ LabelIsTrue /\ NotLogged
  BY DEF Init, Nothing, ShownOK, LabelIsTrue, NotLogged
<1>3. KeysOK /\ KeyInOrder
  <2>1. key_gen_state = 0 /\ key_gen_error = FALSE /\ newkey \in {"none", "started"}
    BY DEF Init
  <2>2. thread \in {"none", "begun"}
    BY DEF Init
  <2>3. key_gen_state # 2 /\ key_gen_state \in {-1, 0, 1, 2}
    BY <2>1
  <2> QED BY <2>1, <2>2, <2>3 DEF KeysOK, KeyInOrder
<1>4. /\ msgstate \in [Sns -> {"plaintext", "encrypted", "finished"}]
      /\ fingerprint \in [Sns -> {"none", "untrusted", "trusted"}]
      /\ crashed \in BOOLEAN
  BY DEF Init
<1> QED BY <1>1, <1>2, <1>3, <1>4, TypeParts DEF IInv

\* A message is labelled and logged by the state in which the context is left.
LEMMA ShownMessage ==
    ASSUME NEW sn \in Sns, NEW last \in BOOLEAN,
           NEW how \in {"clear", "encrypted", "not sent"},
           how = "encrypted" /\ ~last <=> /\ find_buddy(sn)
                                          /\ msgstate'[sn] = "encrypted"
                                          /\ how # "not sent",
           how = "encrypted" /\ last => msgstate'[sn] # "encrypted",
           Show(sn, how, last)
    PROVE  ShownOK' /\ LabelIsTrue' /\ NotLogged'
<1>1. shown' = [how |-> how, last |-> last, label |-> Label(sn, how),
                logged |-> log_event(sn)]
  BY DEF Show
<1>2. Label(sn, how) \in {"plain", "otr"} /\ log_event(sn) \in BOOLEAN
  BY DEF Label, log_event
<1>3. Label(sn, how) = "otr" <=> how = "encrypted" /\ ~last
  BY DEF Label
<1>4. how = "encrypted" => (log_event(sn) <=> last)
  BY DEF log_event
<1> QED BY <1>1, <1>2, <1>3, <1>4 DEF ShownOK, LabelIsTrue, NotLogged

\* A node is set, and the other nodes stay.
LEMMA NodeSet ==
    ASSUME NEW sn \in Sns, NodesOK,
           NEW v \in [on : BOOLEAN, otr : {0, 1}, ctx : BOOLEAN], v.on \/ v = Off,
           node' = [node EXCEPT ![sn] = v]
    PROVE  NodesOK' /\ node'[sn] = v /\ \A b \in Sns : b # sn => node'[b] = node[b]
  BY DEF NodesOK

LEMMA Buddies ==
    ASSUME NEW otr \in {0, 1}, NEW ctx \in BOOLEAN
    PROVE  /\ Buddy(otr, ctx) \in [on : BOOLEAN, otr : {0, 1}, ctx : BOOLEAN]
           /\ Buddy(otr, ctx).on /\ Buddy(otr, ctx).otr = otr
           /\ Buddy(otr, ctx).ctx = ctx
  BY DEF Buddy

LEMMA NoBuddy == Off \in [on : BOOLEAN, otr : {0, 1}, ctx : BOOLEAN] /\ Off.otr = 0
  BY DEF Off

\* Setting the pointer of a node leaves its field otr alone.
LEMMA PointedNode ==
    ASSUME NEW sn \in Sns, NodesOK, node' = Pointed(sn)
    PROVE  NodesOK' /\ \A b \in Sns : node'[b].otr = node[b].otr
<1>1. CASE ~find_buddy(sn)
  BY <1>1 DEF Pointed, NodesOK
<1>2. CASE find_buddy(sn)
  <2>1. node[sn].otr \in {0, 1}
    BY DEF NodesOK
  <2>2. node' = [node EXCEPT ![sn] = Buddy(node[sn].otr, TRUE)]
    BY <1>2 DEF Pointed
  <2>3. /\ Buddy(node[sn].otr, TRUE) \in [on : BOOLEAN, otr : {0, 1}, ctx : BOOLEAN]
        /\ Buddy(node[sn].otr, TRUE).on /\ Buddy(node[sn].otr, TRUE).otr = node[sn].otr
    BY <2>1, Buddies
  <2>4. /\ NodesOK' /\ node'[sn] = Buddy(node[sn].otr, TRUE)
        /\ \A b \in Sns : b # sn => node'[b] = node[b]
    BY <2>2, <2>3, NodeSet
  <2>5. ASSUME NEW b \in Sns PROVE node'[b].otr = node[b].otr
    BY <2>3, <2>4
  <2> QED BY <2>4, <2>5
<1> QED BY <1>1, <1>2

\* A step keeps the invariant: the keys.
LEMMA KeySteps ==
    ASSUME IInv, generate_key \/ check_key_gen_state
    PROVE  IInv'
<1>1. UNCHANGED <<node, msgstate, fingerprint, shown>>
  BY DEF generate_key, generate_key_begin, generate_key_calculate,
     generate_key_state, generate_key_error, check_key_gen_state, Unread, talk
<1>2. KeysOK /\ crashed \in BOOLEAN
  BY TypeParts DEF IInv
<1>3. crashed' \in BOOLEAN
  BY <1>2 DEF generate_key, generate_key_begin, generate_key_calculate,
     generate_key_state, generate_key_error, check_key_gen_state, Unread
<1>4. KeysOK' /\ KeyInOrder'
  <2> USE DEF IInv, KeysOK, KeyInOrder
  <2>1. CASE generate_key_begin
    BY <1>2, <2>1 DEF generate_key_begin
  <2>2. CASE generate_key_calculate
    BY <1>2, <2>2 DEF generate_key_calculate
  <2>3. CASE generate_key_state
    BY <1>2, <2>3 DEF generate_key_state
  <2>4. CASE generate_key_error
    BY <1>2, <2>4 DEF generate_key_error
  <2>5. CASE check_key_gen_state
    BY <1>2, <2>5 DEF check_key_gen_state
  <2> QED BY <2>1, <2>2, <2>3, <2>4, <2>5 DEF generate_key
<1>5. NodesOK' /\ ShownOK' /\ ActiveIsPrivate' /\ LabelIsTrue' /\ NotLogged'
  BY <1>1, TypeParts DEF IInv, NodesOK, ShownOK, ActiveIsPrivate, LabelIsTrue, NotLogged
<1> QED BY <1>1, <1>3, <1>4, <1>5, TypeParts, NextTypeParts DEF IInv

\* What a step of the list or of a conversation leaves alone.
LEMMA Aside ==
    ASSUME IInv, UNCHANGED <<shown, keys>>, crashed' \in BOOLEAN,
           NodesOK', ActiveIsPrivate',
           msgstate' \in [Sns -> {"plaintext", "encrypted", "finished"}],
           fingerprint' \in [Sns -> {"none", "untrusted", "trusted"}]
    PROVE  IInv'
<1>1. ShownOK' /\ LabelIsTrue' /\ NotLogged'
  BY TypeParts DEF IInv, ShownOK, LabelIsTrue, NotLogged
<1>2. KeysOK' /\ KeyInOrder'
  BY TypeParts DEF IInv, keys, KeysOK, KeyInOrder
<1> QED BY <1>1, <1>2, NextTypeParts DEF IInv

\* One conversation is ended, and the others stay.
LEMMA EndedTalk ==
    ASSUME NEW sn \in Sns, NEW state \in {"plaintext", "encrypted", "finished"},
           msgstate \in [Sns -> {"plaintext", "encrypted", "finished"}],
           fingerprint \in [Sns -> {"none", "untrusted", "trusted"}],
           Ended(sn, state)
    PROVE  /\ msgstate' \in [Sns -> {"plaintext", "encrypted", "finished"}]
           /\ fingerprint' \in [Sns -> {"none", "untrusted", "trusted"}]
           /\ msgstate'[sn] = state
           /\ \A b \in Sns : b # sn => msgstate'[b] = msgstate[b]
  BY DEF Ended

\* A step keeps the invariant: the list.
LEMMA ListSteps ==
    ASSUME IInv,
           \/ delete_buddylist
           \/ \E sn \in Sns : buddy_online(sn) \/ buddy_offline(sn) \/ remove_from_list(sn)
    PROVE  IInv'
<1>1. /\ NodesOK /\ ActiveIsPrivate
      /\ msgstate \in [Sns -> {"plaintext", "encrypted", "finished"}]
      /\ fingerprint \in [Sns -> {"none", "untrusted", "trusted"}]
      /\ crashed \in BOOLEAN
  BY TypeParts DEF IInv
<1>2. CASE delete_buddylist
  <2>1. NodesOK' /\ ActiveIsPrivate'
    BY <1>2, NoBuddy DEF delete_buddylist, NodesOK, ActiveIsPrivate
  <2> QED BY <1>1, <1>2, <2>1, Aside DEF delete_buddylist
<1>3. ASSUME NEW sn \in Sns, buddy_online(sn) PROVE IInv'
  <2>1. node' = [node EXCEPT ![sn] = Buddy(0, TRUE)]
    BY <1>3 DEF buddy_online
  <2>2. /\ NodesOK' /\ node'[sn].otr = 0
        /\ \A b \in Sns : b # sn => node'[b] = node[b]
    BY <1>1, <2>1, NodeSet, Buddies
  <2>3. ActiveIsPrivate'
    <3> SUFFICES ASSUME NEW b \in Sns, node'[b].otr = 1
                 PROVE  msgstate'[b] # "plaintext"
      BY DEF ActiveIsPrivate
    <3>1. b # sn /\ node[b].otr = 1
      BY <2>2
    <3>2. msgstate' = msgstate /\ fingerprint' = fingerprint
      BY <1>3 DEF buddy_online
    <3> QED BY <1>1, <3>1, <3>2 DEF ActiveIsPrivate
  <2> QED BY <1>1, <1>3, <2>2, <2>3, Aside DEF buddy_online
<1>4. ASSUME NEW sn \in Sns, buddy_offline(sn) \/ remove_from_list(sn) PROVE IInv'
  <2>1. node' = [node EXCEPT ![sn] = Off]
    BY <1>4 DEF buddy_offline, remove_from_list
  <2>2. /\ NodesOK' /\ node'[sn].otr = 0
        /\ \A b \in Sns : b # sn => node'[b] = node[b]
    BY <1>1, <2>1, NodeSet, NoBuddy
  <2>3. /\ msgstate' \in [Sns -> {"plaintext", "encrypted", "finished"}]
        /\ fingerprint' \in [Sns -> {"none", "untrusted", "trusted"}]
        /\ \A b \in Sns : b # sn => msgstate'[b] = msgstate[b]
    <3>1. Ended(sn, "plaintext") \/ UNCHANGED <<msgstate, fingerprint>>
      BY <1>4 DEF buddy_offline, remove_from_list
    <3>2. CASE Ended(sn, "plaintext")
      BY <1>1, <3>2, EndedTalk
    <3>3. CASE UNCHANGED <<msgstate, fingerprint>>
      BY <1>1, <3>3
    <3> QED BY <3>1, <3>2, <3>3
  <2>4. UNCHANGED <<shown, keys, crashed>>
    BY <1>4 DEF buddy_offline, remove_from_list
  <2>5. ActiveIsPrivate'
    <3> SUFFICES ASSUME NEW b \in Sns, node'[b].otr = 1
                 PROVE  msgstate'[b] # "plaintext"
      BY DEF ActiveIsPrivate
    <3>1. b # sn
      BY <2>2
    <3>2. node[b].otr = 1 /\ msgstate'[b] = msgstate[b]
      BY <2>2, <2>3, <3>1
    <3> QED BY <1>1, <3>2 DEF ActiveIsPrivate
  <2> QED BY <1>1, <2>2, <2>3, <2>4, <2>5, Aside
<1> QED BY <1>2, <1>3, <1>4

\* A message that goes out is labelled and logged as it went.
LEMMA SentShown ==
    ASSUME TypeOK, NEW sn \in Sns, otr_imcomm_im_send_message(sn)
    PROVE  ShownOK' /\ LabelIsTrue' /\ NotLogged'
<1>1. msgstate' = msgstate /\ FALSE \in BOOLEAN
  BY DEF otr_imcomm_im_send_message
<1>2. CASE ~find_buddy(sn)
  <2>1. Show(sn, "clear", FALSE)
    BY <1>2 DEF otr_imcomm_im_send_message
  <2> QED BY <1>1, <1>2, <2>1, ShownMessage
<1>3. CASE find_buddy(sn)
  <2>1. msgstate[sn] \in {"plaintext", "encrypted", "finished"}
    BY DEF TypeOK
  <2>2. CASE msgstate[sn] = "plaintext"
    <3>1. PICK how \in {"clear", "not sent"} : Show(sn, how, FALSE)
      BY <1>3, <2>2 DEF otr_imcomm_im_send_message
    <3> QED BY <1>1, <2>2, <3>1, ShownMessage
  <2>3. CASE msgstate[sn] = "encrypted"
    <3>1. PICK how \in {"encrypted", "not sent"} : Show(sn, how, FALSE)
      BY <1>3, <2>3 DEF otr_imcomm_im_send_message
    <3> QED BY <1>1, <1>3, <2>3, <3>1, ShownMessage
  <2>4. CASE msgstate[sn] = "finished"
    <3>1. Show(sn, "not sent", FALSE)
      BY <1>3, <2>4 DEF otr_imcomm_im_send_message
    <3> QED BY <1>1, <2>4, <3>1, ShownMessage
  <2> QED BY <2>1, <2>2, <2>3, <2>4
<1> QED BY <1>2, <1>3

\* So is one that comes in the clear.
LEMMA ClearShown ==
    ASSUME TypeOK, NEW sn \in Sns, getmessage_clear(sn)
    PROVE  ShownOK' /\ LabelIsTrue' /\ NotLogged'
<1>1. msgstate' = msgstate /\ FALSE \in BOOLEAN
  BY DEF getmessage_clear
<1>2. CASE find_buddy(sn) /\ msgstate[sn] # "plaintext"
  <2>1. shown' = [how |-> "clear", last |-> FALSE, label |-> "warning", logged |-> FALSE]
    BY <1>2 DEF getmessage_clear
  <2> QED BY <2>1 DEF ShownOK, LabelIsTrue, NotLogged
<1>3. CASE ~(find_buddy(sn) /\ msgstate[sn] # "plaintext")
  <2>1. Show(sn, "clear", FALSE)
    BY <1>3 DEF getmessage_clear
  <2> QED BY <1>1, <1>3, <2>1, ShownMessage
<1> QED BY <1>2, <1>3

\* An encrypted message leaves the conversation as it is, or ends it; one that
\* has a text is shown after that.
LEMMA EncryptedShown ==
    ASSUME IInv, NEW sn \in Sns, getmessage_encrypted(sn)
    PROVE  /\ ShownOK' /\ LabelIsTrue' /\ NotLogged'
           /\ msgstate' \in [Sns -> {"plaintext", "encrypted", "finished"}]
           /\ fingerprint' \in [Sns -> {"none", "untrusted", "trusted"}]
           /\ msgstate'[sn] # "plaintext"
           /\ \A b \in Sns : b # sn => msgstate'[b] = msgstate[b]
<1>1. PICK ends, text \in BOOLEAN :
        /\ IF ends THEN Ended(sn, "finished") ELSE UNCHANGED <<msgstate, fingerprint>>
        /\ IF text THEN Show(sn, "encrypted", ends) ELSE UNCHANGED shown
  BY DEF getmessage_encrypted
<1>2. find_buddy(sn) /\ msgstate[sn] = "encrypted"
  BY DEF getmessage_encrypted, otrl_message_receiving
<1>3. /\ msgstate \in [Sns -> {"plaintext", "encrypted", "finished"}]
      /\ fingerprint \in [Sns -> {"none", "untrusted", "trusted"}]
      /\ ShownOK /\ LabelIsTrue /\ NotLogged
  BY TypeParts DEF IInv
<1>4. /\ msgstate' \in [Sns -> {"plaintext", "encrypted", "finished"}]
      /\ fingerprint' \in [Sns -> {"none", "untrusted", "trusted"}]
      /\ msgstate'[sn] = IF ends THEN "finished" ELSE "encrypted"
      /\ \A b \in Sns : b # sn => msgstate'[b] = msgstate[b]
  <2>1. CASE ends
    BY <1>1, <1>3, <2>1, EndedTalk
  <2>2. CASE ~ends
    BY <1>1, <1>2, <1>3, <2>2
  <2> QED BY <2>1, <2>2
<1>5. ShownOK' /\ LabelIsTrue' /\ NotLogged'
  <2>1. CASE text
    <3>1. Show(sn, "encrypted", ends)
      BY <1>1, <2>1
    <3> QED BY <1>2, <1>4, <3>1, ShownMessage
  <2>2. CASE ~text
    BY <1>1, <1>3, <2>2 DEF ShownOK, LabelIsTrue, NotLogged
  <2> QED BY <2>1, <2>2
<1> QED BY <1>4, <1>5

\* A step keeps the invariant: messages that are shown.
LEMMA MessageSteps ==
    ASSUME IInv, NEW sn \in Sns,
           \/ otr_imcomm_im_send_message(sn)
           \/ getmessage_clear(sn)
           \/ getmessage_encrypted(sn)
    PROVE  IInv'
<1>1. /\ node' = Pointed(sn)
      /\ UNCHANGED <<key_gen_state, key_gen_error, newkey, thread, crashed>>
  BY DEF otr_imcomm_im_send_message, getmessage_clear, getmessage_encrypted, keys
<1>2. /\ TypeOK /\ NodesOK /\ ActiveIsPrivate
      /\ msgstate \in [Sns -> {"plaintext", "encrypted", "finished"}]
      /\ fingerprint \in [Sns -> {"none", "untrusted", "trusted"}]
  BY TypeParts DEF IInv
<1>3. ShownOK' /\ LabelIsTrue' /\ NotLogged'
  BY <1>2, SentShown, ClearShown, EncryptedShown
<1>4. /\ msgstate' \in [Sns -> {"plaintext", "encrypted", "finished"}]
      /\ fingerprint' \in [Sns -> {"none", "untrusted", "trusted"}]
      /\ \A b \in Sns : msgstate[b] # "plaintext" => msgstate'[b] # "plaintext"
  <2>1. CASE getmessage_encrypted(sn)
    <3>1. /\ msgstate' \in [Sns -> {"plaintext", "encrypted", "finished"}]
          /\ fingerprint' \in [Sns -> {"none", "untrusted", "trusted"}]
          /\ msgstate'[sn] # "plaintext"
          /\ \A b \in Sns : b # sn => msgstate'[b] = msgstate[b]
      BY <2>1, EncryptedShown
    <3> QED BY <3>1
  <2>2. CASE otr_imcomm_im_send_message(sn) \/ getmessage_clear(sn)
    BY <1>2, <2>2 DEF otr_imcomm_im_send_message, getmessage_clear
  <2> QED BY <2>1, <2>2
<1>5. NodesOK' /\ ActiveIsPrivate'
  <2>1. NodesOK' /\ \A b \in Sns : node'[b].otr = node[b].otr
    BY <1>1, <1>2, PointedNode
  <2> QED BY <1>2, <1>4, <2>1 DEF ActiveIsPrivate
<1>6. KeysOK' /\ KeyInOrder'
  BY <1>1, TypeParts DEF IInv, KeysOK, KeyInOrder
<1>7. crashed' \in BOOLEAN
  BY <1>1, <1>2 DEF TypeOK
<1> QED BY <1>3, <1>4, <1>5, <1>6, <1>7, NextTypeParts DEF IInv

\* A step keeps the invariant: conversations.
LEMMA TalkSteps ==
    ASSUME IInv, NEW sn \in Sns,
           \/ otr_secure_cb(sn)
           \/ otr_smp_event_cb(sn)
           \/ input_stop_otr(sn)
           \/ input_manual_otr_verify(sn)
    PROVE  IInv'
<1>1. UNCHANGED <<shown, keys>> /\ crashed' \in BOOLEAN
  BY DEF otr_secure_cb, otr_smp_event_cb, input_stop_otr,
     input_manual_otr_verify, IInv, TypeOK
<1>2. /\ NodesOK /\ ActiveIsPrivate /\ node[sn].otr \in {0, 1}
      /\ msgstate \in [Sns -> {"plaintext", "encrypted", "finished"}]
      /\ fingerprint \in [Sns -> {"none", "untrusted", "trusted"}]
  BY TypeParts DEF IInv, NodesOK
<1>3. ASSUME NEW otr \in {0, 1}, NEW ctx \in BOOLEAN,
             node' = [node EXCEPT ![sn] = Buddy(otr, ctx)],
             msgstate' \in [Sns -> {"plaintext", "encrypted", "finished"}],
             fingerprint' \in [Sns -> {"none", "untrusted", "trusted"}],
             otr = 1 => msgstate'[sn] = "encrypted",
             \A b \in Sns : b # sn => msgstate'[b] = msgstate[b]
      PROVE  IInv'
  <2>1. /\ NodesOK' /\ node'[sn].otr = otr
        /\ \A b \in Sns : b # sn => node'[b] = node[b]
    <3>1. /\ Buddy(otr, ctx) \in [on : BOOLEAN, otr : {0, 1}, ctx : BOOLEAN]
          /\ Buddy(otr, ctx).on /\ Buddy(otr, ctx).otr = otr
      BY <1>3, Buddies
    <3>2. node' = [node EXCEPT ![sn] = Buddy(otr, ctx)]
      BY <1>3
    <3>3. /\ NodesOK' /\ node'[sn] = Buddy(otr, ctx)
          /\ \A b \in Sns : b # sn => node'[b] = node[b]
      BY <1>2, <3>1, <3>2, NodeSet
    <3> QED BY <3>1, <3>3
  <2>2. ActiveIsPrivate'
    <3> SUFFICES ASSUME NEW b \in Sns, node'[b].otr = 1
                 PROVE  msgstate'[b] # "plaintext"
      BY DEF ActiveIsPrivate
    <3>1. CASE b = sn
      BY <1>3, <2>1, <3>1
    <3>2. CASE b # sn
      BY <1>2, <1>3, <2>1, <3>2 DEF ActiveIsPrivate
    <3> QED BY <3>1, <3>2
  <2> QED BY <1>1, <1>3, <2>1, <2>2, Aside
<1>4. CASE otr_secure_cb(sn)
  <2>1. PICK fp \in {"untrusted", "trusted"} :
          /\ fingerprint' = [fingerprint EXCEPT ![sn] = fp]
          /\ node' = [node EXCEPT ![sn] =
                         Buddy(IF fp = "trusted" THEN 1 ELSE node[sn].otr, TRUE)]
    BY <1>4 DEF otr_secure_cb
  <2>2. msgstate' = [msgstate EXCEPT ![sn] = "encrypted"]
    BY <1>4 DEF otr_secure_cb
  <2>3. (IF fp = "trusted" THEN 1 ELSE node[sn].otr) \in {0, 1}
    BY <1>2
  <2>4. /\ msgstate' \in [Sns -> {"plaintext", "encrypted", "finished"}]
        /\ fingerprint' \in [Sns -> {"none", "untrusted", "trusted"}]
        /\ msgstate'[sn] = "encrypted"
        /\ \A b \in Sns : b # sn => msgstate'[b] = msgstate[b]
    BY <1>2, <2>1, <2>2
  <2> QED BY <1>3, <2>1, <2>3, <2>4
<1>5. CASE otr_smp_event_cb(sn)
  <2>1. /\ msgstate[sn] = "encrypted" /\ msgstate' = msgstate
        /\ node' = [node EXCEPT ![sn] = Buddy(1, TRUE)]
        /\ fingerprint' = [fingerprint EXCEPT ![sn] = "trusted"]
    BY <1>5 DEF otr_smp_event_cb, otrl_message_receiving
  <2>2. /\ fingerprint' \in [Sns -> {"none", "untrusted", "trusted"}]
        /\ msgstate'[sn] = "encrypted"
        /\ msgstate' \in [Sns -> {"plaintext", "encrypted", "finished"}]
        /\ \A b \in Sns : b # sn => msgstate'[b] = msgstate[b]
    BY <1>2, <2>1
  <2>3. 1 \in {0, 1} /\ TRUE \in BOOLEAN
    OBVIOUS
  <2>4. node' = [node EXCEPT ![sn] = Buddy(1, TRUE)] => IInv'
    BY <1>3, <2>2, <2>3
  <2> QED BY <2>1, <2>4
<1>6. CASE input_stop_otr(sn)
  <2>1. node' = [node EXCEPT ![sn] = Buddy(0, node[sn].ctx)]
    BY <1>6 DEF input_stop_otr
  <2>2. node[sn].ctx \in BOOLEAN
    BY <1>2 DEF NodesOK
  <2>3. /\ msgstate' \in [Sns -> {"plaintext", "encrypted", "finished"}]
        /\ fingerprint' \in [Sns -> {"none", "untrusted", "trusted"}]
        /\ \A b \in Sns : b # sn => msgstate'[b] = msgstate[b]
    BY <1>2, <1>6, EndedTalk DEF input_stop_otr
  <2>4. 0 \in {0, 1} /\ 0 # 1
    OBVIOUS
  <2>5. ASSUME NEW ctx \in BOOLEAN, ctx = node[sn].ctx PROVE IInv'
    <3>1. node' = [node EXCEPT ![sn] = Buddy(0, ctx)]
      BY <2>1, <2>5
    <3>2. node' = [node EXCEPT ![sn] = Buddy(0, ctx)] => IInv'
      BY <1>3, <2>3, <2>4
    <3> QED BY <3>1, <3>2
  <2> QED BY <2>2, <2>5
<1>7. CASE input_manual_otr_verify(sn)
  <2>1. node' = node /\ msgstate' = msgstate
    BY <1>7 DEF input_manual_otr_verify
  <2>2. fingerprint' \in [Sns -> {"none", "untrusted", "trusted"}]
    BY <1>2, <1>7 DEF input_manual_otr_verify
  <2>3. NodesOK' /\ ActiveIsPrivate'
    BY <1>2, <2>1, <2>2 DEF NodesOK, ActiveIsPrivate
  <2> QED BY <1>1, <1>2, <2>1, <2>2, <2>3, Aside
<1> QED BY <1>4, <1>5, <1>6, <1>7

LEMMA NextInv == IInv /\ [Next]_vars => IInv'
<1> SUFFICES ASSUME IInv, [Next]_vars PROVE IInv'
  OBVIOUS
<1>1. CASE UNCHANGED vars
  <2>1. NodesOK' /\ ActiveIsPrivate'
    BY <1>1, TypeParts DEF vars, talk, IInv, NodesOK, ActiveIsPrivate
  <2> QED BY <1>1, <2>1, TypeParts, Aside DEF vars, talk, IInv
<1>2. CASE Next
  BY <1>2, KeySteps, ListSteps, MessageSteps, TalkSteps DEF Next
<1> QED BY <1>1, <1>2

\* The invariant holds of every state.
LEMMA Inductive == Spec => []IInv
  BY InitInv, NextInv, PTL DEF Spec

\* Every variable keeps its type, and a name that is not on the list has
\* nothing kept of it.
THEOREM TypeCorrect == Spec => []TypeOK
<1>1. IInv => TypeOK
  BY DEF IInv
<1> QED BY <1>1, Inductive, PTL

\* The label (otr) is on the encrypted messages and no others, and is missing
\* from the one that ends a conversation only.
THEOREM LabelsAreTrue == Spec => []LabelIsTrue
<1>1. IInv => LabelIsTrue
  BY DEF IInv
<1> QED BY <1>1, Inductive, PTL

\* No encrypted message is logged but the one that ends a conversation.
THEOREM NothingLogged == Spec => []NotLogged
<1>1. IInv => NotLogged
  BY DEF IInv
<1> QED BY <1>1, Inductive, PTL

\* Only M without a fingerprint and a second o crash the program.
THEOREM OnlyKnownCrashes == Spec => CrashesAreKnown
<1> DEFINE Known == crashed' /\ ~crashed =>
         \/ \E sn \in Sns : input_manual_otr_verify(sn) /\ fingerprint[sn] = "none"
         \/ check_key_gen_state /\ newkey = "freed"
<1>1. IInv /\ [Next]_vars => [Known]_vars
  <2> SUFFICES ASSUME IInv, Next, crashed', ~crashed
               PROVE  \/ \E sn \in Sns : input_manual_otr_verify(sn) /\ fingerprint[sn] = "none"
                      \/ check_key_gen_state /\ newkey = "freed"
    OBVIOUS
  <2>1. CASE check_key_gen_state
    BY <2>1 DEF IInv, KeyInOrder, check_key_gen_state
  <2>2. CASE \E sn \in Sns : input_manual_otr_verify(sn)
    BY <2>2 DEF input_manual_otr_verify
  <2>3. CASE \E sn \in Sns : otr_smp_event_cb(sn)
    BY <2>3 DEF otr_smp_event_cb, otrl_message_receiving
  <2>4. ~delete_buddylist /\ ~generate_key
    BY DEF delete_buddylist, generate_key, generate_key_begin, generate_key_calculate,
       generate_key_state, generate_key_error, Unread
  <2>5. ASSUME NEW sn \in Sns,
               \/ buddy_online(sn) \/ buddy_offline(sn) \/ remove_from_list(sn)
               \/ otr_imcomm_im_send_message(sn) \/ getmessage_clear(sn)
               \/ getmessage_encrypted(sn) \/ otr_secure_cb(sn)
               \/ input_stop_otr(sn)
        PROVE  FALSE
    BY <2>5 DEF buddy_online, buddy_offline, remove_from_list,
       otr_imcomm_im_send_message, getmessage_clear, getmessage_encrypted,
       otr_secure_cb, input_stop_otr
  <2> QED BY <2>1, <2>2, <2>3, <2>4, <2>5 DEF Next
<1> QED BY <1>1, Inductive, PTL DEF Spec, CrashesAreKnown

\* Nothing typed into a conversation that the node calls active goes out in the
\* clear, whoever ended it: libotr encrypts it or it is not sent.
THEOREM ActiveStaysPrivate == Spec => NeverInTheClear
<1> DEFINE Private == \A sn \in Sns : otr_imcomm_im_send_message(sn) /\ node[sn].otr = 1 =>
                        shown'.how # "clear"
<1>1. IInv => Private
  <2> SUFFICES ASSUME IInv, NEW sn \in Sns, otr_imcomm_im_send_message(sn),
                      node[sn].otr = 1
               PROVE  shown'.how # "clear"
    OBVIOUS
  <2>1. find_buddy(sn)
    <3>1. ~node[sn].on => node[sn] = Off
      BY DEF IInv, TypeOK
    <3>2. Off.otr # 1
      BY DEF Off
    <3> QED BY <3>1, <3>2 DEF find_buddy
  <2>2. msgstate[sn] \in {"encrypted", "finished"}
    BY DEF IInv, ActiveIsPrivate, TypeOK
  <2>3. PICK how \in {"encrypted", "not sent"} : Show(sn, how, FALSE)
    BY <2>1, <2>2 DEF otr_imcomm_im_send_message
  <2> QED BY <2>3 DEF Show
<1>2. IInv => [Private]_vars
  BY <1>1
<1> QED BY <1>2, Inductive, PTL DEF Spec, NeverInTheClear
=============================================================================
