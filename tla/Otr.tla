-------------------------------- MODULE Otr --------------------------------
(***************************************************************************)
(* Off-the-record conversations: what the program keeps of them in the     *)
(* nodes of its buddy list (otr.c, aim.c, input.c, log.c), what libotr     *)
(* keeps, and the generation of the key by a thread of its own.  The       *)
(* conversations are those of a program whose configuration says otr.      *)
(*                                                                         *)
(* libotr and the other side are external: a context outlives the node     *)
(* that points to it, and is plain, encrypted, or finished by the other    *)
(* side, after which nothing is sent any more until it is begun anew; when *)
(* it ends its active fingerprint is gone.  The program registers          *)
(* otr_insecure_cb, but libotr does not call it for a conversation that    *)
(* the other side ends: the node goes on saying 1, and getmessage throws   *)
(* away the notice (tlvs, NULL at aim.c:40).  Nothing in the program gives *)
(* a node the state -1, disabled.                                          *)
(***************************************************************************)
EXTENDS Integers

CONSTANT Sns \* simplified screen names

VARIABLES node,          \* the buddies on the list, and what is kept of them
          msgstate,      \* the state of libotr's context
          fingerprint,   \* its active fingerprint: none, untrusted, trusted
          shown,         \* the message shown last
          key_gen_state, \* as the thread last left it
          key_gen_error, \* whether it left an error
          newkey,        \* the key being generated
          thread,        \* how far the thread is
          crashed

talk == <<node, msgstate, fingerprint>>
keys == <<key_gen_state, key_gen_error, newkey, thread>>
vars == <<talk, shown, keys, crashed>>

\* A node: on the list or not, its field otr, and whether otr_context is set.
Off == [on |-> FALSE, otr |-> 0, ctx |-> FALSE]
Buddy(otr, ctx) == [on |-> TRUE, otr |-> otr, ctx |-> ctx]

\* How a message went or came, whether it ended the conversation, how the
\* window labels it, and whether it was written to the log.
Nothing == [how |-> "not sent", last |-> FALSE, label |-> "none", logged |-> FALSE]

TypeOK ==
    /\ node \in [Sns -> [on : BOOLEAN, otr : {0, 1}, ctx : BOOLEAN]]
    /\ \A sn \in Sns : ~node[sn].on => node[sn] = Off
    /\ msgstate \in [Sns -> {"plaintext", "encrypted", "finished"}]
    /\ fingerprint \in [Sns -> {"none", "untrusted", "trusted"}]
    /\ shown \in [how : {"clear", "encrypted", "not sent"}, last : BOOLEAN,
                  label : {"none", "plain", "otr", "warning"}, logged : BOOLEAN]
    /\ key_gen_state \in {-1, 0, 1, 2}
    /\ key_gen_error \in BOOLEAN
    /\ newkey \in {"none", "started", "computed", "freed"}
    /\ thread \in {"none", "begun", "computing", "computed", "failed", "ending", "done"}
    /\ crashed \in BOOLEAN

Init ==
    /\ node = [sn \in Sns |-> Off]
    /\ msgstate = [sn \in Sns |-> "plaintext"]
    /\ fingerprint = [sn \in Sns |-> "none"]
    /\ shown = Nothing
    /\ key_gen_state = 0
    /\ key_gen_error = FALSE
    /\ newkey \in {"none", "started"}
    /\ thread = IF newkey = "none" THEN "none" ELSE "begun"
    /\ crashed = FALSE

find_buddy(sn) == node[sn].on

-----------------------------------------------------------------------------
(* The list.                                                               *)

\* A node points to libotr's context at once, whatever state that is in.
buddy_online(sn) ==
    /\ ~find_buddy(sn)
    /\ node' = [node EXCEPT ![sn] = Buddy(0, TRUE)]
    /\ UNCHANGED <<msgstate, fingerprint, shown, keys, crashed>>

\* A conversation that is ended has no fingerprint any more.
Ended(sn, state) ==
    /\ msgstate' = [msgstate EXCEPT ![sn] = state]
    /\ fingerprint' = [fingerprint EXCEPT ![sn] = "none"]

\* The conversation is ended if the node says there is one.
buddy_offline(sn) ==
    /\ find_buddy(sn)
    /\ IF node[sn].otr = 1 THEN Ended(sn, "plaintext")
                           ELSE UNCHANGED <<msgstate, fingerprint>>
    /\ node' = [node EXCEPT ![sn] = Off]
    /\ UNCHANGED <<shown, keys, crashed>>

\* The command d: the node goes, the context stays.
remove_from_list(sn) ==
    /\ find_buddy(sn)
    /\ node' = [node EXCEPT ![sn] = Off]
    /\ UNCHANGED <<msgstate, fingerprint, shown, keys, crashed>>

\* And so for all of them when the connection is lost.
delete_buddylist ==
    /\ node' = [sn \in Sns |-> Off]
    /\ UNCHANGED <<msgstate, fingerprint, shown, keys, crashed>>

-----------------------------------------------------------------------------
(* Messages.                                                               *)

\* Fault: what the node says decides, not what the context is.
log_event_by_node(sn) == ~(find_buddy(sn) /\ node[sn].otr = 1)

\* Whether a message is written to the log: by the state in which libotr has
\* left the context that it has put into the node.
log_event(sn) == ~(find_buddy(sn) /\ msgstate'[sn] = "encrypted")

\* Fault: what the node says decides.
Label_by_node(sn, how) ==
    IF find_buddy(sn) /\ node[sn].otr = 1 THEN "otr" ELSE "plain"

\* otr_imcomm_im_send_message returns 0, and getmessage sets otr_message, if
\* the context is encrypted after libotr has handled the whole message.
Label(sn, how) ==
    IF find_buddy(sn) /\ msgstate'[sn] = "encrypted" /\ how # "not sent"
    THEN "otr" ELSE "plain"

Show(sn, how, last) ==
    shown' = [how |-> how, last |-> last, label |-> Label(sn, how),
              logged |-> log_event(sn)]

\* libotr is asked with the place of the node's context, which it sets.
Pointed(sn) ==
    IF find_buddy(sn) THEN [node EXCEPT ![sn] = Buddy(node[sn].otr, TRUE)] ELSE node

\* libotr encrypts, sends in the clear with an offer, sends an empty message
\* instead, or fails; for somebody who is not on the list it is not asked.
otr_imcomm_im_send_message(sn) ==
    /\ UNCHANGED <<msgstate, fingerprint, keys, crashed>>
    /\ node' = Pointed(sn)
    /\ \E how \in IF ~find_buddy(sn) THEN {"clear"}
                  ELSE CASE msgstate[sn] = "plaintext" -> {"clear", "not sent"}
                         [] msgstate[sn] = "encrypted" -> {"encrypted", "not sent"}
                         [] msgstate[sn] = "finished"  -> {"not sent"} :
         Show(sn, how, FALSE)

\* A message in the clear; in a conversation libotr warns of it instead of
\* handing it over.
getmessage_clear(sn) ==
    /\ UNCHANGED <<msgstate, fingerprint, keys, crashed>>
    /\ node' = Pointed(sn)
    /\ IF find_buddy(sn) /\ msgstate[sn] # "plaintext"
       THEN shown' = [how |-> "clear", last |-> FALSE, label |-> "warning",
                      logged |-> FALSE]
       ELSE Show(sn, "clear", FALSE)

\* Fault: libotr is asked whoever wrote.
otrl_message_receiving_any(sn) == TRUE

\* libotr is given what a buddy on the list wrote, and nothing else.
otrl_message_receiving(sn) == find_buddy(sn)

\* An encrypted message; without a conversation it is an error.  It may carry
\* a text, and the notice that the other side ends the conversation: libotr
\* decrypts the text and finishes the context before it returns, and only then
\* are the label and the log decided.  Without a text nothing is shown.
getmessage_encrypted(sn) ==
    /\ otrl_message_receiving(sn)
    /\ msgstate[sn] = "encrypted"
    /\ node' = Pointed(sn)
    /\ \E ends, text \in BOOLEAN :
         /\ IF ends THEN Ended(sn, "finished")
                    ELSE UNCHANGED <<msgstate, fingerprint>>
         /\ IF text THEN Show(sn, "encrypted", ends) ELSE UNCHANGED shown
    /\ UNCHANGED <<keys, crashed>>

\* A conversation begins, or is begun anew by the other side, perhaps with
\* another fingerprint; the node only hears of it if that is trusted.
otr_secure_cb(sn) ==
    /\ otrl_message_receiving(sn)
    /\ msgstate' = [msgstate EXCEPT ![sn] = "encrypted"]
    /\ \E fp \in {"untrusted", "trusted"} :
         /\ fingerprint' = [fingerprint EXCEPT ![sn] = fp]
         /\ node' = [node EXCEPT ![sn] =
                         Buddy(IF fp = "trusted" THEN 1 ELSE node[sn].otr, TRUE)]
    /\ UNCHANGED <<shown, keys, crashed>>

\* The other side proves that it knows the secret: the node, if there is one,
\* decides on the trust only, and is written to in either case.
otr_smp_event_cb(sn) ==
    /\ otrl_message_receiving(sn)
    /\ msgstate[sn] = "encrypted"
    /\ IF find_buddy(sn)
       THEN /\ fingerprint' = [fingerprint EXCEPT ![sn] = "trusted"]
            /\ node' = [node EXCEPT ![sn] = Buddy(1, TRUE)]
            /\ UNCHANGED crashed
       ELSE /\ crashed' = TRUE
            /\ UNCHANGED <<node, fingerprint>>
    /\ UNCHANGED <<msgstate, shown, keys>>

\* Fault: the field otr of the node is kept.
input_stop_otr_keeps_otr(sn) ==
    /\ find_buddy(sn) /\ node[sn].otr = 1
    /\ Ended(sn, "plaintext")
    /\ UNCHANGED <<node, shown, keys, crashed>>

\* The command O: the pointer to the context stays.
input_stop_otr(sn) ==
    /\ find_buddy(sn) /\ node[sn].otr = 1
    /\ Ended(sn, "plaintext")
    /\ node' = [node EXCEPT ![sn] = Buddy(0, node[sn].ctx)]
    /\ UNCHANGED <<shown, keys, crashed>>

\* The command M: a context without a conversation, before the first one or
\* after it ended, has no fingerprint, which is used all the same.
input_manual_otr_verify(sn) ==
    /\ find_buddy(sn) /\ node[sn].ctx
    /\ crashed' = (fingerprint[sn] = "none")
    /\ fingerprint' = [fingerprint EXCEPT ![sn] = IF @ = "none" THEN @ ELSE "trusted"]
    /\ UNCHANGED <<node, msgstate, shown, keys>>

-----------------------------------------------------------------------------
(* The key.                                                                *)

Unread == <<talk, shown, crashed>>

generate_key_begin ==
    /\ thread = "begun"
    /\ key_gen_state' = 1
    /\ thread' = "computing"
    /\ UNCHANGED <<key_gen_error, newkey, Unread>>

generate_key_calculate ==
    /\ thread = "computing"
    /\ \/ thread' = "failed" /\ newkey' = newkey
       \/ thread' = "computed" /\ newkey' = "computed"
    /\ UNCHANGED <<key_gen_state, key_gen_error, Unread>>

\* The state is written first, the error after it.
generate_key_state ==
    /\ thread \in {"computed", "failed"}
    /\ key_gen_state' = IF thread = "failed" THEN -1 ELSE 2
    /\ thread' = IF thread = "failed" THEN "ending" ELSE "done"
    /\ UNCHANGED <<key_gen_error, newkey, Unread>>

generate_key_error ==
    /\ thread = "ending"
    /\ key_gen_error' = TRUE
    /\ thread' = "done"
    /\ UNCHANGED <<key_gen_state, newkey, Unread>>

\* The command o finishes a key that is done, which frees it; whoever says o
\* again finishes it again.
check_key_gen_state ==
    /\ key_gen_state = 2 /\ ~key_gen_error
    /\ newkey' = "freed"
    /\ crashed' \in IF newkey = "computed" THEN {FALSE} ELSE BOOLEAN
    /\ UNCHANGED <<key_gen_state, key_gen_error, thread, talk, shown>>

generate_key ==
    \/ generate_key_begin
    \/ generate_key_calculate
    \/ generate_key_state
    \/ generate_key_error

-----------------------------------------------------------------------------
Next ==
    /\ ~crashed
    /\ \/ \E sn \in Sns :
            \/ buddy_online(sn)
            \/ buddy_offline(sn)
            \/ remove_from_list(sn)
            \/ otr_imcomm_im_send_message(sn)
            \/ getmessage_clear(sn)
            \/ getmessage_encrypted(sn)
            \/ otr_secure_cb(sn)
            \/ otr_smp_event_cb(sn)
            \/ input_stop_otr(sn)
            \/ input_manual_otr_verify(sn)
       \/ delete_buddylist
       \/ generate_key
       \/ check_key_gen_state

Spec == Init /\ [][Next]_vars

-----------------------------------------------------------------------------
(* Properties.                                                             *)

\* What the user types into a conversation that o calls active never goes out
\* in the clear: it is encrypted or not sent.  The node may say active of a
\* conversation that the other side has ended, but not of one that is plain
\* again, however often the buddy came, went and began anew, or the list was
\* emptied (otr_imcomm_im_send_message, otr_secure_cb, otr_smp_event_cb,
\* input_stop_otr, buddy_offline, delete_buddylist).
NeverInTheClear ==
    [][\A sn \in Sns : otr_imcomm_im_send_message(sn) /\ node[sn].otr = 1 =>
          shown'.how # "clear"]_vars

\* The window labels with (otr) what was encrypted on its way, trusted or not,
\* and nothing else; but the message with which the other side ends the
\* conversation, which was encrypted too, is shown as if it were not
\* (otr_imcomm_im_send_message, getmessage).
LabelIsTrue == shown.label = "otr" <=> shown.how = "encrypted" /\ ~shown.last

\* What was encrypted on its way is not written to the log in the clear,
\* trusted or not, sent or received; but the message with which the other side
\* ends the conversation is (log_event).
NotLogged == shown.how = "encrypted" => (shown.logged <=> shown.last)

\* The program crashes on nothing the other side sends: it takes the command
\* M for a buddy without a fingerprint, or a second o after the key was
\* finished.  The callbacks, which write to the node of whoever wrote, are
\* only called for a buddy on the list, and a key is finished once it is
\* computed (getmessage, otr_smp_event_cb, check_key_gen_state).
CrashesAreKnown ==
    [][crashed' /\ ~crashed =>
         \/ \E sn \in Sns : input_manual_otr_verify(sn) /\ fingerprint[sn] = "none"
         \/ check_key_gen_state /\ newkey = "freed"]_vars
=============================================================================
