----------------------------- MODULE AutoReply -----------------------------
(***************************************************************************)
(* Automatic replies.  A client whose user is away answers the first       *)
(* message of each sender with the away message, and remembers the sender  *)
(* on its waiting list until the user presses Enter.  Two such clients     *)
(* could answer each other for ever, so an automatic reply is marked as    *)
(* one on the wire and is not answered.                                    *)
(*                                                                         *)
(* Every client here is this program, and a user may write to herself.     *)
(* The messaging service is external: it delivers each message at most     *)
(* once and in any order, and drops those whose recipient is gone.  An     *)
(* action is one turn of the event loop: a message, a key, an idle check.  *)
(***************************************************************************)
EXTENDS Naturals

CONSTANTS Clients,
          MaxWritten   \* bound of the messages that users write, all together

ASSUME BoundAssumption == MaxWritten \in Nat

VARIABLES isaway, isidle,      \* conn, of each client
          respond_idle_only,   \* a configuration option of each client
          waiting,             \* the senders on each client's waiting list
          wire,                \* what is under way between two clients
          written, answers,    \* history: messages typed, replies sent
          total,               \* history: messages typed by all users
          answered, autofirst  \* history since Enter: senders answered, and
                               \* those put on the list by an automatic reply

vars == <<isaway, isidle, respond_idle_only, waiting, wire,
          written, answers, total, answered, autofirst>>

Kinds == {"plain", "auto"}

TypeOK ==
    /\ isaway \in [Clients -> BOOLEAN]
    /\ isidle \in [Clients -> BOOLEAN]
    /\ respond_idle_only \in [Clients -> BOOLEAN]
    /\ waiting \in [Clients -> SUBSET Clients]
    /\ wire \in [Clients -> [Clients -> [Kinds -> Nat]]]
    /\ written \in [Clients -> [Clients -> Nat]]
    /\ answers \in [Clients -> [Clients -> Nat]]
    /\ total \in 0..MaxWritten
    /\ answered \in [Clients -> SUBSET Clients]
    /\ autofirst \in [Clients -> SUBSET Clients]

Init ==
    /\ isaway = [c \in Clients |-> FALSE]
    /\ isidle = [c \in Clients |-> FALSE]
    /\ respond_idle_only \in [Clients -> BOOLEAN]
    /\ waiting = [c \in Clients |-> {}]
    /\ wire = [c \in Clients |-> [d \in Clients |-> [k \in Kinds |-> 0]]]
    /\ written = [c \in Clients |-> [d \in Clients |-> 0]]
    /\ answers = [c \in Clients |-> [d \in Clients |-> 0]]
    /\ total = 0
    /\ answered = [c \in Clients |-> {}]
    /\ autofirst = [c \in Clients |-> {}]

-----------------------------------------------------------------------------
(* Sending and receiving.                                                  *)

Taken(d, c, kind) == [wire EXCEPT ![d][c][kind] = @ - 1]

imcomm_im_send_message(w, c, d, automsg, n) ==
    [w EXCEPT ![c][d][automsg] = @ + n]

\* Fault: automatic replies are answered as well.
MayAnswer_any(c, automessage) ==
    isaway[c] /\ (respond_idle_only[c] => isidle[c])

MayAnswer(c, automessage) ==
    isaway[c] /\ automessage = "plain" /\ (respond_idle_only[c] => isidle[c])

\* Fault: the sender is not put on the list.
getmessage_forgets(c, who, automessage) ==
    /\ wire[who][c][automessage] > 0
    /\ UNCHANGED <<isaway, isidle, respond_idle_only, waiting, written, total>>
    /\ autofirst' = autofirst
    /\ IF MayAnswer(c, automessage)
       THEN /\ wire' = imcomm_im_send_message(
                           Taken(who, c, automessage), c, who, "auto", 1)
            /\ answers' = [answers EXCEPT ![c][who] = @ + 1]
            /\ answered' = [answered EXCEPT ![c] = @ \cup {who}]
       ELSE /\ wire' = Taken(who, c, automessage)
            /\ UNCHANGED <<answers, answered>>

\* A message of who arrives at c.  Only who is new on the list is answered,
\* and whoever wrote is on the list afterwards, answered or not.
getmessage(c, who, automessage) ==
    LET new == who \notin waiting[c]
    IN  /\ wire[who][c][automessage] > 0
        /\ waiting' = [waiting EXCEPT ![c] = @ \cup {who}]
        /\ autofirst' = IF new /\ automessage = "auto"
                        THEN [autofirst EXCEPT ![c] = @ \cup {who}]
                        ELSE autofirst
        /\ IF new /\ MayAnswer(c, automessage)
           THEN /\ wire' = imcomm_im_send_message(
                               Taken(who, c, automessage), c, who, "auto", 1)
                /\ answers' = [answers EXCEPT ![c][who] = @ + 1]
                /\ answered' = [answered EXCEPT ![c] = @ \cup {who}]
           ELSE /\ wire' = Taken(who, c, automessage)
                /\ UNCHANGED <<answers, answered>>
        /\ UNCHANGED <<isaway, isidle, respond_idle_only, written, total>>

\* The service drops a message, or the client finds nothing in it to show:
\* one of OTR's own, without text, or nothing but markup and netspeak.
Unseen(c, who, automessage) ==
    /\ wire[who][c][automessage] > 0
    /\ wire' = Taken(who, c, automessage)
    /\ UNCHANGED <<isaway, isidle, respond_idle_only, waiting, written,
                   answers, total, answered, autofirst>>

-----------------------------------------------------------------------------
(* Keys.  Enter runs a command and clears the waiting list after it.       *)

keystroke(c) ==
    /\ isidle' = [isidle EXCEPT ![c] = FALSE]
    /\ UNCHANGED <<isaway, respond_idle_only, waiting, wire, written, answers,
                   total, answered, autofirst>>

\* The time since the last key has passed idletime.
check_idle(c) ==
    /\ ~isidle[c]
    /\ isidle' = [isidle EXCEPT ![c] = TRUE]
    /\ UNCHANGED <<isaway, respond_idle_only, waiting, wire, written, answers,
                   total, answered, autofirst>>

\* Fault: the list is kept, as by ^U.
Enter_keeps_list(c) ==
    /\ isidle' = [isidle EXCEPT ![c] = FALSE]
    /\ answered' = [answered EXCEPT ![c] = {}]
    /\ autofirst' = [autofirst EXCEPT ![c] = {}]
    /\ UNCHANGED <<respond_idle_only, waiting, answers>>

Enter(c) ==
    /\ isidle' = [isidle EXCEPT ![c] = FALSE]
    /\ waiting' = [waiting EXCEPT ![c] = {}]
    /\ answered' = [answered EXCEPT ![c] = {}]
    /\ autofirst' = [autofirst EXCEPT ![c] = {}]
    /\ UNCHANGED <<respond_idle_only, answers>>

Write(c, d, n) ==
    /\ total + n <= MaxWritten
    /\ total' = total + n
    /\ wire' = imcomm_im_send_message(wire, c, d, "plain", n)
    /\ written' = [written EXCEPT ![c][d] = @ + n]
    /\ UNCHANGED isaway

input_send_message(c, d) == Write(c, d, 1) /\ Enter(c)

\* A paste is sent in as many messages as it fills; ^X may leave none.
input_paste(c, d) == (\E n \in 0..MaxWritten : Write(c, d, n)) /\ Enter(c)

\* g toggles, G sets one of the predefined messages.
input_set_away(c) ==
    /\ isaway' = [isaway EXCEPT ![c] = ~@]
    /\ Enter(c)
    /\ UNCHANGED <<wire, written, total>>

input_set_predefaway(c) ==
    /\ isaway' = [isaway EXCEPT ![c] = TRUE]
    /\ Enter(c)
    /\ UNCHANGED <<wire, written, total>>

\* Any other command, and any of these while there is no connection.
other_command(c) == Enter(c) /\ UNCHANGED <<isaway, wire, written, total>>

\* The program ends and is started again.
restart(c) ==
    /\ isaway' = [isaway EXCEPT ![c] = FALSE]
    /\ isidle' = [isidle EXCEPT ![c] = FALSE]
    /\ waiting' = [waiting EXCEPT ![c] = {}]
    /\ answered' = [answered EXCEPT ![c] = {}]
    /\ autofirst' = [autofirst EXCEPT ![c] = {}]
    /\ \E b \in BOOLEAN :
          respond_idle_only' = [respond_idle_only EXCEPT ![c] = b]
    /\ UNCHANGED <<wire, written, answers, total>>

Next ==
    \/ \E c, d \in Clients :
          \/ \E kind \in Kinds : getmessage(c, d, kind) \/ Unseen(c, d, kind)
          \/ input_send_message(c, d)
          \/ input_paste(c, d)
    \/ \E c \in Clients :
          \/ keystroke(c)
          \/ check_idle(c)
          \/ input_set_away(c)
          \/ input_set_predefaway(c)
          \/ other_command(c)
          \/ restart(c)

Spec == Init /\ [][Next]_vars

-----------------------------------------------------------------------------
(* Properties.                                                             *)

\* Clients never answer answers: whatever a client answered was typed by a
\* user, once for each message, so an exchange of two clients that are both
\* away ends (getmessage's automessage, imcomm_im_send_message's TLV 4).
AnswersAreEarned ==
    \A c, d \in Clients :
        answers[c][d] + wire[d][c]["plain"] <= written[d][c]

\* The messages that c may yet have to handle because of what d wrote: one, or
\* two if it is answered, for each that d typed, and the answers under way.
Due(c, d) == 2 * wire[d][c]["plain"] + wire[c][d]["auto"]

\* Without somebody typing every exchange runs down: no step makes more of it,
\* and every message that comes to an end makes less, however many clients
\* are away at once (getmessage, imcomm_im_send_message).
ExchangesRunDown ==
    [][total' = total =>
         /\ \A c, d \in Clients : Due(c, d)' <= Due(c, d)
         /\ wire' # wire => \E c, d \in Clients : Due(c, d)' < Due(c, d)]_vars

\* No sender is answered twice before the user presses Enter (getmessage's
\* foundWaiting, the waiting list that the event loop clears).
OneAnswer ==
    [][\A c, d \in Clients :
          answers'[c][d] # answers[c][d] => d \notin answered[c]]_vars

\* While the user is away every sender on the waiting list has been told so,
\* unless an automatic reply put it there: going away needs an Enter, which
\* clears the list of those who wrote before (input_set_away, getmessage).
SendersAreTold ==
    \A c \in Clients :
        isaway[c] /\ ~respond_idle_only[c] =>
            waiting[c] \subseteq answered[c] \cup autofirst[c]
=============================================================================
