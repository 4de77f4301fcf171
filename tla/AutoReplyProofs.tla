--------------------------- MODULE AutoReplyProofs ---------------------------
(***************************************************************************)
(* Proofs about AutoReply, for any set of clients and any bound on what    *)
(* their users write.  Beside the properties, the invariant says that who  *)
(* was answered since the last Enter is still on the waiting list: it is   *)
(* why nobody is answered twice.                                           *)
(***************************************************************************)
EXTENDS AutoReply, TLAPS

AnsweredWait == \A c \in Clients : answered[c] \subseteq waiting[c]

IInv == TypeOK /\ AnswersAreEarned /\ AnsweredWait /\ SendersAreTold

\* One step of Next, as a property of the state it starts from.
OneAnswerStep ==
    \A c, d \in Clients : answers'[c][d] # answers[c][d] => d \notin answered[c]

\* The invariant holds at the start.
LEMMA InitInv == Init => IInv
<1> SUFFICES ASSUME Init PROVE IInv
  OBVIOUS
<1>1. TypeOK
  BY BoundAssumption DEF Init, TypeOK
<1>2. AnswersAreEarned
  BY DEF Init, AnswersAreEarned, Kinds
<1>3. AnsweredWait /\ SendersAreTold
  BY DEF Init, AnsweredWait, SendersAreTold
<1> QED BY <1>1, <1>2, <1>3 DEF IInv

\* Taking a message that is under way leaves a wire of the same type, and
\* one message fewer of its kind.
LEMMA TakenType ==
    ASSUME TypeOK, NEW c \in Clients, NEW d \in Clients, NEW kind \in Kinds,
           wire[d][c][kind] > 0
    PROVE  /\ Taken(d, c, kind) \in [Clients -> [Clients -> [Kinds -> Nat]]]
           /\ \A x, y \in Clients, k \in Kinds :
                 Taken(d, c, kind)[x][y][k] =
                   IF x = d /\ y = c /\ k = kind THEN wire[x][y][k] - 1
                                                 ELSE wire[x][y][k]
<1>1. wire \in [Clients -> [Clients -> [Kinds -> Nat]]]
  BY DEF TypeOK
<1>2. wire[d][c][kind] - 1 \in Nat
  BY <1>1
<1>3. [wire[d][c] EXCEPT ![kind] = @ - 1] \in [Kinds -> Nat]
  BY <1>1, <1>2
<1>4. [wire[d] EXCEPT ![c] = [wire[d][c] EXCEPT ![kind] = wire[d][c][kind] - 1]]
         \in [Clients -> [Kinds -> Nat]]
  BY <1>1, <1>3
<1> QED BY <1>1, <1>4 DEF Taken

\* Sending leaves a wire of the same type.
LEMMA SendType ==
    ASSUME NEW w \in [Clients -> [Clients -> [Kinds -> Nat]]],
           NEW c \in Clients, NEW d \in Clients, NEW kind \in Kinds, NEW n \in Nat
    PROVE  imcomm_im_send_message(w, c, d, kind, n)
              \in [Clients -> [Clients -> [Kinds -> Nat]]]
<1>1. w[c][d][kind] + n \in Nat
  OBVIOUS
<1>2. [w[c][d] EXCEPT ![kind] = @ + n] \in [Kinds -> Nat]
  BY <1>1
<1>3. [w[c] EXCEPT ![d] = [w[c][d] EXCEPT ![kind] = w[c][d][kind] + n]]
         \in [Clients -> [Kinds -> Nat]]
  BY <1>2
<1> QED BY <1>3 DEF imcomm_im_send_message

\* A message that arrives.
LEMMA GetMessage ==
    ASSUME IInv, NEW c \in Clients, NEW d \in Clients, NEW kind \in Kinds,
           getmessage(c, d, kind)
    PROVE  IInv' /\ OneAnswerStep
<1> DEFINE W == Taken(d, c, kind)
<1> DEFINE Answers == d \notin waiting[c] /\ MayAnswer(c, kind)
<1>1. TypeOK /\ wire[d][c][kind] > 0
  BY DEF IInv, getmessage
<1>2. W \in [Clients -> [Clients -> [Kinds -> Nat]]]
  BY <1>1, TakenType
<1>3. \A x, y \in Clients, k \in Kinds :
         W[x][y][k] = IF x = d /\ y = c /\ k = kind THEN wire[x][y][k] - 1
                                                    ELSE wire[x][y][k]
  BY <1>1, TakenType
<1>4. "plain" \in Kinds /\ "auto" \in Kinds
  BY DEF Kinds
<1>5. /\ wire' \in [Clients -> [Clients -> [Kinds -> Nat]]]
      /\ \A x, y \in Clients : wire'[x][y]["plain"] = W[x][y]["plain"]
  <2>1. CASE Answers
    <3>1. wire' = imcomm_im_send_message(W, c, d, "auto", 1)
      BY <2>1 DEF getmessage
    <3> HIDE DEF W
    <3>2. imcomm_im_send_message(W, c, d, "auto", 1)
             \in [Clients -> [Clients -> [Kinds -> Nat]]]
      BY <1>2, <1>4, SendType
    <3>3. \A x, y \in Clients, k \in Kinds :
             imcomm_im_send_message(W, c, d, "auto", 1)[x][y][k] =
               IF x = c /\ y = d /\ k = "auto" THEN W[x][y][k] + 1
                                               ELSE W[x][y][k]
      BY <1>2, <1>4 DEF imcomm_im_send_message
    <3> QED BY <3>1, <3>2, <3>3, <1>4
  <2>2. CASE ~Answers
    BY <2>2, <1>2 DEF getmessage
  <2> QED BY <2>1, <2>2
<1>6. /\ answers' \in [Clients -> [Clients -> Nat]]
      /\ \A x, y \in Clients :
            answers'[x][y] = IF Answers /\ x = c /\ y = d
                             THEN answers[x][y] + 1 ELSE answers[x][y]
  <2>1. CASE Answers
    <3>1. answers' = [answers EXCEPT ![c][d] = @ + 1]
      BY <2>1 DEF getmessage
    <3>2. [answers[c] EXCEPT ![d] = @ + 1] \in [Clients -> Nat]
      BY <1>1 DEF TypeOK
    <3> QED BY <3>1, <3>2, <2>1, <1>1 DEF TypeOK
  <2>2. CASE ~Answers
    BY <2>2, <1>1 DEF getmessage, TypeOK
  <2> QED BY <2>1, <2>2
<1>7. /\ waiting' = [waiting EXCEPT ![c] = @ \cup {d}]
      /\ autofirst' = IF d \notin waiting[c] /\ kind = "auto"
                      THEN [autofirst EXCEPT ![c] = @ \cup {d}] ELSE autofirst
      /\ answered' = IF Answers THEN [answered EXCEPT ![c] = @ \cup {d}]
                                ELSE answered
      /\ UNCHANGED <<isaway, isidle, respond_idle_only, written, total>>
  BY DEF getmessage
<1> HIDE DEF W
<1>8. TypeOK'
  BY <1>1, <1>5, <1>6, <1>7 DEF TypeOK
<1>9. AnswersAreEarned'
  <2> SUFFICES ASSUME NEW x \in Clients, NEW y \in Clients
               PROVE  answers'[x][y] + wire'[y][x]["plain"] <= written'[y][x]
    BY DEF AnswersAreEarned
  <2>1. answers[x][y] + wire[y][x]["plain"] <= written[y][x]
    BY DEF IInv, AnswersAreEarned
  <2>2. /\ answers[x][y] \in Nat /\ written[y][x] \in Nat
        /\ wire[y][x]["plain"] \in Nat
    BY <1>1, <1>4 DEF TypeOK
  <2>3. Answers => kind = "plain"
    BY DEF MayAnswer
  <2>4. wire'[y][x]["plain"] = IF y = d /\ x = c /\ "plain" = kind
                               THEN wire[y][x]["plain"] - 1
                               ELSE wire[y][x]["plain"]
    BY <1>3, <1>4, <1>5
  <2>5. answers'[x][y] = IF Answers /\ x = c /\ y = d
                         THEN answers[x][y] + 1 ELSE answers[x][y]
    BY <1>6
  <2>6. written' = written
    BY <1>7
  <2> HIDE DEF Answers
  <2> QED BY <2>1, <2>2, <2>3, <2>4, <2>5, <2>6
<1>10. AnsweredWait'
  BY <1>1, <1>7 DEF IInv, AnsweredWait, TypeOK
<1>11. SendersAreTold'
  BY <1>1, <1>7 DEF IInv, SendersAreTold, TypeOK, MayAnswer, Kinds
<1>12. OneAnswerStep
  BY <1>1, <1>6 DEF IInv, OneAnswerStep, AnsweredWait, TypeOK
<1> QED BY <1>8, <1>9, <1>10, <1>11, <1>12 DEF IInv

\* A message that nobody sees.
LEMMA UnseenStep ==
    ASSUME IInv, NEW c \in Clients, NEW d \in Clients, NEW kind \in Kinds,
           Unseen(c, d, kind)
    PROVE  IInv' /\ OneAnswerStep
<1>1. TypeOK /\ wire[d][c][kind] > 0
  BY DEF IInv, Unseen
<1>2. /\ wire' \in [Clients -> [Clients -> [Kinds -> Nat]]]
      /\ \A x, y \in Clients, k \in Kinds :
            wire'[x][y][k] = IF x = d /\ y = c /\ k = kind
                             THEN wire[x][y][k] - 1 ELSE wire[x][y][k]
  BY <1>1, TakenType DEF Unseen
<1>3. UNCHANGED <<isaway, isidle, respond_idle_only, waiting, written,
                  answers, total, answered, autofirst>>
  BY DEF Unseen
<1>4. TypeOK'
  BY <1>1, <1>2, <1>3 DEF TypeOK
<1>5. AnswersAreEarned'
  <2> SUFFICES ASSUME NEW x \in Clients, NEW y \in Clients
               PROVE  answers[x][y] + wire'[y][x]["plain"] <= written[y][x]
    BY <1>3 DEF AnswersAreEarned
  <2>1. answers[x][y] + wire[y][x]["plain"] <= written[y][x]
    BY DEF IInv, AnswersAreEarned
  <2>2. /\ answers[x][y] \in Nat /\ written[y][x] \in Nat
        /\ wire[y][x]["plain"] \in Nat
    BY <1>1 DEF TypeOK, Kinds
  <2>3. wire'[y][x]["plain"] = wire[y][x]["plain"]
        \/ wire'[y][x]["plain"] = wire[y][x]["plain"] - 1
    BY <1>2 DEF Kinds
  <2> QED BY <2>1, <2>2, <2>3
<1>6. AnsweredWait' /\ SendersAreTold' /\ OneAnswerStep
  BY <1>3 DEF IInv, AnsweredWait, SendersAreTold, OneAnswerStep
<1> QED BY <1>4, <1>5, <1>6 DEF IInv

\* Enter forgets who is waiting: the part of the invariant about the list.
LEMMA EnterStep ==
    ASSUME IInv, NEW c \in Clients, Enter(c), isaway' \in [Clients -> BOOLEAN],
           \A x \in Clients : x # c => isaway'[x] = isaway[x]
    PROVE  /\ AnsweredWait' /\ SendersAreTold' /\ OneAnswerStep
           /\ isidle' \in [Clients -> BOOLEAN]
           /\ respond_idle_only' \in [Clients -> BOOLEAN]
           /\ waiting' \in [Clients -> SUBSET Clients]
           /\ answered' \in [Clients -> SUBSET Clients]
           /\ autofirst' \in [Clients -> SUBSET Clients]
           /\ answers' = answers
<1>1. TypeOK
  BY DEF IInv
<1>2. \A x \in Clients :
         /\ waiting'[x] = (IF x = c THEN {} ELSE waiting[x])
         /\ answered'[x] = (IF x = c THEN {} ELSE answered[x])
         /\ autofirst'[x] = (IF x = c THEN {} ELSE autofirst[x])
  BY <1>1 DEF Enter, TypeOK
<1>3. AnsweredWait'
  BY <1>2 DEF IInv, AnsweredWait
<1>4. SendersAreTold'
  BY <1>2 DEF IInv, SendersAreTold, Enter
<1>5. OneAnswerStep
  BY DEF Enter, OneAnswerStep
<1> QED BY <1>1, <1>3, <1>4, <1>5 DEF Enter, TypeOK

\* A command that sends n messages of the user.
LEMMA WriteStep ==
    ASSUME IInv, NEW c \in Clients, NEW d \in Clients, NEW n \in Nat,
           Write(c, d, n), Enter(c)
    PROVE  IInv' /\ OneAnswerStep
<1>1. TypeOK /\ "plain" \in Kinds
  BY DEF IInv, Kinds
<1>2. wire \in [Clients -> [Clients -> [Kinds -> Nat]]]
  BY <1>1 DEF TypeOK
<1>3. wire' = imcomm_im_send_message(wire, c, d, "plain", n)
  BY DEF Write
<1>4. wire' \in [Clients -> [Clients -> [Kinds -> Nat]]]
  BY <1>1, <1>2, <1>3, SendType
<1>5. \A x, y \in Clients, k \in Kinds :
         wire'[x][y][k] = IF x = c /\ y = d /\ k = "plain"
                          THEN wire[x][y][k] + n ELSE wire[x][y][k]
  BY <1>1, <1>2, <1>3 DEF imcomm_im_send_message
<1>6. /\ written' \in [Clients -> [Clients -> Nat]]
      /\ \A x, y \in Clients :
            written'[x][y] = IF x = c /\ y = d THEN written[x][y] + n
                                               ELSE written[x][y]
  <2>1. written' = [written EXCEPT ![c][d] = @ + n]
    BY DEF Write
  <2>2. [written[c] EXCEPT ![d] = @ + n] \in [Clients -> Nat]
    BY <1>1 DEF TypeOK
  <2> QED BY <2>1, <2>2, <1>1 DEF TypeOK
<1>7. total' \in 0..MaxWritten /\ isaway' = isaway
  BY <1>1, BoundAssumption DEF Write, TypeOK
<1>8. /\ AnsweredWait' /\ SendersAreTold' /\ OneAnswerStep
      /\ isidle' \in [Clients -> BOOLEAN]
      /\ respond_idle_only' \in [Clients -> BOOLEAN]
      /\ waiting' \in [Clients -> SUBSET Clients]
      /\ answered' \in [Clients -> SUBSET Clients]
      /\ autofirst' \in [Clients -> SUBSET Clients]
      /\ answers' = answers
  BY <1>1, <1>7, EnterStep DEF TypeOK
<1>9. TypeOK'
  BY <1>1, <1>4, <1>6, <1>7, <1>8 DEF TypeOK
<1>10. AnswersAreEarned'
  <2> SUFFICES ASSUME NEW x \in Clients, NEW y \in Clients
               PROVE  answers[x][y] + wire'[y][x]["plain"] <= written'[y][x]
    BY <1>8 DEF AnswersAreEarned
  <2>1. answers[x][y] + wire[y][x]["plain"] <= written[y][x]
    BY DEF IInv, AnswersAreEarned
  <2>2. /\ answers[x][y] \in Nat /\ written[y][x] \in Nat
        /\ wire[y][x]["plain"] \in Nat
    BY <1>1 DEF TypeOK
  <2>3. wire'[y][x]["plain"] = IF y = c /\ x = d
                               THEN wire[y][x]["plain"] + n
                               ELSE wire[y][x]["plain"]
    BY <1>1, <1>5
  <2>4. written'[y][x] = IF y = c /\ x = d THEN written[y][x] + n
                                           ELSE written[y][x]
    BY <1>6
  <2> QED BY <2>1, <2>2, <2>3, <2>4
<1> QED BY <1>8, <1>9, <1>10 DEF IInv

\* A command that sends nothing to anybody.
LEMMA CommandStep ==
    ASSUME IInv, NEW c \in Clients, Enter(c), UNCHANGED <<wire, written, total>>,
           isaway' \in [Clients -> BOOLEAN],
           \A x \in Clients : x # c => isaway'[x] = isaway[x]
    PROVE  IInv' /\ OneAnswerStep
<1>1. TypeOK
  BY DEF IInv
<1>2. /\ AnsweredWait' /\ SendersAreTold' /\ OneAnswerStep
      /\ isidle' \in [Clients -> BOOLEAN]
      /\ respond_idle_only' \in [Clients -> BOOLEAN]
      /\ waiting' \in [Clients -> SUBSET Clients]
      /\ answered' \in [Clients -> SUBSET Clients]
      /\ autofirst' \in [Clients -> SUBSET Clients]
      /\ answers' = answers
  BY EnterStep
<1>3. TypeOK'
  BY <1>1, <1>2 DEF TypeOK
<1>4. AnswersAreEarned'
  BY <1>2 DEF IInv, AnswersAreEarned
<1> QED BY <1>2, <1>3, <1>4 DEF IInv

\* The end of the program and its next start.
LEMMA RestartStep ==
    ASSUME IInv, NEW c \in Clients, restart(c)
    PROVE  IInv' /\ OneAnswerStep
<1>1. TypeOK
  BY DEF IInv
<1>2. /\ isaway' = [isaway EXCEPT ![c] = FALSE]
      /\ isidle' = [isidle EXCEPT ![c] = FALSE]
      /\ waiting' = [waiting EXCEPT ![c] = {}]
      /\ answered' = [answered EXCEPT ![c] = {}]
      /\ autofirst' = [autofirst EXCEPT ![c] = {}]
      /\ UNCHANGED <<wire, written, answers, total>>
  BY DEF restart
<1>3. PICK b \in BOOLEAN :
         respond_idle_only' = [respond_idle_only EXCEPT ![c] = b]
  BY DEF restart
<1>4. TypeOK'
  BY <1>1, <1>2, <1>3 DEF TypeOK
<1>5. AnswersAreEarned' /\ OneAnswerStep
  BY <1>2 DEF IInv, AnswersAreEarned, OneAnswerStep
<1>6. AnsweredWait'
  BY <1>1, <1>2 DEF IInv, AnsweredWait, TypeOK
<1>7. SendersAreTold'
  <2> SUFFICES ASSUME NEW x \in Clients, isaway'[x], ~respond_idle_only'[x]
               PROVE  waiting'[x] \subseteq answered'[x] \cup autofirst'[x]
    BY DEF SendersAreTold
  <2>1. x # c
    BY <1>1, <1>2 DEF TypeOK
  <2> QED BY <2>1, <1>1, <1>2, <1>3 DEF IInv, SendersAreTold, TypeOK
<1> QED BY <1>4, <1>5, <1>6, <1>7 DEF IInv

\* Only isidle changes.
LEMMA IdleStep ==
    ASSUME IInv, NEW c \in Clients, keystroke(c) \/ check_idle(c)
    PROVE  IInv' /\ OneAnswerStep
<1>1. isidle' \in [Clients -> BOOLEAN]
  BY DEF IInv, TypeOK, keystroke, check_idle
<1>2. UNCHANGED <<isaway, respond_idle_only, waiting, wire, written, answers,
                  total, answered, autofirst>>
  BY DEF keystroke, check_idle
<1> QED BY <1>1, <1>2 DEF IInv, TypeOK, AnswersAreEarned, AnsweredWait,
                          SendersAreTold, OneAnswerStep

\* Every step keeps the invariant and answers only who has no answer yet.
LEMMA NextInv == IInv /\ [Next]_vars => IInv' /\ [OneAnswerStep]_vars
<1> SUFFICES ASSUME IInv, [Next]_vars
             PROVE  IInv' /\ [OneAnswerStep]_vars
  OBVIOUS
<1>1. ASSUME NEW c \in Clients, NEW d \in Clients, NEW kind \in Kinds,
             getmessage(c, d, kind) \/ Unseen(c, d, kind)
      PROVE  IInv' /\ OneAnswerStep
  BY <1>1, GetMessage, UnseenStep
<1>2. ASSUME NEW c \in Clients, NEW d \in Clients,
             input_send_message(c, d) \/ input_paste(c, d)
      PROVE  IInv' /\ OneAnswerStep
  <2>1. CASE input_send_message(c, d)
    BY <2>1, WriteStep DEF input_send_message
  <2>2. CASE input_paste(c, d)
    <3>1. PICK n \in 0..MaxWritten : Write(c, d, n)
      BY <2>2 DEF input_paste
    <3>2. n \in Nat /\ Enter(c)
      BY <2>2, <3>1, BoundAssumption DEF input_paste
    <3> QED BY <3>1, <3>2, WriteStep
  <2> QED BY <1>2, <2>1, <2>2
<1>3. ASSUME NEW c \in Clients, input_set_away(c) \/ input_set_predefaway(c)
                                \/ other_command(c)
      PROVE  IInv' /\ OneAnswerStep
  <2>1. Enter(c) /\ UNCHANGED <<wire, written, total>>
    BY <1>3 DEF input_set_away, input_set_predefaway, other_command
  <2>2. /\ isaway' \in [Clients -> BOOLEAN]
        /\ \A x \in Clients : x # c => isaway'[x] = isaway[x]
    BY <1>3 DEF IInv, TypeOK, input_set_away, input_set_predefaway,
                other_command
  <2> QED BY <2>1, <2>2, CommandStep
<1>4. ASSUME NEW c \in Clients, keystroke(c) \/ check_idle(c)
      PROVE  IInv' /\ OneAnswerStep
  BY <1>4, IdleStep
<1>5. ASSUME NEW c \in Clients, restart(c)
      PROVE  IInv' /\ OneAnswerStep
  BY <1>5, RestartStep
<1>6. CASE UNCHANGED vars
  BY <1>6 DEF vars, IInv, TypeOK, AnswersAreEarned, AnsweredWait, SendersAreTold
<1>7. CASE Next
  BY <1>7, <1>1, <1>2, <1>3, <1>4, <1>5 DEF Next
<1> QED BY <1>6, <1>7

\* What a message that arrives does to the wire: it is taken, and an answer may
\* be sent if a user typed it.
LEMMA GetWire ==
    ASSUME TypeOK, NEW c \in Clients, NEW d \in Clients, NEW kind \in Kinds,
           getmessage(c, d, kind)
    PROVE  \E n \in {0, 1} :
             /\ n = 1 => kind = "plain"
             /\ \A x, y \in Clients :
                  /\ wire'[x][y]["plain"] = wire[x][y]["plain"]
                       - (IF x = d /\ y = c /\ kind = "plain" THEN 1 ELSE 0)
                  /\ wire'[x][y]["auto"] = wire[x][y]["auto"]
                       - (IF x = d /\ y = c /\ kind = "auto" THEN 1 ELSE 0)
                       + (IF x = c /\ y = d THEN n ELSE 0)
<1> DEFINE W == Taken(d, c, kind)
<1>1. /\ wire[d][c][kind] > 0 /\ "plain" \in Kinds /\ "auto" \in Kinds
      /\ kind = "plain" \/ kind = "auto"
  BY DEF getmessage, Kinds
<1>2. /\ wire \in [Clients -> [Clients -> [Kinds -> Nat]]]
      /\ W \in [Clients -> [Clients -> [Kinds -> Nat]]]
      /\ \A x, y \in Clients, k \in Kinds :
            W[x][y][k] = IF x = d /\ y = c /\ k = kind THEN wire[x][y][k] - 1
                                                       ELSE wire[x][y][k]
  BY <1>1, TakenType DEF TypeOK
<1> HIDE DEF W
<1>3. CASE d \notin waiting[c] /\ MayAnswer(c, kind)
  <2>1. wire' = imcomm_im_send_message(W, c, d, "auto", 1) /\ kind = "plain"
    BY <1>3 DEF getmessage, MayAnswer, W
  <2>2. \A x, y \in Clients, k \in Kinds :
           wire'[x][y][k] = IF x = c /\ y = d /\ k = "auto" THEN W[x][y][k] + 1
                                                            ELSE W[x][y][k]
    BY <1>1, <1>2, <2>1 DEF imcomm_im_send_message
  <2>3. \A x, y \in Clients :
          /\ wire'[x][y]["plain"] = wire[x][y]["plain"]
               - (IF x = d /\ y = c /\ kind = "plain" THEN 1 ELSE 0)
          /\ wire'[x][y]["auto"] = wire[x][y]["auto"]
               - (IF x = d /\ y = c /\ kind = "auto" THEN 1 ELSE 0)
               + (IF x = c /\ y = d THEN 1 ELSE 0)
    BY <1>1, <1>2, <2>1, <2>2
  <2> QED BY <2>1, <2>3
<1>4. CASE ~(d \notin waiting[c] /\ MayAnswer(c, kind))
  <2>1. wire' = W
    BY <1>4 DEF getmessage, W
  <2>2. \A x, y \in Clients :
          /\ wire'[x][y]["plain"] = wire[x][y]["plain"]
               - (IF x = d /\ y = c /\ kind = "plain" THEN 1 ELSE 0)
          /\ wire'[x][y]["auto"] = wire[x][y]["auto"]
               - (IF x = d /\ y = c /\ kind = "auto" THEN 1 ELSE 0)
               + (IF x = c /\ y = d THEN 0 ELSE 0)
    BY <1>1, <1>2, <2>1
  <2> QED BY <2>2
<1> QED BY <1>3, <1>4

\* One step that ExchangesRunDown speaks of.
RunsDown ==
    total' = total =>
      /\ \A x, y \in Clients : Due(x, y)' <= Due(x, y)
      /\ wire' # wire => \E x, y \in Clients : Due(x, y)' < Due(x, y)

\* A message that comes to an end makes less of its exchange.
LEMMA MessageRunsDown ==
    ASSUME TypeOK, NEW c \in Clients, NEW d \in Clients, NEW kind \in Kinds,
           getmessage(c, d, kind) \/ Unseen(c, d, kind)
    PROVE  RunsDown
<1>1. \A x, y \in Clients : wire[x][y]["plain"] \in Nat /\ wire[x][y]["auto"] \in Nat
  BY DEF TypeOK, Kinds
<1>2. PICK n \in {0, 1} :
        /\ n = 1 => kind = "plain"
        /\ \A x, y \in Clients :
             /\ wire'[x][y]["plain"] = wire[x][y]["plain"]
                  - (IF x = d /\ y = c /\ kind = "plain" THEN 1 ELSE 0)
             /\ wire'[x][y]["auto"] = wire[x][y]["auto"]
                  - (IF x = d /\ y = c /\ kind = "auto" THEN 1 ELSE 0)
                  + (IF x = c /\ y = d THEN n ELSE 0)
  <2>1. CASE getmessage(c, d, kind)
    BY <2>1, GetWire
  <2>2. CASE Unseen(c, d, kind)
    <3>1. wire' = Taken(d, c, kind) /\ wire[d][c][kind] > 0
      BY <2>2 DEF Unseen
    <3>2. \A x, y \in Clients :
            /\ wire'[x][y]["plain"] = wire[x][y]["plain"]
                 - (IF x = d /\ y = c /\ kind = "plain" THEN 1 ELSE 0)
            /\ wire'[x][y]["auto"] = wire[x][y]["auto"]
                 - (IF x = d /\ y = c /\ kind = "auto" THEN 1 ELSE 0)
                 + (IF x = c /\ y = d THEN 0 ELSE 0)
      BY <1>1, <3>1, TakenType DEF Kinds
    <3> QED BY <3>2
  <2> QED BY <2>1, <2>2
<1>3. \A x, y \in Clients :
         /\ Due(x, y) = 2 * wire[y][x]["plain"] + wire[x][y]["auto"]
         /\ Due(x, y)' = 2 * wire'[y][x]["plain"] + wire'[x][y]["auto"]
  BY DEF Due
<1>4. kind = "plain" \/ kind = "auto"
  BY DEF Kinds
<1>5. \A x, y \in Clients : Due(x, y)' <= Due(x, y)
  BY <1>1, <1>2, <1>3, <1>4
<1>6. CASE kind = "plain"
  <2>1. Due(c, d)' < Due(c, d)
    BY <1>1, <1>2, <1>3, <1>6
  <2> QED BY <1>5, <2>1 DEF RunsDown
<1>7. CASE kind = "auto"
  <2>1. Due(d, c)' < Due(d, c)
    BY <1>1, <1>2, <1>3, <1>7
  <2> QED BY <1>5, <2>1 DEF RunsDown
<1> QED BY <1>4, <1>6, <1>7

\* Without a message typed, nothing else changes what is under way.
LEMMA OthersRunDown == ASSUME TypeOK, wire' = wire PROVE RunsDown
<1>1. \A x, y \in Clients : wire[x][y]["plain"] \in Nat /\ wire[x][y]["auto"] \in Nat
  BY DEF TypeOK, Kinds
<1> QED BY <1>1 DEF RunsDown, Due

LEMMA WriteRunsDown ==
    ASSUME TypeOK, NEW c \in Clients, NEW d \in Clients, NEW n \in Nat, Write(c, d, n)
    PROVE  RunsDown
<1> SUFFICES ASSUME total' = total PROVE wire' = wire
  BY OthersRunDown DEF RunsDown
<1>1. total \in Nat /\ total' = total + n
  BY BoundAssumption DEF TypeOK, Write
<1>2. n = 0
  BY <1>1
<1>3. wire \in [Clients -> [Clients -> [Kinds -> Nat]]] /\ "plain" \in Kinds
  BY DEF TypeOK, Kinds
<1>4. wire' = [wire EXCEPT ![c] = [wire[c] EXCEPT ![d] = [wire[c][d] EXCEPT
                               !["plain"] = wire[c][d]["plain"] + 0]]]
  BY <1>2 DEF Write, imcomm_im_send_message
<1>5. wire[c][d]["plain"] + 0 = wire[c][d]["plain"]
  BY <1>3
<1>6. [wire[c][d] EXCEPT !["plain"] = wire[c][d]["plain"] + 0] = wire[c][d]
  BY <1>3, <1>5
<1>7. [wire[c] EXCEPT ![d] = [wire[c][d] EXCEPT !["plain"] = wire[c][d]["plain"] + 0]]
        = wire[c]
  BY <1>3, <1>6
<1> QED BY <1>3, <1>4, <1>7

\* An exchange that nobody types into runs down.
LEMMA NextRunsDown == TypeOK /\ [Next]_vars => [RunsDown]_vars
<1> SUFFICES ASSUME TypeOK, Next PROVE RunsDown
  OBVIOUS
<1>1. ASSUME NEW c \in Clients, NEW d \in Clients, input_send_message(c, d)
      PROVE  RunsDown
  BY <1>1, WriteRunsDown DEF input_send_message
<1>2. ASSUME NEW c \in Clients, NEW d \in Clients, input_paste(c, d)
      PROVE  RunsDown
  <2>1. PICK n \in 0..MaxWritten : Write(c, d, n)
    BY <1>2 DEF input_paste
  <2> QED BY <2>1, BoundAssumption, WriteRunsDown
<1>3. ASSUME NEW c \in Clients,
             \/ keystroke(c) \/ check_idle(c) \/ input_set_away(c)
             \/ input_set_predefaway(c) \/ other_command(c) \/ restart(c)
      PROVE  RunsDown
  <2>1. wire' = wire
    BY <1>3 DEF keystroke, check_idle, input_set_away, input_set_predefaway,
                other_command, restart
  <2> QED BY <2>1, OthersRunDown
<1> QED BY <1>1, <1>2, <1>3, MessageRunsDown DEF Next

\* The list, the flags and the counters keep their types.
THEOREM TypeCorrect == Spec => []TypeOK
<1>1. IInv => TypeOK
  BY DEF IInv
<1> QED BY InitInv, NextInv, <1>1, PTL DEF Spec

\* Clients never answer answers: a client has answered at most what the
\* other's user has typed and is not still under way (getmessage).
THEOREM NoEndlessExchange == Spec => []AnswersAreEarned
<1>1. IInv => AnswersAreEarned
  BY DEF IInv
<1> QED BY InitInv, NextInv, <1>1, PTL DEF Spec

\* While the user is away, whoever is on the waiting list was told so or
\* came there by an automatic reply (getmessage, input_set_away).
THEOREM SendersKnow == Spec => []SendersAreTold
<1>1. IInv => SendersAreTold
  BY DEF IInv
<1> QED BY InitInv, NextInv, <1>1, PTL DEF Spec

\* Between two Enters nobody is answered twice (getmessage's waiting list).
THEOREM AnsweredOnce == Spec => OneAnswer
<1>1. [OneAnswerStep]_vars =>
        [\A c, d \in Clients :
            answers'[c][d] # answers[c][d] => d \notin answered[c]]_vars
  BY DEF OneAnswerStep
<1> QED BY InitInv, NextInv, <1>1, PTL DEF Spec, OneAnswer

\* Away clients come to an end with each other: without somebody typing no
\* step makes more of an exchange, and every message that is handled makes less.
THEOREM AwayClientsFallSilent == Spec => ExchangesRunDown
<1>1. [RunsDown]_vars =>
        [total' = total =>
           /\ \A c, d \in Clients : Due(c, d)' <= Due(c, d)
           /\ wire' # wire => \E c, d \in Clients : Due(c, d)' < Due(c, d)]_vars
  BY DEF RunsDown
<1> QED BY TypeCorrect, NextRunsDown, <1>1, PTL DEF Spec, ExchangesRunDown
=============================================================================
