# bsflite-otr in TLA+

bsflite is a terminal client for the AIM service (OSCAR protocol), with
off-the-record messaging. It is one C program of two parts:

* the library **IMComm** (`src/imcomm/`): connections ("handles"), the
  protocol, and a list of the buddies that are online, one per handle;
* the **program** (`src/*.c`): the terminal, the commands, the buddy list the
  user sees, away messages, OTR, configuration and logs.

The program calls the library; the library calls back (`IMCOMM_*` callbacks
registered in `create_new_connection`). There is one thread that runs the event
loop, plus one that generates OTR keys, plus signal handlers. Almost everything
that is hard about this code comes from **state that exists twice**, once in
the library's handle and once in the program, while handles come and go.

Contents: 1 inventory, 2 modules, 3 runs and bounds, 4 findings, 5 proofs,
6 what is only model-checked, 7 what is not modelled, 8 plan.

## 1. Inventory

| Component | State | Operations | Hard behaviour | What makes it correct |
|---|---|---|---|---|
| Presence lists (`imcomm/imcomm.c`, `imcomm/snac.c`, `aim.c`) | `handle->buddies_online`; global `buddylist`, `conn->buddiesonline` | sign-on, sign-off and message packets, command `d`, end of a session | the library decides from its list which callback changes the program's list | both lists hold the same names with the same state; sorted, counted, announced; nothing of an old session is shown |
| Event loop and handles (`bsf.c`, `imcomm/imcomm.c`, `conn.c`, `imcomm/ssl.c`, `imcomm/flap.c`) | library list of handles, `conn->clist`, `conn->conn`, `nodes_to_delete`, each handle's socket and TLS session | `imcomm_select`, trimming, dialling, `R!`, `q!`, SIGUSR1, keepalives | a callback creates a handle while another is being freed; failures at every call; signals in blocking calls | nothing dangles, no mark is lost, one connection at a time, a lost session is replaced and a stolen one is not |
| Own status (`input.c`, `imcomm/imcomm.c`, `imcomm/snac.c`, `bsf.c`, `otr.c`) | `conn->isaway/awaymsg/isinvisible/isidle`, the same in the handle, the same at the server | `g`, `G`, `v`, `z!`, keys, idle check, OTR's own messages | three copies, two thresholds, reconnections between any two commands | the server shows what the program says it shows |
| Messages and automatic replies (`aim.c`, `input.c`, `bsf.c`) | `waiting`, `conn->isaway`, `conn->lastsn` | incoming message, `m`, `p`, Enter | two clients that are both away | no endless exchange, one answer per sender, nobody is forgotten |
| Sign-on protocol (`imcomm/bos_signon.c`, `imcomm/snac.c`) | `handle->connected`, the cookie, what was asked | two connections: authorizer, then BOS; one packet leads to the next | answers in the order the server chooses, writes that fail, several packets in one TLS record, a roster in parts | nothing is asked before what it builds on; the program is told the truth; the sign-on ends |
| Buddy roster on the server, SSI (`imcomm/snac.c`, `input.c`) | `handle->buddylist` with group and number of each item | list packet, commands `a` and `d` | numbers chosen from the local list, answers nobody reads, a group that is never set | server and client agree on who is stored under which number; removing somebody removes nobody else |
| OTR (`otr.c`, `input.c`, `aim.c`, `log.c`) | `buddy->otr`, `buddy->otr_context`, libotr's contexts, `key_gen_state` | messages, `o`, `O`, `s`, `S`, `M`, key generation in a second thread | list nodes die while contexts live; two threads | labels and the log follow what was encrypted; what is typed to an active node never goes out in the clear |
| FLAP framing (`imcomm/flap.c`, `imcomm/packet.c`) | `handle->seqnum`, buffers | `flap_send`, `flap_sendMulti`, `flap_decode` | wrap at 2^16, failed writes, batches | the server sees sequence numbers without a gap |
| Line editor and commands (`bsf.c`, `input.c`) | `inputbuf[512]`, `istyping`, `rawinput`, `lastsn`; the buffers of paste mode | keys, HTML escapes, TAB, `r`, `I`, `L`, Enter, paste | limits, messages that arrive while typing, an unsigned count | a line stays within its buffer; `r` answers whom it should; a paste is sent whole, in order, in messages that fit |
| Proxies (`imcomm/proxy.c`) | - | SOCKS5 and HTTPS connect | failure at each read | - |
| Icon upload, child handles | child handles | never asked for by this program | trimming of several handles | - |
| Config, away messages, log, screen, netspeak | files, colours | straight-line code | - | - |
| Message queue, send queues | - | not compiled (`MESSAGE_QUEUE`, `SEND_QUEUES`) | - | - |

### How components interact

* *Packets.* `imcomm_select` reads at most one packet per handle and turn;
  `snac_decode` updates the library's state and calls the program back. A
  handler runs to its end with all its callbacks, so **one packet is one atomic
  step**, except for the blocking calls in it (connecting, sleeping before a
  reconnection), where signals arrive.
* *Keys.* One key per turn of the loop; Enter runs a command, which calls the
  library, which sends.
* *Marking and trimming.* A read error calls `error_callback`, which marks the
  handle; at the beginning of the next `imcomm_select`, `remove_deleted_handles`
  calls `handle_deleted`, which empties the program's list and, with
  `auto_reconnect`, opens the next connection **before** the old handle is
  unlinked and freed.
* *Shared state.* `conn` and `buddylist` are read and written by callbacks,
  commands and the SIGUSR1 handler without further ceremony.

## 2. Modules

| Module | Models | Uses |
|---|---|---|
| `PresenceAbs` | abstract specification: one map from names to what is shown | |
| `Presence` | the two buddy lists, packet by packet | refines `PresenceAbs` and `Link` |
| `Link` | abstract specification: the connection as the lists see it | |
| `Login` | abstract specification: the stages of a sign-on as the program is told of them | `Link` |
| `Session` | handles, the event loop, dialling, losing, reconnecting, signals | refines `Login` and `Link` |
| `SignOn` | the packets of a sign-on, sequence numbers, TLS records | refines `Login` |
| `Status` | the three copies of the user's status | |
| `AutoReply` | several clients that answer for their users | |
| `InputLine` | the line editor, whom `r` answers, paste mode | |
| `Roster` | the buddy list that the server stores | |
| `Otr` | conversations, their labels, the log, the key thread | |
| `MCPresence`, `MCStatus`, `MCAutoReply`, `MCRoster` | values for TLC | |
| `PresenceProofs`, `SessionProofs`, `SignOnProofs`, `StatusProofs`, `AutoReplyProofs`, `InputLineProofs`, `RosterProofs`, `OtrProofs` | theorems | |

Actions and operators bear the names of the C functions they model. Operators
with a comment that begins with "Fault:" are defective variants of the
definition that follows them; no specification uses them. Putting one in the
place of the definition breaks the property that guards against it, which shows
that the property depends on the code.

How the modules compose: `Login` is what the rest of the program may rely on.
`Session` (event loop, handles) and `SignOn` (packets) describe the same sign-on
at two grains, and both are shown to keep to it. `Roster` and `Status` have the
stages of a connection as a variable, whose steps are proved to be `Login`'s.
`Presence` needs only `Link`, the coarser view of a connection that `Session`
also keeps to, and `Otr` only one action of it (`delete_buddylist`).

### Presence

`buddies_online` and `buddylist` are sequences in the order of the C lists.
Names are spellings; `simplify_sn` maps them to numbers, whose order stands for
`strcmp`'s. `snac_get_signon` is the library's decision, `SignonAgain` or
`SignonNew`; the program's callbacks `buddy_online`, `buddy_idle`, `buddy_away`,
`buddy_unaway`, `buddy_offline` and `remove_from_list` are functions on the
list that the actions compose in the order of the calls. `told` is what somebody
who reads the notices on the terminal believes; `ev` is the last event, which
`PresenceAbs` reads too. `link` is the connection: the only thing that Presence
needs to know of Session, and both modules are shown to refine `Link`, which is
how they compose.

### Session

`pc` is the place of the single thread. The blocking places are `start` (the
prompts), `dial`, `sleep` and `poll`. `Ids` are the addresses that malloc may
return; a freed one can come back. `handles` is the library's list, `clist` the
program's; `to_delete`, `socket`, `ssl` and `stage` are the fields of a handle
that any condition in the code asks for. `connect_ssl` has the four outcomes
that leave different fields set. Using a TLS session that was never made or was
freed is undefined: the step crashes or goes on. `spin` is a loop of the code
that has no end, `crashed` a dereference of NULL or of garbage, `killed`
SIGPIPE, `exited` the end of `q!`.

The sockets have no timeouts, so a handshake, a write, or the rest of a packet
may keep the thread for ever: `handshake_hangs`, `flap_hangs` and one outcome of
`flap_send` lead to `hung`. `Held` are `spin` and `hung`, where the process lives
and does nothing but handle SIGUSR1; `Stopped` are the places where it has
ended. The constant `otr` is the configuration option of that name: without it
`init_otr` is not called, and the callback for the first buddy who signs on asks
libotr for a context in a `userstate` that is NULL (`snac_get_signon` of this
module). The other modules take a program that gets beyond that.

`Session.link` reads the abstract connection off `conn->clist`, and
`Session.stage` the stage that `Login` names. In the configuration of the run
all outcomes of connecting, orderly ends of TLS sessions, SIGUSR1 and SIGPIPE
are possible at once.

### SignOn

Packets are named by family and subtype, `"13/04"`. `out` is the sending side:
the next sequence number, the frames on the wire, whether the connection is
broken, how many packets of batches were lost, how many writes failed. A
`flap_send` that reports an error uses up no number; a `flap_sendMulti` that
fails uses up the numbers of its batch, and nobody looks at its result.
`inbox` holds packets on their way to the client, `first` marking the first one
of a TLS record: select sees only those. The server is external. It reads in
order, closes on a number that is not the next one, answers in any order, may
send the roster in parts and several packets in one record.
`messages` are packets that the user or the keepalive send meanwhile.

### Status

`isaway`, `awaymsg`, `isinvisible` and `isidle` are `conn`'s, `handle` is the
library's copy and `server` what the server shows. Time counts in units of five
minutes, on two clocks: `age` is the time since `last_keystroke_time`, which only
a key that `main` reads sets, and `quiet` the time since the user pressed any
key. They part when keys are read elsewhere (`ReadElsewhere`): by `bsf_getline` in
`input_paste`, or by the password prompt of `R!` with a name. `pasted` says that
the last key was such a one. A command is an action whose guard `Typed` says that
the Enter that ended it was a key. `stage` tells when the server listens: status
is of use to the BOS server only, and the location-rights packet is what sends
the state of the handle again.

### AutoReply

Every client runs this program; the service between them is external, delivers
in any order and may drop messages. `wire[c][d]` counts what is under way, by
kind: the text does not matter, the mark "automatic" does. `waiting[c]` is the
waiting list as a set (its order is never used). `Enter` is the whole effect of
the key apart from the command: the idle flag, the list. `written`, `answers`,
`answered` and `autofirst` are history variables that only properties read,
`total` bounds the run.

### InputLine

`line` is a length, the addressee that `r`, `I`, `L` or TAB put at its
beginning, and whether it holds letters, only escapes, or what `L` put there.
Escapes of four, five and six characters have the guards of the code.
`addtoinputbuf` takes a letter unless the line has exactly `MaxLine` characters:
a line that has passed that length goes on growing, by what lies in memory
behind it as well, up to the bound `MaxOver` of the model. `paste` is paste
mode: what `bsf_getline` has read of a line, `sendbuf` as the numbers of the
lines in it, what was sent. A message that arrives (`getmessage`) sets `lastsn`
unless the flag says that somebody is typing. The server's limit is known when a
paste begins; without it the buffers have no size, and offline `input_paste`
fails like the commands of `session_offline`.

### Roster

A node is a name, a group and a number. `Unset`, 0, is the group of a node that
was added on this connection, since `imcomm_im_add_buddy` never writes the
field; a removal sends any group in its place. `wire` are batches that the
server has yet to apply, `list` parts of its list yet to be read. The server is
external: it refuses an addition whose place is taken, and the program does not
read the refusal. `early` and `odd` remember the two situations that break the
agreement (an addition before the list is complete; a removal of somebody added
on this connection), so that the properties can say that nothing else does.

### Otr

The configuration says `otr`. `node` is what the program keeps (`otr`, and
whether `otr_context` is set), `msgstate` and `fingerprint` what libotr keeps in
its context, which outlives the node. `shown` is the last message: how it went,
whether it ended the conversation (`last`), how it was labelled, whether it was
logged. libotr and the other side are external. The other side ends a
conversation inside an encrypted message, with or without a text: libotr has
finished the context and dropped its fingerprint (`Ended`) when `getmessage`
decides on the label and the log, so both read the new state. The program
registers `otr_insecure_cb`, but libotr does not call it then, and the notice
itself is thrown away (`aim.c:40`), so the node stays as it was. `thread` and
`newkey` are the key thread and the key it makes; its steps interleave with
everything else.

## 3. Runs and bounds

| Run | States | Question |
|---|---|---|
| `presence` | 14,718 | do the two lists, the counter and the notices agree, and do they implement `PresenceAbs`? |
| `session` | 734 | with every outcome, signal, broken pipe and orderly end: handles, one connection, the shown session, no fight for the account, `Login`, progress, and the only ways to hang or crash |
| `sign_on` | 338,754 | with failing writes, answers in any order and a wrap of the numbers: order, numbers, what the sign-on waits for, `Login`, and an end |
| `status` | 2,467 | do the three copies agree over reconnections? |
| `auto_reply` | 118,694 | do two clients that are away stop answering? |
| `input_line` | 18,030 | how does a line leave its buffer, whom does `r` answer, what becomes of a paste? |
| `roster` | 1,283,646 | does the server store whom the client lists? |
| `otr` | 11,662 | does anything private go out in the clear, do labels and log follow the encryption, and what can crash? |
| `session_offline`, `status_hidden`, `sign_on_stall`, `roster_delete` | - | one finding each, section 4 |

Bounds, and why they are enough:

* *Presence*: four spellings of three names and the idle times 0, 9 and 10. Three
  names give every place of an insertion (front, middle, end) and of a deletion;
  two spellings of one name exercise the simplification; 9 and 10 lie on both
  sides of the threshold. Nothing else is bounded: the lists are finite because
  names are unique on them.
* *Session*: three addresses. While `handle_deleted` redials two handles exist;
  the third makes it possible for malloc to return either a new or a used
  address. The state space is finite without further bounds. `session` sets
  `auto_reconnect` and `otr` (without which the program does not survive the first
  buddy), the finding `session_offline` neither; the proofs cover all values.
* *SignOn*: numbers from `FirstSeq` 5 to `MaxSeq` 8, so that they wrap within one
  sign-on and inside a batch (the code has 0x1000 and 0xFFFF); one failing write
  (`MaxFailures`), one packet besides the sign-on (`MaxMessages`), a roster of two
  parts (`MaxParts`), two packets on their way to the client (`MaxInbox`, which is
  what it takes to share a record). The proofs take any of these.
* *Status*: two messages, `idle_rep_time` 2 (ten minutes, the default) and
  `MaxAge` 4, which is beyond both thresholds on either clock.
* *AutoReply*: two clients, who may also write to themselves, and three messages
  typed (`MaxWritten`): one sender can write twice, with an Enter of the other in
  between or not, and the other can have written first. The two are
  interchangeable (symmetry); the symmetry is used for safety only.
* *InputLine*: two names of one character (`SnLen`), a line of 11 characters
  (`MaxLine`): room for an address and the longest escape, so that every guard
  is met from both sides; lines of up to 15 characters (`MaxOver`), so that one
  which has passed the end by one or two grows further; messages of 9 characters
  (`MaxSize`) and three pasted lines (`MaxPasted`), so that a buffer is joined,
  flushed and begun again.
* *Roster*: two names, two groups, three numbers (`MaxId`), three batches under
  way (`MaxSent`), one lost connection (`MaxLost`); the names are interchangeable.
* *Otr*: two names, one of whom can leave the list while the other talks.

`CHECK_DEADLOCK FALSE`: in the `session` runs the program stops in the places
`spin`, `hung`, `crashed`, `killed` and `exited`; a sign-on ends when its connection
is closed, and `otr` after a crash.

*Fairness.* `session` assumes weak fairness of `main`, the single thread as a
whole: the thread runs when it is ready. `select` waits at most 2.5 s; a call
that waits for the network without a timeout may return or not, and if it does
not the thread is `hung`, where `main` has no step and fairness asks nothing.
Nothing is assumed of the network, the user, or single actions: which
alternative `main` takes (a packet, an error, a key, to hang) is free. So
`LostReconnects` says that the loop gets to the reconnection on its own, not
that the server accepts it. `sign_on` assumes that the client dials and handles
packets that select shows it (the same thread), and that the server reads what
it is sent and answers each request. It does not assume that it answers in
records of their own.

What the passing runs state:

* `ListsAgree`, `ListSorted`, `CountExact`, `NoticesTellTheList`: the program's
  list is a faithful copy of the library's after every packet, and the notices
  add up to it. `AbsSpec`: both implement one map.
* `NoDangling`, `OneConnection`: the trimming of a handle is
  sound although its callback appends a handle to the list being trimmed. It
  rests on there being one connection: `remove_deleted_handles` would not end
  with two handles whose head is unmarked, and `imcomm_delete_handle_now`
  repairs the list only for its head.
* `ShownSession`: no buddy of an earlier session is ever on the screen.
* `ClosedStaysClosed`: a session that was closed because the user signed on
  elsewhere is not reopened except by `R!`.
* `NeverStuck`: wherever the program is, the thread has a next step until it has
  ended or hangs. `KeyboardServed`: the keyboard is served again and again until
  the program ends, with three exceptions that the statement names: signals cut
  the turns short for ever, a server leaves the thread `hung` in a call without a
  timeout, or it has ended the TLS session in order and the read around it goes
  on for ever (`spin`). What the property says is that nothing *else* keeps the
  loop from the keyboard: lost and dead connections, trimming, redialling,
  keepalives. `MarkedAreFreed` and `LostReconnects` allow for the same places.
  `LoopsEnd` says that no other loop is endless, and `CrashesAreKnown` that the
  program crashes only without a connection, while dialling, on a handle that
  has not signed on and has no valid TLS session, or, without `otr`, when a buddy
  signs on.
* `LoginSpec` (in `session` and `sign_on`): the stages come in order, and a
  session is announced once.
* `NumbersFollow`, `InTurn`, `AskedOnce`, `AwaitedIsUnderWay`: the server hears no
  number out of order unless a batch was lost; no request overtakes the one it
  builds on, whichever write fails; nothing but a keepalive, a message or the
  extended status is said twice on a connection, not even that the client is
  ready, however many parts the roster has; while no write fails, a request of the
  sign-on or its answer is under way until the program is told that it is
  connected. `CompletesOrStalls`: a sign-on ends by itself unless a
  write failed or a packet is left in its TLS record for good.
* `AwayKnown`, `NeverHiddenUnawares`, `NeverFalselyIdle`: what the server shows.
  `AwayKnown` assumes that nobody sets an empty message (section 4).
  `NeverFalselyIdle` is about the time since the user pressed a key (`quiet`), not
  since `last_keystroke_time`, and excepts who pressed the last ones in paste mode
  or at the password prompt (`pasted`), for whom it is false (section 4).
* `ExchangesRunDown`: without somebody typing, no step makes more of an exchange
  and each message that is handled makes less, so that one between any number of
  absent users ends.
  `OneAnswer`: the waiting list prevents a second answer until Enter.
  `SendersAreTold`: while the user is away, everybody on the list was answered or
  came there by an automatic reply. Two consequences of the code are visible in
  its statement: a sender whose *automatic* reply arrives first is not answered
  when he writes in person, and with `respond_idle_only` a sender who wrote
  before the user became idle is not answered afterwards.
* `TypingIsMarked`: no message changes whom `r` answers while a line has a
  letter in it. `OnlyErasingLingers`: the flag outlives the letters only by
  erasing them, or in a line full of escapes. `PassedByEscapes`: only an escape
  or a Ctrl-B takes a line past the end of `inputbuf`, and then by two
  characters at most; it promises nothing of what is typed after that.
  `PastedInOrder`, `MessagesFit`, `SentAtEnd`: a paste is sent in its order,
  once, in messages that fit, and completely unless it was cancelled.
* `InSync`, `BatchesTakeEffect`: once the batches are applied the server stores
  whom the library lists, under the same numbers; no batch is in vain, though
  nobody reads what the server answers to it: who is added was not there, who is
  removed was, and nobody else goes. This holds in any order of additions,
  removals and lost connections except the two situations named in section 2.
* `NeverInTheClear`: what is typed to somebody of whom the node says active is
  encrypted or not sent, also if the other side has ended the conversation and
  the node says active still. `LabelIsTrue`, `NotLogged`: `(otr)` stands before
  exactly the messages that were encrypted, and those are not logged, but for the
  message with which the other side ends the conversation, which the properties
  except by name (section 4). `Otr!CrashesAreKnown`: the other side cannot crash
  the program through these callbacks.

## 4. Findings

Each row is a run of its own whose counterexample is the scenario.

| Run | What happens | Where |
|---|---|---|
| `session_offline` | without a connection (prompts, sleep before reconnecting, offline) `q!` and `v` dereference NULL, and so does SIGUSR1 | `input.c:432`, `input.c:106`, `bsf.c:609` |
| `status_hidden` | after a reconnection an invisible user is visible, and the program says invisible | `bsf.c:935` |
| `sign_on_stall` | two packets in one TLS record: the second is never looked at, and the sign-on hangs | `imcomm/imcomm.c:417` |
| `roster_delete` | somebody who was added and deleted on one connection stays on the server | `imcomm/snac.c:1226` |

The statements of the passing properties contain further behaviour of the code
that a reader may not expect; each is a case that the property has to except, or
a hypothesis it needs.

* *Session.* The next send after the server closed the session raises SIGPIPE,
  which ends the program (`imcomm/flap.c:440`). A refused connection leaves
  `ssl_handle` unset, and the sign-on sends through it (`imcomm/ssl.c:177`).
  `SSL_read` returning 0 is neither progress nor error, and the loop around it
  never ends (`imcomm/imcomm.c:436`). The sockets have no timeouts, so that a server
  which stops in a handshake, in reading, or in the middle of a packet leaves the
  program deaf to its keyboard. With `otr` 0, which is the default (`bsf.c:85`),
  `init_otr` is not called (`bsf.c:161`), and the first buddy who signs on makes
  `buddy_online` dereference a NULL `userstate` (`aim.c:380`).
* *Status.* An answer that libotr sends by itself is sent like a typed one, and
  the library reports the user as back (`otr.c:41`); the program and the library
  have different thresholds and one report of idleness (`imcomm/imcomm.c:785`), so
  idleness that has not passed both when the program notices it is not reported
  until the user has come back (`ReportedAtOnce`): with `idletime` below 600 that
  is the rule. Keys of a paste or a password do not count as keys: if reading
  them took longer than `idletime`, the same turn reports their user as idle
  (`bsf.c:216`, `bsf.c:457`, `input.c:552`). An empty away message is
  on the wire the removal of the away message (`imcomm/snac.c:493`), while the
  program counts as away.
* *InputLine.* Before an escape of n characters the guard leaves room for n-2
  (`bsf.c:337`), so a line can be two characters longer than its buffer.
  `addtoinputbuf` then takes any number more, for it asks whether the line has
  exactly 511 characters (`bsf.c:55`). Erasing the last letter leaves `istyping`
  set (`bsf.c:329`), after which `r` answers an earlier partner than the last
  one (`bsflite.1:47`). Backspace in an empty line of a paste cancels the paste
  (`input.c:573`). A pasted line is cut at the limit less six, and if what is
  left of it is a single dot, it ends the paste.
* *Roster.* An addition before the list is complete may take a number that is in
  use and is then refused without notice (`imcomm/snac.c:1221`).
* *Otr.* The message with which the other side ends a conversation, if it has a
  text, is shown without `(otr)` and written to the log in the clear, because both
  ask for the state that libotr leaves behind (`aim.c:51`, `log.c:107`). The node
  goes on saying active, since the notice is thrown away (`aim.c:40`), and `M`
  then dereferences the fingerprint that is gone, as it does before the first
  conversation. A second `o`
  after a key was made finishes the freed key again (`otr.c:248`). The state of a
  failed key generation has no case in `o` (`otr.c:254`). What is typed into a
  conversation that the other side has finished is shown as sent and is not. A
  node stays active when the conversation is begun anew with an untrusted
  fingerprint, and a conversation that was never trusted stays encrypted in
  libotr when the buddy signs off, is deleted, or the connection is lost. The
  missing braces of `otr.c:128` do no harm, because libotr is only given what
  buddies on the list wrote (`Otr!CrashesAreKnown`).

## 5. Proofs

TLAPS proves the following for every value of the constants (any names and
idle times, any number of addresses, any messages and thresholds, any number of
clients, any range of sequence numbers, any bound on failures, messages, parts
and pastes). The assumptions are those in the modules: constants have their
types, `NULL` is no address, `NoMessage` no message, `Offline` no presence; a batch
does not go round the sequence numbers; a line has room for an address and four
characters, a message for seven; there are numbers for all names.

All of the safety properties that the passing runs check are among these
theorems except `NeverStuck` (section 6), and so are the type invariant `TypeOK`
of every module and the progress of the event loop. Some properties are proved
only and in no run; they are named below.

* **PresenceProofs**: `TypeCorrect`, `ListsAlwaysAgree`, `AlwaysSorted`,
  `AlwaysCounted`, `NoticesTell`, `Refinement` (to `PresenceAbs`),
  `KeepsToLink`. The invariant joins agreement of the lists, uniqueness, strict
  sortedness and the count, with two facts about the notices and the threshold.
  None of them is inductive alone: a sign-on keeps the program's list sorted
  only because the library's list says that the name is new. The lemmas about
  `First`, `Unlink` and the sorted insert say how the position of a name moves.
* **SessionProofs**: `TypeCorrect`, `NothingDangles`, `MarksAlwaysSeen`,
  `AtMostOneConnection`, `ShownIsCurrent`, `ClosedIsLeftAlone`, `KeepsToLink`,
  `KeepsToLogin`, `OnlyReadingHangs`, `CrashesHaveCauses`. The invariant says for
  each place of `pc` which of four *shapes* the two lists have: empty; one handle
  on both; one dying handle on the library's list only (asleep, or about to be
  unlinked); a dying and a new handle, the new one on both. Further conjuncts:
  marks are known, only a fresh handle dials, and whose buddies are shown.
  `OneConnection` is the shape at the places where the loop stops; the others
  are what makes it inductive. `Dialling` ties the stage of the first handle to
  the place of the thread, for `Login`; `Secured` says that a handle which has
  signed on has a TLS session, which is why, with `otr`, it cannot crash the
  program.
* **SessionProofs, liveness**: `TurnsAdvance`, `TurnsTidyUp`, `KeyboardIsServed`,
  `MarksAreFreed`, `LostIsRedialled`, `NothingIsMissing`. `StepsToKeys` counts the
  steps of the thread that are left before the keyboard, at most eleven; every
  step of the thread lowers it, except a keystroke and a turn that a signal cuts
  short. `MarkSteps` and `LostSteps` do the same for the trimming of a marked
  handle and for the next dialling, and there a signal costs nothing, since it
  leads back to the beginning of a turn. Each count is bounded by a constant, so
  a chain of leads-to of that length is enough and no temporal induction is
  needed. The hypotheses are `FairSpec` and `[]NeverStuck`: the prover treats
  ENABLED as an unknown proposition, so that fairness gives "steps for ever, or
  ended" from it and nothing else is asked of it. `NothingIsMissing` proves,
  for any set of at least two addresses, what the guards of those steps ask: a
  free address, a handle to dial, a node to search for, a handle to free.
* **SignOnProofs**: `TypeCorrect`, `NumbersGoOn`, `NothingOutOfTurn`,
  `ReadyAtMostOnce`, `StatusTrue`, `KeepsToLogin`. What a send may do to the
  sending side is put into three forms, and the invariant is shown once to
  survive each: the frames under way carry on where the server expects them
  (`Follow`), they find what they need before them (`Turn`), they belong to this
  connection (`Fitting`), each answer leads back to the request it answers
  (`Heard`), and readiness is announced or under way once (`Ready`).
* **SignOnProofs, asking once**: `AsksOnce`. What the client asks for after an
  answer is tied to the one request that this answer belongs to (`FollowUps`,
  `Lead`): while the answer is in the inbox it is there once and the server owes
  no other (`Alone`); once anything that follows from it was said, it was read and
  is not owed any more (`Earned`). So every answer is acted upon once, although
  nothing in the client remembers what it has asked for. Readiness is the
  exception: it hangs on `connected` (`Silent`). `ReadyAtMostOnce` (readiness is
  announced once, to a program that knows it is connected) is proved only.
* **SignOnProofs, progress**: `NeverWaitsInVain`, `NeverBothWait`. While no write
  has failed nothing is lost (`Intact`): each action hands the sign-on on, from a
  request on the wire to the server, from there to an answer in the inbox, and
  from an answer to the next request of the chain, whatever the user sends in
  between. So client and server never wait for each other, and the only way not
  to go on is the one of `sign_on_stall`. `StatusTrue` (what the program was last
  told is how far the connection has come) is proved only.
* **StatusProofs**: `TypeCorrect`, `AwayAlwaysKnown`, `HiddenIsKnown`,
  `IdleIsTrue`. The invariant relates each copy of the status to the next
  (server, handle, program); before the BOS connection the server knows nothing.
  `Clocks` relates the two clocks: unless the last keys were read elsewhere they
  show the same time, so that what the program concludes from its own clock
  holds of the user.
  `AwayAlwaysKnown` has the hypothesis that the empty string is not among the
  messages, without which the property is false (section 4).
  `OnlyNewSessionsReveal` and `HiddenTillReconnected` delimit the finding
  `status_hidden`: once program, handle and server agree on who is hidden
  (`AsAsked`), every step but the making of a session preserves it, so that `v`
  does what the manual says on the first connection. `IdleReportedAtOnce`
  (`ReportedAtOnce`: what the library did not report when the program noticed it
  stays unreported) is proved only. `KeepsToLogin`.
* **AutoReplyProofs**: `TypeCorrect`, `NoEndlessExchange`,
  `AwayClientsFallSilent`, `AnsweredOnce`, `SendersKnow`. The added conjunct is
  that whoever was answered since the last Enter is on the waiting list. `Due`
  counts what c may yet have to handle because of d: every step without typing
  keeps or lowers it (`AwayClientsFallSilent`). `NoEndlessExchange`
  (`AnswersAreEarned`: as many answers as messages were typed, at most) is
  proved only.
* **InputLineProofs**: `TypeCorrect`, `LinesPassByEscapes`, `LettersAreMarked`,
  `PasteKeepsOrder`, `EveryMessageFits`, `FlagsFollowLetters`, `PasteIsSent`,
  `ReplyGoesWhereItShould` (`PartnerIsKept`, proved only: while a line has a
  letter in it only sending it changes whom `r` answers, the reason for
  `TypingIsMarked`). An empty line holds nothing; the send buffer counts what is
  in it, and what was pasted is in it or sent (`Kept`), for any size of message
  and of line. A line that grows by a letter once it has passed its end is no
  exception to `LinesPassByEscapes`, which is about the step that takes it
  there.
* **RosterProofs**: `TypeCorrect`, `NobodyTwice`, `ListsAgree`, `ListIsAhead`,
  `NoneInVain`, `DeletedAreGone`, `KeepsToLogin`.
  While neither of the two bad situations has occurred (`Clean`): whatever is
  stored is listed, about to be removed or still to come; whoever was added is
  stored or will be; what is in the way of an addition is removed before it; the
  number of somebody added is nobody else's. That a free number exists follows
  from the sizes of finite sets. `ListIsAhead` (proved only) is `InSync` with
  batches still under way: the library lists whom the server will store.
  `DeletedAreGone` delimits the finding `roster_delete`: the property which that
  run violates holds as long as nobody was removed on the connection that added
  him.
* **OtrProofs**: `TypeCorrect`, `ActiveStaysPrivate`, `LabelsAreTrue`,
  `NothingLogged`, `OnlyKnownCrashes`. The added conjuncts say that the context of
  an active node is not plain (`ActiveIsPrivate`), and in which order the key
  thread computes the key and reports it.

Each proof module has the same plan: the invariant holds initially; each action
has a lemma; a lemma about `Next` collects them; the theorems combine by temporal
logic.

## 6. Only model-checked

* `NeverStuck` in `session`: it is a statement about ENABLED, which the provers do
  not expand. It is the one hypothesis of the proofs about the loop's progress.
  TLC checks it in every state of the run; what it rests on in the state of the
  program, the guards, is proved (`NothingIsMissing`).
* `CompletesOrStalls` in `sign_on`: how many packets are ahead of the awaited one
  has no bound, so the argument is an induction in temporal logic, and the
  fairness is that of several actions. What such an induction would use is
  proved: there is a next step (`NeverBothWait`), and only finitely much to be
  asked on a connection (`AsksOnce`).
* The findings, which are counterexamples.

No module uses recursion.

## 7. Not modelled

* In the modelled components: texts, layout and the format of logs; `squelch*`
  options and `report_idle` off; sockets without TLS; OTR inside Presence,
  Session and AutoReply (its internal messages are messages that nobody sees);
  the commands of the authentication that only send something, and libotr's
  files; in every module but Session, a configuration without `otr`, which does
  not survive the first buddy; what a signal handler interrupts *inside* a
  library call (malloc, stdio, OpenSSL): SIGUSR1 is a step between steps;
  descriptors and TLS sessions that a disconnection forgets to close; a paste
  before the server has stated its limit; reading one packet in pieces, which
  blocks the program until the packet is complete (one step) or for ever
  (`flap_hangs`), with no step in between; the batches of `load_buddylist` in
  SignOn (`bsf.c:817`, they are additions of Roster); pausing and migrating
  servers, whose code is inside `#if 0` in `snac_decode`.
* Proxies: `connect_socks5` and `connect_https` are straight-line exchanges on a
  blocking socket. A proxy connects a socket and no TLS session, while
  `flap_send` uses `ssl_handle` whenever TLS is on (`imcomm/proxy.c:16`), so the
  models are of a configuration without one.
* Child handles are made when the server answers a request for another service
  (SNAC 01/05, `imcomm/snac.c:1390`), whatever was asked for. The only request
  this program has is the icon upload's, which is compiled out of use, so the
  models rely on a server that does not answer without being asked. The message
  queue and the library's send queues are not compiled. Configuration,
  away-message files, colours, wrapping, `strip_html` and the netspeak filter
  are straight-line code without interaction; `md5.c`, `hexdump.c` and `test.c`
  are third-party, diagnostic or an example.

## 8. Plan

Done, in this order: `Presence` (the most important promise to the user),
`Session`, `Status`, `AutoReply`; then `Login`, `SignOn` (which includes the
sequence numbers), `InputLine`, `Roster`, `Otr` (which includes the key thread),
each with its proofs. What could follow:

1. Reading a packet in pieces (`imcomm_select`, `flap_decode`) as a refinement of
   one step.
2. `remove_deleted_handles` for any list of handles, as the library promises it
   to other programs; descriptors.
3. The splitting of TLV lists and the netspeak filter as functions, against
   reference definitions.
4. Dialling through a proxy.
