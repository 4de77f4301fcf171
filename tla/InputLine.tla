------------------------------ MODULE InputLine ------------------------------
(***************************************************************************)
(* The line editor: inputbuf and the flags that say whether somebody is    *)
(* typing and how (bsf.c), whom r answers (aim.c, input.c), and paste mode *)
(* with its own line reader (input.c).                                     *)
(*                                                                         *)
(* Of a line its length is kept and, while it begins with what r, I or L   *)
(* or TAB put there, whom it addresses; what else was typed is open, so a  *)
(* line without an addressee may turn out to be any command.  A character  *)
(* that HTML gives a meaning is written as an escape.                      *)
(***************************************************************************)
EXTENDS Naturals, Sequences

CONSTANTS Sns,      \* screen names
          NoSn,     \* no screen name
          SnLen,    \* how long a screen name is
          MaxLine,  \* what inputbuf holds without its final 0, 511
          MaxOver,  \* bound of a line that has passed the end of inputbuf
          MaxSize,  \* the size of a message the server accepts
          MaxPasted \* bound of the lines pasted at a time

ASSUME NoSnAssumption == NoSn \notin Sns
ASSUME SnLenAssumption == SnLen \in Nat \ {0}
ASSUME MaxLineAssumption == MaxLine \in Nat /\ MaxLine >= 6 + SnLen
ASSUME MaxOverAssumption == MaxOver \in Nat /\ MaxOver >= MaxLine + 2
\* The server has told its limit, and it leaves room for a character a line.
ASSUME MaxSizeAssumption == MaxSize \in Nat /\ MaxSize >= 7
ASSUME MaxPastedAssumption == MaxPasted \in Nat

VARIABLES line,     \* inputbuf
          istyping, \* conn->istyping
          rawinput, \* conn->rawinput
          lastsn,   \* conn->lastsn
          paste     \* paste mode

typing == <<line, istyping, rawinput, lastsn>>
vars == <<typing, paste>>

\* A line: its length, whom its beginning addresses, and what is in it:
\* escapes only, what L put there, or keys that were taken as they are.
Line == [len : 0..MaxOver, to : Sns \cup {NoSn},
         of : {"nothing", "escapes", "log", "keys"}]

Empty == [len |-> 0, to |-> NoSn, of |-> "nothing"]

\* "m<screen name> "
Address == SnLen + 2

\* Paste mode: what bsf_getline has read of a line (its length, whether it
\* begins with a dot); sendbuf as the
\* numbers of the lines in it, and its length; the lines sent, and whether a
\* message was sent without any; and how many lines that were not blank the
\* user has entered.
Paste == [on : BOOLEAN, count : 0..(MaxSize - 6), dot : BOOLEAN,
          sendbuf : Seq(1..MaxPasted), sendbuflen : 0..MaxSize,
          sent : Seq(1..MaxPasted), hollow : BOOLEAN,
          pasted : 0..MaxPasted]

NewPaste(on) ==
    [on |-> on, count |-> 0, dot |-> FALSE, sendbuf |-> <<>>,
     sendbuflen |-> 0, sent |-> <<>>, hollow |-> FALSE, pasted |-> 0]

TypeOK ==
    /\ line \in Line
    /\ istyping \in BOOLEAN
    /\ rawinput \in BOOLEAN
    /\ lastsn \in Sns \cup {NoSn}
    /\ paste \in Paste

Init ==
    /\ line = Empty
    /\ istyping = FALSE
    /\ rawinput = FALSE
    /\ lastsn = NoSn
    /\ paste = NewPaste(FALSE)

-----------------------------------------------------------------------------
(* Keys of the editor.                                                     *)

Editing == ~paste.on

Grown(l, len) == [l EXCEPT !.len = len, !.of = "keys"]

\* A character.  A full line takes no more, but counts as being typed; one that
\* has passed the end is not full, and goes on growing.  The character is
\* written over the final 0: what is in memory behind it belongs to the line
\* as far as it is not 0.
addtoinputbuf ==
    /\ istyping' = TRUE
    /\ \/ line.len = MaxLine /\ line' = line
       \/ line.len < MaxLine /\ line' = Grown(line, line.len + 1)
       \/ line.len > MaxLine /\ \E len \in (line.len + 1)..MaxOver : line' = Grown(line, len)
    /\ UNCHANGED <<rawinput, lastsn, paste>>

letter == Editing /\ addtoinputbuf

\* Characters that are escaped unless the input is raw: to how many, and how
\* long the line may be.
Escapes == {[width |-> 6, guard |-> MaxLine - 4],  \* &quot;
            [width |-> 4, guard |-> MaxLine - 2],  \* &lt; and &gt;
            [width |-> 5, guard |-> MaxLine - 3]}  \* &amp;

With(l, n) ==
    [l EXCEPT !.len = @ + n, !.of = IF @ = "nothing" THEN "escapes" ELSE @]

\* Fault: the guard is one further off.
escaped_loose(e) ==
    /\ line.len <= e.guard + 1
    /\ line' = With(line, e.width)
    /\ UNCHANGED <<istyping, rawinput, lastsn, paste>>

escaped(e) ==
    /\ line.len <= e.guard
    /\ line' = With(line, e.width)
    /\ UNCHANGED <<istyping, rawinput, lastsn, paste>>

escape ==
    /\ Editing
    /\ \E e \in Escapes : IF rawinput THEN addtoinputbuf ELSE escaped(e)

\* Ctrl-B, raw or not.
line_break ==
    /\ Editing
    /\ escaped([width |-> 4, guard |-> MaxLine - 2])

toggle_raw ==
    /\ Editing
    /\ rawinput' = ~rawinput
    /\ UNCHANGED <<line, istyping, lastsn, paste>>

\* Fault: Ctrl-U clears the line and no flag.
clear_keeps_flags ==
    /\ Editing
    /\ line' = Empty
    /\ UNCHANGED <<istyping, rawinput, lastsn, paste>>

\* Ctrl-U.
clear ==
    /\ Editing
    /\ line' = Empty
    /\ istyping' = FALSE
    /\ rawinput' = FALSE
    /\ UNCHANGED <<lastsn, paste>>

Shortened(l) ==
    [l EXCEPT !.len = @ - 1,
              !.to = IF l.len - 1 < Address THEN NoSn ELSE @,
              !.of = IF l.len = 1 THEN "nothing" ELSE @]

\* Fault: erasing says that nobody is typing.
erase_stops_typing ==
    /\ Editing
    /\ istyping' = FALSE
    /\ line' = IF line.len = 0 THEN line ELSE Shortened(line)
    /\ UNCHANGED <<rawinput, lastsn, paste>>

\* Backspace.
erase ==
    /\ Editing
    /\ IF line.len = 0
       THEN istyping' = FALSE /\ line' = line
       ELSE line' = Shortened(line) /\ istyping' = istyping
    /\ UNCHANGED <<rawinput, lastsn, paste>>

\* TAB after a letter that takes a screen name, and after the beginning of
\* one that only sn of the list has: the name is completed, with a blank for m.
complete(sn) ==
    /\ Editing
    /\ line.of \in {"log", "keys"} /\ line.to = NoSn
    /\ line.len \in 1..(SnLen + 1)
    /\ \E blank \in BOOLEAN :
         line' = [line EXCEPT !.len = IF blank THEN Address ELSE SnLen + 1,
                              !.to = IF blank THEN sn ELSE NoSn]
    /\ UNCHANGED <<istyping, rawinput, lastsn, paste>>

\* r on an empty line; with nobody to answer it does nothing.
reply ==
    /\ Editing
    /\ line.len = 0 /\ lastsn # NoSn
    /\ line' = [len |-> Address, to |-> lastsn, of |-> "keys"]
    /\ istyping' = TRUE
    /\ UNCHANGED <<rawinput, lastsn, paste>>

\* I and L there; L may also ask for the one log, with lg.
recall ==
    /\ Editing
    /\ line.len = 0 /\ lastsn # NoSn
    /\ line' = [len |-> SnLen + 1, to |-> NoSn, of |-> "keys"]
    /\ istyping' = TRUE
    /\ UNCHANGED <<rawinput, lastsn, paste>>

recall_log ==
    /\ Editing
    /\ line.len = 0 /\ lastsn = NoSn
    /\ line' = [len |-> 2, to |-> NoSn, of |-> "log"]
    /\ UNCHANGED <<istyping, rawinput, lastsn, paste>>

-----------------------------------------------------------------------------
(* Enter: the command is run, then the line and the flags are cleared.     *)

Cleared ==
    /\ line' = Empty
    /\ istyping' = FALSE
    /\ rawinput' = FALSE

\* A message with some text, over a connection.
input_send_message ==
    /\ Editing
    /\ \E sn \in Sns :
         /\ line.of = "keys" /\ line.len > Address
         /\ line.to \in {sn, NoSn}
         /\ lastsn' = sn
    /\ Cleared
    /\ UNCHANGED paste

\* Any other command, or a message without text or without a connection.
other_command ==
    /\ Editing
    /\ Cleared
    /\ UNCHANGED <<lastsn, paste>>

\* p with a screen name, over a connection.
input_paste ==
    /\ Editing
    /\ line.of = "keys" /\ line.to = NoSn /\ line.len > SnLen
    /\ paste' = NewPaste(TRUE)
    /\ UNCHANGED typing

parse_input == input_send_message \/ other_command \/ input_paste

\* A message arrives between two keys.
getmessage(who) ==
    /\ Editing
    /\ lastsn' = IF istyping THEN lastsn ELSE who
    /\ UNCHANGED <<line, istyping, rawinput, paste>>

-----------------------------------------------------------------------------
(* Paste mode reads the keyboard itself until it is over; nothing else     *)
(* happens meanwhile.                                                      *)

End(p) ==
    /\ paste' = [p EXCEPT !.on = FALSE]
    /\ Cleared
    /\ UNCHANGED lastsn

Go(p) ==
    /\ paste' = p
    /\ UNCHANGED typing

NextLine(p) == [p EXCEPT !.count = 0, !.dot = FALSE]

Sent(p) ==
    [p EXCEPT !.sent = @ \o p.sendbuf, !.hollow = @ \/ p.sendbuf = <<>>,
              !.sendbuf = <<>>, !.sendbuflen = 0]

\* Fault: the blank of the line break is not counted.
Room_exact(p, pbuflen) == p.sendbuflen + pbuflen <= MaxSize

\* 4 is for "<br>"; on an empty buffer none is written.
Room(p, pbuflen) == p.sendbuflen + pbuflen + 4 <= MaxSize

\* Fault: the line that did not fit is forgotten with the buffer.
Buffered_drops(p, pbuflen, id) ==
    IF ~Room(p, pbuflen)
    THEN Sent(p)
    ELSE [p EXCEPT !.sendbuf = @ \o id,
                   !.sendbuflen = @ + pbuflen + (IF @ = 0 THEN 0 ELSE 4)]

\* A line goes into the buffer, or the buffer is sent and begun again with it.
Buffered(p, pbuflen, id) ==
    IF ~Room(p, pbuflen)
    THEN [Sent(p) EXCEPT !.sendbuf = id, !.sendbuflen = pbuflen]
    ELSE [p EXCEPT !.sendbuf = @ \o id,
                   !.sendbuflen = @ + pbuflen + (IF @ = 0 THEN 0 ELSE 4)]

\* Fault: the dot sends nothing.
Took_unsent(p, pbuflen, dot) ==
    IF pbuflen = 1 /\ dot
    THEN End(p)
    ELSE LET n  == IF pbuflen > 0 THEN p.pasted + 1 ELSE p.pasted
             id == IF pbuflen > 0 THEN <<n>> ELSE <<>>
         IN  /\ n <= MaxPasted
             /\ Go(Buffered([NextLine(p) EXCEPT !.pasted = n], pbuflen, id))

\* bsf_getline returned pbuflen characters: a dot ends the paste.
Took(p, pbuflen, dot) ==
    IF pbuflen = 1 /\ dot
    THEN End(IF p.sendbuflen > 0 THEN Sent(p) ELSE p)
    ELSE LET n  == IF pbuflen > 0 THEN p.pasted + 1 ELSE p.pasted
             id == IF pbuflen > 0 THEN <<n>> ELSE <<>>
         IN  /\ n <= MaxPasted
             /\ Go(Buffered([NextLine(p) EXCEPT !.pasted = n], pbuflen, id))

\* A character; bsf_getline returns by itself when its buffer is full.
paste_character(dot) ==
    LET n   == paste.count + 1
        first == IF paste.count = 0 THEN dot ELSE paste.dot
    IN  /\ paste.on
        /\ IF n = MaxSize - 6
           THEN Took(paste, n, first)
           ELSE Go([paste EXCEPT !.count = n, !.dot = first])

paste_newline == paste.on /\ Took(paste, paste.count, paste.dot)

\* Ctrl-X: nothing of the buffer is sent.
paste_cancel == paste.on /\ End(NewPaste(FALSE))

\* Backspace; in an empty line the unsigned count goes round, which ends the
\* reading with -1 as Ctrl-X does.
paste_erase ==
    /\ paste.on
    /\ IF paste.count = 0
       THEN End(NewPaste(FALSE))
       ELSE Go([paste EXCEPT !.count = @ - 1, !.dot = @ /\ paste.count > 1])

bsf_getline ==
    \/ \E dot \in BOOLEAN : paste_character(dot)
    \/ paste_newline
    \/ paste_cancel
    \/ paste_erase

-----------------------------------------------------------------------------
Next ==
    \/ letter
    \/ escape
    \/ line_break
    \/ toggle_raw
    \/ clear
    \/ erase
    \/ \E sn \in Sns : complete(sn)
    \/ reply
    \/ recall
    \/ recall_log
    \/ parse_input
    \/ \E who \in Sns : getmessage(who)
    \/ bsf_getline

Spec == Init /\ [][Next]_vars

-----------------------------------------------------------------------------
(* Properties.                                                             *)

\* A line passes the end of inputbuf by an escape or a Ctrl-B that was let in,
\* and then by two characters at most; keys that are taken as they are, names
\* that are completed and addresses stay within it.  Nothing is promised of
\* what is typed after that: addtoinputbuf asks whether the line has 511
\* characters, and one with more takes all that comes (main, addtoinputbuf).
PassedByEscapes ==
    [][line.len <= MaxLine /\ line'.len > MaxLine =>
         /\ escape \/ line_break
         /\ line'.len <= MaxLine + 2]_vars

\* No message that arrives while a line has a letter in it changes whom r
\* answers: after any erasing, completing or switching of the input the flag
\* still says that somebody is typing (addtoinputbuf, main, getmessage).
TypingIsMarked == line.of = "keys" => istyping

\* So while there is one, only sending the line changes whom r answers next
\* (getmessage, input_send_message).
PartnerIsKept ==
    [][line.of = "keys" /\ lastsn' # lastsn => input_send_message]_vars

\* What is pasted is sent in its order and once: what was sent and what is in
\* the buffer are the lines that were not blank, whichever line filled the
\* buffer (input_paste, bsf_getline).
PastedInOrder == paste.sent \o paste.sendbuf = [i \in 1..paste.pasted |-> i]

\* No message is longer than the server accepts, line breaks included, and
\* none is sent with nothing in it (input_paste).
MessagesFit == paste.sendbuflen <= MaxSize /\ ~paste.hollow

\* When paste mode is over, every line that was not blank has been sent,
\* unless the user cancelled or erased in an empty line, which the unsigned
\* count takes for cancelling (input_paste, bsf_getline).
SentAtEnd ==
    [][paste.on /\ ~paste'.on =>
         \/ paste.pasted = Len(paste'.sent)
         \/ paste_cancel
         \/ paste_erase]_vars

Stale == istyping /\ line.of # "keys"

\* And the flag does not say so of a line without a letter, which would keep r
\* from answering who writes then, except after erasing the letters, which
\* does not clear it, or with a line full of escapes (main, parse_input).
OnlyErasingLingers == [][~Stale /\ Stale' => erase \/ line.len = MaxLine]_vars
=============================================================================
