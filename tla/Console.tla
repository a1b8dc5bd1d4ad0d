------------------------------ MODULE Console ------------------------------
(***************************************************************************)
(* The terminal of the self-test: bare_metal/uart.c (the host's terminal,  *)
(* which cbreak takes out of line mode and out of ICRNL, and the board's   *)
(* keyboard, read through the command queue) and mygets of selftest.c,     *)
(* which collects a line from them.                                        *)
(*                                                                         *)
(* A character is a string; the terminal driver and the keyboard FIFO are  *)
(* external.  An action of mygets is one look at the terminal or at the    *)
(* keyboard in uart_recv, with the code that follows it.                   *)
(*                                                                         *)
(* An operator named ..._bug is a variant of the next one with a plausible *)
(* fault; it is in no specification and serves to see that a property      *)
(* depends on that line of the code.                                       *)
(***************************************************************************)
EXTENDS Integers, Sequences

CR  == "CR"                         \* '\r', the return key in this mode
LF  == "LF"                         \* '\n'
Eot == "EOT"                        \* 4, what a failed read gives

CONSTANTS
  Chars,     \* what can be typed, CR among it; no NUL, which uart_recv skips
  LineMax,   \* sizeof(linbuf), 80 in the code
  MaxTyped,  \* bound: characters typed for one line
  MaxKeys    \* bound: keys in the keyboard's FIFO

ConsoleAssumption ==
  /\ CR \in Chars
  /\ LineMax \in Nat \ {0} /\ MaxTyped \in Nat /\ MaxKeys \in Nat

VARIABLES
  tty,     \* typed and not read
  keys,    \* keys in the keyboard's FIFO
  linbuf,  \* the characters from linbuf to chp
  cpc,     \* "Test" at the first look of uart_recv, "Wait" in its loop,
           \* "Line" when mygets has returned, "Aborted"
  typed    \* history: what was typed since mygets last returned

vars == <<tty, keys, linbuf, cpc, typed>>

Init == tty = <<>> /\ keys = 0 /\ linbuf = <<>> /\ cpc = "Test" /\ typed = <<>>

-----------------------------------------------------------------------------
\* the user, at the terminal and at the keyboard
Type ==
  /\ Len(typed) < MaxTyped
  /\ \E c \in Chars : tty' = Append(tty, c) /\ typed' = Append(typed, c)
  /\ UNCHANGED <<keys, linbuf, cpc>>

PressKey == keys < MaxKeys /\ keys' = keys + 1 /\ UNCHANGED <<tty, linbuf, cpc, typed>>

\* uart_getchar reads one byte into an int that is not initialised: when junk,
\* what its other bytes held, is not zero the int is no '\r' to anybody, and
\* uart_recv returns the byte as it is.
Translated(c, junk) == IF c = CR /\ ~junk THEN LF ELSE c

HasRoom == Len(linbuf) < LineMax

\* mygets, given a character by uart_recv; LF is taken off a complete line
Got(c) ==
  IF ~HasRoom THEN cpc' = "Aborted" /\ UNCHANGED linbuf
  ELSE IF c = LF THEN cpc' = "Line" /\ UNCHANGED linbuf
  ELSE cpc' = "Test" /\ linbuf' = Append(linbuf, c)

\* the look at the keyboard comes first, but for the first time round
AtTerminal == cpc = "Test" \/ (cpc = "Wait" /\ keys = 0)

Unread_bug(s) == s
Unread(s) == Tail(s)

\* uart_tstchar with a character there, read or failing to be
ReadChar(junk) ==
  /\ AtTerminal /\ tty # <<>>
  /\ Got(Translated(Head(tty), junk))
  /\ tty' = Unread(tty)
  /\ UNCHANGED <<keys, typed>>

ReadFails ==
  /\ AtTerminal /\ tty # <<>>
  /\ Got(Eot)
  /\ UNCHANGED <<tty, keys, typed>>

\* with none there
NoChar ==
  /\ AtTerminal /\ tty = <<>>
  /\ cpc' = "Wait"
  /\ UNCHANGED <<tty, keys, linbuf, typed>>

\* The key goes to a variable of the loop's body; the loop goes on.
DropKey ==
  /\ cpc = "Wait" /\ keys > 0
  /\ keys' = keys - 1
  /\ UNCHANGED <<tty, linbuf, cpc, typed>>

\* the caller comes back for the next line
MyGets ==
  /\ cpc = "Line"
  /\ cpc' = "Test" /\ linbuf' = <<>> /\ typed' = tty
  /\ UNCHANGED <<tty, keys>>

Receive ==
  (\E junk \in BOOLEAN : ReadChar(junk)) \/ ReadFails \/ NoChar \/ DropKey

Next == Type \/ PressKey \/ Receive \/ MyGets

Spec == Init /\ [][Next]_vars

-----------------------------------------------------------------------------
(* Properties *)

\* The variables have their types; the line and its terminator fit in linbuf.
TypeOK ==
  /\ tty \in Seq(Chars) /\ typed \in Seq(Chars) /\ Len(typed) <= MaxTyped
  /\ keys \in 0..MaxKeys
  /\ linbuf \in Seq(Chars \cup {Eot, LF}) /\ Len(linbuf) <= LineMax
  /\ cpc \in {"Test", "Wait", "Line", "Aborted"}

\* The characters of linbuf are the first n typed, each once and in order, and
\* Eots of reads that failed.
Holds(n) ==
  \E place \in [1..n -> 1..Len(linbuf)] :
    /\ \A j, k \in 1..n : j < k => place[j] < place[k]
    /\ \A k \in 1..n : linbuf[place[k]] = typed[k]
    /\ \A i \in 1..Len(linbuf) : (\E k \in 1..n : place[k] = i) \/ linbuf[i] = Eot

\* The line is what was typed at the terminal, in order and nothing twice or
\* left out, whatever is pressed on the keyboard meanwhile and whatever read
\* fails (which puts a character of its own in the line).
LineIsWhatTerminalSent ==
  LET read == Len(typed) - Len(tty) IN
  cpc # "Aborted" =>
    /\ tty = SubSeq(typed, read + 1, Len(typed))
    /\ IF cpc = "Line" THEN read > 0 /\ typed[read] \in {CR, LF} /\ Holds(read - 1)
                       ELSE Holds(read)

\* uart.c:131, on the last lines of uart_recv: "translate CR to LF, because
\* nobody else will".  A return that is read ends the line.
ReturnEndsLine ==
  [][tty # <<>> /\ Head(tty) = CR /\ Len(tty') < Len(tty)
       => cpc' \in {"Line", "Aborted"}]_vars
=============================================================================
