------------------------------ MODULE CardInit ------------------------------
(***************************************************************************)
(* Bringing up the SD card: init_sd of bare_metal/minion_helper.c, which   *)
(* the disk layer and the I command run, and old_init2 of selftest.c, the  *)
(* i command.  Both are straight scripts of commands, but for the loop     *)
(* around ACMD41; neither looks at what a command returns.                 *)
(*                                                                         *)
(* A step is one entry of a script, or one attempt of a command:           *)
(* sd_transaction_finish2 gives a command Attempts times if the first time *)
(* there is no response (also if its data phase fails, but a card takes    *)
(* none of these data commands differently when it comes again). A start   *)
(* bit that is up already starts nothing. The entries without an effect on *)
(* what is modelled (interrupt flags, power control, clock, timeouts) are  *)
(* left out. The card is external: it is the part of the SD card protocol  *)
(* the scripts rely on.                                                    *)
(*                                                                         *)
(* An operator named ..._bug is a variant of the next one with a plausible *)
(* fault; it is in no specification and serves to see that a property      *)
(* depends on that line of the code.                                       *)
(***************************************************************************)
EXTENDS Integers, Sequences

CONSTANTS
  Polls,     \* the loop around ACMD41 goes round Polls + 1 times (100 in the code)
  Busy,      \* times a card that powers up answers ACMD41 with busy
  Rcas,      \* relative addresses a card chooses from, not 0
  MaxLost    \* bound: commands and responses lost on the wires in one script

CardAssumption ==
  /\ Polls \in Nat /\ Busy \in Nat /\ MaxLost \in Nat
  /\ Rcas \subseteq Nat \ {0}

Attempts == 3
NoRca == 0
Noise == -1       \* the upper half of an OCR or of a CID, taken for an address

VARIABLES
  card,      \* the slot and the card in it
  script,    \* "init_sd" or "old_init2", the script in progress or the last
  at,        \* the entry it does next; 0 when none is in progress
  attempt,   \* retry in sd_transaction_finish2
  timeout,   \* the local of that name
  rca,       \* the local of that name
  resp,      \* the controller's response register
  width,     \* wires of the bus as the host drives it, sdhci_host_control
  lost,      \* history: commands and responses lost since the script began
  spoilt     \* history: since then the card was moved or the host restarted,
             \* or the card did not hear CMD0 or the host the answer to CMD3

host == <<script, at, attempt, timeout, rca, resp, width>>
vars == <<card, host, lost, spoilt>>

Empty    == [in |-> FALSE, state |-> "idle", rca |-> NoRca, app |-> FALSE,
             v2 |-> FALSE, busy |-> Busy, width |-> 1]
Inserted == [Empty EXCEPT !.in = TRUE]

Quiet == [up |-> FALSE, rca |-> NoRca]

Init ==
  /\ card \in {Empty, Inserted}
  /\ script = "init_sd" /\ at = 0 /\ attempt = 0 /\ timeout = 0
  /\ rca = NoRca /\ resp = Quiet /\ width = 1
  /\ lost = 0 /\ spoilt = TRUE

-----------------------------------------------------------------------------
(* The scripts *)

All(n) == [do |-> "cmd", n |-> n, addressed |-> FALSE]   \* argument not an address
One(n) == [do |-> "cmd", n |-> n, addressed |-> TRUE]    \* argument rca
Bus(w) == [do |-> "width", n |-> w, addressed |-> FALSE]

Identify == << All(0), All(8), All(55), All(41), All(2), All(3) >>
Select   == << One(9), One(13), One(7) >>

Widen_bug == << One(55), All(51), All(6), All(6), All(6), Bus(4),
                One(55), All(13), Bus(4) >>
Widen    == << One(55), All(51), All(6), All(6), One(55), All(6), Bus(4),
               One(55), All(13), Bus(4) >>

Entries(name) ==
  IF name = "init_sd"
    THEN << Bus(1) >> \o Identify \o Select \o Widen
    ELSE Identify \o Select \o << One(55), All(51), One(55), All(13), All(16), All(17) >>

Entry == Entries(script)[at]
LoopStart == CHOOSE i \in 1..Len(Entries(script)) : Entries(script)[i] = All(55)

-----------------------------------------------------------------------------
(* The card *)

\* what the card does not take for a command to it, it does not answer
Legal(c, n, arg) ==
  CASE n = 0       -> TRUE
    [] n = 8       -> c.state = "idle"
    [] n = 55      -> c.state \in {"idle", "stby", "tran"} /\ arg = c.rca
    [] n = 41      -> c.state = "idle" /\ c.app
    [] n = 2       -> c.state = "ready"
    [] n = 3       -> c.state \in {"ident", "stby"}
    [] n = 9       -> c.state = "stby" /\ arg = c.rca
    [] n = 7       -> c.state = "stby" /\ arg = c.rca
    [] n = 13      -> IF c.app THEN c.state = "tran"
                      ELSE c.state \in {"stby", "tran"} /\ arg = c.rca
    [] n = 51      -> c.state = "tran" /\ c.app
    [] n \in {6, 16, 17} -> c.state = "tran"

PoweredUp(c) == c.v2 /\ c.busy = 0

\* CMD3 has the card publish a new address
Published(c) ==
  {[c EXCEPT !.app = FALSE, !.state = "stby", !.rca = r] : r \in Rcas \ {c.rca}}

\* the cards a legal command may leave
Obeyed(c, n) ==
  LET plain == [c EXCEPT !.app = FALSE] IN
  CASE n = 0  -> {Inserted}
    [] n = 8  -> {[plain EXCEPT !.v2 = TRUE]}
    [] n = 55 -> {[c EXCEPT !.app = TRUE]}
    [] n = 41 -> {IF PoweredUp(c) THEN [plain EXCEPT !.state = "ready"]
                  ELSE [plain EXCEPT !.busy = IF @ = 0 THEN 0 ELSE @ - 1]}
    [] n = 2  -> {[plain EXCEPT !.state = "ident"]}
    [] n = 3  -> Published(c)
    [] n = 7  -> {[plain EXCEPT !.state = "tran"]}
    [] n = 6  -> {IF c.app THEN [plain EXCEPT !.width = 4] ELSE plain}
    [] OTHER  -> {plain}

\* CMD7 with another address deselects
Ignored(c, n, arg) ==
  [c EXCEPT !.app = FALSE,
            !.state = IF n = 7 /\ @ = "tran" /\ arg # c.rca THEN "stby" ELSE @]

\* the upper half of the response to n of the card c, once it has obeyed
Response(c, n) ==
  CASE n = 41       -> [up |-> c.state = "ready", rca |-> Noise]
    [] n \in {2, 9} -> [up |-> FALSE, rca |-> Noise]
    [] n = 3        -> [up |-> FALSE, rca |-> c.rca]
    [] OTHER        -> Quiet

-----------------------------------------------------------------------------
(* The host *)

InSlot == card.in

\* init_sd and old_init2 look at the slot first
Start(name) ==
  /\ at = 0
  /\ IF InSlot THEN at' = 1 /\ script' = name /\ lost' = 0 /\ spoilt' = FALSE
              ELSE at' = 0 /\ UNCHANGED <<script, lost, spoilt>>
  /\ attempt' = 0 /\ timeout' = 0
  /\ UNCHANGED <<card, rca, resp, width>>

NextEntry == IF at = Len(Entries(script)) THEN 0 ELSE at + 1

SetWidth ==
  /\ at # 0 /\ Entry.do = "width"
  /\ width' = Entry.n
  /\ at' = NextEntry
  /\ UNCHANGED <<card, script, attempt, timeout, rca, resp, lost, spoilt>>

\* the condition of the loop, (0x80000000U & ~busy) && (timeout++ < 100)
Again_bug(r) == ~r.up
Again(r) == ~r.up /\ timeout < Polls

\* after the command, whatever came of it
Proceed ==
  /\ attempt' = 0
  /\ rca' = IF Entry.n = 3 THEN resp'.rca ELSE rca
  /\ IF Entry.n = 41
       THEN IF Again(resp') THEN at' = LoopStart /\ timeout' = timeout + 1
                            ELSE at' = NextEntry /\ timeout' = 0
       ELSE at' = NextEntry /\ UNCHANGED timeout

\* CMD0 expects no response.  After another that got none, rslt keeps its -1
\* and there are two more attempts; they are made with sd_setting(0), which
\* takes no response in.
LastAttempt_bug(answered) == answered \/ Entry.n = 0 \/ attempt = 0
LastAttempt(answered) == answered \/ Entry.n = 0 \/ attempt + 1 = Attempts

Expected == Entry.n # 0 /\ attempt = 0

Arg == IF Entry.addressed THEN rca ELSE NoRca

\* one attempt: the card hears the command or not, the host its response or not
Command(heard, answered) ==
  LET legal == Legal(card, Entry.n, Arg)
      due   == InSlot /\ legal /\ Expected
  IN
  /\ at # 0 /\ Entry.do = "cmd"
  /\ heard => InSlot
  /\ answered => heard /\ due
  /\ \E c \in IF ~heard THEN {card}
              ELSE IF legal THEN Obeyed(card, Entry.n)
              ELSE {Ignored(card, Entry.n, Arg)} :
       /\ card' = c
       /\ resp' = IF answered THEN Response(c, Entry.n) ELSE resp
  /\ lost' = IF InSlot /\ (~heard \/ (due /\ ~answered)) THEN lost + 1 ELSE lost
  /\ lost' <= MaxLost
  /\ spoilt' = (spoilt \/ (Entry.n = 0 /\ ~heard) \/ (Entry.n = 3 /\ due /\ ~answered))
  /\ IF LastAttempt(answered)
       THEN Proceed
       ELSE attempt' = attempt + 1 /\ UNCHANGED <<at, timeout, rca>>
  /\ UNCHANGED <<script, width>>

Step == SetWidth \/ \E heard, answered \in BOOLEAN : Command(heard, answered)

\* the user; a card that is put in powers up
MoveCard ==
  /\ card' = IF card.in THEN Empty ELSE Inserted
  /\ spoilt' = TRUE
  /\ UNCHANGED <<host, lost>>

\* and the user ends the program and starts it again
HostRestart ==
  /\ at' = 0 /\ attempt' = 0 /\ timeout' = 0 /\ rca' = NoRca /\ width' = 1
  /\ spoilt' = TRUE
  /\ UNCHANGED <<card, script, resp, lost>>

Next == (\E name \in {"init_sd", "old_init2"} : Start(name)) \/ Step \/ MoveCard \/ HostRestart

Spec == Init /\ [][Next]_vars

-----------------------------------------------------------------------------
(* Properties *)

\* The variables have their types.
TypeOK ==
  /\ card \in [in : BOOLEAN, state : {"idle", "ready", "ident", "stby", "tran"},
               rca : Rcas \cup {NoRca}, app : BOOLEAN, v2 : BOOLEAN,
               busy : 0..Busy, width : {1, 4}]
  /\ script \in {"init_sd", "old_init2"} /\ at \in 0..Len(Entries(script))
  /\ attempt \in 0..(Attempts - 1) /\ timeout \in 0..Polls
  /\ rca \in Rcas \cup {NoRca, Noise}
  /\ resp \in [up : BOOLEAN, rca : Rcas \cup {NoRca, Noise}]
  /\ width \in {1, 4} /\ lost \in 0..MaxLost /\ spoilt \in BOOLEAN

\* The card takes read commands from this host.
Selected == card.in /\ card.state = "tran" /\ card.rca = rca /\ card.width = width

\* Although nobody looks at what a command returned, init_sd leaves the card
\* selected, whatever state it found it in and however, fewer than Attempts,
\* commands and responses were lost, if the card stayed in and heard CMD0 and
\* the host heard the address CMD3 gave.
InitSelects ==
  script = "init_sd" /\ at = 0 /\ ~spoilt /\ lost < Attempts => Selected
=============================================================================
