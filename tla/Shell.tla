------------------------------- MODULE Shell -------------------------------
(***************************************************************************)
(* The self-test shell, main and minion_dispatch of bare_metal/selftest.c: *)
(* it takes a line from the Console and runs the command its first         *)
(* character names, on the card that CardInit brings up, through the disk  *)
(* layer of DiskIo.  This module is the composition of the three and the   *)
(* commands that mount, read, unmount and initialise:                      *)
(*    m, l  mount(1), which l falls through to                             *)
(*    f     sdcard_test; D (show_dir) differs in what it does with the     *)
(*          data; P (prepare) reads two files and is not here: it does     *)
(*          what two f in a row do                                         *)
(*    u     unmount            i     old_init2                             *)
(*    I     init_sd, reads of sectors for h to show, and mount(0)          *)
(* The others print, or send what the user says; they are Other.           *)
(*                                                                         *)
(* Of FatFs it has what these commands see of it: the card the file system *)
(* object describes and its window (mounted says that FatFs[0] is set).    *)
(* One sector stands for those find_volume reads, one disk_read for those  *)
(* of a file (FatVolume has all of them).                                  *)
(*                                                                         *)
(* An operator named ..._bug is a variant of the next one with a plausible *)
(* fault; it is in no specification and serves to see that a property      *)
(* depends on that line of the code.                                       *)
(***************************************************************************)
EXTENDS Integers, Sequences

CONSTANTS
  Cards,                             \* the cards the user has
  NoCard,                            \* fs_type = 0; what the window held at first
  Polls, Busy, Rcas, MaxLost,        \* CardInit
  LastSector, MaxCount,              \* DiskIo
  Chars, LineMax, MaxTyped, MaxKeys  \* Console

VARIABLES
  card, script, at, attempt, timeout, rca, resp, width, lost, spoilt,  \* CardInit
  noinit, CardType, call, dpc, asked, sector, count, buff, missed, res, \* DiskIo
  tty, keys, linbuf, cpc, typed,                                       \* Console
  spc,      \* where minion_dispatch is: "Prompt", "Init", "Mount", "Boot",
            \* "BootWait", "File", "FileWait", "Done"
  cmd,      \* the command
  mounted,
  fs_type,  \* the card the file system object describes, or NoCard
  win,      \* the card its window was read from
  which,    \* the card in the slot, or the last one there
  excused   \* history: since the last find_volume began, its boot sector could
            \* not be read or the user had the slot initialised

Sd  == INSTANCE CardInit
Con == INSTANCE Console
D   == INSTANCE DiskIo WITH card <- card.in, pc <- dpc

ASSUME ShellAssumption ==
  NoCard \notin Cards /\ Sd!CardAssumption /\ Con!ConsoleAssumption /\ D!DiskAssumption

shell == <<spc, cmd, mounted, fs_type, win, which, excused>>
host == <<script, at, attempt, timeout, rca, resp, width>>
disk == <<noinit, CardType, call, dpc, asked, sector, count, buff, missed, res>>
console == <<tty, keys, linbuf, cpc, typed>>
vars == <<card, host, lost, spoilt, disk, console, shell>>

Init ==
  /\ Sd!Init /\ Con!Init /\ D!Init
  /\ spc = "Prompt" /\ cmd = "" /\ mounted = FALSE
  /\ fs_type = NoCard /\ win = NoCard
  /\ which \in Cards /\ excused = FALSE

SdSame   == UNCHANGED <<card, host, lost, spoilt>>
DiskSame == UNCHANGED disk
ConSame  == UNCHANGED console

\* the buffer disk_read filled was a local of a command that has returned
NoBuffer ==
  /\ asked' = [sector |-> 1, count |-> 0] /\ sector' = 1 /\ count' = 0
  /\ buff' = [k \in 1..MaxCount |-> D!Untouched] /\ missed' = FALSE

-----------------------------------------------------------------------------
(* The user.  Bound: he types while the shell waits for a line. *)

AtConsole ==
  /\ spc = "Prompt"
  /\ Con!Type \/ Con!PressKey \/ Con!Receive
  /\ SdSame /\ DiskSame /\ UNCHANGED shell

MoveCard ==
  /\ Sd!MoveCard
  /\ which' \in IF card.in THEN {which} ELSE Cards
  /\ DiskSame /\ ConSame
  /\ UNCHANGED <<spc, cmd, mounted, fs_type, win, excused>>

\* q, or any other end of the program, and a new start
Restart ==
  /\ Sd!HostRestart
  /\ noinit' = TRUE /\ CardType' = {} /\ call' = "other" /\ dpc' = "Idle" /\ res' = "OK"
  /\ NoBuffer
  /\ tty' = <<>> /\ linbuf' = <<>> /\ cpc' = "Test" /\ typed' = <<>> /\ UNCHANGED keys
  /\ spc' = "Prompt" /\ cmd' = "" /\ mounted' = FALSE
  /\ fs_type' = NoCard /\ win' = NoCard /\ excused' = FALSE
  /\ UNCHANGED which

-----------------------------------------------------------------------------
(* The commands *)

Command == IF linbuf = <<>> THEN "" ELSE Head(linbuf)

Dispatch(names) ==
  spc = "Prompt" /\ cpc = "Line" /\ Command \in names /\ cmd' = Command
  /\ DiskSame /\ ConSame /\ UNCHANGED <<win, which>>

\* find_volume believes the file system object, or runs disk_initialize, which
\* begins with init_sd; f_mount has cleared the object.
KnownVolume == fs_type # NoCard /\ ~noinit

Mounting ==
  /\ Sd!Start("init_sd")
  /\ spc' = "Mount" /\ fs_type' = NoCard /\ excused' = FALSE
  /\ UNCHANGED mounted

Leave(s) == spc' = s /\ SdSame /\ UNCHANGED <<mounted, fs_type, excused>>

MountCommand ==
  /\ Dispatch({"m", "l"})
  /\ IF mounted THEN Leave("Done") ELSE Mounting

\* f_open calls find_volume too
FileCommand ==
  /\ Dispatch({"f", "D"})
  /\ IF mounted /\ KnownVolume THEN Leave("File")
     ELSE Mounting

UnmountCommand ==
  /\ Dispatch({"u"})
  /\ spc' = "Done" /\ mounted' = FALSE
  /\ fs_type' = IF mounted THEN NoCard ELSE fs_type
  /\ SdSame /\ UNCHANGED excused

InitCommand ==
  /\ Dispatch({"I", "i"})
  /\ Sd!Start(IF cmd' = "I" THEN "init_sd" ELSE "old_init2")
  /\ spc' = "Init" /\ excused' = TRUE
  /\ UNCHANGED <<mounted, fs_type>>

Other ==
  /\ Dispatch({Command} \ {"m", "l", "f", "D", "P", "u", "I", "i"})
  /\ Leave("Done")

-----------------------------------------------------------------------------
(* What they do *)

ScriptStep ==
  /\ Sd!Step
  /\ DiskSame /\ ConSame /\ UNCHANGED shell

\* I goes on with mount(0): f_mount registers the object and reads nothing
InitEnd ==
  /\ spc = "Init" /\ at = 0
  /\ spc' = "Done"
  /\ IF cmd = "I" /\ ~mounted
       THEN mounted' = TRUE /\ fs_type' = NoCard
       ELSE UNCHANGED <<mounted, fs_type>>
  /\ SdSame /\ DiskSame /\ ConSame /\ UNCHANGED <<cmd, win, which, excused>>

\* the rest of disk_initialize
MountInit ==
  /\ spc = "Mount" /\ at = 0
  /\ SdSame /\ D!DiskInitialize
  /\ spc' = "Boot" /\ ConSame
  /\ UNCHANGED <<cmd, mounted, fs_type, win, which, excused>>

\* move_window in check_fs, which has set winsect to 0xFFFFFFFF
BootRead ==
  /\ spc = "Boot"
  /\ SdSame /\ D!DiskRead(0, 1, 1)
  /\ spc' = "BootWait" /\ ConSame
  /\ UNCHANGED <<cmd, mounted, fs_type, win, which, excused>>

\* Only a card that is selected gives a sector, and even that may fail.
Sector(ok) ==
  /\ ok => Sd!Selected
  /\ UNCHANGED <<card, host, lost>>
  /\ D!ReadSector(ok)
  /\ spoilt' = (spoilt \/ (Sd!Selected /\ ~ok))

\* disk_read does not tell: a window that was not filled still holds what it
\* held, and the boot sector of a card before this one is one.
Window_bug(ok) == IF ok /\ win = NoCard THEN which ELSE win
Window(ok) == IF ok THEN which ELSE win

BootSector(ok) ==
  /\ spc = "BootWait"
  /\ Sector(ok)
  /\ win' = Window(ok) /\ fs_type' = win'
  /\ mounted' = (mounted \/ win' # NoCard)
  /\ spc' = IF win' # NoCard /\ cmd \in {"f", "D"} THEN "File" ELSE "Done"
  /\ excused' = (excused \/ ~ok)
  /\ ConSame /\ UNCHANGED <<cmd, which>>

FileRead ==
  /\ spc = "File"
  /\ SdSame
  /\ \E s \in 1..LastSector, n \in 1..MaxCount : D!DiskRead(0, s, n)
  /\ spc' = "FileWait" /\ ConSame
  /\ UNCHANGED <<cmd, mounted, fs_type, win, which, excused>>

FileSector(ok) ==
  /\ spc = "FileWait"
  /\ Sector(ok)
  /\ spc' = IF dpc' = "Idle" THEN "Done" ELSE spc
  /\ ConSame /\ UNCHANGED <<cmd, mounted, fs_type, win, which, excused>>

\* the loop of main
NextLine ==
  /\ spc = "Done" /\ spc' = "Prompt"
  /\ Con!MyGets /\ cmd' = "" /\ NoBuffer
  /\ SdSame /\ UNCHANGED <<noinit, CardType, call, dpc, res>>
  /\ UNCHANGED <<mounted, fs_type, win, which, excused>>

-----------------------------------------------------------------------------
Run ==
  \/ MountCommand \/ FileCommand \/ UnmountCommand \/ InitCommand \/ Other
  \/ ScriptStep \/ InitEnd \/ MountInit \/ BootRead \/ FileRead \/ NextLine
  \/ \E ok \in BOOLEAN : BootSector(ok) \/ FileSector(ok)

Next == AtConsole \/ MoveCard \/ Restart \/ Run

Spec == Init /\ [][Next]_vars

-----------------------------------------------------------------------------
(* Properties *)

\* The variables have their types.
TypeOK ==
  /\ Sd!TypeOK /\ Con!TypeOK /\ D!TypeOK
  /\ spc \in {"Prompt", "Init", "Mount", "Boot", "BootWait", "File", "FileWait", "Done"}
  /\ cmd \in Chars \cup {"", Con!Eot}
  /\ mounted \in BOOLEAN /\ excused \in BOOLEAN
  /\ fs_type \in Cards \cup {NoCard} /\ win \in Cards \cup {NoCard} /\ which \in Cards

\* The properties of the parts, here where they run together.
InitSelects            == Sd!InitSelects
LineIsWhatTerminalSent == Con!LineIsWhatTerminalSent
SectorsInPlace         == D!SectorsInPlace

\* Whatever was done before (cards moved, another card used, i, the program
\* ended in the middle of anything), a find_volume during which the card stays
\* in, and no more is lost than InitSelects allows, finds the volume of the
\* card in the slot.
MountFindsCard ==
  [][spc = "BootWait" /\ spc' # "BootWait" /\ spc' # "Prompt"
       /\ ~spoilt' /\ lost' < Sd!Attempts
     => mounted' /\ fs_type' = which']_vars

\* A file's sector never comes from another card than the one the file system
\* object describes, unless after the mount the user had that card initialised
\* by I or i, or the boot sector could not be read.
ReadsOwnVolume ==
  [][\A k \in 1..MaxCount :
       spc = "FileWait" /\ spc' # "Prompt" /\ ~excused
         /\ buff[k] = D!Untouched /\ buff'[k] # D!Untouched
       => fs_type = which]_vars
=============================================================================
