---------------------------- MODULE SectorReader ----------------------------
(***************************************************************************)
(* What sd_read_sector promises: it returns 0 with the sector's block in   *)
(* the caller's buffer, or -1 with the buffer untouched.  Only when it has *)
(* printed that the controller gave the wrong number of words may it       *)
(* return 0 with part of a block.                                          *)
(***************************************************************************)
EXTENDS Integers

CONSTANTS
  Sectors,
  Garbage   \* part of a block

VARIABLES
  asked,   \* the sector of the call in progress, 0 when there is none
  told,    \* that was printed of the last block taken
  out,     \* the caller's buffer
  ret      \* what the last call returned

vars == <<asked, told, out, ret>>

Init == asked = 0 /\ ret = 0

Call    == asked = 0 /\ asked' \in Sectors /\ UNCHANGED <<told, out, ret>>
Take    == asked # 0 /\ told' \in BOOLEAN /\ UNCHANGED <<asked, out, ret>>
Succeed == asked # 0 /\ ~told /\ asked' = 0 /\ out' = asked /\ ret' = 0
Garbled == asked # 0 /\ told /\ asked' = 0 /\ out' = Garbage /\ ret' = 0
Fail    == asked # 0 /\ asked' = 0 /\ out' = out /\ ret' = -1

Next == Call \/ Take \/ ((Succeed \/ Garbled \/ Fail) /\ told' = told)

Spec == Init /\ [][Next]_vars
=============================================================================
