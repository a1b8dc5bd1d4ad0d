---------------------------- MODULE RemoteMemory ----------------------------
(***************************************************************************)
(* What edcl_read and edcl_write promise: a transfer moves its bytes to or *)
(* from the board's memory once, from the first to the last, some at a     *)
(* time, and is over when all have been moved.                             *)
(***************************************************************************)
EXTENDS Integers, Sequences

VARIABLES
  mem,     \* the board's memory
  call,    \* the transfer in progress: [op, addr, bytes, ibuf]
  moved,   \* bytes of it moved so far
  got      \* the bytes a read has moved

vars == <<mem, call, moved, got>>

Init == call.op = "none" /\ moved = 0 /\ got = <<>>

Begin ==
  /\ moved = call.bytes
  /\ moved' = 0 /\ got' = <<>>
  /\ UNCHANGED mem

Move(n) ==
  LET from == call.addr + moved IN
  /\ moved + n <= call.bytes
  /\ moved' = moved + n
  /\ IF call.op = "write"
       THEN /\ mem' = [a \in DOMAIN mem |->
                         IF a >= from /\ a < from + n
                           THEN call.ibuf[a - call.addr + 1] ELSE mem[a]]
            /\ got' = got
       ELSE /\ got' = got \o [k \in 1..n |-> mem[from + k - 1]]
            /\ mem' = mem
  /\ UNCHANGED call

Next == Begin \/ \E n \in 1..call.bytes : Move(n)

Spec == Init /\ [][Next]_vars
=============================================================================
