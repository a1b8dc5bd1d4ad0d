---------------------------- MODULE CommandQueue ----------------------------
(***************************************************************************)
(* The command queue of bare_metal/queue.c (the same code is in            *)
(* bare_metal/minion_lib.c).  The host collects register operations in     *)
(* edcl_trans, copies them to the memory it shares with the minion         *)
(* processor of the board, rings a doorbell in slot edcl_max and polls     *)
(* slot 0 until the minion clears its pointer.                             *)
(*                                                                         *)
(* One edcl_read or edcl_write of several slots is a loop of exchanges of  *)
(* 32 bytes, ChunkSlots slots, and the minion runs between them: an action *)
(* of the host is one exchange and the local code around it.  The minion's *)
(* firmware is external; it is modelled from what the queue relies on.     *)
(*                                                                         *)
(* An operator named ..._bug is a variant of the next one with a plausible *)
(* fault; it is in no specification and serves to see that a property      *)
(* depends on that line of the code.                                       *)
(***************************************************************************)
EXTENDS Integers, Sequences

CONSTANTS
  EdclMax,      \* edcl_max, the doorbell's slot (256 in the code)
  ChunkSlots,   \* slots moved by one EDCL exchange (2 in the code)
  NRegs,        \* device registers, at addresses 1 .. NRegs
  Vals,         \* the values of a register word
  Dead,         \* 0xDEADBEEF
  Arrays,       \* the lengths queue_read_array is called with (32 in the code)
  Limits,       \* the limits queue_block_read1 is called with
  MaxBlock,     \* most slots of data one block read delivers
  Acks,         \* TRUE: the minion takes the doorbell down when it starts
  MaxFaults     \* bound: failed exchanges and host restarts

ASSUME QueueAssumption ==
  /\ EdclMax \in Nat /\ EdclMax >= 4
  /\ ChunkSlots \in Nat /\ ChunkSlots >= 1
  /\ NRegs \in Nat /\ NRegs >= 1
  /\ {0, 1} \subseteq Vals /\ Dead \notin Vals
  /\ Arrays \subseteq 1..(EdclMax - 2)
  /\ Limits \subseteq Nat
  /\ MaxBlock \in 0..(EdclMax - 1)
  /\ Acks \in BOOLEAN
  /\ MaxFaults \in Nat

Unknown   == 0          \* edcl_mode_unknown, the terminator
Read      == 1
Write     == 2
BlockRead == 3

Null       == 0
Regs       == 1..NRegs
SharedBase == NRegs + 1    \* 8<<20, the shared memory as the minion sees it
RxFifo     == NRegs + 2    \* rxfifo_base

Slots == 0..EdclMax
Modes == 0..(EdclMax - 1)  \* an enum edcl_mode, or the count of a block read
Slot  == [mode : Modes, ptr : 0..RxFifo, val : Vals \cup {Dead}]
Op(m, p, v) == [mode |-> m, ptr |-> p, val |-> v]

VARIABLES
  edcl_trans,   \* the host's copy of the queue
  edcl_cnt,     \* its length
  pc,           \* the exchange the host does next
  call,         \* the call in progress, or the last one that used the bus
  pos,          \* next slot of a transfer of several exchanges
  tmp,          \* the local of that name in queue_flush and queue_block_read1
  flushed,      \* what queue_flush returned
  tmpbuf,       \* the words a block read has copied so far
  result,       \* what the last call returned
  shared,       \* the shared memory, the doorbell is slot EdclMax
  minion,       \* the minion: [run : BOOLEAN, at : the slot it does next]
  todo,         \* history: operations issued that no device has seen yet
  got,          \* history: values read from devices for the call in progress
  faults        \* failed exchanges and restarts so far

host == <<edcl_trans, edcl_cnt, pc, call, pos, tmp, flushed, tmpbuf, result>>
vars == <<host, shared, minion, todo, got, faults>>

PCs == {"Idle", "FlushWrite", "FlushRing", "FlushPoll", "FlushClear",
        "ReadBack", "ArrayAppend", "ArrayBack",
        "BlockSlot", "BlockRing", "BlockPoll", "BlockData"}

Call == [op : {"flush", "write", "read", "array", "block"},
         ptr : 0..RxFifo, n : Nat, queued : BOOLEAN]

Blank == Op(Unknown, Null, 0)

Init ==
  /\ edcl_trans = [i \in Slots |-> Blank] /\ edcl_cnt = 0
  /\ pc = "Idle" /\ pos = 0 /\ tmp = Blank /\ flushed = 0
  /\ call = [op |-> "flush", ptr |-> Null, n |-> 0, queued |-> FALSE]
  /\ tmpbuf = <<>> /\ result = <<>>
  /\ shared = [i \in Slots |-> Blank]
  /\ minion = [run |-> FALSE, at |-> 0]
  /\ todo = <<>> /\ got = <<>> /\ faults = 0

-----------------------------------------------------------------------------
(* Exchanges.  Nobody looks at the result of shared_read and shared_write: *)
(* a failed one ends the transfer and the code goes on.                    *)

Bus(ok) ==
  IF ok THEN faults' = faults ELSE faults < MaxFaults /\ faults' = faults + 1

\* The last slot, excluded, of the exchange that starts at lo of lo .. hi-1.
ChunkEnd(lo, hi) == IF lo + ChunkSlots < hi THEN lo + ChunkSlots ELSE hi

\* The function to with slots lo .. hi-1 copied from the function from.
Copy(from, to, lo, hi) ==
  [i \in Slots |-> IF i >= lo /\ i < hi THEN from[i] ELSE to[i]]

\* A failed exchange may or may not have reached the board.
Stored(ok, new) == shared' \in IF ok THEN {new} ELSE {shared, new}

-----------------------------------------------------------------------------
(* The functions of the queue up to their first exchange                   *)

\* The terminator queue_flush appends keeps the slot's old pointer and value.
Terminated_bug(trans, n) == trans
Terminated(trans, n) == [trans EXCEPT ![n].mode = Unknown]

\* queue_flush up to its first exchange, with cnt operations in trans
StartFlush(trans, cnt) ==
  /\ edcl_trans' = Terminated(trans, cnt)
  /\ edcl_cnt' = cnt + 1
  /\ pos' = 0
  /\ pc' = "FlushWrite"

Begin(op, ptr, n, queued) ==
  call' = [op |-> op, ptr |-> ptr, n |-> n, queued |-> queued]

Return(value) ==
  pc' = "Idle" /\ result' = value /\ tmpbuf' = <<>> /\ got' = <<>>

QueueFlush ==
  /\ pc = "Idle"
  /\ StartFlush(edcl_trans, edcl_cnt)
  /\ Begin("flush", Null, 0, TRUE)
  /\ UNCHANGED <<tmp, flushed, tmpbuf, result, shared, minion, todo, got,
                 faults>>

\* queue_write leaves room for the terminator below the doorbell
FlushDue_bug(flush, cnt) == flush \/ cnt = EdclMax
FlushDue(flush, cnt) == flush \/ cnt = EdclMax - 1

QueueWrite(sd_ptr, val, flush) ==
  LET trans == [edcl_trans EXCEPT ![edcl_cnt] = Op(Write, sd_ptr, val)]
      cnt   == edcl_cnt + 1
  IN
  /\ pc = "Idle"
  /\ IF FlushDue(flush, cnt)
       THEN StartFlush(trans, cnt) /\ Begin("write", sd_ptr, 0, TRUE)
       ELSE edcl_trans' = trans /\ edcl_cnt' = cnt /\ UNCHANGED <<pc, pos, call>>
  /\ todo' = Append(todo, Op(Write, sd_ptr, val))
  /\ UNCHANGED <<tmp, flushed, tmpbuf, result, shared, minion, got, faults>>

QueueRead(sd_ptr) ==
  LET op == Op(Read, sd_ptr, Dead) IN
  /\ pc = "Idle"
  /\ StartFlush([edcl_trans EXCEPT ![edcl_cnt] = op], edcl_cnt + 1)
  /\ Begin("read", sd_ptr, 1, TRUE)
  /\ todo' = Append(todo, op)
  /\ UNCHANGED <<tmp, flushed, tmpbuf, result, shared, minion, got, faults>>

\* queue_read_array after the flush that makes room: n reads and a flush
AppendArray(sd_ptr, n) ==
  LET trans == [i \in Slots |-> IF i >= edcl_cnt /\ i < edcl_cnt + n
                                  THEN Op(Read, sd_ptr + i - edcl_cnt, Dead)
                                  ELSE edcl_trans[i]]
  IN
  /\ StartFlush(trans, edcl_cnt + n)
  /\ Begin("array", sd_ptr, n, TRUE)
  /\ todo' = todo \o [k \in 1..n |-> Op(Read, sd_ptr + k - 1, Dead)]

NeedsRoom_bug(n) == edcl_cnt + n > EdclMax
NeedsRoom(n) == edcl_cnt + n >= EdclMax

\* Every program flushes or writes before it reads an array (main of
\* selftest.c begins with board_mmc_power_init, which begins with a flush).
QueueReadArray(sd_ptr, n) ==
  /\ pc = "Idle"
  /\ edcl_cnt > 0
  /\ IF NeedsRoom(n)
       THEN /\ StartFlush(edcl_trans, edcl_cnt)
            /\ Begin("array", sd_ptr, n, FALSE)
            /\ UNCHANGED todo
       ELSE AppendArray(sd_ptr, n)
  /\ UNCHANGED <<tmp, flushed, tmpbuf, result, shared, minion, got, faults>>

QueueBlockRead1(max) ==
  /\ pc = "Idle"
  /\ StartFlush(edcl_trans, edcl_cnt)
  /\ Begin("block", RxFifo, max, FALSE)
  /\ UNCHANGED <<tmp, flushed, tmpbuf, result, shared, minion, todo, got,
                 faults>>

-----------------------------------------------------------------------------
(* queue_flush *)

FlushWrite(ok) ==
  LET end == ChunkEnd(pos, edcl_cnt) IN
  /\ pc = "FlushWrite"
  /\ Bus(ok)
  /\ Stored(ok, Copy(edcl_trans, shared, pos, end))
  /\ pos' = end
  /\ pc' = IF ok /\ end < edcl_cnt THEN pc ELSE "FlushRing"
  /\ UNCHANGED <<edcl_trans, edcl_cnt, call, tmp, flushed, tmpbuf, result,
                 minion, todo, got>>

\* tmp.mode and tmp.ptr are not initialised: junk is what the stack held
FlushRing(ok, junk) ==
  /\ pc = "FlushRing"
  /\ Bus(ok)
  /\ tmp' = Op(Unknown, junk, Dead)
  /\ Stored(ok, [shared EXCEPT ![EdclMax] = tmp'])
  /\ pc' = "FlushPoll"
  /\ UNCHANGED <<edcl_trans, edcl_cnt, call, pos, flushed, tmpbuf, result,
                 minion, todo, got>>

\* the condition that ends the do loop around the poll of slot 0
PollDone_bug(slot) == TRUE
PollDone(slot) == slot.ptr = Null

FlushPoll(ok) ==
  /\ pc = "FlushPoll"
  /\ Bus(ok)
  /\ tmp' = IF ok THEN shared[0] ELSE tmp
  /\ pc' = IF PollDone(tmp') THEN "FlushClear" ELSE "FlushPoll"
  /\ UNCHANGED <<edcl_trans, edcl_cnt, call, pos, flushed, tmpbuf, result,
                 shared, minion, todo, got>>

\* where the caller of queue_flush goes on
AfterFlush ==
  CASE call.op = "read"                  -> "ReadBack"
    [] call.op = "array" /\ call.queued  -> "ArrayBack"
    [] call.op = "array" /\ ~call.queued -> "ArrayAppend"
    [] call.op = "block"                 -> "BlockSlot"
    [] OTHER                             -> "Idle"

DoorbellDown_bug(slot) == [slot EXCEPT !.val = Dead]
DoorbellDown(slot) == [slot EXCEPT !.val = 0]

\* Slot 0 is kept for a read of the shared memory, whose pointer is not Null.
Handshake_bug(trans) == trans
Handshake(trans) == [trans EXCEPT ![0].mode = Read, ![0].ptr = SharedBase]

\* the first slot of queue_read_array's reads, from what queue_flush returned
ArrayFirst_bug(ret) == ret - call.n
ArrayFirst(ret) == ret - 1 - call.n

CountAfterFlush_bug == edcl_cnt - 1
CountAfterFlush == 1

FlushClear(ok) ==
  /\ pc = "FlushClear"
  /\ Bus(ok)
  /\ Stored(ok, [shared EXCEPT ![EdclMax] = DoorbellDown(tmp)])
  /\ flushed' = edcl_cnt
  /\ edcl_cnt' = CountAfterFlush
  /\ edcl_trans' = Handshake(edcl_trans)
  /\ pos' = IF AfterFlush = "ArrayBack" THEN ArrayFirst(edcl_cnt) ELSE 0
  /\ IF AfterFlush = "Idle"
       THEN Return(<<>>)
       ELSE pc' = AfterFlush /\ UNCHANGED <<tmpbuf, result, got>>
  /\ UNCHANGED <<call, tmp, minion, todo>>

-----------------------------------------------------------------------------
(* queue_read, queue_read_array and queue_block_read1 after the flush *)

ReadSlot_bug == flushed - 1
ReadSlot == flushed - 2

\* a failed exchange leaves the 0xDEADBEEF of the request in tmp
ReadBack(ok) ==
  /\ pc = "ReadBack"
  /\ Bus(ok)
  /\ Return(<<IF ok THEN shared[ReadSlot].val ELSE Dead>>)
  /\ UNCHANGED <<edcl_trans, edcl_cnt, call, pos, tmp, flushed,
                 shared, minion, todo>>

ArrayAppend ==
  /\ pc = "ArrayAppend"
  /\ AppendArray(call.ptr, call.n)
  /\ UNCHANGED <<tmp, flushed, tmpbuf, result, shared, minion, got, faults>>

\* reads the slots n .. n+cnt-1 back over the same slots of edcl_trans
ArrayBack(ok) ==
  LET last  == ArrayFirst(flushed) + call.n
      end   == ChunkEnd(pos, last)
      trans == IF ok THEN Copy(shared, edcl_trans, pos, end) ELSE edcl_trans
  IN
  /\ pc = "ArrayBack"
  /\ Bus(ok)
  /\ edcl_trans' = trans
  /\ pos' = end
  /\ IF ok /\ end < last
       THEN UNCHANGED <<pc, tmpbuf, result, got>>
       ELSE Return([k \in 1..call.n |-> trans[ArrayFirst(flushed) + k - 1].val])
  /\ UNCHANGED <<edcl_cnt, call, tmp, flushed, shared, minion, todo>>

BlockSlot(ok) ==
  LET op == Op(BlockRead, RxFifo, 1) IN
  /\ pc = "BlockSlot"
  /\ Bus(ok)
  /\ Stored(ok, [shared EXCEPT ![0] = op])
  /\ tmp' = op
  /\ todo' = Append(todo, op)
  /\ pc' = "BlockRing"
  /\ UNCHANGED <<edcl_trans, edcl_cnt, call, pos, flushed, tmpbuf, result,
                 minion, got>>

Ring_bug(slot) == slot
Ring(slot) == [slot EXCEPT !.val = Dead]

BlockRing(ok) ==
  /\ pc = "BlockRing"
  /\ Bus(ok)
  /\ tmp' = Ring(tmp)
  /\ Stored(ok, [shared EXCEPT ![EdclMax] = tmp'])
  /\ pc' = "BlockPoll"
  /\ UNCHANGED <<edcl_trans, edcl_cnt, call, pos, flushed, tmpbuf, result,
                 minion, todo, got>>

\* what is copied of the data, when slot 0 says how much there is in its mode
BlockCount(slot) == IF call.n > slot.mode THEN slot.mode ELSE call.n

\* leaves the doorbell as it is
BlockPoll(ok) ==
  /\ pc = "BlockPoll"
  /\ Bus(ok)
  /\ tmp' = IF ok THEN shared[0] ELSE tmp
  /\ pos' = 1
  /\ IF ~PollDone(tmp')
       THEN UNCHANGED <<pc, tmpbuf, result, got>>
       ELSE IF BlockCount(tmp') = 0 THEN Return(<<>>)
       ELSE pc' = "BlockData" /\ UNCHANGED <<tmpbuf, result, got>>
  /\ UNCHANGED <<edcl_trans, edcl_cnt, call, flushed, shared, minion, todo>>

BlockData(ok) ==
  LET n    == BlockCount(tmp)
      end  == ChunkEnd(pos, n + 1)
      read == IF ok THEN [k \in 1..(end - pos) |-> shared[pos + k - 1].val]
                    ELSE <<>>
  IN
  /\ pc = "BlockData"
  /\ Bus(ok)
  /\ pos' = end
  /\ IF ok /\ end < n + 1
       THEN tmpbuf' = tmpbuf \o read /\ UNCHANGED <<pc, result, got>>
       ELSE Return(tmpbuf \o read)
  /\ UNCHANGED <<edcl_trans, edcl_cnt, call, tmp, flushed,
                 shared, minion, todo>>

\* The user ends the program at any point and starts it again.
HostRestart ==
  /\ faults < MaxFaults
  /\ faults' = faults + 1
  /\ edcl_trans' = [i \in Slots |-> Blank] /\ edcl_cnt' = 0
  /\ pc' = "Idle" /\ pos' = 0 /\ tmp' = Blank /\ flushed' = 0
  /\ call' = [op |-> "flush", ptr |-> Null, n |-> 0, queued |-> FALSE]
  /\ tmpbuf' = <<>> /\ result' = <<>> /\ got' = <<>> /\ todo' = <<>>
  /\ UNCHANGED <<shared, minion>>

-----------------------------------------------------------------------------
(* The minion *)

Ringing == shared[EdclMax].val = Dead /\ shared[0].ptr # Null

MinionStart ==
  /\ ~minion.run /\ Ringing
  /\ minion' = [run |-> TRUE, at |-> 0]
  /\ shared' = IF Acks THEN [shared EXCEPT ![EdclMax].val = 0] ELSE shared
  /\ UNCHANGED <<host, todo, got, faults>>

\* the operation in slot at, if it is one of the caller's
Performed(slot) ==
  todo' = IF slot.ptr = SharedBase \/ todo = <<>> THEN todo ELSE Tail(todo)

MinionWrite ==
  LET slot == shared[minion.at] IN
  /\ minion.run /\ minion.at < EdclMax /\ slot.mode = Write
  /\ Performed(slot)
  /\ minion' = [minion EXCEPT !.at = minion.at + 1]
  /\ UNCHANGED <<host, shared, got, faults>>

\* the device gives any value, the shared memory gives no matter which
MinionRead ==
  LET slot == shared[minion.at] IN
  /\ minion.run /\ minion.at < EdclMax /\ slot.mode = Read
  /\ \E v \in Vals :
       /\ slot.ptr = SharedBase => v = 0
       /\ shared' = [shared EXCEPT ![minion.at].val = v]
       /\ got' = IF slot.ptr = SharedBase THEN got ELSE Append(got, v)
  /\ Performed(slot)
  /\ minion' = [minion EXCEPT !.at = minion.at + 1]
  /\ UNCHANGED <<host, faults>>

\* empties the FIFO into slots 1 .. n, puts n in slot 0 and is done
MinionBlockRead ==
  LET slot == shared[minion.at] IN
  /\ minion.run /\ minion.at < EdclMax /\ slot.mode = BlockRead
  /\ \E n \in 0..MaxBlock : \E data \in [1..n -> Vals] :
       /\ shared' = [i \in Slots |->
                       IF i = 0 THEN Op(n, Null, slot.val)
                       ELSE IF i <= n THEN Op(Unknown, Null, data[i]) ELSE shared[i]]
       /\ got' = got \o data
  /\ Performed(slot)
  /\ minion' = [run |-> FALSE, at |-> 0]
  /\ UNCHANGED <<host, faults>>

MinionFinish ==
  /\ minion.run /\ minion.at < EdclMax
  /\ shared[minion.at].mode \notin {Write, Read, BlockRead}
  /\ shared' = [shared EXCEPT ![0].ptr = Null]
  /\ minion' = [run |-> FALSE, at |-> 0]
  /\ UNCHANGED <<host, todo, got, faults>>

-----------------------------------------------------------------------------
Calls ==
  \/ QueueFlush
  \/ \E r \in Regs, v \in Vals, flush \in BOOLEAN : QueueWrite(r, v, flush)
  \/ \E r \in Regs : QueueRead(r)
  \/ \E r \in Regs, n \in Arrays : r + n - 1 \in Regs /\ QueueReadArray(r, n)
  \/ \E max \in Limits : QueueBlockRead1(max)

Host ==
  \/ \E ok \in BOOLEAN :
       \/ FlushWrite(ok) \/ FlushPoll(ok) \/ FlushClear(ok)
       \/ \E junk \in 0..RxFifo : FlushRing(ok, junk)
       \/ ReadBack(ok) \/ ArrayBack(ok)
       \/ BlockSlot(ok) \/ BlockRing(ok) \/ BlockPoll(ok) \/ BlockData(ok)
  \/ ArrayAppend

Minion ==
  \/ MinionStart \/ MinionWrite \/ MinionRead \/ MinionBlockRead \/ MinionFinish

Next == Calls \/ Host \/ HostRestart \/ Minion

Spec == Init /\ [][Next]_vars

\* The host and the minion are loops that never block on anything else.
FairSpec == Spec /\ WF_vars(Host) /\ WF_vars(Minion)

-----------------------------------------------------------------------------
(* Properties.  faults = 0: until an exchange fails or the host restarts.  *)

Polling == pc \in {"FlushPoll", "BlockPoll"}

\* The variables have their types.
TypeOK ==
  /\ edcl_trans \in [Slots -> Slot] /\ edcl_cnt \in 0..EdclMax
  /\ pc \in PCs /\ call \in Call
  /\ pos \in 0..EdclMax /\ flushed \in 0..EdclMax
  /\ tmp \in Slot
  /\ tmpbuf \in Seq(Vals \cup {Dead}) /\ result \in Seq(Vals \cup {Dead})
  /\ shared \in [Slots -> Slot]
  /\ minion \in [run : BOOLEAN, at : Slots]
  /\ todo \in Seq(Slot) /\ got \in Seq(Vals)
  /\ faults \in 0..MaxFaults

\* Whatever fails, a queue_flush never copies its queue over the doorbell in
\* slot edcl_max, and a call that begins finds room for its terminator.
QueueBelowDoorbell ==
  /\ pc = "FlushWrite" => pos < edcl_cnt /\ edcl_cnt <= EdclMax
  /\ pc = "Idle" => edcl_cnt <= EdclMax - 2
  /\ pc \in {"ReadBack", "ArrayBack"} => flushed - 1 - call.n \in 0..(EdclMax - 2)

\* The minion runs only while the host does nothing but poll slot 0: neither
\* ever changes or reads a slot the other is working on.
NoConcurrentAccess ==
  faults = 0 => (minion.run => Polling)

\* The operation the minion is about to perform is the oldest one the callers
\* issued and no device has seen: none is lost, repeated or overtaken.
InOrderExactlyOnce ==
  faults = 0 =>
    LET slot == shared[minion.at] IN
    minion.run /\ slot.mode \in {Read, Write, BlockRead} /\ slot.ptr # SharedBase
      => todo # <<>> /\ Head(todo) = slot

\* Between calls nothing is outstanding but the writes still in edcl_trans,
\* which slot 0 (the read of the shared memory after a flush) is not one of.
AllPerformedAtReturn ==
  faults = 0 /\ pc = "Idle" =>
    LET base == IF edcl_trans[0].ptr = SharedBase THEN 1 ELSE 0
    IN  todo = [k \in 1..(edcl_cnt - base) |-> edcl_trans[base + k - 1]]

\* queue_read and queue_read_array return what the devices gave for their own
\* reads, in order; queue_block_read1 returns the first words of its block, as
\* many as it was asked for, or all of them when there are fewer.
ReadsReturnDeviceValues ==
  [][faults' = 0 /\ pc' = "Idle" =>
       /\ pc \in {"ReadBack", "ArrayBack"} => result' = got
       /\ pc \in {"BlockPoll", "BlockData"} =>
            result' = SubSeq(got, 1, IF call.n < Len(got) THEN call.n ELSE Len(got))]_vars

\* Only queue_block_read1 leaves the doorbell up behind it (queue_flush takes
\* it down): a minion that watches the level of the doorbell can start on the
\* next queue before it is complete only after a block read.
BellLeftOnlyByBlockRead ==
  faults = 0 /\ pc = "Idle" /\ shared[EdclMax].val = Dead => call.op = "block"

\* Every call that uses the bus returns.
CallReturns == pc # "Idle" ~> pc = "Idle"
=============================================================================
