------------------------- MODULE CommandQueueProofs -------------------------
(* Theorems about CommandQueue for every queue size, exchange size, set of  *)
(* registers and values: the turns host and minion take, and, resting on    *)
(* them, that the queue performs what its callers issued, in order and      *)
(* once, and gives them what the devices gave: the bus of RegisterBus.      *)
EXTENDS MCCommandQueue, SequenceTheorems, TLAPS

-----------------------------------------------------------------------------
(* Types and bounds *)

\* What each step of a call knows of the queue's length and of its position.
Bounds ==
  /\ pc = "Idle" => edcl_cnt <= EdclMax - 2
  /\ pc = "FlushWrite" => pos < edcl_cnt
  /\ pc \in {"FlushWrite", "FlushRing", "FlushPoll", "FlushClear"} =>
       /\ edcl_cnt >= 1
       /\ call.op = "read" => edcl_cnt >= 2
       /\ call.op = "array" /\ call.queued => edcl_cnt >= call.n + 1
  /\ pc \in {"ReadBack", "ArrayAppend", "ArrayBack", "BlockSlot", "BlockRing",
             "BlockPoll", "BlockData"} => edcl_cnt = 1
  /\ pc \in {"ReadBack", "ArrayBack"} =>
       flushed >= call.n + 1 /\ flushed <= EdclMax
  /\ pc = "ReadBack" => call.op = "read"
  /\ pc \in {"ArrayAppend", "ArrayBack"} => call.op = "array"
  /\ pc = "ArrayBack" =>
       flushed - 1 - call.n <= pos /\ pos < flushed - 1
  /\ pc = "BlockData" => 1 <= pos /\ pos <= BlockCount(tmp)
  /\ call.op = "read" => call.n = 1
  /\ call.op = "array" =>
       call.n \in Arrays /\ call.ptr \in Regs /\ call.ptr + call.n - 1 \in Regs

TypeInv == TypeOK /\ Bounds

LEMMA Numbers ==
  /\ Unknown \in Modes /\ Read \in Modes /\ Write \in Modes /\ BlockRead \in Modes
  /\ Null \in 0..RxFifo /\ SharedBase \in 0..RxFifo /\ RxFifo \in 0..RxFifo
  /\ Regs \subseteq 0..RxFifo
  /\ 0 \in Slots /\ EdclMax \in Slots /\ EdclMax \in Nat /\ EdclMax >= 4
  /\ 0 \in Vals /\ 1 \in Vals /\ Dead \in Vals \cup {Dead} /\ 0 # Dead
BY QueueAssumption
   DEF Unknown, Read, Write, BlockRead, Modes, Null, SharedBase, RxFifo, Regs,
       Slots

LEMMA OpType ==
  ASSUME NEW m \in Modes, NEW p \in 0..RxFifo, NEW v \in Vals \cup {Dead}
  PROVE  Op(m, p, v) \in Slot
BY DEF Op, Slot

LEMMA BlankType == Blank \in Slot
BY Numbers, OpType DEF Blank

\* An exchange moves at least one slot and stays in its transfer.
LEMMA ChunkEndBounds ==
  ASSUME NEW lo \in Nat, NEW hi \in Nat, lo < hi
  PROVE  ChunkEnd(lo, hi) \in Nat /\ lo < ChunkEnd(lo, hi) /\ ChunkEnd(lo, hi) <= hi
BY QueueAssumption DEF ChunkEnd

LEMMA CopyType ==
  ASSUME NEW from \in [Slots -> Slot], NEW to \in [Slots -> Slot],
         NEW lo \in Nat, NEW hi \in Nat
  PROVE  Copy(from, to, lo, hi) \in [Slots -> Slot]
BY DEF Copy

LEMMA StartFlushType ==
  ASSUME NEW trans \in [Slots -> Slot], NEW cnt \in 0..(EdclMax - 1),
         StartFlush(trans, cnt)
  PROVE  /\ edcl_trans' \in [Slots -> Slot]
         /\ edcl_cnt' = cnt + 1 /\ edcl_cnt' \in 0..EdclMax
         /\ pos' = 0 /\ pos' \in 0..EdclMax /\ pc' = "FlushWrite"
<1>1. [trans[cnt] EXCEPT !.mode = Unknown] \in Slot
  <2>1. trans[cnt] \in Slot
    BY Numbers DEF Slots
  <2> QED BY <2>1, Numbers DEF Slot
<1>2. Terminated(trans, cnt) \in [Slots -> Slot]
  BY <1>1 DEF Terminated
<1> QED BY <1>2, Numbers DEF StartFlush

LEMMA BeginType ==
  ASSUME NEW op \in {"flush", "write", "read", "array", "block"},
         NEW ptr \in 0..RxFifo, NEW n \in Nat, NEW queued \in BOOLEAN,
         Begin(op, ptr, n, queued)
  PROVE  /\ call' \in Call /\ call'.op = op /\ call'.ptr = ptr
         /\ call'.n = n /\ call'.queued = queued
BY DEF Begin, Call

LEMMA StoredType ==
  ASSUME NEW ok \in BOOLEAN, NEW new \in [Slots -> Slot],
         shared \in [Slots -> Slot], Stored(ok, new)
  PROVE  shared' \in [Slots -> Slot]
BY DEF Stored

LEMMA BusType ==
  ASSUME NEW ok \in BOOLEAN, faults \in 0..MaxFaults, Bus(ok)
  PROVE  faults' \in 0..MaxFaults /\ (faults' = 0 => faults = 0 /\ ok)
BY QueueAssumption DEF Bus

LEMMA InitTypeInv == Init => TypeInv
<1> SUFFICES ASSUME Init PROVE TypeInv
  OBVIOUS
<1>1. edcl_trans \in [Slots -> Slot] /\ shared \in [Slots -> Slot] /\ tmp \in Slot
  BY BlankType DEF Init
<1>2. call \in Call /\ call.op = "flush"
  BY Numbers DEF Init, Call
<1>3. TypeOK
  BY <1>1, <1>2, Numbers, QueueAssumption, EmptySeq DEF Init, TypeOK, PCs, Slots
<1>4. Bounds
  BY <1>2, Numbers DEF Init, Bounds
<1> QED BY <1>3, <1>4 DEF TypeInv

\* a call that begins with a flush
LEMMA StartTypeInv ==
  ASSUME TypeInv,
         NEW trans \in [Slots -> Slot], NEW cnt \in 0..(EdclMax - 1),
         NEW op \in {"flush", "write", "read", "array", "block"},
         NEW ptr \in 0..RxFifo, NEW n \in Nat, NEW queued \in BOOLEAN,
         StartFlush(trans, cnt), Begin(op, ptr, n, queued),
         op = "read" => n = 1 /\ cnt >= 1,
         op = "array" => n \in Arrays /\ ptr \in Regs /\ ptr + n - 1 \in Regs,
         op = "array" /\ queued => cnt >= n,
         todo' \in Seq(Slot),
         UNCHANGED <<tmp, flushed, tmpbuf, result, shared, minion, got, faults>>
  PROVE  TypeInv'
<1>1. /\ edcl_trans' \in [Slots -> Slot]
      /\ edcl_cnt' = cnt + 1 /\ edcl_cnt' \in 0..EdclMax
      /\ pos' = 0 /\ pos' \in 0..EdclMax /\ pc' = "FlushWrite"
  BY StartFlushType
<1>2. /\ call' \in Call /\ call'.op = op /\ call'.ptr = ptr
      /\ call'.n = n /\ call'.queued = queued
  BY BeginType
<1>3. TypeOK'
  BY <1>1, <1>2 DEF TypeInv, TypeOK, PCs
<1>4. Bounds'
  <2>1. cnt \in Nat
    BY Numbers
  <2>2. call'.op = "read" => edcl_cnt' >= 2 /\ call'.n = 1
    BY <1>1, <1>2, <2>1
  <2>3. call'.op = "array" /\ call'.queued => edcl_cnt' >= call'.n + 1
    BY <1>1, <1>2, <2>1
  <2>4. call'.op = "array" =>
          /\ call'.n \in Arrays /\ call'.ptr \in Regs
          /\ call'.ptr + call'.n - 1 \in Regs
    BY <1>2
  <2> QED BY <1>1, <2>1, <2>2, <2>3, <2>4 DEF Bounds
<1> QED BY <1>3, <1>4 DEF TypeInv

LEMMA QueueFlushTypeInv == TypeInv /\ QueueFlush => TypeInv'
<1> SUFFICES ASSUME TypeInv, QueueFlush PROVE TypeInv'
  OBVIOUS
<1>1. edcl_cnt \in 0..(EdclMax - 1) /\ edcl_trans \in [Slots -> Slot]
  BY Numbers DEF TypeInv, TypeOK, Bounds, QueueFlush
<1>2. todo' \in Seq(Slot)
  BY DEF TypeInv, TypeOK, QueueFlush
<1> QED BY <1>1, <1>2, StartTypeInv, Numbers DEF QueueFlush

\* a slot of the queue written by queue_write and queue_read
LEMMA SetSlotType ==
  ASSUME NEW trans \in [Slots -> Slot], NEW i, NEW op \in Slot
  PROVE  [trans EXCEPT ![i] = op] \in [Slots -> Slot]
OBVIOUS

LEMMA QueueWriteTypeInv ==
  ASSUME TypeInv, NEW r \in Regs, NEW v \in Vals, NEW flush \in BOOLEAN,
         QueueWrite(r, v, flush)
  PROVE  TypeInv'
<1> DEFINE op    == Op(Write, r, v)
           trans == [edcl_trans EXCEPT ![edcl_cnt] = op]
<1>1. op \in Slot /\ r \in 0..RxFifo
  BY OpType, Numbers
<1>2. trans \in [Slots -> Slot]
  BY <1>1, SetSlotType DEF TypeInv, TypeOK
<1>3. todo' \in Seq(Slot)
  BY <1>1 DEF QueueWrite, TypeInv, TypeOK
<1>4. edcl_cnt \in 0..(EdclMax - 2) /\ edcl_cnt + 1 \in 0..(EdclMax - 1)
  BY Numbers DEF TypeInv, TypeOK, Bounds, QueueWrite
<1>5. CASE FlushDue(flush, edcl_cnt + 1)
  <2>1. StartFlush(trans, edcl_cnt + 1) /\ Begin("write", r, 0, TRUE)
    BY <1>5 DEF QueueWrite
  <2> QED BY <2>1, <1>1, <1>2, <1>3, <1>4, StartTypeInv DEF QueueWrite
<1>6. CASE ~FlushDue(flush, edcl_cnt + 1)
  <2>1. edcl_trans' = trans /\ edcl_cnt' = edcl_cnt + 1 /\ UNCHANGED <<pc, pos, call>>
    BY <1>6 DEF QueueWrite
  <2>2. edcl_cnt' <= EdclMax - 2
    BY <2>1, <1>4, <1>6, Numbers DEF FlushDue
  <2>3. TypeOK'
    BY <2>1, <1>2, <1>3, <1>4, Numbers DEF QueueWrite, TypeInv, TypeOK
  <2>4. Bounds'
    BY <2>1, <2>2 DEF QueueWrite, TypeInv, Bounds
  <2> QED BY <2>3, <2>4 DEF TypeInv
<1> QED BY <1>5, <1>6

LEMMA QueueReadTypeInv ==
  ASSUME TypeInv, NEW r \in Regs, QueueRead(r)
  PROVE  TypeInv'
<1> DEFINE op    == Op(Read, r, Dead)
           trans == [edcl_trans EXCEPT ![edcl_cnt] = op]
<1>1. op \in Slot /\ r \in 0..RxFifo
  BY OpType, Numbers
<1>2. trans \in [Slots -> Slot]
  BY <1>1, SetSlotType DEF TypeInv, TypeOK
<1>3. todo' \in Seq(Slot)
  BY <1>1 DEF QueueRead, TypeInv, TypeOK
<1>4. edcl_cnt + 1 \in 1..(EdclMax - 1)
  BY Numbers DEF TypeInv, TypeOK, Bounds, QueueRead
<1>5. StartFlush(trans, edcl_cnt + 1) /\ Begin("read", r, 1, TRUE)
  BY DEF QueueRead
<1>6. UNCHANGED <<tmp, flushed, tmpbuf, result, shared, minion, got, faults>>
  BY DEF QueueRead
<1>7. edcl_cnt + 1 \in 0..(EdclMax - 1) /\ edcl_cnt + 1 >= 1
  BY <1>4
<1> QED
  BY <1>1, <1>2, <1>3, <1>5, <1>6, <1>7, StartTypeInv

\* the reads of queue_read_array
ArrayOps(sd_ptr, n) ==
  [i \in Slots |-> IF i >= edcl_cnt /\ i < edcl_cnt + n
                     THEN Op(Read, sd_ptr + i - edcl_cnt, Dead)
                     ELSE edcl_trans[i]]

LEMMA AppendArrayType ==
  ASSUME TypeInv, NEW r \in Regs, NEW n \in Arrays, r + n - 1 \in Regs,
         edcl_cnt + n < EdclMax, AppendArray(r, n)
  PROVE  /\ ArrayOps(r, n) \in [Slots -> Slot]
         /\ edcl_cnt + n \in 0..(EdclMax - 1) /\ n \in Nat /\ n >= 1
         /\ StartFlush(ArrayOps(r, n), edcl_cnt + n)
         /\ Begin("array", r, n, TRUE)
         /\ todo' \in Seq(Slot)
<1>1. n \in Nat /\ n >= 1 /\ edcl_cnt \in Nat
  BY QueueAssumption DEF TypeInv, TypeOK
<1>2. \A i \in Nat : i < n => Op(Read, r + i, Dead) \in Slot
  <2> SUFFICES ASSUME NEW i \in Nat, i < n PROVE Op(Read, r + i, Dead) \in Slot
    OBVIOUS
  <2>1. r + i \in Regs
    BY <1>1, QueueAssumption DEF Regs
  <2> QED BY <2>1, Numbers, OpType
<1>3. ArrayOps(r, n) \in [Slots -> Slot]
  <2> SUFFICES ASSUME NEW i \in Slots PROVE ArrayOps(r, n)[i] \in Slot
    BY DEF ArrayOps
  <2>1. CASE i >= edcl_cnt /\ i < edcl_cnt + n
    <3>1. i - edcl_cnt \in Nat /\ i - edcl_cnt < n
      BY <2>1, <1>1 DEF Slots
    <3>2. r + i - edcl_cnt = r + (i - edcl_cnt)
      BY <1>1, QueueAssumption DEF Regs, Slots
    <3> QED BY <2>1, <3>1, <3>2, <1>2 DEF ArrayOps
  <2>2. CASE ~(i >= edcl_cnt /\ i < edcl_cnt + n)
    BY <2>2 DEF ArrayOps, TypeInv, TypeOK
  <2> QED BY <2>1, <2>2
<1>4. [k \in 1..n |-> Op(Read, r + k - 1, Dead)] \in Seq(Slot)
  <2>1. \A k \in 1..n : Op(Read, r + k - 1, Dead) \in Slot
    <3> SUFFICES ASSUME NEW k \in 1..n PROVE Op(Read, r + k - 1, Dead) \in Slot
      OBVIOUS
    <3>1. k - 1 \in Nat /\ k - 1 < n /\ r + k - 1 = r + (k - 1)
      BY <1>1, QueueAssumption DEF Regs
    <3> QED BY <3>1, <1>2
  <2>2. [k \in 1..n |-> Op(Read, r + k - 1, Dead)] \in [1..n -> Slot]
    BY <2>1
  <2> QED BY <2>2, <1>1, SeqDef
<1>5. todo' \in Seq(Slot)
  BY <1>4, ConcatProperties DEF AppendArray, TypeInv, TypeOK
<1>6. StartFlush(ArrayOps(r, n), edcl_cnt + n) /\ Begin("array", r, n, TRUE)
  BY DEF AppendArray, ArrayOps
<1>7. edcl_cnt + n \in 0..(EdclMax - 1)
  BY <1>1, Numbers
<1> QED BY <1>1, <1>3, <1>5, <1>6, <1>7

LEMMA QueueReadArrayTypeInv ==
  ASSUME TypeInv, NEW r \in Regs, NEW n \in Arrays, r + n - 1 \in Regs,
         QueueReadArray(r, n)
  PROVE  TypeInv'
<1>1. /\ r \in 0..RxFifo /\ n \in Nat /\ edcl_cnt \in Nat
      /\ edcl_cnt \in 0..(EdclMax - 1)
  BY Numbers, QueueAssumption DEF TypeInv, TypeOK, Bounds, QueueReadArray
<1>2. UNCHANGED <<tmp, flushed, tmpbuf, result, shared, minion, got, faults>>
  BY DEF QueueReadArray
<1>3. CASE NeedsRoom(n)
  <2>1. /\ StartFlush(edcl_trans, edcl_cnt) /\ Begin("array", r, n, FALSE)
        /\ todo' = todo
    BY <1>3 DEF QueueReadArray
  <2>2. edcl_trans \in [Slots -> Slot] /\ todo' \in Seq(Slot)
    BY <2>1 DEF TypeInv, TypeOK
  <2> QED BY <1>1, <1>2, <2>1, <2>2, StartTypeInv
<1>4. CASE ~NeedsRoom(n)
  <2>1. AppendArray(r, n) /\ edcl_cnt + n < EdclMax
    BY <1>1, <1>4, Numbers DEF QueueReadArray, NeedsRoom
  <2>2. edcl_cnt + n >= n
    BY <1>1
  <2> QED BY <1>1, <1>2, <2>1, <2>2, AppendArrayType, StartTypeInv
<1> QED BY <1>3, <1>4

LEMMA ArrayAppendTypeInv == TypeInv /\ ArrayAppend => TypeInv'
<1> SUFFICES ASSUME TypeInv, ArrayAppend PROVE TypeInv'
  OBVIOUS
<1> DEFINE r == call.ptr
           n == call.n
<1>1. n \in Arrays /\ r \in Regs /\ r + n - 1 \in Regs /\ edcl_cnt = 1
  BY DEF TypeInv, Bounds, ArrayAppend
<1>2. AppendArray(r, n)
  BY DEF ArrayAppend
<1>3. UNCHANGED <<tmp, flushed, tmpbuf, result, shared, minion, got, faults>>
  BY DEF ArrayAppend
<1> HIDE DEF r, n
<1>4. edcl_cnt + n < EdclMax /\ edcl_cnt + n >= n
  BY <1>1, QueueAssumption
<1>5. r \in 0..RxFifo
  BY <1>1, Numbers
<1>6. /\ ArrayOps(r, n) \in [Slots -> Slot]
      /\ edcl_cnt + n \in 0..(EdclMax - 1) /\ n \in Nat
      /\ StartFlush(ArrayOps(r, n), edcl_cnt + n)
      /\ Begin("array", r, n, TRUE)
      /\ todo' \in Seq(Slot)
  BY <1>1, <1>2, <1>4, AppendArrayType
<1> QED BY <1>1, <1>3, <1>4, <1>5, <1>6, StartTypeInv

LEMMA QueueBlockRead1TypeInv ==
  ASSUME TypeInv, NEW max \in Limits, QueueBlockRead1(max)
  PROVE  TypeInv'
<1>1. edcl_cnt \in 0..(EdclMax - 1) /\ edcl_trans \in [Slots -> Slot] /\ max \in Nat
  BY Numbers, QueueAssumption DEF TypeInv, TypeOK, Bounds, QueueBlockRead1
<1>2. todo' \in Seq(Slot)
  BY DEF TypeInv, TypeOK, QueueBlockRead1
<1> QED BY <1>1, <1>2, StartTypeInv, Numbers DEF QueueBlockRead1

LEMMA FlushWriteTypeInv ==
  ASSUME TypeInv, NEW ok \in BOOLEAN, FlushWrite(ok)
  PROVE  TypeInv'
<1> DEFINE end == ChunkEnd(pos, edcl_cnt)
<1>1. pos \in Nat /\ edcl_cnt \in Nat /\ pos < edcl_cnt /\ edcl_cnt <= EdclMax
  BY Numbers DEF TypeInv, TypeOK, Bounds, FlushWrite
<1>2. end \in Nat /\ end <= edcl_cnt /\ end \in 0..EdclMax
  BY <1>1, ChunkEndBounds, Numbers
<1>3. Copy(edcl_trans, shared, pos, end) \in [Slots -> Slot]
  BY <1>1, <1>2, CopyType DEF TypeInv, TypeOK
<1>4. shared' \in [Slots -> Slot] /\ faults' \in 0..MaxFaults
  BY <1>3, StoredType, BusType DEF TypeInv, TypeOK, FlushWrite
<1>5. /\ pos' = end
      /\ pc' = IF ok /\ end < edcl_cnt THEN pc ELSE "FlushRing"
      /\ pc = "FlushWrite"
      /\ UNCHANGED <<edcl_trans, edcl_cnt, call, tmp, flushed, tmpbuf, result,
                     minion, todo, got>>
  BY DEF FlushWrite
<1> HIDE DEF end
<1>6. TypeOK'
  BY <1>2, <1>4, <1>5 DEF TypeInv, TypeOK, PCs
<1>7. Bounds'
  BY <1>2, <1>5 DEF TypeInv, Bounds
<1> QED BY <1>6, <1>7 DEF TypeInv

LEMMA FlushRingTypeInv ==
  ASSUME TypeInv, NEW ok \in BOOLEAN, NEW junk \in 0..RxFifo, FlushRing(ok, junk)
  PROVE  TypeInv'
<1>1. tmp' \in Slot
  BY OpType, Numbers DEF FlushRing
<1>2. [shared EXCEPT ![EdclMax] = tmp'] \in [Slots -> Slot]
  BY <1>1 DEF TypeInv, TypeOK
<1>3. shared' \in [Slots -> Slot] /\ faults' \in 0..MaxFaults
  BY <1>2, StoredType, BusType DEF TypeInv, TypeOK, FlushRing
<1>4. TypeOK'
  BY <1>1, <1>3 DEF FlushRing, TypeInv, TypeOK, PCs
<1>5. Bounds'
  BY DEF FlushRing, TypeInv, Bounds
<1> QED BY <1>4, <1>5 DEF TypeInv

LEMMA FlushPollTypeInv ==
  ASSUME TypeInv, NEW ok \in BOOLEAN, FlushPoll(ok)
  PROVE  TypeInv'
<1>1. tmp' \in Slot /\ faults' \in 0..MaxFaults
  BY BusType, Numbers DEF FlushPoll, TypeInv, TypeOK
<1>2. TypeOK'
  BY <1>1 DEF FlushPoll, TypeInv, TypeOK, PCs
<1>3. Bounds'
  BY DEF FlushPoll, TypeInv, Bounds
<1> QED BY <1>2, <1>3 DEF TypeInv

LEMMA FlushClearTypeInv ==
  ASSUME TypeInv, NEW ok \in BOOLEAN, FlushClear(ok)
  PROVE  TypeInv'
<1>1. /\ edcl_cnt \in Nat /\ edcl_cnt >= 1 /\ edcl_cnt <= EdclMax
      /\ call \in Call /\ pc = "FlushClear"
  BY Numbers DEF TypeInv, TypeOK, Bounds, FlushClear
<1>2. shared' \in [Slots -> Slot] /\ faults' \in 0..MaxFaults
  <2>1. DoorbellDown(tmp) \in Slot
    BY Numbers DEF DoorbellDown, TypeInv, TypeOK, Slot
  <2>2. [shared EXCEPT ![EdclMax] = DoorbellDown(tmp)] \in [Slots -> Slot]
    BY <2>1 DEF TypeInv, TypeOK
  <2> QED BY <2>2, StoredType, BusType DEF TypeInv, TypeOK, FlushClear
<1>3. edcl_trans' \in [Slots -> Slot]
  <2>1. edcl_trans[0] \in Slot
    BY Numbers DEF TypeInv, TypeOK
  <2>2. [edcl_trans[0] EXCEPT !.mode = Read, !.ptr = SharedBase] \in Slot
    BY <2>1, Numbers DEF Slot
  <2>3. Handshake(edcl_trans) \in [Slots -> Slot]
    BY <2>2, Numbers DEF Handshake, TypeInv, TypeOK
  <2> QED BY <2>3 DEF FlushClear
<1>4. /\ AfterFlush \in {"Idle", "ReadBack", "ArrayBack", "ArrayAppend", "BlockSlot"}
      /\ AfterFlush = "ReadBack" => call.op = "read"
      /\ AfterFlush = "ArrayBack" => call.op = "array" /\ call.queued
      /\ AfterFlush = "ArrayAppend" => call.op = "array"
  BY <1>1 DEF AfterFlush, Call
<1>5. /\ flushed' = edcl_cnt /\ edcl_cnt' = 1 /\ pc' = AfterFlush
      /\ UNCHANGED <<call, tmp, minion, todo>>
  BY DEF FlushClear, Return, CountAfterFlush
<1>6. /\ tmpbuf' \in Seq(Vals \cup {Dead}) /\ result' \in Seq(Vals \cup {Dead})
      /\ got' \in Seq(Vals)
  <2>1. CASE AfterFlush = "Idle"
    <3>1. Return(<<>>)
      BY <2>1 DEF FlushClear
    <3> QED BY <3>1, EmptySeq DEF Return
  <2>2. CASE AfterFlush # "Idle"
    BY <2>2 DEF FlushClear, TypeInv, TypeOK
  <2> QED BY <2>1, <2>2
<1>7. /\ call.op = "read" => call.n = 1 /\ edcl_cnt >= 2
      /\ call.op = "array" => call.n \in Arrays
      /\ call.op = "array" /\ call.queued => edcl_cnt >= call.n + 1
      /\ call.n \in Nat
  BY <1>1 DEF TypeInv, Bounds, Call
<1>8. /\ pos' \in 0..EdclMax
      /\ AfterFlush = "ArrayBack" =>
           pos' = edcl_cnt - 1 - call.n /\ pos' < edcl_cnt - 1
  <2>1. CASE AfterFlush = "ArrayBack"
    <3>1. pos' = edcl_cnt - 1 - call.n
      BY <2>1 DEF FlushClear, ArrayFirst
    <3>2. call.n >= 1 /\ edcl_cnt >= call.n + 1
      BY <2>1, <1>4, <1>7, QueueAssumption
    <3>3. call.n \in Nat
      BY <1>7
    <3> QED BY <3>1, <3>2, <3>3, <1>1, Numbers
  <2>2. CASE AfterFlush # "ArrayBack"
    BY <2>2, Numbers DEF FlushClear
  <2> QED BY <2>1, <2>2
<1>9. TypeOK'
  BY <1>1, <1>2, <1>3, <1>4, <1>5, <1>6, <1>8, Numbers DEF TypeInv, TypeOK, PCs
<1>10. Bounds'
  BY <1>1, <1>4, <1>5, <1>7, <1>8, Numbers DEF TypeInv, Bounds
<1> QED BY <1>9, <1>10 DEF TypeInv

\* every call returns with the same bounds
LEMMA ReturnTypeInv ==
  ASSUME TypeInv, NEW value \in Seq(Vals \cup {Dead}), Return(value),
         edcl_cnt = 1, edcl_trans' \in [Slots -> Slot], pos' \in 0..EdclMax,
         tmp' \in Slot, faults' \in 0..MaxFaults,
         UNCHANGED <<edcl_cnt, call, flushed, shared, minion, todo>>
  PROVE  TypeInv'
<1>1. TypeOK'
  BY EmptySeq DEF TypeInv, TypeOK, Return, PCs
<1>2. Bounds'
  BY Numbers DEF TypeInv, Bounds, Return
<1> QED BY <1>1, <1>2 DEF TypeInv

LEMMA ReadBackTypeInv ==
  ASSUME TypeInv, NEW ok \in BOOLEAN, ReadBack(ok)
  PROVE  TypeInv'
<1> DEFINE value == IF ok THEN shared[ReadSlot].val ELSE Dead
<1>1. edcl_cnt = 1 /\ flushed >= 2 /\ flushed \in 0..EdclMax
  BY DEF TypeInv, TypeOK, Bounds, ReadBack
<1>2. ReadSlot \in Slots
  BY <1>1, Numbers DEF ReadSlot, Slots
<1>3. value \in Vals \cup {Dead}
  BY <1>2 DEF TypeInv, TypeOK, Slot
<1>4. <<value>> \in Seq(Vals \cup {Dead})
  BY <1>3
<1>5. Return(<<value>>)
  BY DEF ReadBack
<1> HIDE DEF value
<1> QED
  BY <1>1, <1>4, <1>5, BusType, ReturnTypeInv DEF ReadBack, TypeInv, TypeOK

LEMMA ArrayBackTypeInv ==
  ASSUME TypeInv, NEW ok \in BOOLEAN, ArrayBack(ok)
  PROVE  TypeInv'
<1> DEFINE n     == call.n
           first == ArrayFirst(flushed)
           last  == first + n
           end   == ChunkEnd(pos, last)
           trans == IF ok THEN Copy(shared, edcl_trans, pos, end) ELSE edcl_trans
           words == [k \in 1..n |-> trans[first + k - 1].val]
<1>1. /\ edcl_cnt = 1 /\ flushed \in Nat /\ flushed <= EdclMax
      /\ pos \in Nat /\ n \in Nat
      /\ flushed >= n + 1 /\ flushed - 1 - n <= pos /\ pos < flushed - 1
  BY Numbers DEF TypeInv, TypeOK, Bounds, ArrayBack, Call
<1>2. first = flushed - 1 - n
  BY DEF ArrayFirst
<1> HIDE DEF n, first
<1>3. first \in Nat /\ last = flushed - 1 /\ last \in Nat /\ pos < last
  BY <1>1, <1>2
<1> HIDE DEF last
<1>4. end \in Nat /\ pos < end /\ end <= last
  BY <1>1, <1>3, ChunkEndBounds
<1> HIDE DEF end
<1>5. trans \in [Slots -> Slot]
  BY <1>1, <1>4, CopyType DEF TypeInv, TypeOK
<1>6. /\ edcl_trans' = trans /\ pos' = end
      /\ IF ok /\ end < last THEN UNCHANGED <<pc, tmpbuf, result, got>> ELSE Return(words)
      /\ UNCHANGED <<edcl_cnt, call, tmp, flushed, shared, minion, todo>>
      /\ pc = "ArrayBack" /\ Bus(ok)
  BY DEF ArrayBack, n, first, last, end
<1> HIDE DEF trans
<1>7. words \in Seq(Vals \cup {Dead})
  <2>1. \A k \in 1..n : trans[first + k - 1].val \in Vals \cup {Dead}
    <3> SUFFICES ASSUME NEW k \in 1..n
                 PROVE  trans[first + k - 1].val \in Vals \cup {Dead}
      OBVIOUS
    <3>1. first + k - 1 \in Slots
      BY <1>1, <1>2, <1>3, Numbers DEF Slots
    <3> QED BY <3>1, <1>5 DEF Slot
  <2>2. words \in [1..n -> Vals \cup {Dead}]
    BY <2>1
  <2> QED BY <2>2, <1>1, SeqDef
<1> HIDE DEF words
<1>8. faults' \in 0..MaxFaults /\ end \in 0..EdclMax
  BY <1>1, <1>3, <1>4, <1>6, BusType, Numbers DEF TypeInv, TypeOK
<1>9. CASE ok /\ end < last
  <2>1. TypeOK'
    BY <1>5, <1>6, <1>8, <1>9 DEF TypeInv, TypeOK
  <2>2. Bounds'
    BY <1>1, <1>3, <1>4, <1>6, <1>9 DEF TypeInv, Bounds, n
  <2> QED BY <2>1, <2>2 DEF TypeInv
<1>10. CASE ~(ok /\ end < last)
  <2>1. tmp' \in Slot
    BY <1>6 DEF TypeInv, TypeOK
  <2>2. Return(words)
    BY <1>6, <1>10
  <2> QED BY <1>1, <1>5, <1>6, <1>7, <1>8, <2>1, <2>2, ReturnTypeInv
<1> QED BY <1>9, <1>10

LEMMA BlockSlotTypeInv ==
  ASSUME TypeInv, NEW ok \in BOOLEAN, BlockSlot(ok)
  PROVE  TypeInv'
<1> DEFINE op == Op(BlockRead, RxFifo, 1)
<1>1. op \in Slot
  BY OpType, Numbers
<1>2. [shared EXCEPT ![0] = op] \in [Slots -> Slot] /\ Append(todo, op) \in Seq(Slot)
  <2> HIDE DEF op
  <2> QED BY <1>1, SetSlotType DEF TypeInv, TypeOK
<1>3. /\ Bus(ok) /\ Stored(ok, [shared EXCEPT ![0] = op]) /\ tmp' = op
      /\ todo' = Append(todo, op) /\ pc = "BlockSlot" /\ pc' = "BlockRing"
      /\ UNCHANGED <<edcl_trans, edcl_cnt, call, pos, flushed, tmpbuf, result,
                     minion, got>>
  BY DEF BlockSlot
<1> HIDE DEF op
<1>4. shared' \in [Slots -> Slot] /\ faults' \in 0..MaxFaults
  BY <1>2, <1>3, StoredType, BusType DEF TypeInv, TypeOK
<1>5. TypeOK'
  BY <1>1, <1>2, <1>3, <1>4 DEF TypeInv, TypeOK, PCs
<1>6. Bounds'
  BY <1>3 DEF TypeInv, Bounds
<1> QED BY <1>5, <1>6 DEF TypeInv

LEMMA BlockRingTypeInv ==
  ASSUME TypeInv, NEW ok \in BOOLEAN, BlockRing(ok)
  PROVE  TypeInv'
<1>1. tmp' \in Slot
  BY Numbers DEF BlockRing, Ring, TypeInv, TypeOK, Slot
<1>2. [shared EXCEPT ![EdclMax] = tmp'] \in [Slots -> Slot]
  BY <1>1 DEF TypeInv, TypeOK
<1>3. shared' \in [Slots -> Slot] /\ faults' \in 0..MaxFaults
  BY <1>2, StoredType, BusType DEF TypeInv, TypeOK, BlockRing
<1>4. TypeOK'
  BY <1>1, <1>3 DEF BlockRing, TypeInv, TypeOK, PCs
<1>5. Bounds'
  BY DEF BlockRing, TypeInv, Bounds
<1> QED BY <1>4, <1>5 DEF TypeInv

\* A block never reaches the doorbell.
LEMMA BlockCountBounds ==
  ASSUME TypeInv, NEW slot \in Slot
  PROVE  BlockCount(slot) \in Nat /\ BlockCount(slot) <= EdclMax - 1
<1>1. slot.mode \in Nat /\ slot.mode <= EdclMax - 1
  BY Numbers DEF Slot, Modes
<1>2. call.n \in Nat
  BY DEF TypeInv, TypeOK, Call
<1> QED BY <1>1, <1>2, Numbers DEF BlockCount

LEMMA BlockPollTypeInv ==
  ASSUME TypeInv, NEW ok \in BOOLEAN, BlockPoll(ok)
  PROVE  TypeInv'
<1>1. /\ pc = "BlockPoll" /\ edcl_cnt = 1 /\ Bus(ok) /\ pos' = 1
      /\ tmp' = IF ok THEN shared[0] ELSE tmp
      /\ UNCHANGED <<edcl_trans, edcl_cnt, call, flushed, shared, minion, todo>>
  BY DEF BlockPoll, TypeInv, Bounds
<1>2. /\ tmp' \in Slot /\ faults' \in 0..MaxFaults /\ pos' \in 0..EdclMax
      /\ edcl_trans' \in [Slots -> Slot]
  BY <1>1, BusType, Numbers DEF TypeInv, TypeOK
<1>3. BlockCount(tmp') \in Nat
  BY <1>2, BlockCountBounds
<1>4. CASE Return(<<>>)
  BY <1>1, <1>2, <1>4, EmptySeq, ReturnTypeInv
<1>5. CASE UNCHANGED <<tmpbuf, result, got>> /\ pc' = "BlockPoll"
  BY <1>1, <1>2, <1>5 DEF TypeInv, TypeOK, Bounds, PCs
<1>6. CASE UNCHANGED <<tmpbuf, result, got>> /\ pc' = "BlockData" /\ BlockCount(tmp') # 0
  <2>1. BlockCount(tmp)' = BlockCount(tmp')
    BY <1>1 DEF BlockCount
  <2>2. TypeOK'
    BY <1>1, <1>2, <1>6 DEF TypeInv, TypeOK, PCs
  <2>3. Bounds'
    BY <1>1, <1>3, <1>6, <2>1 DEF TypeInv, Bounds
  <2> QED BY <2>2, <2>3 DEF TypeInv
<1> QED BY <1>4, <1>5, <1>6 DEF BlockPoll

LEMMA BlockDataTypeInv ==
  ASSUME TypeInv, NEW ok \in BOOLEAN, BlockData(ok)
  PROVE  TypeInv'
<1> DEFINE n    == BlockCount(tmp)
           end  == ChunkEnd(pos, n + 1)
           read == IF ok THEN [k \in 1..(end - pos) |-> shared[pos + k - 1].val]
                         ELSE <<>>
<1>1. /\ edcl_cnt = 1 /\ pos \in Nat /\ 1 <= pos /\ pos <= n
      /\ n \in Nat /\ n <= EdclMax - 1
  BY Numbers, BlockCountBounds DEF TypeInv, TypeOK, Bounds, BlockData
<1>2. /\ Bus(ok) /\ pos' = end /\ pc = "BlockData"
      /\ IF ok /\ end < n + 1
           THEN tmpbuf' = tmpbuf \o read /\ UNCHANGED <<pc, result, got>>
           ELSE Return(tmpbuf \o read)
      /\ UNCHANGED <<edcl_trans, edcl_cnt, call, tmp, flushed, shared, minion, todo>>
  BY DEF BlockData
<1>3. end \in Nat /\ pos < end /\ end <= n + 1
  BY <1>1, ChunkEndBounds
<1>4. BlockCount(tmp)' = n
  BY <1>2 DEF BlockCount
<1> HIDE DEF n, end
<1>5. read \in Seq(Vals \cup {Dead})
  <2>1. \A k \in 1..(end - pos) : shared[pos + k - 1].val \in Vals \cup {Dead}
    <3> SUFFICES ASSUME NEW k \in 1..(end - pos)
                 PROVE  shared[pos + k - 1].val \in Vals \cup {Dead}
      OBVIOUS
    <3>1. pos + k - 1 \in Slots
      BY <1>1, <1>3, Numbers DEF Slots
    <3> QED BY <3>1 DEF TypeInv, TypeOK, Slot
  <2>2. [k \in 1..(end - pos) |-> shared[pos + k - 1].val]
           \in [1..(end - pos) -> Vals \cup {Dead}]
    BY <2>1
  <2>3. end - pos \in Nat
    BY <1>1, <1>3
  <2> QED BY <2>2, <2>3, SeqDef, EmptySeq
<1> HIDE DEF read
<1>6. tmpbuf \o read \in Seq(Vals \cup {Dead})
  BY <1>5, ConcatProperties DEF TypeInv, TypeOK
<1>7. faults' \in 0..MaxFaults /\ end \in 0..EdclMax
  BY <1>1, <1>2, <1>3, BusType, Numbers DEF TypeInv, TypeOK
<1>8. CASE ok /\ end < n + 1
  <2>1. TypeOK'
    BY <1>2, <1>6, <1>7, <1>8 DEF TypeInv, TypeOK
  <2>2. Bounds'
    BY <1>1, <1>2, <1>3, <1>4, <1>8 DEF TypeInv, Bounds
  <2> QED BY <2>1, <2>2 DEF TypeInv
<1>9. CASE ~(ok /\ end < n + 1)
  <2>1. Return(tmpbuf \o read)
    BY <1>2, <1>9
  <2>2. edcl_trans' \in [Slots -> Slot] /\ tmp' \in Slot /\ pos' \in 0..EdclMax
    BY <1>2, <1>7 DEF TypeInv, TypeOK
  <2> QED BY <1>1, <1>2, <1>6, <1>7, <2>1, <2>2, ReturnTypeInv
<1> QED BY <1>8, <1>9

LEMMA HostRestartTypeInv == TypeInv /\ HostRestart => TypeInv'
<1> SUFFICES ASSUME TypeInv, HostRestart PROVE TypeInv'
  OBVIOUS
<1>1. edcl_trans' \in [Slots -> Slot] /\ tmp' \in Slot
  BY BlankType DEF HostRestart
<1>2. call' \in Call /\ call'.op = "flush"
  BY Numbers DEF HostRestart, Call
<1>3. faults' \in 0..MaxFaults
  BY QueueAssumption DEF HostRestart, TypeInv, TypeOK
<1>4. TypeOK'
  BY <1>1, <1>2, <1>3, Numbers, EmptySeq DEF HostRestart, TypeInv, TypeOK, PCs
<1>5. Bounds'
  BY <1>2, Numbers DEF HostRestart, Bounds
<1> QED BY <1>4, <1>5 DEF TypeInv

-----------------------------------------------------------------------------
(* The steps of the minion change none of the host's variables.            *)

LEMMA MinionTypeInv ==
  ASSUME TypeInv, shared' \in [Slots -> Slot], minion' \in [run : BOOLEAN, at : Slots],
         todo' \in Seq(Slot), got' \in Seq(Vals), UNCHANGED host, UNCHANGED faults
  PROVE  TypeInv'
<1>1. TypeOK'
  BY DEF TypeInv, TypeOK, host
<1>2. BlockCount(tmp)' = BlockCount(tmp)
  BY DEF BlockCount, host
<1>3. Bounds'
  BY <1>2 DEF TypeInv, Bounds, host
<1> QED BY <1>1, <1>3 DEF TypeInv

LEMMA PerformedType ==
  ASSUME TypeInv, NEW slot, Performed(slot)
  PROVE  todo' \in Seq(Slot)
BY HeadTailProperties DEF Performed, TypeInv, TypeOK

\* the minion goes on to the next slot
LEMMA NextSlotType ==
  ASSUME TypeInv, minion.at < EdclMax, minion' = [minion EXCEPT !.at = minion.at + 1]
  PROVE  minion' \in [run : BOOLEAN, at : Slots] /\ minion.at \in Slots
<1>1. minion \in [run : BOOLEAN, at : Slots]
  BY DEF TypeInv, TypeOK
<1>2. minion.at \in Slots /\ minion.at + 1 \in Slots
  BY <1>1, Numbers DEF Slots
<1> QED BY <1>1, <1>2

LEMMA MinionStartTypeInv == TypeInv /\ MinionStart => TypeInv'
<1> SUFFICES ASSUME TypeInv, MinionStart PROVE TypeInv'
  OBVIOUS
<1>1. shared' \in [Slots -> Slot]
  <2>1. [shared[EdclMax] EXCEPT !.val = 0] \in Slot
    BY Numbers DEF TypeInv, TypeOK, Slot
  <2> QED BY <2>1 DEF MinionStart, TypeInv, TypeOK
<1> QED BY <1>1, MinionTypeInv, Numbers DEF MinionStart, TypeInv, TypeOK

LEMMA MinionWriteTypeInv == TypeInv /\ MinionWrite => TypeInv'
<1> SUFFICES ASSUME TypeInv, MinionWrite PROVE TypeInv'
  OBVIOUS
<1>1. todo' \in Seq(Slot) /\ minion' \in [run : BOOLEAN, at : Slots]
  BY PerformedType, NextSlotType DEF MinionWrite
<1> QED BY <1>1, MinionTypeInv DEF MinionWrite, TypeInv, TypeOK

LEMMA MinionReadTypeInv == TypeInv /\ MinionRead => TypeInv'
<1> SUFFICES ASSUME TypeInv, MinionRead PROVE TypeInv'
  OBVIOUS
<1> DEFINE at == minion.at
<1>1. at \in Slots /\ minion' \in [run : BOOLEAN, at : Slots]
  BY NextSlotType DEF MinionRead
<1>2. PICK v \in Vals :
        /\ shared' = [shared EXCEPT ![at].val = v]
        /\ got' = IF shared[at].ptr = SharedBase THEN got ELSE Append(got, v)
  BY DEF MinionRead
<1>3. [shared[at] EXCEPT !.val = v] \in Slot
  BY <1>1 DEF TypeInv, TypeOK, Slot
<1> HIDE DEF at
<1>4. shared' \in [Slots -> Slot]
  BY <1>1, <1>2, <1>3 DEF TypeInv, TypeOK
<1>5. got' \in Seq(Vals)
  BY <1>2 DEF TypeInv, TypeOK
<1>6. todo' \in Seq(Slot) /\ UNCHANGED <<host, faults>>
  BY PerformedType DEF MinionRead
<1> QED BY <1>1, <1>4, <1>5, <1>6, MinionTypeInv

LEMMA FunctionSeq ==
  ASSUME NEW S, NEW n \in Nat, NEW s \in [1..n -> S]
  PROVE  s \in Seq(S) /\ Len(s) = n
BY SeqDef

\* What a block read leaves in the shared memory.
LEMMA BlockGiven ==
  ASSUME MinionBlockRead
  PROVE  \E n \in 0..MaxBlock, data \in Seq(Vals) :
           /\ Len(data) = n /\ \A i \in 1..n : data[i] \in Vals
           /\ shared' = [i \in Slots |->
                           IF i = 0 THEN Op(n, Null, shared[minion.at].val)
                           ELSE IF i <= n THEN Op(Unknown, Null, data[i]) ELSE shared[i]]
           /\ got' = got \o data
<1>1. PICK n \in 0..MaxBlock : \E data \in [1..n -> Vals] :
        /\ shared' = [i \in Slots |->
                        IF i = 0 THEN Op(n, Null, shared[minion.at].val)
                        ELSE IF i <= n THEN Op(Unknown, Null, data[i]) ELSE shared[i]]
        /\ got' = got \o data
  BY DEF MinionBlockRead
<1>2. n \in Nat
  BY QueueAssumption
<1>3. \A data \in [1..n -> Vals] :
        data \in Seq(Vals) /\ Len(data) = n /\ \A i \in 1..n : data[i] \in Vals
  <2> TAKE data \in [1..n -> Vals]
  <2> QED BY <1>2, FunctionSeq
<1> QED BY <1>1, <1>3

LEMMA MinionBlockReadTypeInv == TypeInv /\ MinionBlockRead => TypeInv'
<1> SUFFICES ASSUME TypeInv, MinionBlockRead PROVE TypeInv'
  OBVIOUS
<1> DEFINE slot == shared[minion.at]
<1>1. PICK n \in 0..MaxBlock, data \in Seq(Vals) :
        /\ Len(data) = n /\ \A i \in 1..n : data[i] \in Vals
        /\ shared' = [i \in Slots |->
                        IF i = 0 THEN Op(n, Null, slot.val)
                        ELSE IF i <= n THEN Op(Unknown, Null, data[i]) ELSE shared[i]]
        /\ got' = got \o data
  BY BlockGiven
<1>2. slot.val \in Vals \cup {Dead}
  BY DEF TypeInv, TypeOK, Slot, MinionBlockRead
<1>3. n \in Nat /\ n \in Modes
  BY QueueAssumption DEF Modes
<1>4. /\ Op(n, Null, slot.val) \in Slot
      /\ \A i \in 1..n : Op(Unknown, Null, data[i]) \in Slot
  BY <1>1, <1>2, <1>3, OpType, Numbers
<1> HIDE DEF slot
<1>5. shared' \in [Slots -> Slot]
  <2>1. ASSUME NEW i \in Slots, i # 0, i <= n PROVE Op(Unknown, Null, data[i]) \in Slot
    BY <1>3, <1>4, <2>1 DEF Slots
  <2> QED BY <1>1, <1>4, <2>1 DEF TypeInv, TypeOK
<1>6. got' \in Seq(Vals)
  BY <1>1, ConcatProperties DEF TypeInv, TypeOK
<1>7. /\ todo' \in Seq(Slot) /\ UNCHANGED <<host, faults>>
      /\ minion' \in [run : BOOLEAN, at : Slots]
  BY PerformedType, Numbers DEF MinionBlockRead
<1> QED BY <1>5, <1>6, <1>7, MinionTypeInv

LEMMA MinionFinishTypeInv == TypeInv /\ MinionFinish => TypeInv'
<1> SUFFICES ASSUME TypeInv, MinionFinish PROVE TypeInv'
  OBVIOUS
<1>1. [shared[0] EXCEPT !.ptr = Null] \in Slot
  BY Numbers DEF TypeInv, TypeOK, Slot
<1>2. shared' \in [Slots -> Slot]
  BY <1>1 DEF MinionFinish, TypeInv, TypeOK
<1> QED BY <1>2, MinionTypeInv, Numbers DEF MinionFinish, TypeInv, TypeOK

-----------------------------------------------------------------------------
LEMMA NextTypeInv == TypeInv /\ [Next]_vars => TypeInv'
<1> SUFFICES ASSUME TypeInv, [Next]_vars PROVE TypeInv'
  OBVIOUS
<1>1. CASE Calls
  BY <1>1, QueueFlushTypeInv, QueueWriteTypeInv, QueueReadTypeInv,
     QueueReadArrayTypeInv, QueueBlockRead1TypeInv DEF Calls
<1>2. CASE Host
  BY <1>2, FlushWriteTypeInv, FlushRingTypeInv, FlushPollTypeInv,
     FlushClearTypeInv, ReadBackTypeInv, ArrayBackTypeInv, ArrayAppendTypeInv,
     BlockSlotTypeInv, BlockRingTypeInv, BlockPollTypeInv, BlockDataTypeInv
     DEF Host
<1>3. CASE HostRestart
  BY <1>3, HostRestartTypeInv
<1>4. CASE Minion
  BY <1>4, MinionStartTypeInv, MinionWriteTypeInv, MinionReadTypeInv,
     MinionBlockReadTypeInv, MinionFinishTypeInv DEF Minion
<1>5. CASE UNCHANGED vars
  <2>1. UNCHANGED host /\ UNCHANGED <<shared, minion, todo, got, faults>>
    BY <1>5 DEF vars
  <2> QED BY <2>1, MinionTypeInv DEF TypeInv, TypeOK
<1> QED BY <1>1, <1>2, <1>3, <1>4, <1>5 DEF Next

LEMMA AlwaysTypeInv == Spec => []TypeInv
BY InitTypeInv, NextTypeInv, PTL DEF Spec

\* The variables of queue.c keep their types whatever is called, and whatever
\* exchange fails: no slot of a transfer is outside the queue.
THEOREM TypeCorrect == Spec => []TypeOK
<1>1. TypeInv => TypeOK
  BY DEF TypeInv
<1> QED BY <1>1, AlwaysTypeInv, PTL

\* A call of queue.c finds room for its operations and the terminator below
\* the doorbell, and a flush never copies the queue over the doorbell.
THEOREM DoorbellSafe == Spec => []QueueBelowDoorbell
<1>1. TypeInv => QueueBelowDoorbell
  BY Numbers, SMTT(30) DEF TypeInv, TypeOK, Bounds, QueueBelowDoorbell, Call
<1> QED BY <1>1, AlwaysTypeInv, PTL
-----------------------------------------------------------------------------
(* The host and the minion take turns: the theorems that rest on the       *)
(* doorbell, the pointer of slot 0 and on the queue staying below the      *)
(* doorbell.                                                               *)

Bell == shared[EdclMax].val = Dead

\* Until an exchange fails: the doorbell is up only while the host waits or is
\* about to take it down, and a minion that started since has slot 0's pointer
\* to clear before the host goes on.
Turns ==
  faults = 0 =>
    /\ minion.run => Polling /\ shared[0].ptr # Null /\ (Acks => ~Bell)
    /\ Bell => pc \in {"FlushPoll", "FlushClear", "BlockPoll"}
    /\ pc = "FlushClear" => shared[0].ptr = Null
    /\ pc = "BlockRing" => shared[0].ptr # Null
    /\ pc = "BlockPoll" /\ Bell => shared[0].ptr # Null

\* A block read leaves the doorbell up unless the minion takes it down.
BlocksAck ==
  /\ pc \in {"BlockSlot", "BlockRing", "BlockPoll", "BlockData"} => call.op = "block"
  /\ call.op = "block" => Acks

TurnsInv == TypeInv /\ Turns /\ BlocksAck

LEMMA InitTurnsInv == Init => TurnsInv
<1> SUFFICES ASSUME Init PROVE TurnsInv
  OBVIOUS
<1>1. ~Bell /\ minion.run = FALSE /\ pc = "Idle" /\ call.op = "flush"
  BY Numbers DEF Init, Bell, Blank, Op
<1> QED BY <1>1, InitTypeInv DEF TurnsInv, Turns, BlocksAck

-----------------------------------------------------------------------------
(* The calls start when the host is idle and touch nothing that is shared. *)

LEMMA CallTurns ==
  ASSUME TurnsInv, pc = "Idle", UNCHANGED <<shared, minion, faults>>,
         pc' \in {"Idle", "FlushWrite"}
  PROVE  Turns'
BY DEF TurnsInv, Turns, Bell, Polling

LEMMA CallsTurns ==
  ASSUME TurnsInv, Calls, Acks \/ Limits = {}
  PROVE  Turns' /\ BlocksAck'
<1>1. CASE QueueFlush
  <2>1. pc' = "FlushWrite" /\ call'.op = "flush"
    BY <1>1 DEF QueueFlush, StartFlush, Begin
  <2> QED BY <1>1, <2>1, CallTurns DEF QueueFlush, BlocksAck
<1>2. ASSUME NEW r \in Regs, NEW v \in Vals, NEW flush \in BOOLEAN,
             QueueWrite(r, v, flush)
      PROVE  Turns' /\ BlocksAck'
  <2>1. \/ pc' = "FlushWrite" /\ call'.op = "write"
        \/ pc' = "Idle" /\ call' = call
    BY <1>2 DEF QueueWrite, StartFlush, Begin
  <2>2. pc = "Idle" /\ UNCHANGED <<shared, minion, faults>>
    BY <1>2 DEF QueueWrite
  <2> QED BY <2>1, <2>2, CallTurns DEF TurnsInv, BlocksAck
<1>3. ASSUME NEW r \in Regs, QueueRead(r) PROVE Turns' /\ BlocksAck'
  <2>1. pc' = "FlushWrite" /\ call'.op = "read"
    BY <1>3 DEF QueueRead, StartFlush, Begin
  <2> QED BY <1>3, <2>1, CallTurns DEF QueueRead, BlocksAck
<1>4. ASSUME NEW r \in Regs, NEW n \in Arrays, QueueReadArray(r, n)
      PROVE  Turns' /\ BlocksAck'
  <2>1. pc' = "FlushWrite" /\ call'.op = "array"
    BY <1>4 DEF QueueReadArray, AppendArray, StartFlush, Begin
  <2> QED BY <1>4, <2>1, CallTurns DEF QueueReadArray, BlocksAck
<1>5. ASSUME NEW max \in Limits, QueueBlockRead1(max) PROVE Turns' /\ BlocksAck'
  <2>1. pc' = "FlushWrite" /\ call'.op = "block" /\ Acks
    BY <1>5 DEF QueueBlockRead1, StartFlush, Begin
  <2> QED BY <1>5, <2>1, CallTurns DEF QueueBlockRead1, BlocksAck
<1> QED BY <1>1, <1>2, <1>3, <1>4, <1>5 DEF Calls

-----------------------------------------------------------------------------
(* The exchanges of the host *)

\* An exchange that succeeds did what it was to do.
LEMMA Stored1 ==
  ASSUME NEW ok \in BOOLEAN, NEW new, Bus(ok), Stored(ok, new),
         faults \in 0..MaxFaults, faults' = 0
  PROVE  shared' = new /\ faults = 0
BY BusType DEF Stored

LEMMA FlushWriteTurns ==
  ASSUME TurnsInv, NEW ok \in BOOLEAN, FlushWrite(ok)
  PROVE  Turns'
<1> SUFFICES ASSUME faults' = 0 PROVE Turns'
  BY DEF Turns
<1>1. pos \in Nat /\ edcl_cnt \in Nat /\ pos < edcl_cnt /\ edcl_cnt <= EdclMax
  BY Numbers DEF TurnsInv, TypeInv, TypeOK, Bounds, FlushWrite
<1>2. ChunkEnd(pos, edcl_cnt) \in Nat /\ ChunkEnd(pos, edcl_cnt) <= EdclMax
  BY <1>1, ChunkEndBounds, Numbers
<1>3. /\ shared' = Copy(edcl_trans, shared, pos, ChunkEnd(pos, edcl_cnt))
      /\ faults = 0
  BY Stored1 DEF TurnsInv, TypeInv, TypeOK, FlushWrite
<1>4. shared'[EdclMax] = shared[EdclMax]
  BY <1>2, <1>3, Numbers DEF Copy, TurnsInv, TypeInv, TypeOK
<1>5. /\ pc = "FlushWrite" /\ pc' \in {"FlushWrite", "FlushRing"}
      /\ minion' = minion
  BY DEF FlushWrite
<1>6. minion.run = FALSE /\ ~Bell
  BY <1>3, <1>5 DEF TurnsInv, Turns, Polling, TypeInv, TypeOK
<1> QED BY <1>4, <1>5, <1>6 DEF Turns, Bell

LEMMA FlushRingTurns ==
  ASSUME TurnsInv, NEW ok \in BOOLEAN, NEW junk \in 0..RxFifo, FlushRing(ok, junk)
  PROVE  Turns'
BY BusType DEF FlushRing, TurnsInv, Turns, Polling, TypeInv, TypeOK

LEMMA FlushPollTurns ==
  ASSUME TurnsInv, NEW ok \in BOOLEAN, FlushPoll(ok)
  PROVE  Turns'
<1> SUFFICES ASSUME faults' = 0 PROVE Turns'
  BY DEF Turns
<1>1. ok /\ faults = 0
  BY BusType DEF FlushPoll, TurnsInv, TypeInv, TypeOK
<1>2. /\ pc = "FlushPoll" /\ UNCHANGED <<shared, minion>>
      /\ pc' = IF shared[0].ptr = Null THEN "FlushClear" ELSE "FlushPoll"
  BY <1>1 DEF FlushPoll, PollDone
<1> QED BY <1>1, <1>2 DEF TurnsInv, Turns, Bell, Polling

LEMMA FlushClearTurns ==
  ASSUME TurnsInv, NEW ok \in BOOLEAN, FlushClear(ok)
  PROVE  Turns'
<1> SUFFICES ASSUME faults' = 0 PROVE Turns'
  BY DEF Turns
<1>1. shared' = [shared EXCEPT ![EdclMax] = DoorbellDown(tmp)] /\ faults = 0
  BY Stored1 DEF FlushClear, TurnsInv, TypeInv, TypeOK
<1>2. shared'[EdclMax].val = 0
  BY <1>1, Numbers DEF DoorbellDown, TurnsInv, TypeInv, TypeOK, Slot
<1>3. minion.run = FALSE /\ minion' = minion
  BY <1>1 DEF FlushClear, TurnsInv, Turns, Polling, TypeInv, TypeOK
<1>4. pc' \in {"Idle", "ReadBack", "ArrayBack", "ArrayAppend", "BlockSlot"}
  BY DEF FlushClear, Return, AfterFlush, TurnsInv, TypeInv, TypeOK, Call
<1> QED BY <1>2, <1>3, <1>4, Numbers DEF Turns, Bell

\* ReadBack, ArrayBack, ArrayAppend and BlockData write nothing that is shared.
LEMMA LocalTurns ==
  ASSUME TurnsInv, pc \in {"ReadBack", "ArrayBack", "ArrayAppend", "BlockData"},
         UNCHANGED <<shared, minion>>, faults' = 0 => faults = 0,
         pc' \in {"Idle", "FlushWrite", "ArrayBack", "BlockData"}
  PROVE  Turns'
BY DEF TurnsInv, Turns, Bell, Polling

LEMMA BlockSlotTurns ==
  ASSUME TurnsInv, NEW ok \in BOOLEAN, BlockSlot(ok)
  PROVE  Turns'
<1> SUFFICES ASSUME faults' = 0 PROVE Turns'
  BY DEF Turns
<1>1. shared' = [shared EXCEPT ![0] = Op(BlockRead, RxFifo, 1)] /\ faults = 0
  BY Stored1 DEF BlockSlot, TurnsInv, TypeInv, TypeOK
<1>2. RxFifo # Null
  BY QueueAssumption DEF RxFifo, Null
<1>3. shared'[EdclMax] = shared[EdclMax] /\ shared'[0].ptr # Null
  BY <1>1, <1>2, Numbers DEF TurnsInv, TypeInv, TypeOK, Op
<1>4. minion.run = FALSE /\ ~Bell
  BY <1>1 DEF BlockSlot, TurnsInv, Turns, Polling, TypeInv, TypeOK
<1> QED BY <1>3, <1>4 DEF BlockSlot, Turns, Bell

LEMMA BlockRingTurns ==
  ASSUME TurnsInv, NEW ok \in BOOLEAN, BlockRing(ok)
  PROVE  Turns'
<1> SUFFICES ASSUME faults' = 0 PROVE Turns'
  BY DEF Turns
<1>1. shared' = [shared EXCEPT ![EdclMax] = tmp'] /\ faults = 0
  BY Stored1 DEF BlockRing, TurnsInv, TypeInv, TypeOK
<1>2. shared'[0] = shared[0]
  BY <1>1, Numbers DEF TurnsInv, TypeInv, TypeOK
<1>3. minion.run = FALSE /\ shared[0].ptr # Null
  BY <1>1 DEF BlockRing, TurnsInv, Turns, Polling, TypeInv, TypeOK
<1> QED BY <1>2, <1>3 DEF BlockRing, Turns

LEMMA BlockPollTurns ==
  ASSUME TurnsInv, NEW ok \in BOOLEAN, BlockPoll(ok)
  PROVE  Turns'
<1> SUFFICES ASSUME faults' = 0 PROVE Turns'
  BY DEF Turns
<1>1. ok /\ faults = 0 /\ pc = "BlockPoll" /\ UNCHANGED <<shared, minion>>
  BY BusType DEF BlockPoll, TurnsInv, TypeInv, TypeOK
<1>2. CASE shared[0].ptr = Null
  <2>1. pc' \in {"Idle", "BlockData"}
    BY <1>1, <1>2 DEF BlockPoll, PollDone, Return
  <2>2. minion.run = FALSE /\ ~Bell
    BY <1>1, <1>2 DEF TurnsInv, Turns, TypeInv, TypeOK
  <2> QED BY <1>1, <2>1, <2>2 DEF Turns, Bell
<1>3. CASE shared[0].ptr # Null
  <2>1. pc' = "BlockPoll"
    BY <1>1, <1>3 DEF BlockPoll, PollDone
  <2> QED BY <1>1, <2>1 DEF TurnsInv, Turns, Bell, Polling
<1> QED BY <1>2, <1>3

LEMMA HostTurns ==
  ASSUME TurnsInv, Host
  PROVE  Turns' /\ BlocksAck'
<1>1. ASSUME NEW ok \in BOOLEAN, ReadBack(ok) \/ ArrayBack(ok) \/ BlockData(ok)
      PROVE  Turns'
  <2>1. faults' = 0 => faults = 0
    BY <1>1, BusType DEF ReadBack, ArrayBack, BlockData, TurnsInv, TypeInv, TypeOK
  <2>2. UNCHANGED <<shared, minion>>
    BY <1>1 DEF ReadBack, ArrayBack, BlockData
  <2>3. /\ pc \in {"ReadBack", "ArrayBack", "BlockData"}
        /\ pc' \in {"Idle", "ArrayBack", "BlockData"}
    BY <1>1 DEF ReadBack, ArrayBack, BlockData, Return
  <2> QED BY <2>1, <2>2, <2>3, LocalTurns
<1>2. ASSUME ArrayAppend PROVE Turns'
  <2>1. pc = "ArrayAppend" /\ UNCHANGED <<shared, minion, faults>>
    BY <1>2 DEF ArrayAppend
  <2>2. pc' = "FlushWrite"
    BY <1>2 DEF ArrayAppend, AppendArray, StartFlush
  <2> QED BY <2>1, <2>2, LocalTurns
<1>3. Turns'
  BY <1>1, <1>2, FlushWriteTurns, FlushRingTurns, FlushPollTurns,
     FlushClearTurns, BlockSlotTurns, BlockRingTurns, BlockPollTurns DEF Host
<1>4. BlocksAck'
  <2>1. ASSUME NEW ok \in BOOLEAN,
               \/ FlushWrite(ok) \/ FlushPoll(ok)
               \/ \E junk \in 0..RxFifo : FlushRing(ok, junk)
        PROVE  BlocksAck'
    BY <2>1 DEF FlushWrite, FlushPoll, FlushRing, TurnsInv, BlocksAck
  <2>2. ASSUME NEW ok \in BOOLEAN, FlushClear(ok) PROVE BlocksAck'
    <3>1. pc' = AfterFlush /\ call' = call
      BY <2>2 DEF FlushClear, Return
    <3>2. call \in Call
      BY DEF TurnsInv, TypeInv, TypeOK
    <3>3. /\ AfterFlush \in {"Idle", "ReadBack", "ArrayBack", "ArrayAppend",
                              "BlockSlot"}
          /\ AfterFlush = "BlockSlot" => call.op = "block"
      BY <3>2 DEF AfterFlush, Call
    <3> QED BY <3>1, <3>3 DEF TurnsInv, BlocksAck
  <2>3. ASSUME NEW ok \in BOOLEAN,
               ReadBack(ok) \/ ArrayBack(ok) \/ BlockData(ok)
        PROVE  BlocksAck'
    BY <2>3 DEF ReadBack, ArrayBack, BlockData, Return, TurnsInv, BlocksAck
  <2>4. ASSUME NEW ok \in BOOLEAN,
               BlockSlot(ok) \/ BlockRing(ok) \/ BlockPoll(ok)
        PROVE  BlocksAck'
    BY <2>4 DEF BlockSlot, BlockRing, BlockPoll, Return, TurnsInv, BlocksAck
  <2>5. ASSUME ArrayAppend PROVE BlocksAck'
    <3>1. pc' = "FlushWrite" /\ call'.op = "array"
      BY <2>5 DEF ArrayAppend, AppendArray, StartFlush, Begin
    <3> QED BY <3>1 DEF BlocksAck
  <2> QED BY <2>1, <2>2, <2>3, <2>4, <2>5 DEF Host
<1> QED BY <1>3, <1>4

\* The user's restart is a fault, after which the minion may still run.
LEMMA HostRestartTurns ==
  ASSUME TurnsInv, HostRestart
  PROVE  Turns' /\ BlocksAck'
<1>1. faults' # 0
  BY QueueAssumption DEF HostRestart, TurnsInv, TypeInv, TypeOK
<1>2. call'.op = "flush" /\ pc' = "Idle"
  BY DEF HostRestart
<1> QED BY <1>1, <1>2 DEF Turns, BlocksAck

-----------------------------------------------------------------------------
(* The minion *)

LEMMA MinionTurns ==
  ASSUME TurnsInv, Minion
  PROVE  Turns' /\ BlocksAck'
<1> USE DEF Polling, Bell
<1>1. UNCHANGED <<pc, call, faults>>
  BY DEF Minion, MinionStart, MinionWrite, MinionRead, MinionBlockRead,
         MinionFinish, host
<1>2. BlocksAck'
  BY <1>1 DEF TurnsInv, BlocksAck
<1> SUFFICES ASSUME faults = 0 PROVE Turns'
  BY <1>1, <1>2 DEF Turns
<1>3. CASE MinionStart
  <2>1. Bell /\ shared[0].ptr # Null /\ pc \in {"FlushPoll", "BlockPoll"}
    BY <1>3 DEF MinionStart, Ringing, TurnsInv, Turns
  <2>2. shared'[0] = shared[0] /\ (Acks => shared'[EdclMax].val = 0)
    BY <1>3, Numbers DEF MinionStart, TurnsInv, TypeInv, TypeOK, Slot
  <2> QED BY <1>1, <2>1, <2>2, Numbers DEF Turns
<1>4. CASE MinionWrite
  <2>1. shared' = shared /\ minion.run
    BY <1>4 DEF MinionWrite
  <2>2. minion'.run = minion.run
    BY <1>4 DEF MinionWrite, TurnsInv, TypeInv, TypeOK
  <2> QED BY <1>1, <2>1, <2>2 DEF TurnsInv, Turns
<1>5. CASE MinionRead
  <2>1. PICK v \in Vals : shared' = [shared EXCEPT ![minion.at].val = v]
    BY <1>5 DEF MinionRead
  <2>2. minion.at \in Slots /\ minion.at # EdclMax
    BY <1>5, Numbers DEF MinionRead, TurnsInv, TypeInv, TypeOK
  <2>3. shared'[EdclMax] = shared[EdclMax] /\ shared'[0].ptr = shared[0].ptr
    BY <2>1, <2>2, Numbers DEF TurnsInv, TypeInv, TypeOK, Slot
  <2>4. minion.run /\ minion'.run = minion.run
    BY <1>5 DEF MinionRead, TurnsInv, TypeInv, TypeOK
  <2> QED BY <1>1, <2>3, <2>4 DEF TurnsInv, Turns
<1>6. CASE MinionBlockRead
  <2>1. shared'[EdclMax] = shared[EdclMax] /\ shared'[0].ptr = Null
    BY <1>6, Numbers, QueueAssumption DEF MinionBlockRead, Op, Slots
  <2>2. minion.run /\ minion'.run = FALSE
    BY <1>6 DEF MinionBlockRead
  <2> QED BY <1>1, <2>1, <2>2, QueueAssumption DEF TurnsInv, Turns, BlocksAck
<1>7. CASE MinionFinish
  <2>1. shared'[EdclMax] = shared[EdclMax] /\ shared'[0].ptr = Null
    BY <1>7, Numbers DEF MinionFinish, TurnsInv, TypeInv, TypeOK, Slot
  <2>2. minion.run /\ minion'.run = FALSE
    BY <1>7 DEF MinionFinish
  <2> QED BY <1>1, <2>1, <2>2, QueueAssumption DEF TurnsInv, Turns, BlocksAck
<1> QED BY <1>3, <1>4, <1>5, <1>6, <1>7 DEF Minion

-----------------------------------------------------------------------------
LEMMA NextTurnsInv ==
  ASSUME Acks \/ Limits = {}
  PROVE  TurnsInv /\ [Next]_vars => TurnsInv'
<1> SUFFICES ASSUME TurnsInv, [Next]_vars PROVE TurnsInv'
  OBVIOUS
<1>1. TypeInv'
  BY NextTypeInv DEF TurnsInv
<1>2. CASE Next
  BY <1>1, <1>2, CallsTurns, HostTurns, HostRestartTurns, MinionTurns
     DEF Next, TurnsInv
<1>3. CASE UNCHANGED vars
  <2>1. UNCHANGED <<pc, call, shared, minion, faults>>
    BY <1>3 DEF vars, host
  <2> QED BY <1>1, <2>1 DEF TurnsInv, Turns, BlocksAck, Bell, Polling
<1> QED BY <1>2, <1>3

\* As long as no exchange fails the minion works on the queue only while the
\* host polls slot 0, provided the minion takes the doorbell down itself or
\* nobody reads blocks (queue_block_read1 leaves the doorbell up).
THEOREM MutualExclusion ==
  ASSUME Acks \/ Limits = {}
  PROVE  Spec => []NoConcurrentAccess
<1>1. TurnsInv => NoConcurrentAccess
  BY DEF TurnsInv, Turns, NoConcurrentAccess
<1> QED BY <1>1, InitTurnsInv, NextTurnsInv, PTL DEF Spec

-----------------------------------------------------------------------------
(* The doorbell between calls, for every minion and every mix of calls.    *)

\* queue_flush ends with the doorbell down, and until the next doorbell only
\* queue_block_read1 follows a flush with another one.
BellInv ==
  /\ TypeInv
  /\ pc \in {"BlockSlot", "BlockRing", "BlockPoll", "BlockData"} => call.op = "block"
  /\ faults = 0 =>
       /\ pc \in {"ReadBack", "ArrayBack", "ArrayAppend", "BlockSlot"} => ~Bell
       /\ pc = "Idle" /\ Bell => call.op = "block"

LEMMA InitBellInv == Init => BellInv
BY InitTypeInv, Numbers DEF Init, BellInv, Bell, Blank, Op

\* The minion never rings.
LEMMA MinionNeverRings ==
  ASSUME TypeInv, Minion
  PROVE  Bell' => Bell
<1>1. CASE MinionStart
  BY <1>1, Numbers DEF MinionStart, Bell, TypeInv, TypeOK, Slot
<1>2. CASE MinionWrite
  BY <1>2 DEF MinionWrite, Bell
<1>3. CASE MinionRead
  <2>1. minion.at \in Slots /\ minion.at # EdclMax
    BY <1>3, Numbers DEF MinionRead, TypeInv, TypeOK
  <2> QED BY <1>3, <2>1, Numbers DEF MinionRead, Bell, TypeInv, TypeOK
<1>4. CASE MinionBlockRead
  BY <1>4, Numbers, QueueAssumption DEF MinionBlockRead, Bell, Slots
<1>5. CASE MinionFinish
  BY <1>5, Numbers DEF MinionFinish, Bell, TypeInv, TypeOK, Slot
<1> QED BY <1>1, <1>2, <1>3, <1>4, <1>5 DEF Minion

LEMMA FlushClearBell ==
  ASSUME BellInv, NEW ok \in BOOLEAN, FlushClear(ok)
  PROVE  TypeInv' => BellInv'
<1>1. pc' = AfterFlush /\ call' = call
  BY DEF FlushClear, Return
<1>2. AfterFlush \in {"Idle", "ReadBack", "ArrayBack", "ArrayAppend", "BlockSlot"}
      /\ (AfterFlush = "BlockSlot" => call.op = "block")
  BY DEF AfterFlush, BellInv, TypeInv, TypeOK, Call
<1>3. faults' = 0 => ~Bell'
  <2> SUFFICES ASSUME faults' = 0 PROVE ~Bell'
    OBVIOUS
  <2>1. shared' = [shared EXCEPT ![EdclMax] = DoorbellDown(tmp)]
    BY Stored1 DEF FlushClear, BellInv, TypeInv, TypeOK
  <2> QED BY <2>1, Numbers DEF DoorbellDown, Bell, BellInv, TypeInv, TypeOK, Slot
<1> QED BY <1>1, <1>2, <1>3 DEF BellInv

LEMMA NextBellInv == BellInv /\ [Next]_vars => BellInv'
<1> SUFFICES ASSUME BellInv, [Next]_vars PROVE BellInv'
  OBVIOUS
<1>1. TypeInv'
  BY NextTypeInv DEF BellInv
<1>2. CASE Calls
  <2>1. UNCHANGED <<shared, faults>> /\ pc = "Idle"
    BY <1>2 DEF Calls, QueueFlush, QueueWrite, QueueRead, QueueReadArray,
       QueueBlockRead1
  <2>2. pc' = "FlushWrite" \/ UNCHANGED <<pc, call>>
    BY <1>2 DEF Calls, QueueFlush, QueueWrite, QueueRead, QueueReadArray,
       QueueBlockRead1, AppendArray, StartFlush
  <2> QED BY <1>1, <2>1, <2>2 DEF BellInv, Bell
<1>3. CASE Host
  <2>1. ASSUME NEW ok \in BOOLEAN,
               \/ FlushWrite(ok) \/ FlushPoll(ok) \/ BlockRing(ok)
               \/ \E junk \in 0..RxFifo : FlushRing(ok, junk)
        PROVE  BellInv'
    BY <1>1, <2>1 DEF FlushWrite, FlushPoll, FlushRing, BlockRing, BellInv
  <2>2. ASSUME NEW ok \in BOOLEAN, BlockSlot(ok) \/ BlockPoll(ok) \/ BlockData(ok)
        PROVE  BellInv'
    BY <1>1, <2>2 DEF BlockSlot, BlockPoll, BlockData, Return, BellInv
  <2>3. ASSUME NEW ok \in BOOLEAN, ReadBack(ok) \/ ArrayBack(ok)
        PROVE  BellInv'
    <3>1. faults' = 0 => faults = 0
      BY <2>3, BusType DEF ReadBack, ArrayBack, BellInv, TypeInv, TypeOK
    <3>2. UNCHANGED <<shared, call>> /\ pc' \in {"Idle", "ArrayBack"}
          /\ pc \in {"ReadBack", "ArrayBack"}
      BY <2>3 DEF ReadBack, ArrayBack, Return
    <3> QED BY <1>1, <3>1, <3>2 DEF BellInv, Bell
  <2>4. ASSUME ArrayAppend PROVE BellInv'
    <3>1. pc' = "FlushWrite"
      BY <2>4 DEF ArrayAppend, AppendArray, StartFlush
    <3> QED BY <1>1, <3>1 DEF BellInv
  <2> QED BY <1>1, <1>3, <2>1, <2>2, <2>3, <2>4, FlushClearBell DEF Host
<1>4. CASE HostRestart
  <2>1. faults' # 0 /\ pc' = "Idle"
    BY <1>4, QueueAssumption DEF HostRestart, BellInv, TypeInv, TypeOK
  <2> QED BY <1>1, <2>1 DEF BellInv
<1>5. CASE Minion
  <2>1. UNCHANGED <<pc, call, faults>>
    BY <1>5 DEF Minion, MinionStart, MinionWrite, MinionRead, MinionBlockRead,
       MinionFinish, host
  <2> QED BY <1>1, <1>5, <2>1, MinionNeverRings DEF BellInv
<1>6. CASE UNCHANGED vars
  BY <1>1, <1>6 DEF vars, host, BellInv, Bell
<1> QED BY <1>2, <1>3, <1>4, <1>5, <1>6 DEF Next

\* Whatever minion there is, only a block read ends with the doorbell up: the
\* calls of queue.c that end with queue_flush's last write or after it leave
\* it down.
THEOREM BellDown == Spec => []BellLeftOnlyByBlockRead
<1>1. BellInv => BellLeftOnlyByBlockRead
  BY DEF BellInv, Bell, BellLeftOnlyByBlockRead
<1> QED BY <1>1, InitBellInv, NextBellInv, PTL DEF Spec

-----------------------------------------------------------------------------
(* The inductive invariant *)

\* The slots lo .. hi-1 of q as a sequence, and their values.
Slice(q, lo, hi) == [k \in 1..(hi - lo) |-> q[lo + k - 1]]
Values(q, lo, hi) == [k \in 1..(hi - lo) |-> q[lo + k - 1].val]

\* the first slot of the caller's operations
Base == IF edcl_trans[0].ptr = SharedBase THEN 1 ELSE 0

IsWrite(slot) == \E r \in Regs, v \in Vals : slot = Op(Write, r, v)
IsRead(slot)  == \E r \in Regs : slot = Op(Read, r, Dead)
Block         == Op(BlockRead, RxFifo, 1)

Flushing == pc \in {"FlushWrite", "FlushRing", "FlushPoll", "FlushClear"}

\* The reads of a call are the last operations of the queue it flushes.
NReads ==
  IF call.op = "read" \/ (call.op = "array" /\ call.queued) THEN call.n ELSE 0
First == edcl_cnt - 1 - NReads
Last  == edcl_cnt - 1

\* What edcl_trans holds: slot 0 the read that is kept for the handshake once
\* there has been a flush, then the writes that wait, and in a flush the reads
\* of the call and the terminator.
HostQueue ==
  /\ Base = 1 => edcl_trans[0].mode = Read
  /\ pc = "Idle" =>
       /\ Base <= edcl_cnt
       /\ edcl_cnt = 0 => edcl_trans[0].ptr = Null
       /\ \A i \in Base..(edcl_cnt - 1) : IsWrite(edcl_trans[i])
  /\ Flushing =>
       /\ Base <= First
       /\ edcl_cnt = 1 => edcl_trans[0].ptr = Null
       /\ \A i \in Base..(First - 1) : IsWrite(edcl_trans[i])
       /\ \A i \in First..(Last - 1) : IsRead(edcl_trans[i])
       /\ edcl_trans[Last].mode = Unknown
       /\ call.op = "array" => First >= 1
  /\ pc # "Idle" /\ ~Flushing => Base = 1
  /\ pc = "ArrayBack" => flushed - 1 - call.n >= 1
  /\ pc # "BlockData" => tmpbuf = <<>>

\* the first n slots of the queue are in the shared memory
Copied(n) == \A i \in 0..(n - 1) : shared[i] = edcl_trans[i]

\* Nothing of the queue in edcl_trans has been done.
Fresh == todo = Slice(edcl_trans, Base, Last) /\ got = <<>>

\* The minion is at slot minion.at of the queue.
Performing ==
  LET at == minion.at IN
  /\ at <= Last
  /\ \A i \in at..Last : shared[i] = edcl_trans[i]
  /\ todo = Slice(edcl_trans, IF at < Base THEN Base ELSE at, Last)
  /\ got = Values(shared, First, at)

FlushOrder ==
  /\ pc = "FlushWrite" => Fresh /\ Copied(pos)
  /\ pc = "FlushRing" => Fresh /\ Copied(edcl_cnt)
  /\ pc = "FlushPoll" /\ ~minion.run /\ shared[0].ptr # Null =>
       Fresh /\ Copied(edcl_cnt)
  /\ pc = "FlushPoll" /\ minion.run => Performing
  /\ \/ pc = "FlushPoll" /\ ~minion.run /\ shared[0].ptr = Null
     \/ pc = "FlushClear"
     => todo = <<>> /\ got = Values(shared, First, Last)

\* What a block read finds in the shared memory when the minion is done.
BlockThere ==
  /\ todo = <<>> /\ shared[0].mode = Len(got)
  /\ \A i \in 1..Len(got) : shared[i].val = got[i]

BlockOrder ==
  /\ pc = "BlockSlot" => todo = <<>> /\ got = <<>>
  /\ \/ pc = "BlockRing"
     \/ pc = "BlockPoll" /\ (minion.run \/ shared[0].ptr # Null)
     => todo = <<Block>> /\ got = <<>> /\ shared[0] = Block
  /\ pc = "BlockPoll" /\ minion.run => minion.at = 0
  /\ pc = "BlockPoll" /\ ~minion.run /\ shared[0].ptr = Null => BlockThere
  /\ pc = "BlockData" =>
       BlockThere /\ tmp.mode = Len(got) /\ tmpbuf = SubSeq(got, 1, pos - 1)

CallOrder ==
  /\ pc = "Idle" => todo = Slice(edcl_trans, Base, edcl_cnt) /\ got = <<>>
  /\ pc = "ArrayAppend" => todo = <<>> /\ got = <<>>
  /\ pc \in {"ReadBack", "ArrayBack"} =>
       todo = <<>> /\ got = Values(shared, flushed - 1 - call.n, flushed - 1)
  /\ pc = "ArrayBack" =>
       \A i \in (flushed - 1 - call.n)..(pos - 1) : edcl_trans[i] = shared[i]

Order == faults = 0 => CallOrder /\ FlushOrder /\ BlockOrder

OrderInv == TurnsInv /\ HostQueue /\ Order

-----------------------------------------------------------------------------
(* Operations and slices *)

LEMMA Codes ==
  /\ Unknown # Read /\ Unknown # Write /\ Unknown # BlockRead
  /\ Read # Write /\ Read # BlockRead /\ Write # BlockRead
  /\ SharedBase # Null /\ RxFifo # Null /\ RxFifo # SharedBase
  /\ \A r \in Regs : r # Null /\ r # SharedBase /\ r # RxFifo
BY QueueAssumption
   DEF Unknown, Read, Write, BlockRead, SharedBase, RxFifo, Null, Regs

LEMMA OpFields ==
  /\ \A m, p, v : Op(m, p, v).mode = m /\ Op(m, p, v).ptr = p /\ Op(m, p, v).val = v
  /\ \A slot : IsWrite(slot) =>
       slot.mode = Write /\ slot.ptr # Null /\ slot.ptr # SharedBase
  /\ \A slot : IsRead(slot) =>
       slot.mode = Read /\ slot.ptr # Null /\ slot.ptr # SharedBase
  /\ Block.mode = BlockRead /\ Block.ptr # Null /\ Block.ptr # SharedBase
BY Codes DEF Op, IsWrite, IsRead, Block

LEMMA SliceFacts ==
  ASSUME NEW q \in [Slots -> Slot], NEW lo \in Nat, NEW hi \in Nat, lo <= hi,
         hi <= EdclMax + 1
  PROVE  /\ Slice(q, lo, hi) \in Seq(Slot) /\ Len(Slice(q, lo, hi)) = hi - lo
         /\ \A k \in 1..(hi - lo) : Slice(q, lo, hi)[k] = q[lo + k - 1]
         /\ lo = hi => Slice(q, lo, hi) = <<>>
<1>1. \A k \in 1..(hi - lo) : lo + k - 1 \in Slots
  BY Numbers DEF Slots
<1>2. Slice(q, lo, hi) \in [1..(hi - lo) -> Slot] /\ hi - lo \in Nat
  BY <1>1 DEF Slice
<1>3. Slice(q, lo, hi) \in Seq(Slot) /\ Len(Slice(q, lo, hi)) = hi - lo
  BY <1>2, SeqDef
<1> QED BY <1>3, EmptySeq DEF Slice

LEMMA SliceTail ==
  ASSUME NEW q \in [Slots -> Slot], NEW lo \in Nat, NEW hi \in Nat, lo < hi,
         hi <= EdclMax + 1
  PROVE  /\ Slice(q, lo, hi) # <<>> /\ Head(Slice(q, lo, hi)) = q[lo]
         /\ Tail(Slice(q, lo, hi)) = Slice(q, lo + 1, hi)
<1> DEFINE s == Slice(q, lo, hi)
           t == Slice(q, lo + 1, hi)
<1>0. lo <= hi /\ lo + 1 \in Nat /\ lo + 1 <= hi /\ hi - lo \in Nat \ {0}
  OBVIOUS
<1>1. /\ s \in Seq(Slot) /\ Len(s) = hi - lo
      /\ \A k \in 1..(hi - lo) : s[k] = q[lo + k - 1]
  BY <1>0, SliceFacts, ZenonT(30)
<1>2. /\ t \in Seq(Slot) /\ Len(t) = hi - (lo + 1)
      /\ \A k \in 1..(hi - (lo + 1)) : t[k] = q[(lo + 1) + k - 1]
  BY <1>0, SliceFacts, ZenonT(30)
<1> HIDE DEF s, t
<1>3. s # <<>> /\ Head(s) = s[1]
  BY <1>0, <1>1, EmptySeq
<1>4. /\ Tail(s) \in Seq(Slot) /\ Len(Tail(s)) = Len(s) - 1
      /\ \A i \in 1..Len(Tail(s)) : Tail(s)[i] = s[i + 1]
  BY <1>1, <1>3, HeadTailProperties
<1>5. ASSUME NEW i \in 1..Len(Tail(s)) PROVE Tail(s)[i] = t[i]
  <2>1. i \in Nat /\ i + 1 \in 1..(hi - lo) /\ i \in 1..(hi - (lo + 1))
        /\ lo + (i + 1) - 1 = (lo + 1) + i - 1
    BY <1>1, <1>4
  <2> QED BY <1>1, <1>2, <1>4, <2>1
<1>6. Tail(s) = t
  BY <1>1, <1>2, <1>4, <1>5, SeqEqual
<1>7. s[1] = q[lo]
  BY <1>1
<1> QED BY <1>3, <1>6, <1>7 DEF s, t

LEMMA SliceSame ==
  ASSUME NEW p, NEW q, NEW lo \in Nat, NEW hi \in Nat,
         \A i \in lo..(hi - 1) : p[i] = q[i]
  PROVE  Slice(p, lo, hi) = Slice(q, lo, hi)
<1>1. \A k \in 1..(hi - lo) : lo + k - 1 \in lo..(hi - 1)
  OBVIOUS
<1> QED BY <1>1 DEF Slice

\* A slice and what follows it.
LEMMA SliceJoin ==
  ASSUME NEW q \in [Slots -> Slot], NEW lo \in Nat, NEW mid \in Nat, NEW n \in Nat,
         lo <= mid, mid + n <= EdclMax + 1, NEW s \in Seq(Slot), Len(s) = n,
         \A k \in 1..n : s[k] = q[mid + k - 1]
  PROVE  Slice(q, lo, mid) \o s = Slice(q, lo, mid + n)
<1> DEFINE a == Slice(q, lo, mid)
           b == Slice(q, lo, mid + n)
<1>0. lo <= mid /\ mid <= EdclMax + 1 /\ mid + n \in Nat /\ lo <= mid + n
  BY Numbers
<1>1. /\ a \in Seq(Slot) /\ Len(a) = mid - lo
      /\ \A k \in 1..(mid - lo) : a[k] = q[lo + k - 1]
  BY <1>0, SliceFacts, ZenonT(30)
<1>2. /\ b \in Seq(Slot) /\ Len(b) = (mid + n) - lo
      /\ \A k \in 1..((mid + n) - lo) : b[k] = q[lo + k - 1]
  BY <1>0, SliceFacts, ZenonT(30)
<1> HIDE DEF a, b
<1>3. /\ a \o s \in Seq(Slot) /\ Len(a \o s) = Len(a) + Len(s)
      /\ \A i \in 1..(Len(a) + Len(s)) :
           (a \o s)[i] = IF i <= Len(a) THEN a[i] ELSE s[i - Len(a)]
  BY <1>1, ConcatProperties
<1>4. ASSUME NEW i \in 1..Len(a \o s) PROVE (a \o s)[i] = b[i]
  <2>1. i \in Nat /\ i \in 1..((mid + n) - lo) /\ i \in 1..(Len(a) + Len(s))
    BY <1>1, <1>3
  <2>2. CASE i <= Len(a)
    <3>1. i \in 1..(mid - lo)
      BY <1>1, <2>1, <2>2
    <3> QED BY <1>1, <1>2, <1>3, <2>1, <2>2, <3>1
  <2>3. CASE i > Len(a)
    <3>1. /\ i - Len(a) \in 1..n /\ mid + (i - Len(a)) - 1 = lo + i - 1
          /\ ~(i <= Len(a))
      BY <1>1, <2>1, <2>3
    <3> QED BY <1>2, <1>3, <2>1, <3>1
  <2> QED BY <1>1, <2>1, <2>2, <2>3
<1>5. Len(a \o s) = Len(b)
  BY <1>1, <1>2, <1>3
<1>6. a \o s = b
  BY <1>2, <1>3, <1>4, <1>5, SeqEqual
<1> QED BY <1>6 DEF a, b

LEMMA SliceAppend ==
  ASSUME NEW q \in [Slots -> Slot], NEW lo \in Nat, NEW hi \in Nat, lo <= hi,
         hi <= EdclMax, NEW op \in Slot, q[hi] = op
  PROVE  Append(Slice(q, lo, hi), op) = Slice(q, lo, hi + 1)
<1>1. Slice(q, lo, hi) \in Seq(Slot)
  BY SliceFacts, Numbers
<1> DEFINE s == <<op>>
<1>2. s \in Seq(Slot) /\ Len(s) = 1 /\ s[1] = op
  OBVIOUS
<1> HIDE DEF s
<1>3. Slice(q, lo, hi) \o s = Slice(q, lo, hi + 1)
  <2>1. hi + 1 <= EdclMax + 1 /\ 1 \in Nat
    BY Numbers
  <2>2. ASSUME NEW k \in 1..1 PROVE s[k] = q[hi + k - 1]
    <3>1. k = 1 /\ hi + k - 1 = hi
      OBVIOUS
    <3> QED BY <1>2, <3>1
  <2> QED BY <1>2, <2>1, <2>2, SliceJoin, ZenonT(30)
<1> QED BY <1>1, <1>3, AppendIsConcat DEF s

LEMMA ValuesFacts ==
  ASSUME NEW q \in [Slots -> Slot], NEW lo \in Nat, NEW hi \in Nat,
         hi <= EdclMax + 1
  PROVE  /\ Values(q, lo, hi) \in Seq(Vals \cup {Dead})
         /\ hi <= lo => Values(q, lo, hi) = <<>>
         /\ lo <= hi => Len(Values(q, lo, hi)) = hi - lo
         /\ \A k \in 1..(hi - lo) : Values(q, lo, hi)[k] = q[lo + k - 1].val
<1>1. \A k \in 1..(hi - lo) : lo + k - 1 \in Slots
  BY Numbers DEF Slots
<1>2. \A k \in 1..(hi - lo) : q[lo + k - 1].val \in Vals \cup {Dead}
  BY <1>1 DEF Slot
<1>3. CASE lo <= hi
  <2>1. Values(q, lo, hi) \in [1..(hi - lo) -> Vals \cup {Dead}] /\ hi - lo \in Nat
    BY <1>2, <1>3 DEF Values
  <2>2. Values(q, lo, hi) \in Seq(Vals \cup {Dead}) /\ Len(Values(q, lo, hi)) = hi - lo
    BY <2>1, SeqDef
  <2> QED BY <1>3, <2>2, EmptySeq DEF Values
<1>4. CASE hi < lo
  <2>1. 1..(hi - lo) = 1..0
    BY <1>4
  <2>2. Values(q, lo, hi) \in [1..0 -> Vals \cup {Dead}]
    BY <1>2, <2>1 DEF Values
  <2>3. Values(q, lo, hi) \in Seq(Vals \cup {Dead}) /\ Len(Values(q, lo, hi)) = 0
    BY <2>2, SeqDef
  <2> QED BY <1>4, <2>1, <2>3, EmptySeq
<1> QED BY <1>3, <1>4

LEMMA ValuesSame ==
  ASSUME NEW p, NEW q, NEW lo \in Nat, NEW hi \in Nat,
         \A i \in lo..(hi - 1) : p[i].val = q[i].val
  PROVE  Values(p, lo, hi) = Values(q, lo, hi)
<1>1. \A k \in 1..(hi - lo) : lo + k - 1 \in lo..(hi - 1)
  OBVIOUS
<1> QED BY <1>1 DEF Values

LEMMA ValuesAppend ==
  ASSUME NEW q \in [Slots -> Slot], NEW lo \in Nat, NEW hi \in Nat, lo <= hi,
         hi <= EdclMax
  PROVE  Append(Values(q, lo, hi), q[hi].val) = Values(q, lo, hi + 1)
<1> DEFINE a == Values(q, lo, hi)
           b == Values(q, lo, hi + 1)
           v == q[hi].val
           T == Vals \cup {Dead}
<1>0. hi <= EdclMax + 1 /\ hi + 1 \in Nat /\ hi + 1 <= EdclMax + 1 /\ lo <= hi + 1
  BY Numbers
<1>1. /\ a \in Seq(T) /\ Len(a) = hi - lo
      /\ \A k \in 1..(hi - lo) : a[k] = q[lo + k - 1].val
  BY <1>0, ValuesFacts, ZenonT(30)
<1>2. /\ b \in Seq(T) /\ Len(b) = (hi + 1) - lo
      /\ \A k \in 1..((hi + 1) - lo) : b[k] = q[lo + k - 1].val
  BY <1>0, ValuesFacts, ZenonT(30)
<1>3. v \in T
  BY Numbers DEF Slots, Slot
<1> HIDE DEF a, b, T, v
<1>4. /\ Append(a, v) \in Seq(T) /\ Len(Append(a, v)) = Len(a) + 1
      /\ \A i \in 1..Len(a) : Append(a, v)[i] = a[i]
      /\ Append(a, v)[Len(a) + 1] = v
  BY <1>1, <1>3, AppendProperties
<1>5. ASSUME NEW i \in 1..Len(Append(a, v)) PROVE Append(a, v)[i] = b[i]
  <2>0. i \in 1..((hi + 1) - lo) /\ Len(a) \in Nat /\ i <= Len(a) + 1
    BY <1>1, <1>4
  <2>1. CASE i <= Len(a)
    <3>1. i \in 1..Len(a) /\ i \in 1..(hi - lo)
      BY <1>1, <2>0, <2>1
    <3>2. Append(a, v)[i] = a[i] /\ a[i] = q[lo + i - 1].val
      BY <1>1, <1>4, <3>1
    <3> QED BY <1>2, <2>0, <3>2
  <2>2. CASE i = Len(a) + 1
    <3>1. lo + i - 1 = hi
      BY <1>1, <2>2
    <3> QED BY <1>2, <1>4, <2>0, <2>2, <3>1 DEF v
  <2> QED BY <2>0, <2>1, <2>2
<1>6. Len(Append(a, v)) = Len(b)
  BY <1>1, <1>2, <1>4
<1>7. Append(a, v) = b
  BY <1>2, <1>4, <1>5, <1>6, SeqEqual
<1> QED BY <1>7 DEF a, b, v

-----------------------------------------------------------------------------
(* The host's queue *)

LEMMA TypeFacts ==
  ASSUME TypeInv
  PROVE  /\ edcl_trans \in [Slots -> Slot] /\ shared \in [Slots -> Slot]
         /\ edcl_cnt \in Nat /\ edcl_cnt <= EdclMax /\ pos \in Nat /\ pos <= EdclMax
         /\ flushed \in Nat /\ call \in Call /\ call.n \in Nat
         /\ call.op \in {"flush", "write", "read", "array", "block"}
         /\ call.queued \in BOOLEAN
         /\ minion.run \in BOOLEAN /\ minion.at \in Nat /\ minion.at <= EdclMax
         /\ todo \in Seq(Slot) /\ got \in Seq(Vals) /\ faults \in 0..MaxFaults
         /\ Base \in {0, 1} /\ NReads \in Nat /\ tmp \in Slot
BY DEF TypeInv, TypeOK, Call, Slots, Base, NReads

\* A queue of cnt operations whose last ones are the reads of the call that
\* starts to flush it.
LEMMA StartQueue ==
  ASSUME NEW trans \in [Slots -> Slot], NEW cnt \in 0..(EdclMax - 1),
         StartFlush(trans, cnt),
         NEW base \in {0, 1}, base = IF trans[0].ptr = SharedBase THEN 1 ELSE 0,
         base = 1 => trans[0].mode = Read, cnt = 0 => trans[0].ptr = Null,
         NEW first \in Nat, NEW reads \in Nat, NReads' = reads, first = cnt - reads,
         base <= first,
         \A i \in base..(first - 1) : IsWrite(trans[i]),
         \A i \in first..(cnt - 1) : IsRead(trans[i]),
         call'.op = "array" => first >= 1, tmpbuf' = <<>>
  PROVE  /\ HostQueue' /\ Base' = base /\ Last' = cnt
         /\ \A i \in Slots : i # cnt => edcl_trans'[i] = trans[i]
<1>1. /\ edcl_trans' = [trans EXCEPT ![cnt].mode = Unknown]
      /\ edcl_cnt' = cnt + 1 /\ pc' = "FlushWrite"
  BY DEF StartFlush, Terminated
<1>2. /\ cnt \in Nat /\ cnt \in Slots /\ 0 \in Slots /\ first <= cnt
      /\ EdclMax \in Nat /\ cnt <= EdclMax - 1
  <2>1. EdclMax \in Nat
    BY Numbers
  <2>2. cnt \in Nat /\ cnt <= EdclMax - 1 /\ first <= cnt
    BY <2>1
  <2> QED BY <2>1, <2>2, Numbers DEF Slots
<1>3. /\ \A i \in Slots : i # cnt => edcl_trans'[i] = trans[i]
      /\ edcl_trans'[cnt].mode = Unknown /\ edcl_trans'[0].ptr = trans[0].ptr
      /\ (cnt # 0 => edcl_trans'[0] = trans[0])
  <2>1. edcl_trans'[cnt] = [trans[cnt] EXCEPT !.mode = Unknown] /\ trans[cnt] \in Slot
    BY <1>1, <1>2
  <2>2. edcl_trans'[cnt].mode = Unknown /\ edcl_trans'[cnt].ptr = trans[cnt].ptr
    BY <2>1 DEF Slot
  <2>3. \A i \in Slots : i # cnt => edcl_trans'[i] = trans[i]
    BY <1>1, <1>2
  <2> QED BY <1>2, <2>2, <2>3
<1>4. Base' = base /\ Last' = cnt /\ First' = first
  <2>1. Base' = base
    BY <1>3 DEF Base
  <2>2. Last' = cnt
    BY <1>1, <1>2 DEF Last
  <2>3. First' = first
    BY <1>1, <1>2 DEF First
  <2> QED BY <2>1, <2>2, <2>3
<1>5. base = 1 => cnt # 0
  BY <1>2
<1>6. /\ \A i \in base..(first - 1) : IsWrite(edcl_trans'[i])
      /\ \A i \in first..(cnt - 1) : IsRead(edcl_trans'[i])
  <2>0. base \in Nat /\ first \in Nat /\ cnt <= EdclMax
    BY <1>2
  <2>1. ASSUME NEW i \in base..(first - 1) PROVE i \in Slots /\ i # cnt
    <3>1. i \in Nat /\ i <= first - 1
      BY <2>0
    <3> QED BY <1>2, <2>0, <3>1 DEF Slots
  <2>2. ASSUME NEW i \in first..(cnt - 1) PROVE i \in Slots /\ i # cnt
    <3>1. i \in Nat /\ i <= cnt - 1
      BY <1>2, <2>0
    <3> QED BY <1>2, <2>0, <3>1 DEF Slots
  <2> QED BY <1>3, <2>1, <2>2
<1>7. edcl_cnt' = 1 => edcl_trans'[0].ptr = Null
  BY <1>1, <1>2, <1>3
<1>8. Flushing' /\ pc' # "Idle" /\ pc' # "ArrayBack" /\ pc' # "BlockData"
  BY <1>1 DEF Flushing
<1>9. Base' = 1 => edcl_trans'[0].mode = Read
  BY <1>3, <1>4, <1>5
<1>10. edcl_trans'[Last'].mode = Unknown /\ Base' <= First'
  BY <1>3, <1>4
<1> QED BY <1>3, <1>4, <1>6, <1>7, <1>8, <1>9, <1>10 DEF HostQueue

\* What waits between calls.
LEMMA IdleQueue ==
  ASSUME TypeInv, HostQueue, pc = "Idle"
  PROVE  /\ edcl_trans \in [Slots -> Slot] /\ edcl_cnt \in 0..(EdclMax - 2)
         /\ edcl_cnt \in Nat /\ edcl_cnt \in Slots /\ 0 \in Slots
         /\ Base \in {0, 1} /\ Base <= edcl_cnt
         /\ Base = IF edcl_trans[0].ptr = SharedBase THEN 1 ELSE 0
         /\ Base = 1 => edcl_trans[0].mode = Read
         /\ edcl_cnt = 0 => edcl_trans[0].ptr = Null
         /\ \A i \in Base..(edcl_cnt - 1) : IsWrite(edcl_trans[i])
         /\ tmpbuf = <<>>
<1>1. edcl_cnt <= EdclMax - 2
  BY DEF TypeInv, Bounds
<1> QED BY <1>1, TypeFacts, Numbers DEF HostQueue, Base, Slots

\* An operation added to what waits leaves the rest as it is.
LEMMA AddedQueue ==
  ASSUME TypeInv, HostQueue, pc = "Idle",
         NEW op \in Slot, op.ptr # SharedBase, op.ptr # Null,
         NEW trans, trans = [edcl_trans EXCEPT ![edcl_cnt] = op]
  PROVE  /\ trans \in [Slots -> Slot] /\ trans[edcl_cnt] = op
         /\ Base = IF trans[0].ptr = SharedBase THEN 1 ELSE 0
         /\ Base = 1 => trans[0].mode = Read
         /\ \A i \in Slots : i # edcl_cnt => trans[i] = edcl_trans[i]
         /\ \A i \in Base..(edcl_cnt - 1) : i \in Slots /\ IsWrite(trans[i])
<1>1. /\ edcl_trans \in [Slots -> Slot] /\ edcl_cnt \in Slots /\ edcl_cnt \in Nat
      /\ Base <= edcl_cnt /\ Base \in {0, 1}
      /\ \A i \in Base..(edcl_cnt - 1) : IsWrite(edcl_trans[i])
      /\ Base = IF edcl_trans[0].ptr = SharedBase THEN 1 ELSE 0
      /\ (edcl_cnt = 0 => edcl_trans[0].ptr = Null)
      /\ (Base = 1 => edcl_trans[0].mode = Read) /\ edcl_cnt <= EdclMax
  BY IdleQueue, Numbers
<1>2. /\ trans \in [Slots -> Slot] /\ trans[edcl_cnt] = op
      /\ \A i \in Slots : i # edcl_cnt => trans[i] = edcl_trans[i]
  BY <1>1
<1>3. \A i \in Base..(edcl_cnt - 1) : i \in Slots /\ i # edcl_cnt
  BY <1>1, Numbers DEF Slots
<1>4. CASE edcl_cnt = 0
  BY <1>1, <1>2, <1>3, <1>4, Codes
<1>5. CASE edcl_cnt # 0
  BY <1>1, <1>2, <1>3, <1>5, Numbers
<1> QED BY <1>4, <1>5

LEMMA WriteOp ==
  ASSUME NEW r \in Regs, NEW v \in Vals
  PROVE  /\ Op(Write, r, v) \in Slot /\ IsWrite(Op(Write, r, v))
         /\ Op(Write, r, v).ptr # Null /\ Op(Write, r, v).ptr # SharedBase
<1>1. Op(Write, r, v) \in Slot
  BY OpType, Numbers
<1>2. IsWrite(Op(Write, r, v))
  BY DEF IsWrite
<1> QED BY <1>1, <1>2, OpFields

LEMMA ReadOp ==
  ASSUME NEW r \in Regs
  PROVE  /\ Op(Read, r, Dead) \in Slot /\ IsRead(Op(Read, r, Dead))
         /\ Op(Read, r, Dead).ptr # Null /\ Op(Read, r, Dead).ptr # SharedBase
<1>1. Op(Read, r, Dead) \in Slot
  BY OpType, Numbers
<1>2. IsRead(Op(Read, r, Dead))
  BY DEF IsRead
<1> QED BY <1>1, <1>2, OpFields

-----------------------------------------------------------------------------
(* The calls *)

\* A call that starts to flush a queue with all that was issued in it.
LEMMA StartOrder ==
  ASSUME NEW trans, NEW base \in {0, 1}, NEW cnt \in 0..(EdclMax - 1),
         StartFlush(trans, cnt), Base' = base, Last' = cnt,
         \A i \in Slots : i # cnt => edcl_trans'[i] = trans[i],
         faults' = 0 => todo' = Slice(trans, base, cnt) /\ got' = <<>>
  PROVE  Order'
<1> SUFFICES ASSUME faults' = 0 PROVE CallOrder' /\ FlushOrder' /\ BlockOrder'
  BY DEF Order
<1>1. pc' = "FlushWrite" /\ pos' = 0
  BY DEF StartFlush
<1>2. base \in Nat /\ cnt \in Nat /\ cnt <= EdclMax /\ EdclMax \in Nat
  <2>1. EdclMax \in Nat
    BY Numbers
  <2> QED BY <2>1
<1>3. ASSUME NEW i \in base..(cnt - 1) PROVE edcl_trans'[i] = trans[i]
  <2>1. i \in Nat /\ i <= cnt - 1
    BY <1>2
  <2>2. i \in Slots /\ i # cnt
    BY <1>2, <2>1 DEF Slots
  <2> QED BY <2>2
<1>4. Slice(edcl_trans', base, cnt) = Slice(trans, base, cnt)
  BY <1>2, <1>3, SliceSame, ZenonT(30)
<1>5. Fresh'
  BY <1>4 DEF Fresh
<1>6. Copied(pos)'
  <2>1. 0..(0 - 1) = {}
    OBVIOUS
  <2> QED BY <1>1, <2>1 DEF Copied
<1> QED BY <1>1, <1>5, <1>6 DEF CallOrder, FlushOrder, BlockOrder

\* queue_flush and what begins with it: nothing is added to the queue.
LEMMA PlainFlush ==
  ASSUME OrderInv, pc = "Idle", StartFlush(edcl_trans, edcl_cnt),
         NReads' = 0, call'.op = "array" => edcl_cnt >= 1,
         UNCHANGED <<tmpbuf, todo, got, faults>>
  PROVE  HostQueue' /\ Order'
<1>1. TypeInv /\ HostQueue
  BY DEF OrderInv, TurnsInv
<1>2. /\ edcl_trans \in [Slots -> Slot] /\ edcl_cnt \in 0..(EdclMax - 2)
      /\ edcl_cnt \in Nat /\ edcl_cnt \in 0..(EdclMax - 1)
      /\ Base \in {0, 1} /\ Base <= edcl_cnt
      /\ Base = IF edcl_trans[0].ptr = SharedBase THEN 1 ELSE 0
      /\ (Base = 1 => edcl_trans[0].mode = Read)
      /\ (edcl_cnt = 0 => edcl_trans[0].ptr = Null)
      /\ \A i \in Base..(edcl_cnt - 1) : IsWrite(edcl_trans[i])
      /\ tmpbuf' = <<>>
  BY <1>1, IdleQueue, Numbers
<1>3. \A i \in edcl_cnt..(edcl_cnt - 1) : IsRead(edcl_trans[i])
  BY <1>2
<1>4. edcl_cnt = edcl_cnt - 0 /\ 0 \in Nat
  BY <1>2
<1>5. /\ HostQueue' /\ Base' = Base /\ Last' = edcl_cnt
      /\ \A i \in Slots : i # edcl_cnt => edcl_trans'[i] = edcl_trans[i]
  BY <1>2, <1>3, <1>4, StartQueue
<1>6. faults' = 0 => todo' = Slice(edcl_trans, Base, edcl_cnt) /\ got' = <<>>
  BY DEF OrderInv, Order, CallOrder
<1>7. Order'
  BY <1>2, <1>5, <1>6, StartOrder
<1> QED BY <1>5, <1>7

LEMMA QueueFlushOrder ==
  ASSUME OrderInv, QueueFlush
  PROVE  HostQueue' /\ Order'
<1>1. NReads' = 0 /\ call'.op = "flush"
  BY DEF QueueFlush, Begin, NReads
<1> QED BY <1>1, PlainFlush DEF QueueFlush

LEMMA QueueBlockRead1Order ==
  ASSUME OrderInv, NEW max \in Limits, QueueBlockRead1(max)
  PROVE  HostQueue' /\ Order'
<1>1. NReads' = 0 /\ call'.op = "block"
  BY DEF QueueBlockRead1, Begin, NReads
<1> QED BY <1>1, PlainFlush DEF QueueBlockRead1

LEMMA QueueWriteOrder ==
  ASSUME OrderInv, NEW r \in Regs, NEW v \in Vals, NEW flush \in BOOLEAN,
         QueueWrite(r, v, flush)
  PROVE  HostQueue' /\ Order'
<1> DEFINE op    == Op(Write, r, v)
           trans == [edcl_trans EXCEPT ![edcl_cnt] = op]
           cnt   == edcl_cnt + 1
<1>1. TypeInv /\ HostQueue /\ pc = "Idle"
  BY DEF OrderInv, TurnsInv, QueueWrite
<1>2. op \in Slot /\ IsWrite(op) /\ op.ptr # Null /\ op.ptr # SharedBase
  BY WriteOp
<1>3. /\ todo' = Append(todo, op)
      /\ UNCHANGED <<tmpbuf, got, faults>>
      /\ \/ StartFlush(trans, cnt) /\ Begin("write", r, 0, TRUE)
         \/ edcl_trans' = trans /\ edcl_cnt' = cnt /\ UNCHANGED <<pc, pos, call>>
  BY DEF QueueWrite
<1>4. /\ edcl_cnt \in Nat /\ edcl_cnt <= EdclMax - 2 /\ tmpbuf = <<>>
      /\ Base \in {0, 1} /\ Base \in Nat /\ Base <= edcl_cnt
      /\ cnt \in Nat /\ cnt \in 0..(EdclMax - 1) /\ cnt # 0 /\ edcl_cnt < cnt
      /\ edcl_cnt <= EdclMax /\ Base <= cnt
  BY <1>1, IdleQueue, Numbers
<1>t. trans = [edcl_trans EXCEPT ![edcl_cnt] = op]
  OBVIOUS
<1>c. cnt = edcl_cnt + 1
  OBVIOUS
<1> HIDE DEF op, trans, cnt
<1>5. /\ trans \in [Slots -> Slot] /\ trans[edcl_cnt] = op
      /\ Base = IF trans[0].ptr = SharedBase THEN 1 ELSE 0
      /\ Base = 1 => trans[0].mode = Read
      /\ \A i \in Slots : i # edcl_cnt => trans[i] = edcl_trans[i]
      /\ \A i \in Base..(edcl_cnt - 1) : i \in Slots /\ IsWrite(trans[i])
  BY <1>1, <1>2, <1>t, AddedQueue, ZenonT(60)
<1>6. \A i \in Base..(cnt - 1) : IsWrite(trans[i])
  <2> SUFFICES ASSUME NEW i \in Base..(cnt - 1) PROVE IsWrite(trans[i])
    OBVIOUS
  <2>1. i = edcl_cnt \/ i \in Base..(edcl_cnt - 1)
    BY <1>4, <1>c
  <2> QED BY <1>2, <1>5, <2>1
<1>7. faults' = 0 => todo' = Slice(trans, Base, cnt) /\ got' = <<>>
  <2> SUFFICES ASSUME faults' = 0 PROVE todo' = Slice(trans, Base, cnt) /\ got' = <<>>
    OBVIOUS
  <2>1. todo = Slice(edcl_trans, Base, edcl_cnt) /\ got = <<>>
    BY <1>1, <1>3 DEF OrderInv, Order, CallOrder
  <2>2. ASSUME NEW i \in Base..(edcl_cnt - 1) PROVE edcl_trans[i] = trans[i]
    <3>1. i # edcl_cnt /\ i \in Slots
      BY <1>4, <1>5
    <3> QED BY <1>5, <3>1
  <2>3. Slice(edcl_trans, Base, edcl_cnt) = Slice(trans, Base, edcl_cnt)
    BY <1>4, <2>2, SliceSame, SMTT(30)
  <2>4. Append(Slice(trans, Base, edcl_cnt), op) = Slice(trans, Base, edcl_cnt + 1)
    BY <1>2, <1>4, <1>5, SliceAppend
  <2> QED BY <1>3, <1>c, <2>1, <2>3, <2>4
<1>8. CASE StartFlush(trans, cnt) /\ Begin("write", r, 0, TRUE)
  <2>1. NReads' = 0 /\ call'.op = "write"
    BY <1>8 DEF Begin, NReads
  <2>2. cnt = cnt - 0 /\ 0 \in Nat /\ \A i \in cnt..(cnt - 1) : IsRead(trans[i])
    BY <1>4
  <2>3. tmpbuf' = <<>>
    BY <1>3, <1>4
  <2>4. /\ HostQueue' /\ Base' = Base /\ Last' = cnt
        /\ \A i \in Slots : i # cnt => edcl_trans'[i] = trans[i]
    BY <1>4, <1>5, <1>6, <1>8, <2>1, <2>2, <2>3, StartQueue
  <2>5. Order'
    BY <1>4, <1>7, <1>8, <2>4, StartOrder
  <2> QED BY <2>4, <2>5
<1>9. CASE edcl_trans' = trans /\ edcl_cnt' = cnt /\ UNCHANGED <<pc, pos, call>>
  <2>1. Base' = Base /\ pc' = "Idle"
    BY <1>1, <1>5, <1>9 DEF Base
  <2>2. HostQueue'
    BY <1>3, <1>4, <1>5, <1>6, <1>9, <2>1 DEF HostQueue, Flushing
  <2>3. Order'
    BY <1>7, <1>9, <2>1 DEF Order, CallOrder, FlushOrder, BlockOrder
  <2> QED BY <2>2, <2>3
<1> QED BY <1>3, <1>8, <1>9

LEMMA QueueReadOrder ==
  ASSUME OrderInv, NEW r \in Regs, QueueRead(r)
  PROVE  HostQueue' /\ Order'
<1> DEFINE op    == Op(Read, r, Dead)
           trans == [edcl_trans EXCEPT ![edcl_cnt] = op]
           cnt   == edcl_cnt + 1
<1>1. TypeInv /\ HostQueue /\ pc = "Idle"
  BY DEF OrderInv, TurnsInv, QueueRead
<1>2. op \in Slot /\ IsRead(op) /\ op.ptr # Null /\ op.ptr # SharedBase
  BY ReadOp
<1>3. /\ todo' = Append(todo, op)
      /\ UNCHANGED <<tmpbuf, got, faults>>
      /\ StartFlush(trans, cnt) /\ Begin("read", r, 1, TRUE)
  BY DEF QueueRead
<1>4. /\ edcl_cnt \in Nat /\ edcl_cnt <= EdclMax - 2 /\ tmpbuf = <<>>
      /\ Base \in {0, 1} /\ Base \in Nat /\ Base <= edcl_cnt
      /\ cnt \in Nat /\ cnt \in 0..(EdclMax - 1) /\ cnt # 0 /\ edcl_cnt < cnt
      /\ edcl_cnt <= EdclMax /\ edcl_cnt = cnt - 1
  BY <1>1, IdleQueue, Numbers
<1>t. trans = [edcl_trans EXCEPT ![edcl_cnt] = op]
  OBVIOUS
<1>c. cnt = edcl_cnt + 1
  OBVIOUS
<1> HIDE DEF op, trans, cnt
<1>5. /\ trans \in [Slots -> Slot] /\ trans[edcl_cnt] = op
      /\ Base = IF trans[0].ptr = SharedBase THEN 1 ELSE 0
      /\ Base = 1 => trans[0].mode = Read
      /\ \A i \in Slots : i # edcl_cnt => trans[i] = edcl_trans[i]
      /\ \A i \in Base..(edcl_cnt - 1) : i \in Slots /\ IsWrite(trans[i])
  BY <1>1, <1>2, <1>t, AddedQueue, ZenonT(60)
<1>6. \A i \in edcl_cnt..(cnt - 1) : IsRead(trans[i])
  <2>1. ASSUME NEW i \in edcl_cnt..(cnt - 1) PROVE i = edcl_cnt
    BY <1>4
  <2> QED BY <1>2, <1>5, <2>1
<1>7. faults' = 0 => todo' = Slice(trans, Base, cnt) /\ got' = <<>>
  <2> SUFFICES ASSUME faults' = 0 PROVE todo' = Slice(trans, Base, cnt) /\ got' = <<>>
    OBVIOUS
  <2>1. todo = Slice(edcl_trans, Base, edcl_cnt) /\ got = <<>>
    BY <1>1, <1>3 DEF OrderInv, Order, CallOrder
  <2>2. ASSUME NEW i \in Base..(edcl_cnt - 1) PROVE edcl_trans[i] = trans[i]
    <3>1. i # edcl_cnt /\ i \in Slots
      BY <1>4, <1>5
    <3> QED BY <1>5, <3>1
  <2>3. Slice(edcl_trans, Base, edcl_cnt) = Slice(trans, Base, edcl_cnt)
    BY <1>4, <2>2, SliceSame, SMTT(30)
  <2>4. Append(Slice(trans, Base, edcl_cnt), op) = Slice(trans, Base, edcl_cnt + 1)
    BY <1>2, <1>4, <1>5, SliceAppend
  <2> QED BY <1>3, <1>c, <2>1, <2>3, <2>4
<1>8. NReads' = 1 /\ call'.op = "read"
  BY <1>3 DEF Begin, NReads
<1>9. \A i \in Base..(edcl_cnt - 1) : IsWrite(trans[i])
  BY <1>5
<1>10. /\ HostQueue' /\ Base' = Base /\ Last' = cnt
       /\ \A i \in Slots : i # cnt => edcl_trans'[i] = trans[i]
  <2>1. 1 \in Nat /\ edcl_cnt = cnt - 1 /\ tmpbuf' = <<>>
    BY <1>3, <1>4
  <2> QED BY <1>3, <1>4, <1>5, <1>6, <1>8, <1>9, <2>1, StartQueue
<1>11. Order'
  BY <1>3, <1>4, <1>7, <1>10, StartOrder
<1> QED BY <1>10, <1>11

\* The reads of queue_read_array behind the writes that wait.
LEMMA AppendArrayOrder ==
  ASSUME TypeInv, NEW r \in Regs, NEW n \in Arrays, r + n - 1 \in Regs,
         edcl_cnt + n < EdclMax, edcl_cnt >= 1, AppendArray(r, n),
         Base <= edcl_cnt, Base = 1 => edcl_trans[0].mode = Read,
         \A i \in Base..(edcl_cnt - 1) : IsWrite(edcl_trans[i]),
         tmpbuf' = <<>>,
         faults' = 0 => todo = Slice(edcl_trans, Base, edcl_cnt) /\ got' = <<>>
  PROVE  HostQueue' /\ Order'
<1> DEFINE trans == ArrayOps(r, n)
           cnt   == edcl_cnt + n
           ops   == [k \in 1..n |-> Op(Read, r + k - 1, Dead)]
<1>1. /\ trans \in [Slots -> Slot] /\ cnt \in 0..(EdclMax - 1)
      /\ n \in Nat /\ n >= 1 /\ StartFlush(trans, cnt) /\ Begin("array", r, n, TRUE)
  BY AppendArrayType
<1>2. /\ edcl_cnt \in Nat /\ edcl_trans \in [Slots -> Slot]
      /\ Base \in {0, 1} /\ Base \in Nat /\ 0 \in Slots /\ EdclMax \in Nat
  BY TypeFacts, Numbers
<1>3. /\ cnt \in Nat /\ cnt # 0 /\ cnt <= EdclMax /\ edcl_cnt = cnt - n
      /\ edcl_cnt < cnt /\ edcl_cnt # 0
  BY <1>1, <1>2
<1>4. todo' = todo \o ops
  BY DEF AppendArray
<1>5. \A i \in Slots : trans[i] = IF i >= edcl_cnt /\ i < cnt
                                    THEN Op(Read, r + i - edcl_cnt, Dead)
                                    ELSE edcl_trans[i]
  BY DEF ArrayOps
<1>6. ASSUME NEW k \in 1..n
      PROVE  /\ ops[k] = trans[edcl_cnt + k - 1] /\ IsRead(ops[k])
             /\ ops[k] \in Slot
  <2>1. /\ r + k - 1 \in Regs /\ edcl_cnt + k - 1 \in Slots
        /\ edcl_cnt + k - 1 >= edcl_cnt /\ edcl_cnt + k - 1 < cnt
        /\ r + (edcl_cnt + k - 1) - edcl_cnt = r + k - 1
    BY <1>1, <1>2, <1>3, QueueAssumption DEF Regs, Slots
  <2>2. trans[edcl_cnt + k - 1] = Op(Read, r + k - 1, Dead)
    BY <1>5, <2>1
  <2>3. ops[k] = Op(Read, r + k - 1, Dead)
    OBVIOUS
  <2> QED BY <2>1, <2>2, <2>3, ReadOp
<1>7. ops \in Seq(Slot) /\ Len(ops) = n
  <2>1. ops \in [1..n -> Slot]
    BY <1>6
  <2> QED BY <1>1, <2>1, SeqDef
<1> HIDE DEF trans, cnt, ops
<1>8. ASSUME NEW i \in Slots, i < edcl_cnt PROVE trans[i] = edcl_trans[i]
  <2>1. ~(i >= edcl_cnt)
    BY <1>2, <1>8 DEF Slots
  <2> QED BY <1>5, <2>1
<1>9. /\ trans[0] = edcl_trans[0]
      /\ Base = IF trans[0].ptr = SharedBase THEN 1 ELSE 0
      /\ Base = 1 => trans[0].mode = Read
  <2>1. 0 < edcl_cnt
    BY <1>2
  <2>2. trans[0] = edcl_trans[0]
    BY <1>2, <1>8, <2>1
  <2> QED BY <2>2 DEF Base
<1>10. ASSUME NEW i \in Base..(edcl_cnt - 1)
       PROVE  trans[i] = edcl_trans[i] /\ IsWrite(trans[i])
  <2>1. i \in Nat /\ i <= edcl_cnt - 1
    BY <1>2
  <2>2. i \in Slots /\ i < edcl_cnt
    BY <1>2, <1>3, <2>1 DEF Slots
  <2> QED BY <1>8, <2>2
<1>11. ASSUME NEW i \in edcl_cnt..(cnt - 1) PROVE IsRead(trans[i])
  <2> DEFINE k == (i - edcl_cnt) + 1
  <2>0. i \in Int /\ edcl_cnt <= i /\ i <= cnt - 1
    BY <1>2, <1>3
  <2>1. k \in 1..n /\ i = edcl_cnt + k - 1
    BY <1>1, <1>2, <1>3, <2>0
  <2> HIDE DEF k
  <2> QED BY <1>6, <2>1
<1>12. NReads' = n /\ call'.op = "array"
  BY <1>1 DEF Begin, NReads
<1>13. /\ HostQueue' /\ Base' = Base /\ Last' = cnt
       /\ \A i \in Slots : i # cnt => edcl_trans'[i] = trans[i]
  <2>1. \A i \in Base..(edcl_cnt - 1) : IsWrite(trans[i])
    BY <1>10
  <2>2. \A i \in edcl_cnt..(cnt - 1) : IsRead(trans[i])
    BY <1>11
  <2> QED BY <1>1, <1>2, <1>3, <1>9, <1>12, <2>1, <2>2, StartQueue
<1>14. faults' = 0 => todo' = Slice(trans, Base, cnt) /\ got' = <<>>
  <2> SUFFICES ASSUME faults' = 0 PROVE todo' = Slice(trans, Base, cnt) /\ got' = <<>>
    OBVIOUS
  <2>1. \A i \in Base..(edcl_cnt - 1) : edcl_trans[i] = trans[i]
    BY <1>10
  <2>2. Slice(edcl_trans, Base, edcl_cnt) = Slice(trans, Base, edcl_cnt)
    BY <1>2, <2>1, SliceSame, SMTT(30)
  <2>3. \A k \in 1..n : ops[k] = trans[edcl_cnt + k - 1]
    BY <1>6
  <2>4. edcl_cnt + n <= EdclMax + 1 /\ cnt = edcl_cnt + n
    BY <1>1, <1>2, <1>3
  <2>5. Slice(trans, Base, edcl_cnt) \o ops = Slice(trans, Base, edcl_cnt + n)
    <3>1. /\ trans \in [Slots -> Slot] /\ Base \in Nat /\ edcl_cnt \in Nat
          /\ n \in Nat /\ Base <= edcl_cnt /\ ops \in Seq(Slot) /\ Len(ops) = n
      BY <1>1, <1>2, <1>7
    <3> QED BY <2>3, <2>4, <3>1, SliceJoin, ZenonT(30)
  <2> QED BY <1>4, <2>2, <2>4, <2>5
<1>15. Order'
  BY <1>1, <1>2, <1>13, <1>14, StartOrder
<1> QED BY <1>13, <1>15

LEMMA QueueReadArrayOrder ==
  ASSUME OrderInv, NEW r \in Regs, NEW n \in Arrays, r + n - 1 \in Regs,
         QueueReadArray(r, n)
  PROVE  HostQueue' /\ Order'
<1>1. /\ TypeInv /\ HostQueue /\ pc = "Idle" /\ edcl_cnt > 0
      /\ UNCHANGED <<tmpbuf, got, faults>>
  BY DEF OrderInv, TurnsInv, QueueReadArray
<1>2. /\ edcl_cnt \in Nat /\ tmpbuf = <<>> /\ Base <= edcl_cnt /\ edcl_cnt >= 1
      /\ Base = 1 => edcl_trans[0].mode = Read
      /\ \A i \in Base..(edcl_cnt - 1) : IsWrite(edcl_trans[i])
  <2>1. edcl_cnt \in Nat
    BY <1>1, TypeFacts
  <2> QED BY <1>1, <2>1, IdleQueue
<1>3. CASE NeedsRoom(n)
  <2>1. /\ StartFlush(edcl_trans, edcl_cnt) /\ Begin("array", r, n, FALSE)
        /\ todo' = todo
    BY <1>3 DEF QueueReadArray
  <2>2. NReads' = 0
    BY <2>1 DEF Begin, NReads
  <2> QED BY <1>1, <1>2, <2>1, <2>2, PlainFlush
<1>4. CASE ~NeedsRoom(n)
  <2>1. AppendArray(r, n)
    BY <1>4 DEF QueueReadArray
  <2>2. edcl_cnt + n < EdclMax
    BY <1>2, <1>4, Numbers, QueueAssumption DEF NeedsRoom
  <2>3. faults' = 0 => todo = Slice(edcl_trans, Base, edcl_cnt) /\ got' = <<>>
    BY <1>1 DEF OrderInv, Order, CallOrder
  <2>4. tmpbuf' = <<>>
    BY <1>1, <1>2
  <2> QED BY <1>1, <1>2, <2>1, <2>2, <2>3, <2>4, AppendArrayOrder
<1> QED BY <1>3, <1>4

LEMMA ArrayAppendOrder ==
  ASSUME OrderInv, ArrayAppend
  PROVE  HostQueue' /\ Order'
<1> DEFINE r == call.ptr
           n == call.n
<1>1. TypeInv /\ HostQueue /\ pc = "ArrayAppend"
  BY DEF OrderInv, TurnsInv, ArrayAppend
<1>2. n \in Arrays /\ r \in Regs /\ r + n - 1 \in Regs /\ edcl_cnt = 1
  BY <1>1 DEF TypeInv, Bounds
<1>3. AppendArray(r, n) /\ UNCHANGED <<tmpbuf, got, faults>>
  BY DEF ArrayAppend
<1> HIDE DEF r, n
<1>4. Base = 1 /\ edcl_trans[0].mode = Read /\ tmpbuf = <<>>
  BY <1>1 DEF HostQueue, Flushing
<1>5. edcl_cnt + n < EdclMax
  BY <1>2, QueueAssumption
<1>6. edcl_cnt >= 1 /\ Base <= edcl_cnt /\ tmpbuf' = <<>>
  BY <1>2, <1>3, <1>4
<1>7. \A i \in Base..(edcl_cnt - 1) : IsWrite(edcl_trans[i])
  BY <1>2, <1>4
<1>8. faults' = 0 => todo = Slice(edcl_trans, Base, edcl_cnt) /\ got' = <<>>
  <2>1. Slice(edcl_trans, 1, 1) = <<>>
    BY <1>1, TypeFacts, SliceFacts, Numbers
  <2> QED BY <1>1, <1>2, <1>3, <1>4, <2>1 DEF OrderInv, Order, CallOrder
<1> QED BY <1>1, <1>2, <1>3, <1>4, <1>5, <1>6, <1>7, <1>8, AppendArrayOrder

-----------------------------------------------------------------------------
(* The exchanges of queue_flush *)

LEMMA FlushFacts ==
  ASSUME TypeInv, HostQueue, Flushing
  PROVE  /\ edcl_cnt \in Nat /\ edcl_cnt >= 1 /\ edcl_cnt <= EdclMax
         /\ EdclMax \in Nat
         /\ Base \in {0, 1} /\ Base \in Nat /\ First \in Nat /\ Last \in Nat
         /\ Base <= First /\ First <= Last
         /\ Last = edcl_cnt - 1 /\ First = Last - NReads /\ tmpbuf = <<>>
<1>1. /\ edcl_cnt \in Nat /\ edcl_cnt <= EdclMax /\ Base \in {0, 1}
      /\ NReads \in Nat /\ EdclMax \in Nat
  BY TypeFacts, Numbers
<1>2. edcl_cnt >= 1
  BY DEF TypeInv, Bounds, Flushing
<1>3. Base <= First /\ tmpbuf = <<>>
  BY DEF HostQueue, Flushing
<1>4. First = edcl_cnt - 1 - NReads /\ Last = edcl_cnt - 1
  BY DEF First, Last
<1> QED BY <1>1, <1>2, <1>3, <1>4

\* An operation of the caller is in each slot from Base to the terminator.
LEMMA FlushOps ==
  ASSUME TypeInv, HostQueue, Flushing, NEW i \in Base..(Last - 1)
  PROVE  /\ IsWrite(edcl_trans[i]) \/ IsRead(edcl_trans[i])
         /\ i < First => IsWrite(edcl_trans[i])
         /\ i >= First => IsRead(edcl_trans[i])
<1>1. /\ \A k \in Base..(First - 1) : IsWrite(edcl_trans[k])
      /\ \A k \in First..(Last - 1) : IsRead(edcl_trans[k])
  BY DEF HostQueue
<1>2. i \in Base..(First - 1) \/ i \in First..(Last - 1)
  BY FlushFacts
<1>3. i < First => i \in Base..(First - 1)
  BY FlushFacts
<1>4. i >= First => i \in First..(Last - 1)
  BY FlushFacts
<1> QED BY <1>1, <1>2, <1>3, <1>4

\* Slot 0 points nowhere only when the queue is nothing but the terminator.
LEMMA NullQueue ==
  ASSUME TypeInv, HostQueue, Flushing, edcl_trans[0].ptr = Null
  PROVE  Base = 0 /\ First = 0 /\ Last = 0
<1>1. Base = 0
  BY Codes DEF Base
<1>2. Last = 0
  <2> SUFFICES ASSUME Last # 0 PROVE FALSE
    OBVIOUS
  <2>1. 0 \in Base..(Last - 1)
    BY <1>1, FlushFacts
  <2> QED BY <2>1, FlushOps, OpFields
<1> QED BY <1>1, <1>2, FlushFacts

LEMMA FlushQueueSame ==
  ASSUME HostQueue, Flushing, Flushing',
         UNCHANGED <<edcl_trans, edcl_cnt, call, tmpbuf>>
  PROVE  HostQueue' /\ Base' = Base /\ First' = First /\ Last' = Last
<1>1. Base' = Base
  BY DEF Base
<1>2. NReads' = NReads
  BY DEF NReads
<1>3. First' = First /\ Last' = Last
  BY <1>2 DEF First, Last
<1>4. /\ pc' # "Idle" /\ pc' # "ArrayBack" /\ pc' # "BlockData"
      /\ pc # "Idle" /\ pc # "ArrayBack" /\ pc # "BlockData"
  BY DEF Flushing
<1>5. HostQueue'
  BY <1>1, <1>3, <1>4 DEF HostQueue
<1> QED BY <1>1, <1>3, <1>5

LEMMA FlushWriteOrder ==
  ASSUME OrderInv, NEW ok \in BOOLEAN, FlushWrite(ok)
  PROVE  HostQueue' /\ Order'
<1> DEFINE end == ChunkEnd(pos, edcl_cnt)
<1>1. /\ TypeInv /\ HostQueue /\ Flushing /\ Flushing' /\ pc = "FlushWrite"
      /\ UNCHANGED <<edcl_trans, edcl_cnt, call, tmpbuf, todo, got>>
      /\ pos' = end /\ Bus(ok)
      /\ Stored(ok, Copy(edcl_trans, shared, pos, end))
      /\ pc' = IF ok /\ end < edcl_cnt THEN pc ELSE "FlushRing"
  BY DEF OrderInv, TurnsInv, FlushWrite, Flushing
<1>2. HostQueue' /\ Base' = Base /\ First' = First /\ Last' = Last
  BY <1>1, FlushQueueSame
<1>3. pos < edcl_cnt
  BY <1>1 DEF TypeInv, Bounds
<1>4. /\ pos \in Nat /\ edcl_cnt \in Nat /\ edcl_cnt <= EdclMax /\ EdclMax \in Nat
      /\ end \in Nat /\ pos < end /\ end <= edcl_cnt
  BY <1>1, <1>3, TypeFacts, Numbers, ChunkEndBounds
<1> HIDE DEF end
<1>5. Order'
  <2> SUFFICES ASSUME faults' = 0 PROVE CallOrder' /\ FlushOrder' /\ BlockOrder'
    BY DEF Order
  <2>1. /\ shared' = Copy(edcl_trans, shared, pos, end) /\ faults = 0 /\ ok
    BY <1>1, TypeFacts, Stored1, BusType
  <2>2. Fresh /\ Copied(pos)
    BY <1>1, <2>1 DEF OrderInv, Order, FlushOrder
  <2>3. Fresh'
    BY <1>1, <1>2, <2>2 DEF Fresh
  <2>4. ASSUME NEW i \in 0..(end - 1) PROVE shared'[i] = edcl_trans'[i]
    <3>1. i \in Nat /\ i <= end - 1
      BY <1>4
    <3>2. i \in Slots
      BY <1>4, <3>1 DEF Slots
    <3>3. CASE i < pos
      <4>1. shared'[i] = shared[i] /\ i \in 0..(pos - 1)
        BY <1>4, <2>1, <3>1, <3>2, <3>3 DEF Copy
      <4> QED BY <1>1, <2>2, <4>1 DEF Copied
    <3>4. CASE i >= pos
      BY <1>1, <1>4, <2>1, <3>1, <3>2, <3>4 DEF Copy
    <3> QED BY <1>4, <3>1, <3>3, <3>4
  <2>5. Copied(pos)'
    BY <1>1, <2>4 DEF Copied
  <2>6. pc' = "FlushRing" => Copied(edcl_cnt)'
    <3>1. pc' = "FlushRing" => end = edcl_cnt
      BY <1>1, <1>4, <2>1
    <3> QED BY <1>1, <2>5, <3>1 DEF Copied
  <2>7. pc' \in {"FlushWrite", "FlushRing"}
    BY <1>1
  <2> QED BY <2>3, <2>5, <2>6, <2>7 DEF CallOrder, FlushOrder, BlockOrder
<1> QED BY <1>2, <1>5

LEMMA FlushRingOrder ==
  ASSUME OrderInv, NEW ok \in BOOLEAN, NEW junk \in 0..RxFifo, FlushRing(ok, junk)
  PROVE  HostQueue' /\ Order'
<1>1. /\ TypeInv /\ HostQueue /\ Flushing /\ Flushing' /\ pc = "FlushRing"
      /\ UNCHANGED <<edcl_trans, edcl_cnt, call, tmpbuf, todo, got, minion>>
      /\ Bus(ok) /\ Stored(ok, [shared EXCEPT ![EdclMax] = tmp'])
      /\ pc' = "FlushPoll"
  BY DEF OrderInv, TurnsInv, FlushRing, Flushing
<1>2. HostQueue' /\ Base' = Base /\ First' = First /\ Last' = Last
  BY <1>1, FlushQueueSame
<1>3. Order'
  <2> SUFFICES ASSUME faults' = 0 PROVE CallOrder' /\ FlushOrder' /\ BlockOrder'
    BY DEF Order
  <2>1. shared' = [shared EXCEPT ![EdclMax] = tmp'] /\ faults = 0
    BY <1>1, TypeFacts, Stored1
  <2>2. Fresh /\ Copied(edcl_cnt) /\ minion.run = FALSE
    BY <1>1, <2>1, TypeFacts
       DEF OrderInv, Order, FlushOrder, TurnsInv, Turns, Polling
  <2>3. Fresh' /\ minion'.run = FALSE
    BY <1>1, <1>2, <2>2 DEF Fresh
  <2>4. ASSUME NEW i \in 0..(edcl_cnt - 1)
        PROVE  i \in Slots /\ shared'[i] = shared[i] /\ shared[i] = edcl_trans[i]
    <3>1. edcl_cnt \in Nat /\ edcl_cnt <= EdclMax /\ EdclMax \in Nat
      BY <1>1, FlushFacts
    <3>2. i \in Slots /\ i # EdclMax
      BY <3>1 DEF Slots
    <3>3. shared'[i] = shared[i]
      BY <1>1, <2>1, <3>2, TypeFacts
    <3> QED BY <2>2, <3>2, <3>3 DEF Copied
  <2>5. Copied(edcl_cnt)'
    BY <1>1, <2>4 DEF Copied
  <2>6. shared'[0] = edcl_trans[0]
    <3>1. 0 \in 0..(edcl_cnt - 1)
      BY <1>1, FlushFacts
    <3> QED BY <2>4, <3>1
  <2>7. shared'[0].ptr = Null => todo' = <<>> /\ got' = Values(shared', First', Last')
    <3> SUFFICES ASSUME edcl_trans[0].ptr = Null
                 PROVE  todo = <<>> /\ got = Values(shared', 0, 0)
      BY <1>1, <1>2, <2>6, NullQueue
    <3>1. Slice(edcl_trans, 0, 0) = <<>>
      <4>1. [k \in 1..(0 - 0) |-> edcl_trans[0 + k - 1]] = <<>>
        BY EmptySeq
      <4> QED BY <4>1 DEF Slice
    <3>2. Values(shared', 0, 0) = <<>>
      <4>1. [k \in 1..(0 - 0) |-> shared'[0 + k - 1].val] = <<>>
        BY EmptySeq
      <4> QED BY <4>1 DEF Values
    <3> QED BY <1>1, <2>2, <3>1, <3>2, NullQueue DEF Fresh
  <2> QED BY <1>1, <2>3, <2>5, <2>7 DEF CallOrder, FlushOrder, BlockOrder
<1> QED BY <1>2, <1>3

LEMMA FlushPollOrder ==
  ASSUME OrderInv, NEW ok \in BOOLEAN, FlushPoll(ok)
  PROVE  HostQueue' /\ Order'
<1>1. /\ TypeInv /\ HostQueue /\ Flushing /\ Flushing' /\ pc = "FlushPoll"
      /\ UNCHANGED <<edcl_trans, edcl_cnt, call, tmpbuf, shared, todo, got, minion>>
      /\ Bus(ok)
      /\ pc' = IF PollDone(tmp') THEN "FlushClear" ELSE "FlushPoll"
      /\ tmp' = IF ok THEN shared[0] ELSE tmp
  BY DEF OrderInv, TurnsInv, FlushPoll, Flushing
<1>2. HostQueue' /\ Base' = Base /\ First' = First /\ Last' = Last
  BY <1>1, FlushQueueSame
<1>3. Order'
  <2> SUFFICES ASSUME faults' = 0 PROVE CallOrder' /\ FlushOrder' /\ BlockOrder'
    BY DEF Order
  <2>1. ok /\ faults = 0
    BY <1>1, BusType, TypeFacts
  <2>2. FlushOrder /\ (minion.run => shared[0].ptr # Null)
    BY <2>1 DEF OrderInv, Order, TurnsInv, Turns
  <2>3. (Fresh' <=> Fresh) /\ (Copied(edcl_cnt)' <=> Copied(edcl_cnt))
    BY <1>1, <1>2 DEF Fresh, Copied
  <2>4. Performing' <=> Performing
    BY <1>1, <1>2 DEF Performing
  <2>5. pc' = IF shared[0].ptr = Null THEN "FlushClear" ELSE "FlushPoll"
    BY <1>1, <2>1 DEF PollDone
  <2>6. FlushOrder'
    BY <1>1, <1>2, <2>2, <2>3, <2>4, <2>5, Zenon DEF FlushOrder
  <2> QED BY <2>5, <2>6 DEF CallOrder, BlockOrder
<1> QED BY <1>2, <1>3

LEMMA FlushClearOrder ==
  ASSUME OrderInv, NEW ok \in BOOLEAN, FlushClear(ok)
  PROVE  HostQueue' /\ Order'
<1>1. /\ TypeInv /\ HostQueue /\ Flushing /\ pc = "FlushClear"
      /\ Bus(ok) /\ Stored(ok, [shared EXCEPT ![EdclMax] = DoorbellDown(tmp)])
      /\ flushed' = edcl_cnt /\ edcl_cnt' = 1
      /\ edcl_trans' = Handshake(edcl_trans)
      /\ pos' = IF AfterFlush = "ArrayBack" THEN edcl_cnt - 1 - call.n ELSE 0
      /\ pc' = AfterFlush /\ UNCHANGED <<call, tmp, minion, todo>>
      /\ IF AfterFlush = "Idle" THEN tmpbuf' = <<>> /\ got' = <<>>
                                ELSE UNCHANGED <<tmpbuf, got>>
  BY DEF OrderInv, TurnsInv, FlushClear, Flushing, CountAfterFlush, ArrayFirst,
         Return
<1>2. /\ edcl_cnt \in Nat /\ edcl_cnt >= 1 /\ edcl_cnt <= EdclMax
      /\ EdclMax \in Nat /\ First \in Nat /\ Last \in Nat /\ First <= Last
      /\ Last = edcl_cnt - 1 /\ First = Last - NReads /\ tmpbuf = <<>>
      /\ NReads \in Nat
  BY <1>1, FlushFacts, TypeFacts
<1>3. /\ AfterFlush \in {"Idle", "ReadBack", "ArrayBack", "ArrayAppend", "BlockSlot"}
      /\ AfterFlush = "ReadBack" => call.op = "read"
      /\ AfterFlush = "ArrayBack" => call.op = "array" /\ call.queued
      /\ AfterFlush = "ArrayAppend" => call.op = "array" /\ ~call.queued
      /\ AfterFlush = "BlockSlot" => call.op = "block"
  BY <1>1, TypeFacts DEF AfterFlush
<1>4. /\ AfterFlush \in {"ReadBack", "ArrayBack"} => NReads = call.n
      /\ AfterFlush \in {"ArrayAppend", "BlockSlot"} => NReads = 0
  BY <1>3 DEF NReads
<1>5. edcl_trans'[0].mode = Read /\ edcl_trans'[0].ptr = SharedBase
      /\ edcl_trans' \in [Slots -> Slot]
  <2>1. edcl_trans[0] \in Slot /\ edcl_trans \in [Slots -> Slot]
    BY <1>1, TypeFacts, Numbers
  <2>2. [edcl_trans[0] EXCEPT !.mode = Read, !.ptr = SharedBase].mode = Read
        /\ [edcl_trans[0] EXCEPT !.mode = Read, !.ptr = SharedBase].ptr = SharedBase
        /\ [edcl_trans[0] EXCEPT !.mode = Read, !.ptr = SharedBase] \in Slot
    BY <2>1, Numbers DEF Slot
  <2> QED BY <1>1, <2>1, <2>2, Numbers DEF Handshake
<1>6. Base' = 1
  BY <1>5 DEF Base
<1>7. ~Flushing' /\ pc' # "BlockData"
  BY <1>1, <1>3 DEF Flushing
<1>8. AfterFlush = "ArrayBack" => edcl_cnt - 1 - call.n >= 1
  <2>1. call.op = "array" => First >= 1
    BY <1>1 DEF HostQueue
  <2> QED BY <1>2, <1>3, <1>4, <2>1
<1>9. tmpbuf' = <<>>
  BY <1>1, <1>2
<1>10. HostQueue'
  <2>1. 1..(1 - 1) = {}
    OBVIOUS
  <2>2. pc' = "Idle" => Base' <= edcl_cnt' /\ edcl_cnt' # 0
                        /\ \A i \in Base'..(edcl_cnt' - 1) : IsWrite(edcl_trans'[i])
    BY <1>1, <1>6, <2>1
  <2>3. pc' = "ArrayBack" => flushed' - 1 - call'.n >= 1
    BY <1>1, <1>8
  <2> QED BY <1>5, <1>6, <1>7, <1>9, <2>2, <2>3 DEF HostQueue
<1>11. Order'
  <2> SUFFICES ASSUME faults' = 0 PROVE CallOrder' /\ FlushOrder' /\ BlockOrder'
    BY DEF Order
  <2>1. shared' = [shared EXCEPT ![EdclMax] = DoorbellDown(tmp)] /\ faults = 0
    BY <1>1, TypeFacts, Stored1
  <2>2. todo = <<>> /\ got = Values(shared, First, Last)
    BY <1>1, <2>1 DEF OrderInv, Order, FlushOrder
  <2>3. Values(shared', First, Last) = Values(shared, First, Last)
    <3>1. ASSUME NEW i \in First..(Last - 1) PROVE shared'[i].val = shared[i].val
      <4>1. i \in Nat /\ i <= Last - 1
        BY <1>2
      <4>2. i \in Slots /\ i # EdclMax
        BY <1>2, <4>1 DEF Slots
      <4> QED BY <1>1, <2>1, <4>2, TypeFacts
    <3> QED BY <1>2, <3>1, ValuesSame, SMTT(30)
  <2>4. pc' = "Idle" => todo' = Slice(edcl_trans', Base', edcl_cnt') /\ got' = <<>>
    <3>1. Slice(edcl_trans', 1, 1) = <<>>
      BY <1>5, SliceFacts, Numbers
    <3> QED BY <1>1, <1>6, <2>2, <3>1
  <2>5. pc' \in {"ArrayAppend", "BlockSlot"} => todo' = <<>> /\ got' = <<>>
    <3>1. First = Last => Values(shared, First, Last) = <<>>
      BY <1>1, <1>2, TypeFacts, ValuesFacts
    <3> QED BY <1>1, <1>2, <1>4, <2>2, <3>1
  <2>6. pc' \in {"ReadBack", "ArrayBack"} =>
          /\ todo' = <<>>
          /\ got' = Values(shared', flushed' - 1 - call'.n, flushed' - 1)
    <3>1. pc' \in {"ReadBack", "ArrayBack"} =>
            flushed' - 1 - call'.n = First /\ flushed' - 1 = Last
      BY <1>1, <1>2, <1>4
    <3> QED BY <1>1, <2>2, <2>3, <3>1
  <2>7. pc' = "ArrayBack" =>
          \A i \in (flushed' - 1 - call'.n)..(pos' - 1) : edcl_trans'[i] = shared'[i]
    <3>1. pc' = "ArrayBack" => flushed' - 1 - call'.n = First /\ pos' = First
      BY <1>1, <1>2, <1>4
    <3>2. First..(First - 1) = {}
      BY <1>2
    <3> QED BY <3>1, <3>2
  <2> QED BY <1>1, <1>3, <2>4, <2>5, <2>6, <2>7 DEF CallOrder, FlushOrder, BlockOrder
<1> QED BY <1>10, <1>11

-----------------------------------------------------------------------------
(* After the flush *)

\* What is known while a call goes on after its flush.
LEMMA WaitFacts ==
  ASSUME OrderInv, pc # "Idle", ~Flushing
  PROVE  /\ TypeInv /\ HostQueue /\ Base = 1 /\ edcl_cnt = 1
         /\ edcl_trans[0].mode = Read /\ edcl_trans[0].ptr = SharedBase
         /\ pc # "BlockData" => tmpbuf = <<>>
<1>1. TypeInv /\ HostQueue
  BY DEF OrderInv, TurnsInv
<1>2. Base = 1 /\ edcl_trans[0].mode = Read /\ (pc # "BlockData" => tmpbuf = <<>>)
  BY <1>1 DEF HostQueue
<1>3. pc \in {"ReadBack", "ArrayAppend", "ArrayBack", "BlockSlot", "BlockRing",
              "BlockPoll", "BlockData"}
  BY <1>1 DEF TypeInv, TypeOK, PCs, Flushing
<1>4. edcl_cnt = 1
  BY <1>1, <1>3 DEF TypeInv, Bounds
<1>5. edcl_trans[0].ptr = SharedBase
  BY <1>2 DEF Base
<1> QED BY <1>1, <1>2, <1>4, <1>5

\* A call returns with an empty queue.
LEMMA ReturnOrder ==
  ASSUME edcl_cnt' = 1, edcl_trans'[0].mode = Read, edcl_trans'[0].ptr = SharedBase,
         pc' = "Idle", tmpbuf' = <<>>, got' = <<>>, faults' = 0 => todo' = <<>>
  PROVE  HostQueue' /\ Order'
<1>1. Base' = 1 /\ ~Flushing'
  BY DEF Base, Flushing
<1>2. 1..(1 - 1) = {}
  OBVIOUS
<1>3. HostQueue'
  BY <1>1, <1>2 DEF HostQueue
<1>4. Slice(edcl_trans', 1, 1) = <<>>
  <2>1. [k \in 1..(1 - 1) |-> edcl_trans'[1 + k - 1]] = <<>>
    BY EmptySeq
  <2> QED BY <2>1 DEF Slice
<1>5. Order'
  BY <1>1, <1>4 DEF Order, CallOrder, FlushOrder, BlockOrder
<1> QED BY <1>3, <1>5

LEMMA ReadBackOrder ==
  ASSUME OrderInv, NEW ok \in BOOLEAN, ReadBack(ok)
  PROVE  HostQueue' /\ Order'
<1>1. /\ pc = "ReadBack" /\ ~Flushing /\ Bus(ok)
      /\ pc' = "Idle" /\ tmpbuf' = <<>> /\ got' = <<>>
      /\ UNCHANGED <<edcl_trans, edcl_cnt, todo>>
  BY DEF ReadBack, Return, Flushing
<1>2. faults' = 0 => todo' = <<>>
  <2>1. faults' = 0 => faults = 0
    BY <1>1, BusType, TypeFacts DEF OrderInv, TurnsInv
  <2> QED BY <1>1, <2>1 DEF OrderInv, Order, CallOrder
<1> QED BY <1>1, <1>2, WaitFacts, ReturnOrder

\* What queue_read returns is what the device gave.
LEMMA ReadBackValue ==
  ASSUME OrderInv, NEW ok \in BOOLEAN, ReadBack(ok), faults' = 0
  PROVE  result' = got /\ todo = <<>>
<1>1. pc = "ReadBack" /\ Bus(ok) /\ TypeInv /\ ~Flushing
      /\ result' = <<IF ok THEN shared[ReadSlot].val ELSE Dead>>
  BY DEF ReadBack, Return, Flushing, OrderInv, TurnsInv
<1>2. ok /\ faults = 0
  BY <1>1, BusType, TypeFacts
<1>3. /\ todo = <<>> /\ got = Values(shared, flushed - 1 - call.n, flushed - 1)
      /\ call.n = 1 /\ flushed \in Nat /\ flushed <= EdclMax /\ flushed >= 2
      /\ shared \in [Slots -> Slot]
  BY <1>1, <1>2, TypeFacts DEF OrderInv, Order, CallOrder, TypeInv, Bounds
<1>4. ReadSlot = flushed - 2 /\ flushed - 1 - call.n = flushed - 2
      /\ (flushed - 1) - (flushed - 2) = 1
  BY <1>3 DEF ReadSlot
<1>5. Values(shared, flushed - 2, flushed - 1) = <<shared[flushed - 2].val>>
  <2>1. [k \in 1..1 |-> shared[(flushed - 2) + k - 1].val] = <<shared[flushed - 2].val>>
    <3>1. (flushed - 2) + 1 - 1 = flushed - 2
      BY <1>3
    <3>2. \A k \in 1..1 : (flushed - 2) + k - 1 = flushed - 2
      BY <1>3
    <3>3. [k \in 1..1 |-> shared[(flushed - 2) + k - 1].val]
             = [k \in 1..1 |-> shared[flushed - 2].val]
      BY <3>2
    <3> QED BY <3>3
  <2> QED BY <1>4, <2>1 DEF Values
<1> QED BY <1>1, <1>2, <1>3, <1>4, <1>5

LEMMA ArrayBackFacts ==
  ASSUME OrderInv, pc = "ArrayBack"
  PROVE  /\ TypeInv /\ EdclMax \in Nat /\ flushed \in Nat /\ flushed <= EdclMax
         /\ call.n \in Nat /\ call.n >= 1
         /\ flushed - 1 - call.n \in Nat /\ flushed - 1 - call.n >= 1
         /\ flushed - 1 - call.n <= pos /\ pos \in Nat /\ pos < flushed - 1
         /\ edcl_trans \in [Slots -> Slot] /\ shared \in [Slots -> Slot]
         /\ ArrayFirst(flushed) = flushed - 1 - call.n
         /\ ArrayFirst(flushed) + call.n = flushed - 1
<1>1. TypeInv /\ HostQueue
  BY DEF OrderInv, TurnsInv
<1>2. /\ EdclMax \in Nat /\ flushed \in Nat /\ call.n \in Nat /\ pos \in Nat
      /\ edcl_trans \in [Slots -> Slot] /\ shared \in [Slots -> Slot]
  BY <1>1, TypeFacts, Numbers
<1>3. /\ flushed <= EdclMax /\ flushed - 1 - call.n <= pos /\ pos < flushed - 1
      /\ call.n \in Arrays
  BY <1>1 DEF TypeInv, Bounds
<1>4. flushed - 1 - call.n >= 1
  BY <1>1 DEF HostQueue
<1>5. call.n >= 1
  <2>1. call.n \in 1..(EdclMax - 2)
    BY <1>3, QueueAssumption
  <2> QED BY <1>2, <2>1
<1> QED BY <1>1, <1>2, <1>3, <1>4, <1>5 DEF ArrayFirst

\* An exchange that succeeds reads its slots back.
LEMMA ArrayBackCopied ==
  ASSUME OrderInv, NEW ok \in BOOLEAN, ArrayBack(ok), faults' = 0
  PROVE  /\ ok /\ todo = <<>>
         /\ got = Values(shared, flushed - 1 - call.n, flushed - 1)
         /\ \A i \in (flushed - 1 - call.n)..(ChunkEnd(pos, flushed - 1) - 1) :
              edcl_trans'[i] = shared[i]
<1> DEFINE first == flushed - 1 - call.n
           end   == ChunkEnd(pos, flushed - 1)
<1>1. /\ pc = "ArrayBack" /\ Bus(ok)
      /\ edcl_trans' = IF ok THEN Copy(shared, edcl_trans, pos,
                                       ChunkEnd(pos, ArrayFirst(flushed) + call.n))
                             ELSE edcl_trans
  BY DEF ArrayBack
<1>2. ok /\ faults = 0
  BY <1>1, ArrayBackFacts, BusType, TypeFacts
<1>3. /\ todo = <<>> /\ got = Values(shared, first, flushed - 1)
      /\ \A i \in first..(pos - 1) : edcl_trans[i] = shared[i]
  BY <1>1, <1>2 DEF OrderInv, Order, CallOrder
<1>4. edcl_trans' = Copy(shared, edcl_trans, pos, end)
  BY <1>1, <1>2, ArrayBackFacts
<1>5. /\ first \in Nat /\ pos \in Nat /\ EdclMax \in Nat /\ first <= pos
      /\ end \in Nat /\ end <= EdclMax
  BY <1>1, ArrayBackFacts, ChunkEndBounds
<1> HIDE DEF first, end
<1>6. ASSUME NEW i \in first..(end - 1) PROVE edcl_trans'[i] = shared[i]
  <2>1. i \in Nat /\ first <= i /\ i <= end - 1
    BY <1>5
  <2>2. i \in Slots
    BY <1>5, <2>1 DEF Slots
  <2>3. CASE i < pos
    <3>1. edcl_trans'[i] = edcl_trans[i] /\ i \in first..(pos - 1)
      BY <1>4, <1>5, <2>1, <2>2, <2>3 DEF Copy
    <3> QED BY <1>3, <3>1
  <2>4. CASE i >= pos
    BY <1>4, <1>5, <2>1, <2>2, <2>4 DEF Copy
  <2> QED BY <1>5, <2>1, <2>3, <2>4
<1> QED BY <1>2, <1>3, <1>6 DEF first, end

LEMMA ArrayBackOrder ==
  ASSUME OrderInv, NEW ok \in BOOLEAN, ArrayBack(ok)
  PROVE  HostQueue' /\ Order'
<1> DEFINE end == ChunkEnd(pos, ArrayFirst(flushed) + call.n)
<1>1. /\ pc = "ArrayBack" /\ ~Flushing /\ pos' = end
      /\ edcl_trans' = IF ok THEN Copy(shared, edcl_trans, pos, end) ELSE edcl_trans
      /\ UNCHANGED <<edcl_cnt, call, flushed, shared, todo>>
      /\ \/ UNCHANGED <<pc, tmpbuf, got>>
         \/ pc' = "Idle" /\ tmpbuf' = <<>> /\ got' = <<>>
  BY DEF ArrayBack, Return, Flushing
<1>2. end = ChunkEnd(pos, flushed - 1)
  BY <1>1, ArrayBackFacts
<1>3. edcl_trans'[0] = edcl_trans[0]
  <2>1. ~(0 >= pos)
    BY <1>1, ArrayBackFacts
  <2> QED BY <1>1, <2>1, Numbers DEF Copy
<1>4. /\ HostQueue /\ Base = 1 /\ edcl_cnt = 1 /\ edcl_trans[0].mode = Read
      /\ edcl_trans[0].ptr = SharedBase /\ tmpbuf = <<>>
  BY <1>1, WaitFacts
<1> HIDE DEF end
<1>5. CASE UNCHANGED <<pc, tmpbuf, got>>
  <2>1. Base' = 1 /\ ~Flushing'
    BY <1>1, <1>3, <1>4, <1>5 DEF Base, Flushing
  <2>2. flushed' - 1 - call'.n >= 1
    BY <1>1, ArrayBackFacts
  <2>3. HostQueue'
    BY <1>1, <1>3, <1>4, <1>5, <2>1, <2>2 DEF HostQueue
  <2>4. Order'
    <3> SUFFICES ASSUME faults' = 0 PROVE CallOrder' /\ FlushOrder' /\ BlockOrder'
      BY DEF Order
    <3>1. /\ todo = <<>>
          /\ got = Values(shared, flushed - 1 - call.n, flushed - 1)
          /\ \A i \in (flushed - 1 - call.n)..(end - 1) : edcl_trans'[i] = shared[i]
      BY <1>2, ArrayBackCopied
    <3> QED BY <1>1, <1>5, <3>1 DEF CallOrder, FlushOrder, BlockOrder
  <2> QED BY <2>3, <2>4
<1>6. CASE pc' = "Idle" /\ tmpbuf' = <<>> /\ got' = <<>>
  <2>1. faults' = 0 => todo' = <<>>
    BY <1>1, ArrayBackCopied
  <2> QED BY <1>1, <1>3, <1>4, <1>6, <2>1, ReturnOrder
<1> QED BY <1>1, <1>5, <1>6

\* What queue_read_array returns is what the devices gave.
LEMMA ArrayBackValue ==
  ASSUME OrderInv, NEW ok \in BOOLEAN, ArrayBack(ok), faults' = 0, pc' = "Idle"
  PROVE  result' = got /\ todo = <<>>
<1> DEFINE first == flushed - 1 - call.n
           n     == call.n
           last  == flushed - 1
           end   == ChunkEnd(pos, flushed - 1)
<1>1. pc = "ArrayBack"
  BY DEF ArrayBack
<1>2. /\ ok /\ todo = <<>> /\ got = Values(shared, first, last)
      /\ \A i \in first..(end - 1) : edcl_trans'[i] = shared[i]
  BY ArrayBackCopied
<1>3. /\ first \in Nat /\ n \in Nat /\ last \in Nat /\ last - first = n
      /\ end \in Nat /\ end <= last
      /\ ArrayFirst(flushed) = first /\ ArrayFirst(flushed) + n = last
  <2>1. /\ first \in Nat /\ n \in Nat /\ flushed \in Nat /\ pos \in Nat /\ pos < last
        /\ ArrayFirst(flushed) = first /\ ArrayFirst(flushed) + n = last
    BY <1>1, ArrayBackFacts
  <2>2. last \in Nat /\ last - first = n
    BY <2>1
  <2>3. end \in Nat /\ end <= last
    BY <2>1, <2>2, ChunkEndBounds
  <2> QED BY <2>1, <2>2, <2>3
<1>4. /\ ~(end < last)
      /\ result' = [k \in 1..n |-> edcl_trans'[first + k - 1].val]
  BY <1>1, <1>2, <1>3 DEF ArrayBack, Return
<1> HIDE DEF first, n, last, end
<1>5. end = last
  BY <1>3, <1>4
<1>6. \A k \in 1..n : first + k - 1 \in first..(end - 1)
  BY <1>3, <1>5
<1>7. [k \in 1..n |-> edcl_trans'[first + k - 1].val]
        = [k \in 1..n |-> shared[first + k - 1].val]
  BY <1>2, <1>6
<1> QED BY <1>2, <1>3, <1>4, <1>7 DEF Values

-----------------------------------------------------------------------------
(* The exchanges of queue_block_read1 *)

\* A step between two exchanges after the flush leaves the queue as it is.
LEMMA WaitQueueSame ==
  ASSUME OrderInv, pc # "Idle", ~Flushing,
         pc' \in {"BlockRing", "BlockPoll", "BlockData"},
         UNCHANGED <<edcl_trans, edcl_cnt>>, pc' # "BlockData" => tmpbuf' = <<>>
  PROVE  HostQueue'
<1>1. Base = 1 /\ edcl_trans[0].mode = Read
  BY WaitFacts
<1>2. Base' = 1 /\ ~Flushing'
  BY <1>1 DEF Base, Flushing
<1> QED BY <1>1, <1>2 DEF HostQueue

LEMMA BlockSlotOrder ==
  ASSUME OrderInv, NEW ok \in BOOLEAN, BlockSlot(ok)
  PROVE  HostQueue' /\ Order'
<1>1. /\ pc = "BlockSlot" /\ ~Flushing /\ pc' = "BlockRing" /\ Bus(ok)
      /\ Stored(ok, [shared EXCEPT ![0] = Block]) /\ todo' = Append(todo, Block)
      /\ UNCHANGED <<edcl_trans, edcl_cnt, tmpbuf, got, minion>>
  BY DEF BlockSlot, Block, Flushing
<1>2. HostQueue' /\ TypeInv
  BY <1>1, WaitFacts, WaitQueueSame
<1>3. Order'
  <2> SUFFICES ASSUME faults' = 0 PROVE CallOrder' /\ FlushOrder' /\ BlockOrder'
    BY DEF Order
  <2>1. shared' = [shared EXCEPT ![0] = Block] /\ faults = 0
    BY <1>1, <1>2, TypeFacts, Stored1
  <2>2. todo = <<>> /\ got = <<>>
    BY <1>1, <2>1 DEF OrderInv, Order, BlockOrder
  <2>3. shared'[0] = Block
    BY <1>2, <2>1, TypeFacts, Numbers
  <2>4. todo' = <<Block>>
    BY <1>1, <2>2
  <2> QED BY <1>1, <2>2, <2>3, <2>4 DEF CallOrder, FlushOrder, BlockOrder
<1> QED BY <1>2, <1>3

LEMMA BlockRingOrder ==
  ASSUME OrderInv, NEW ok \in BOOLEAN, BlockRing(ok)
  PROVE  HostQueue' /\ Order'
<1>1. /\ pc = "BlockRing" /\ ~Flushing /\ pc' = "BlockPoll" /\ Bus(ok)
      /\ Stored(ok, [shared EXCEPT ![EdclMax] = tmp'])
      /\ UNCHANGED <<edcl_trans, edcl_cnt, tmpbuf, todo, got, minion>>
  BY DEF BlockRing, Flushing
<1>2. HostQueue' /\ TypeInv
  BY <1>1, WaitFacts, WaitQueueSame
<1>3. Order'
  <2> SUFFICES ASSUME faults' = 0 PROVE CallOrder' /\ FlushOrder' /\ BlockOrder'
    BY DEF Order
  <2>1. shared' = [shared EXCEPT ![EdclMax] = tmp'] /\ faults = 0
    BY <1>1, <1>2, TypeFacts, Stored1
  <2>2. todo = <<Block>> /\ got = <<>> /\ shared[0] = Block
    BY <1>1, <2>1 DEF OrderInv, Order, BlockOrder
  <2>3. shared'[0] = Block
    BY <1>2, <2>1, <2>2, TypeFacts, Numbers
  <2>4. minion'.run = FALSE
    BY <1>1, <1>2, <2>1, TypeFacts DEF OrderInv, TurnsInv, Turns, Polling
  <2>5. shared'[0].ptr # Null
    BY <2>3, OpFields
  <2> QED BY <1>1, <2>2, <2>3, <2>4, <2>5 DEF CallOrder, FlushOrder, BlockOrder
<1> QED BY <1>2, <1>3

\* The poll that ends finds the data the minion has put there.
LEMMA BlockPollDone ==
  ASSUME OrderInv, NEW ok \in BOOLEAN, BlockPoll(ok), faults' = 0
  PROVE  /\ ok /\ tmp' = shared[0]
         /\ PollDone(tmp') => BlockThere
<1>1. pc = "BlockPoll" /\ Bus(ok) /\ tmp' = IF ok THEN shared[0] ELSE tmp
  BY DEF BlockPoll
<1>2. ok /\ faults = 0
  BY <1>1, BusType, TypeFacts DEF OrderInv, TurnsInv
<1>3. shared[0].ptr = Null => BlockThere
  BY <1>1, <1>2 DEF OrderInv, Order, BlockOrder, TurnsInv, Turns
<1> QED BY <1>1, <1>2, <1>3 DEF PollDone

LEMMA BlockPollOrder ==
  ASSUME OrderInv, NEW ok \in BOOLEAN, BlockPoll(ok)
  PROVE  HostQueue' /\ Order'
<1>1. /\ pc = "BlockPoll" /\ ~Flushing /\ pos' = 1
      /\ UNCHANGED <<edcl_trans, edcl_cnt, call, shared, minion, todo>>
      /\ \/ ~PollDone(tmp') /\ pc' = "BlockPoll" /\ UNCHANGED <<tmpbuf, got>>
         \/ PollDone(tmp') /\ pc' = "Idle" /\ tmpbuf' = <<>> /\ got' = <<>>
         \/ PollDone(tmp') /\ pc' = "BlockData" /\ UNCHANGED <<tmpbuf, got>>
      /\ faults' = 0 => faults = 0
  BY BusType DEF BlockPoll, Return, Flushing, OrderInv, TurnsInv, TypeInv, TypeOK
<1>2. /\ TypeInv /\ edcl_cnt = 1 /\ edcl_trans[0].mode = Read
      /\ edcl_trans[0].ptr = SharedBase /\ tmpbuf = <<>>
  BY <1>1, WaitFacts
<1>3. CASE ~PollDone(tmp') /\ pc' = "BlockPoll" /\ UNCHANGED <<tmpbuf, got>>
  <2>1. HostQueue'
    BY <1>1, <1>2, <1>3, WaitQueueSame
  <2>2. Order'
    BY <1>1, <1>3 DEF OrderInv, Order, CallOrder, FlushOrder, BlockOrder,
                      BlockThere
  <2> QED BY <2>1, <2>2
<1>4. CASE PollDone(tmp') /\ pc' = "Idle" /\ tmpbuf' = <<>> /\ got' = <<>>
  <2>1. faults' = 0 => todo' = <<>>
    BY <1>1, <1>4, BlockPollDone DEF BlockThere
  <2> QED BY <1>1, <1>2, <1>4, <2>1, ReturnOrder
<1>5. CASE PollDone(tmp') /\ pc' = "BlockData" /\ UNCHANGED <<tmpbuf, got>>
  <2>1. HostQueue'
    BY <1>1, <1>2, <1>5, WaitQueueSame
  <2>2. Order'
    <3> SUFFICES ASSUME faults' = 0 PROVE CallOrder' /\ FlushOrder' /\ BlockOrder'
      BY DEF Order
    <3>1. BlockThere /\ tmp' = shared[0]
      BY <1>5, BlockPollDone
    <3>2. BlockThere' /\ tmp'.mode = Len(got')
      BY <1>1, <1>5, <3>1 DEF BlockThere
    <3>3. SubSeq(got', 1, pos' - 1) = <<>>
      BY <1>1, SubSeqEmpty
    <3> QED BY <1>2, <1>5, <3>2, <3>3 DEF CallOrder, FlushOrder, BlockOrder
  <2> QED BY <2>1, <2>2
<1> QED BY <1>1, <1>3, <1>4, <1>5

\* The values of slots pos .. end-1 are the next values of the block.
LEMMA BlockDataCopied ==
  ASSUME OrderInv, NEW ok \in BOOLEAN, BlockData(ok), faults' = 0,
         NEW end, end = ChunkEnd(pos, BlockCount(tmp) + 1)
  PROVE  /\ ok /\ BlockThere /\ tmp.mode = Len(got)
         /\ BlockCount(tmp) \in Nat /\ BlockCount(tmp) <= Len(got)
         /\ end \in Nat /\ end <= BlockCount(tmp) + 1
         /\ tmpbuf \o [k \in 1..(end - pos) |-> shared[pos + k - 1].val]
              = SubSeq(got, 1, end - 1)
<1>1. pc = "BlockData" /\ Bus(ok) /\ TypeInv
  BY DEF BlockData, OrderInv, TurnsInv
<1>2. ok /\ faults = 0
  BY <1>1, BusType, TypeFacts
<1>3. BlockThere /\ tmp.mode = Len(got) /\ tmpbuf = SubSeq(got, 1, pos - 1)
  BY <1>1, <1>2 DEF OrderInv, Order, BlockOrder
<1>4. /\ got \in Seq(Vals) /\ Len(got) \in Nat /\ call.n \in Nat /\ pos \in Nat
      /\ 1 <= pos /\ pos <= BlockCount(tmp)
  BY <1>1, TypeFacts DEF TypeInv, Bounds
<1>5. BlockCount(tmp) \in Nat /\ BlockCount(tmp) <= Len(got)
  BY <1>3, <1>4 DEF BlockCount
<1>6. end \in Nat /\ pos < end /\ end <= BlockCount(tmp) + 1
  <2> DEFINE n == BlockCount(tmp)
  <2>1. n + 1 \in Nat /\ pos < n + 1
    BY <1>4, <1>5
  <2> QED BY <1>4, <2>1, ChunkEndBounds
<1>7. [k \in 1..(end - pos) |-> shared[pos + k - 1].val] = SubSeq(got, pos, end - 1)
  <2> DEFINE read == [k \in 1..(end - pos) |-> shared[pos + k - 1].val]
             part == SubSeq(got, pos, end - 1)
  <2>1. ASSUME NEW i \in pos..(end - 1)
        PROVE  i \in 1..Len(got) /\ got[i] \in Vals /\ shared[i].val = got[i]
    <3>1. i \in Int /\ pos <= i /\ i <= end - 1
      BY <1>4, <1>6
    <3>2. i \in 1..Len(got)
      BY <1>4, <1>5, <1>6, <3>1
    <3>3. got[i] \in Vals
      BY <1>4, <3>2, ElementOfSeq
    <3>4. shared[i].val = got[i]
      BY <1>3, <3>2 DEF BlockThere
    <3> QED BY <3>2, <3>3, <3>4
  <2>2. pos <= end - 1 /\ (end - 1) - pos + 1 = end - pos /\ end - pos \in Nat
        /\ end - 1 \in Int /\ pos \in Int
    BY <1>4, <1>6
  <2>3. /\ part \in Seq(Vals) /\ Len(part) = end - pos
        /\ \A i \in 1..(end - pos) : part[i] = got[pos + i - 1]
    BY <2>1, <2>2, SubSeqProperties
  <2>4. \A k \in 1..(end - pos) : pos + k - 1 \in pos..(end - 1)
    BY <1>4, <1>6
  <2>5. /\ read \in Seq(Vals) /\ Len(read) = end - pos
        /\ \A i \in 1..(end - pos) : read[i] = got[pos + i - 1]
    <3>1. ASSUME NEW k \in 1..(end - pos)
          PROVE  read[k] = got[pos + k - 1] /\ read[k] \in Vals
      BY <2>1, <2>4
    <3>2. read \in [1..(end - pos) -> Vals]
      BY <3>1
    <3> HIDE DEF read
    <3>3. read \in Seq(Vals) /\ Len(read) = end - pos
      BY <2>2, <3>2, FunctionSeq
    <3> QED BY <3>1, <3>3
  <2> HIDE DEF read, part
  <2>6. read = part
    BY <2>3, <2>5, SeqEqual
  <2> QED BY <2>6 DEF read, part
<1>8. SubSeq(got, 1, pos - 1) \o SubSeq(got, pos, end - 1) = SubSeq(got, 1, end - 1)
  <2>1. /\ 1 \in 1..(Len(got) + 1) /\ pos - 1 \in (1 - 1)..Len(got)
        /\ end - 1 \in (pos - 1)..Len(got) /\ (pos - 1) + 1 = pos
    BY <1>4, <1>5, <1>6
  <2>2. SubSeq(got, 1, pos - 1) \o SubSeq(got, (pos - 1) + 1, end - 1)
          = SubSeq(got, 1, end - 1)
    BY <1>4, <2>1, ConcatAdjacentSubSeq
  <2> QED BY <2>1, <2>2
<1> QED BY <1>2, <1>3, <1>5, <1>6, <1>7, <1>8

LEMMA BlockDataOrder ==
  ASSUME OrderInv, NEW ok \in BOOLEAN, BlockData(ok)
  PROVE  HostQueue' /\ Order'
<1> DEFINE end == ChunkEnd(pos, BlockCount(tmp) + 1)
           read == IF ok THEN [k \in 1..(end - pos) |-> shared[pos + k - 1].val]
                         ELSE <<>>
<1>1. /\ pc = "BlockData" /\ ~Flushing /\ pos' = end
      /\ UNCHANGED <<edcl_trans, edcl_cnt, tmp, shared, todo>>
      /\ \/ pc' = "BlockData" /\ tmpbuf' = tmpbuf \o read /\ UNCHANGED got
         \/ pc' = "Idle" /\ tmpbuf' = <<>> /\ got' = <<>>
  BY DEF BlockData, Return, Flushing
<1>2. /\ TypeInv /\ edcl_cnt = 1 /\ edcl_trans[0].mode = Read
      /\ edcl_trans[0].ptr = SharedBase
  BY <1>1, WaitFacts
<1>3. CASE pc' = "BlockData" /\ tmpbuf' = tmpbuf \o read /\ UNCHANGED got
  <2>1. HostQueue'
    BY <1>1, <1>2, <1>3, WaitQueueSame
  <2>2. Order'
    <3> SUFFICES ASSUME faults' = 0 PROVE CallOrder' /\ FlushOrder' /\ BlockOrder'
      BY DEF Order
    <3>1. /\ ok /\ BlockThere /\ tmp.mode = Len(got)
          /\ tmpbuf \o [k \in 1..(end - pos) |-> shared[pos + k - 1].val]
               = SubSeq(got, 1, end - 1)
      BY BlockDataCopied
    <3>2. BlockThere' /\ tmp'.mode = Len(got')
      BY <1>1, <1>3, <3>1 DEF BlockThere
    <3>3. tmpbuf' = SubSeq(got', 1, pos' - 1)
      BY <1>1, <1>3, <3>1
    <3> QED BY <1>3, <3>2, <3>3 DEF CallOrder, FlushOrder, BlockOrder
  <2> QED BY <2>1, <2>2
<1>4. CASE pc' = "Idle" /\ tmpbuf' = <<>> /\ got' = <<>>
  <2>1. faults' = 0 => todo' = <<>>
    BY <1>1, BlockDataCopied DEF BlockThere
  <2> QED BY <1>1, <1>2, <1>4, <2>1, ReturnOrder
<1> QED BY <1>1, <1>3, <1>4

\* The user's restart leaves an empty queue, and is a fault.
LEMMA HostRestartOrder ==
  ASSUME OrderInv, HostRestart
  PROVE  HostQueue' /\ Order'
<1>1. faults' # 0
  BY QueueAssumption DEF HostRestart, OrderInv, TurnsInv, TypeInv, TypeOK
<1>2. /\ pc' = "Idle" /\ edcl_cnt' = 0 /\ tmpbuf' = <<>>
      /\ edcl_trans' = [i \in Slots |-> Blank]
  BY DEF HostRestart
<1>3. edcl_trans'[0].ptr = Null
  BY <1>2, Numbers DEF Blank, Op
<1>4. Base' = 0
  BY <1>3, Codes DEF Base
<1>5. 0..(0 - 1) = {}
  OBVIOUS
<1>6. HostQueue'
  BY <1>2, <1>3, <1>4, <1>5 DEF HostQueue, Flushing
<1> QED BY <1>1, <1>6 DEF Order

-----------------------------------------------------------------------------
(* The minion *)

\* What is in the slot the minion does next, in a queue that is flushed.
LEMMA FlushSlot ==
  ASSUME OrderInv, minion.run, faults = 0, pc = "FlushPoll"
  PROVE  LET at == minion.at IN
         /\ TypeInv /\ HostQueue /\ Flushing /\ Performing
         /\ at \in Nat /\ at <= Last /\ at < EdclMax /\ shared[at] = edcl_trans[at]
         /\ at = Last => shared[at].mode = Unknown /\ todo = <<>>
         /\ at < Last =>
              /\ at < Base =>
                   /\ at = 0 /\ Base = 1
                   /\ shared[at].mode = Read /\ shared[at].ptr = SharedBase
              /\ at >= Base =>
                   /\ shared[at].ptr # SharedBase
                   /\ at < First => IsWrite(shared[at])
                   /\ at >= First => IsRead(shared[at])
                   /\ todo # <<>> /\ Head(todo) = shared[at]
                   /\ Tail(todo) = Slice(edcl_trans, at + 1, Last)
<1> DEFINE at == minion.at
<1>1. /\ TypeInv /\ HostQueue /\ Flushing /\ Performing
  BY DEF OrderInv, TurnsInv, Order, FlushOrder, Flushing
<1>2. /\ at \in Nat /\ at <= Last /\ edcl_trans \in [Slots -> Slot]
      /\ \A i \in at..Last : shared[i] = edcl_trans[i]
      /\ todo = Slice(edcl_trans, IF at < Base THEN Base ELSE at, Last)
  BY <1>1, TypeFacts DEF Performing
<1>3. /\ Base \in {0, 1} /\ Base \in Nat /\ First \in Nat /\ Last \in Nat
      /\ Base <= First /\ First <= Last /\ Last < EdclMax /\ EdclMax \in Nat
      /\ Last <= EdclMax + 1
  BY <1>1, FlushFacts
<1> HIDE DEF at
<1>4. at < EdclMax /\ at \in at..Last
  BY <1>2, <1>3
<1>5. shared[at] = edcl_trans[at]
  BY <1>2, <1>4
<1>6. ASSUME at = Last PROVE shared[at].mode = Unknown /\ todo = <<>>
  <2>1. ~(Last < Base)
    BY <1>3
  <2>2. Slice(edcl_trans, Last, Last) = <<>>
    BY <1>2, <1>3, SliceFacts
  <2>3. edcl_trans[Last].mode = Unknown
    BY <1>1 DEF HostQueue
  <2> QED BY <1>2, <1>5, <1>6, <2>1, <2>2, <2>3
<1>7. ASSUME at < Base
      PROVE  /\ at = 0 /\ Base = 1
             /\ shared[at].mode = Read /\ shared[at].ptr = SharedBase
  <2>1. at = 0 /\ Base = 1
    BY <1>2, <1>3, <1>7
  <2>2. edcl_trans[0].mode = Read /\ edcl_trans[0].ptr = SharedBase
    BY <1>1, <2>1 DEF HostQueue, Base
  <2> QED BY <1>5, <2>1, <2>2
<1>8. ASSUME at < Last, at >= Base
      PROVE  /\ shared[at].ptr # SharedBase
             /\ at < First => IsWrite(shared[at])
             /\ at >= First => IsRead(shared[at])
             /\ todo # <<>> /\ Head(todo) = shared[at]
             /\ Tail(todo) = Slice(edcl_trans, at + 1, Last)
  <2>1. at \in Base..(Last - 1) /\ ~(at < Base)
    BY <1>2, <1>3, <1>8
  <2>2. /\ IsWrite(edcl_trans[at]) \/ IsRead(edcl_trans[at])
        /\ at < First => IsWrite(edcl_trans[at])
        /\ at >= First => IsRead(edcl_trans[at])
    BY <1>1, <2>1, FlushOps
  <2>3. /\ Slice(edcl_trans, at, Last) # <<>>
        /\ Head(Slice(edcl_trans, at, Last)) = edcl_trans[at]
        /\ Tail(Slice(edcl_trans, at, Last)) = Slice(edcl_trans, at + 1, Last)
    BY <1>2, <1>3, <1>8, SliceTail
  <2>4. todo = Slice(edcl_trans, at, Last)
    BY <1>2, <2>1
  <2>5. edcl_trans[at].ptr # SharedBase
    BY <2>2, OpFields
  <2> QED BY <1>5, <2>2, <2>3, <2>4, <2>5
<1> QED BY <1>1, <1>2, <1>4, <1>5, <1>6, <1>7, <1>8 DEF at

LEMMA BlockSlot0 ==
  ASSUME OrderInv, minion.run, faults = 0, pc = "BlockPoll"
  PROVE  minion.at = 0 /\ shared[0] = Block /\ todo = <<Block>> /\ got = <<>>
BY DEF OrderInv, Order, BlockOrder

\* Where the minion is when it runs.
LEMMA MinionPolled ==
  ASSUME OrderInv, minion.run, faults = 0
  PROVE  pc \in {"FlushPoll", "BlockPoll"}
BY DEF OrderInv, TurnsInv, Turns, Polling

LEMMA MinionHostQueue ==
  ASSUME OrderInv, UNCHANGED host
  PROVE  HostQueue' /\ Base' = Base /\ First' = First /\ Last' = Last
<1>1. UNCHANGED <<edcl_trans, edcl_cnt, pc, call, pos, flushed, tmpbuf>> /\ HostQueue
  BY DEF host, OrderInv
<1>2. Base' = Base /\ NReads' = NReads /\ (Flushing' <=> Flushing)
  BY <1>1 DEF Base, NReads, Flushing
<1>3. First' = First /\ Last' = Last
  BY <1>1, <1>2 DEF First, Last
<1>4. HostQueue'
  BY <1>1, <1>2, <1>3 DEF HostQueue
<1> QED BY <1>2, <1>3, <1>4

LEMMA MinionStartOrder ==
  ASSUME OrderInv, MinionStart
  PROVE  HostQueue' /\ Order'
<1>1. /\ minion.run = FALSE /\ Ringing /\ minion' = [run |-> TRUE, at |-> 0]
      /\ shared' = IF Acks THEN [shared EXCEPT ![EdclMax].val = 0] ELSE shared
      /\ UNCHANGED host /\ UNCHANGED <<todo, got, faults>>
  BY TypeFacts DEF MinionStart, OrderInv, TurnsInv
<1>2. HostQueue' /\ Base' = Base /\ First' = First /\ Last' = Last
  BY <1>1, MinionHostQueue
<1>3. UNCHANGED <<edcl_trans, edcl_cnt, pc, call, pos, flushed, tmp, tmpbuf>>
  BY <1>1 DEF host
<1>4. Order'
  <2> SUFFICES ASSUME faults' = 0 PROVE CallOrder' /\ FlushOrder' /\ BlockOrder'
    BY DEF Order
  <2>1. /\ faults = 0 /\ shared[0].ptr # Null /\ TypeInv /\ HostQueue
        /\ pc \in {"FlushPoll", "BlockPoll"}
    BY <1>1 DEF Ringing, OrderInv, TurnsInv, Turns, Bell
  <2>2. ASSUME NEW i \in Slots, i # EdclMax PROVE shared'[i] = shared[i]
    BY <1>1, <2>1, <2>2, TypeFacts
  <2>3. CASE pc = "FlushPoll"
    <3>1. Fresh /\ Copied(edcl_cnt) /\ Flushing
      BY <1>1, <2>1, <2>3 DEF OrderInv, Order, FlushOrder, Flushing
    <3>2. /\ Base \in {0, 1} /\ First \in Nat /\ Last \in Nat /\ EdclMax \in Nat
          /\ Last = edcl_cnt - 1 /\ edcl_cnt \in Nat /\ edcl_cnt <= EdclMax
          /\ shared' \in [Slots -> Slot]
      <4>1. TypeInv'
        BY <1>1, MinionStartTypeInv DEF OrderInv, TurnsInv
      <4>2. shared' \in [Slots -> Slot]
        BY <4>1 DEF TypeInv, TypeOK
      <4> QED BY <2>1, <3>1, <4>2, FlushFacts
    <3>3. ASSUME NEW i \in 0..Last PROVE shared'[i] = edcl_trans[i]
      <4>1. i \in Nat /\ i <= Last /\ i \in 0..(edcl_cnt - 1)
        BY <3>2
      <4>2. i \in Slots /\ i # EdclMax
        BY <3>2, <4>1 DEF Slots
      <4> QED BY <2>2, <3>1, <4>1, <4>2 DEF Copied
    <3>4. todo = Slice(edcl_trans, IF 0 < Base THEN Base ELSE 0, Last)
      BY <3>1, <3>2 DEF Fresh
    <3>5. Values(shared', First, 0) = <<>>
      BY <3>2, ValuesFacts, Numbers
    <3>6. got = <<>>
      BY <3>1 DEF Fresh
    <3>7. Performing'
      <4>1. minion'.at = 0 /\ 0 <= Last
        BY <1>1, <3>2
      <4> QED BY <1>1, <1>2, <1>3, <3>3, <3>4, <3>5, <3>6, <4>1 DEF Performing
    <3> QED BY <1>1, <1>3, <2>3, <3>7 DEF CallOrder, FlushOrder, BlockOrder
  <2>4. CASE pc = "BlockPoll"
    <3>1. todo = <<Block>> /\ got = <<>> /\ shared[0] = Block
      BY <2>1, <2>4 DEF OrderInv, Order, BlockOrder
    <3>2. shared'[0] = shared[0]
      BY <2>2, Numbers
    <3> QED BY <1>1, <1>3, <2>4, <3>1, <3>2 DEF CallOrder, FlushOrder, BlockOrder
  <2> QED BY <2>1, <2>3, <2>4
<1> QED BY <1>2, <1>4

LEMMA MinionWriteOrder ==
  ASSUME OrderInv, MinionWrite
  PROVE  HostQueue' /\ Order'
<1> DEFINE at == minion.at
<1>1. /\ minion.run /\ shared[at].mode = Write /\ Performed(shared[at])
      /\ UNCHANGED host /\ UNCHANGED <<shared, got, faults>>
  BY DEF MinionWrite
<1>2. HostQueue' /\ Base' = Base /\ First' = First /\ Last' = Last
  BY <1>1, MinionHostQueue
<1>3. UNCHANGED <<edcl_trans, edcl_cnt, pc, call, pos, flushed, tmp, tmpbuf>>
  BY <1>1 DEF host
<1>4. minion'.run = minion.run /\ minion'.at = at + 1
  BY DEF MinionWrite, OrderInv, TurnsInv, TypeInv, TypeOK
<1>5. Order'
  <2> SUFFICES ASSUME faults' = 0 PROVE CallOrder' /\ FlushOrder' /\ BlockOrder'
    BY DEF Order
  <2>1. faults = 0
    BY <1>1
  <2>2. pc = "FlushPoll"
    BY <1>1, <2>1, MinionPolled, BlockSlot0, OpFields, Codes
  <2>3. /\ TypeInv /\ HostQueue /\ Flushing /\ Performing
        /\ at \in Nat /\ at <= Last /\ at < EdclMax
        /\ at # Last /\ at >= Base /\ ~(at >= First)
        /\ todo # <<>> /\ Tail(todo) = Slice(edcl_trans, at + 1, Last)
        /\ shared[at].ptr # SharedBase
    <3>1. Base \in {0, 1} /\ First \in Nat /\ Last \in Nat /\ at \in Nat
      BY <1>1, <2>1, <2>2, FlushSlot, FlushFacts
    <3> QED BY <1>1, <2>1, <2>2, <3>1, FlushSlot, OpFields, Codes
  <2>4. /\ Base \in {0, 1} /\ First \in Nat /\ Last \in Nat /\ EdclMax \in Nat
        /\ shared \in [Slots -> Slot]
        /\ todo' = Tail(todo) /\ got = Values(shared, First, at)
        /\ \A i \in at..Last : shared[i] = edcl_trans[i]
    BY <1>1, <2>3, FlushFacts, TypeFacts DEF Performing, Performed
  <2>5. at + 1 \in Nat /\ at + 1 <= Last /\ ~(at + 1 < Base) /\ at + 1 <= First
        /\ at <= First /\ at + 1 <= EdclMax + 1 /\ at <= EdclMax + 1
    BY <2>3, <2>4
  <2>6. Values(shared, First, at) = <<>> /\ Values(shared, First, at + 1) = <<>>
    BY <2>3, <2>4, <2>5, ValuesFacts
  <2>7. \A i \in (at + 1)..Last : shared[i] = edcl_trans[i]
    BY <2>3, <2>4
  <2> HIDE DEF at
  <2>8. Performing'
    BY <1>1, <1>2, <1>3, <1>4, <2>3, <2>4, <2>5, <2>6, <2>7 DEF Performing
  <2> QED BY <1>1, <1>3, <1>4, <2>2, <2>8 DEF CallOrder, FlushOrder, BlockOrder
<1> QED BY <1>2, <1>5

LEMMA MinionReadOrder ==
  ASSUME OrderInv, MinionRead
  PROVE  HostQueue' /\ Order'
<1> DEFINE at == minion.at
<1>1. /\ minion.run /\ shared[at].mode = Read /\ Performed(shared[at])
      /\ UNCHANGED host /\ UNCHANGED faults /\ at < EdclMax
  BY DEF MinionRead
<1>2. HostQueue' /\ Base' = Base /\ First' = First /\ Last' = Last
  BY <1>1, MinionHostQueue
<1>3. UNCHANGED <<edcl_trans, edcl_cnt, pc, call, pos, flushed, tmp, tmpbuf>>
  BY <1>1 DEF host
<1>4. minion'.run = minion.run /\ minion'.at = at + 1
  BY DEF MinionRead, OrderInv, TurnsInv, TypeInv, TypeOK
<1>5. PICK v \in Vals :
        /\ shared' = [shared EXCEPT ![at].val = v]
        /\ got' = IF shared[at].ptr = SharedBase THEN got ELSE Append(got, v)
  BY DEF MinionRead
<1>6. Order'
  <2> SUFFICES ASSUME faults' = 0 PROVE CallOrder' /\ FlushOrder' /\ BlockOrder'
    BY DEF Order
  <2>1. faults = 0
    BY <1>1
  <2>2. pc = "FlushPoll"
    BY <1>1, <2>1, MinionPolled, BlockSlot0, OpFields, Codes
  <2>3. /\ TypeInv /\ HostQueue /\ Flushing /\ Performing
        /\ at \in Nat /\ at <= Last
        /\ at # Last
    BY <1>1, <2>1, <2>2, FlushSlot, Codes
  <2>4. /\ Base \in {0, 1} /\ First \in Nat /\ Last \in Nat /\ EdclMax \in Nat
        /\ Base <= First /\ shared \in [Slots -> Slot]
        /\ got = Values(shared, First, at)
        /\ \A i \in at..Last : shared[i] = edcl_trans[i]
        /\ todo = Slice(edcl_trans, IF at < Base THEN Base ELSE at, Last)
    BY <2>3, FlushFacts, TypeFacts DEF Performing
  <2>5. at + 1 \in Nat /\ at + 1 <= Last /\ ~(at + 1 < Base) /\ at < Last
        /\ at + 1 <= EdclMax + 1 /\ at <= EdclMax + 1 /\ at <= EdclMax
        /\ at \in Slots
    BY <1>1, <2>3, <2>4 DEF Slots
  <2>t. shared' \in [Slots -> Slot]
    <3>1. TypeInv'
      BY MinionReadTypeInv DEF OrderInv, TurnsInv
    <3> QED BY <3>1 DEF TypeInv, TypeOK
  <2> HIDE DEF at
  <2>6. /\ shared'[at].val = v /\ v \in Vals
        /\ \A i \in Slots : i # at => shared'[i] = shared[i]
    <3>1. shared[at] \in Slot
      BY <2>4, <2>5
    <3>2. shared'[at] = [shared[at] EXCEPT !.val = v]
      BY <1>5, <2>4, <2>5
    <3>3. shared'[at].val = v
      BY <3>1, <3>2 DEF Slot
    <3> QED BY <1>5, <2>4, <3>3
  <2>7. ASSUME NEW i \in (at + 1)..Last PROVE shared'[i] = edcl_trans[i]
    <3>1. i \in Nat /\ i <= Last /\ i >= at + 1
      BY <2>3, <2>4
    <3>2. i \in Slots /\ i # at /\ i \in at..Last
      <4>1. Last <= EdclMax
        BY <2>3, FlushFacts
      <4> QED BY <2>3, <2>4, <3>1, <4>1 DEF Slots
    <3> QED BY <2>4, <2>6, <3>2
  <2>8. Values(shared', First, at) = Values(shared, First, at)
    <3>1. ASSUME NEW i \in First..(at - 1) PROVE shared'[i].val = shared[i].val
      <4>1. i \in Nat /\ i <= at - 1
        BY <2>3, <2>4
      <4>2. i \in Slots /\ i # at
        BY <2>3, <2>4, <2>5, <4>1 DEF Slots
      <4> QED BY <2>6, <4>2
    <3> QED BY <2>3, <2>4, <3>1, ValuesSame, ZenonT(30)
  <2>9. /\ todo' = Slice(edcl_trans, at + 1, Last)
        /\ got' = Values(shared', First, at + 1)
    <3>1. CASE at < Base
      <4>1. at = 0 /\ Base = 1 /\ shared[at].ptr = SharedBase
        BY <1>1, <2>1, <2>2, <2>5, <3>1, FlushSlot DEF at
      <4>2. todo' = todo /\ got' = got
        BY <1>1, <1>5, <4>1 DEF Performed
      <4>3. todo = Slice(edcl_trans, at + 1, Last)
        BY <2>4, <4>1
      <4>4. at + 1 <= First /\ at <= First
        BY <2>4, <4>1
      <4>5. Values(shared, First, at) = <<>> /\ Values(shared', First, at + 1) = <<>>
        BY <2>3, <2>4, <2>5, <2>t, <4>4, ValuesFacts
      <4> QED BY <2>4, <4>2, <4>3, <4>5
    <3>2. CASE at >= Base
      <4>1. /\ shared[at].ptr # SharedBase /\ todo # <<>>
            /\ Tail(todo) = Slice(edcl_trans, at + 1, Last)
            /\ ~(at < First)
        BY <1>1, <2>1, <2>2, <2>5, <3>2, FlushSlot, OpFields, Codes DEF at
      <4>2. todo' = Tail(todo) /\ got' = Append(got, v)
        BY <1>1, <1>5, <4>1 DEF Performed
      <4>3. Append(Values(shared', First, at), shared'[at].val)
              = Values(shared', First, at + 1)
        BY <2>3, <2>4, <2>5, <2>t, <4>1, ValuesAppend
      <4> QED BY <2>4, <2>6, <2>8, <4>1, <4>2, <4>3
    <3> QED BY <2>3, <2>4, <3>1, <3>2
  <2>10. Performing'
    BY <1>1, <1>2, <1>3, <1>4, <2>3, <2>5, <2>7, <2>9 DEF Performing
  <2> QED BY <1>1, <1>3, <1>4, <2>2, <2>10 DEF CallOrder, FlushOrder, BlockOrder
<1> QED BY <1>2, <1>6

LEMMA MinionBlockReadOrder ==
  ASSUME OrderInv, MinionBlockRead
  PROVE  HostQueue' /\ Order'
<1> DEFINE at == minion.at
<1>1. /\ minion.run /\ shared[at].mode = BlockRead /\ Performed(shared[at])
      /\ UNCHANGED host /\ UNCHANGED faults /\ minion' = [run |-> FALSE, at |-> 0]
  BY DEF MinionBlockRead
<1>2. HostQueue'
  BY <1>1, MinionHostQueue
<1>3. UNCHANGED <<edcl_trans, edcl_cnt, pc, call, pos, flushed, tmp, tmpbuf>>
  BY <1>1 DEF host
<1>4. PICK n \in 0..MaxBlock, data \in Seq(Vals) :
        /\ Len(data) = n /\ \A i \in 1..n : data[i] \in Vals
        /\ shared' = [i \in Slots |->
                        IF i = 0 THEN Op(n, Null, shared[at].val)
                        ELSE IF i <= n THEN Op(Unknown, Null, data[i]) ELSE shared[i]]
        /\ got' = got \o data
  BY BlockGiven
<1>5. Order'
  <2> SUFFICES ASSUME faults' = 0 PROVE CallOrder' /\ FlushOrder' /\ BlockOrder'
    BY DEF Order
  <2>1. faults = 0 /\ at < EdclMax
    BY <1>1 DEF MinionBlockRead
  <2>2. pc = "BlockPoll"
    <3> SUFFICES ASSUME pc = "FlushPoll" PROVE FALSE
      BY <1>1, <2>1, MinionPolled
    <3>1. Base \in {0, 1} /\ First \in Nat /\ Last \in Nat /\ at \in Nat /\ at <= Last
      BY <1>1, <2>1, FlushSlot, FlushFacts
    <3>2. at # Last
      BY <1>1, <2>1, FlushSlot, Codes
    <3>3. at >= Base
      BY <1>1, <2>1, <3>1, <3>2, FlushSlot, Codes
    <3>4. IsWrite(shared[at]) \/ IsRead(shared[at])
      BY <1>1, <2>1, <3>1, <3>2, <3>3, FlushSlot
    <3> QED BY <1>1, <3>4, OpFields, Codes
  <2>3. at = 0 /\ shared[at] = Block /\ todo = <<Block>> /\ got = <<>>
    BY <1>1, <2>1, <2>2, BlockSlot0
  <2>4. todo' = <<>>
    <3>1. todo # <<>> /\ Tail(todo) = <<>>
      BY <2>3
    <3> QED BY <1>1, <2>3, <3>1, OpFields DEF Performed
  <2>5. n \in Nat /\ n <= EdclMax /\ EdclMax \in Nat
    BY QueueAssumption
  <2> HIDE DEF at
  <2>6. got' = data /\ Len(got') = n
    <3>1. <<>> \o data = data
      BY <1>4, ConcatEmptySeq
    <3> QED BY <1>4, <2>3, <3>1
  <2>7. shared'[0] = Op(n, Null, shared[at].val)
    BY <1>4, Numbers
  <2>8. shared'[0].mode = n /\ shared'[0].ptr = Null
    BY <2>7, OpFields
  <2>9. ASSUME NEW i \in 1..n PROVE shared'[i].val = got'[i]
    <3>1. i \in Slots /\ i # 0 /\ i <= n
      BY <2>5 DEF Slots
    <3>2. shared'[i] = Op(Unknown, Null, data[i])
      BY <1>4, <3>1
    <3> QED BY <2>6, <3>2, OpFields
  <2>10. BlockThere'
    BY <2>4, <2>6, <2>8, <2>9 DEF BlockThere
  <2> QED BY <1>1, <1>3, <2>2, <2>8, <2>10 DEF CallOrder, FlushOrder, BlockOrder
<1> QED BY <1>2, <1>5

LEMMA MinionFinishOrder ==
  ASSUME OrderInv, MinionFinish
  PROVE  HostQueue' /\ Order'
<1> DEFINE at == minion.at
<1>1. /\ minion.run /\ shared[at].mode \notin {Write, Read, BlockRead}
      /\ shared' = [shared EXCEPT ![0].ptr = Null]
      /\ UNCHANGED host /\ UNCHANGED <<todo, got, faults>>
      /\ minion' = [run |-> FALSE, at |-> 0]
  BY DEF MinionFinish
<1>2. HostQueue' /\ Base' = Base /\ First' = First /\ Last' = Last
  BY <1>1, MinionHostQueue
<1>3. UNCHANGED <<edcl_trans, edcl_cnt, pc, call, pos, flushed, tmp, tmpbuf>>
  BY <1>1 DEF host
<1>4. Order'
  <2> SUFFICES ASSUME faults' = 0 PROVE CallOrder' /\ FlushOrder' /\ BlockOrder'
    BY DEF Order
  <2>1. faults = 0
    BY <1>1
  <2>2. pc = "FlushPoll"
    BY <1>1, <2>1, MinionPolled, BlockSlot0, OpFields
  <2>3. /\ TypeInv /\ HostQueue /\ Flushing /\ Performing
        /\ at \in Nat /\ at <= Last
    BY <1>1, <2>1, <2>2, FlushSlot
  <2>4. /\ Base \in {0, 1} /\ First \in Nat /\ Last \in Nat /\ EdclMax \in Nat
        /\ Last <= EdclMax /\ shared \in [Slots -> Slot]
    BY <2>3, FlushFacts, TypeFacts
  <2>5. at = Last
    <3> SUFFICES ASSUME at < Last PROVE FALSE
      BY <2>3, <2>4
    <3>1. at >= Base
      BY <1>1, <2>1, <2>2, <2>3, <2>4, FlushSlot
    <3>2. IsWrite(shared[at]) \/ IsRead(shared[at])
      BY <1>1, <2>1, <2>2, <2>3, <2>4, <3>1, FlushSlot
    <3> QED BY <1>1, <3>2, OpFields
  <2>6. todo = <<>> /\ got = Values(shared, First, Last)
    BY <1>1, <2>1, <2>2, <2>3, <2>5, FlushSlot DEF Performing
  <2>7. /\ \A i \in Slots : shared'[i].val = shared[i].val
        /\ shared'[0].ptr = Null
    <3>1. shared[0] \in Slot
      BY <2>4, Numbers
    <3>2. shared'[0] = [shared[0] EXCEPT !.ptr = Null]
      BY <1>1, <2>4, Numbers
    <3>3. shared'[0].val = shared[0].val /\ shared'[0].ptr = Null
      BY <3>1, <3>2 DEF Slot
    <3>4. \A i \in Slots : i # 0 => shared'[i] = shared[i]
      BY <1>1, <2>4
    <3> QED BY <3>3, <3>4
  <2>8. Values(shared', First, Last) = Values(shared, First, Last)
    <3>1. ASSUME NEW i \in First..(Last - 1) PROVE shared'[i].val = shared[i].val
      <4>1. i \in Nat /\ i <= Last
        BY <2>4
      <4>2. i \in Slots
        BY <2>4, <4>1 DEF Slots
      <4> QED BY <2>7, <4>2
    <3> QED BY <2>4, <3>1, ValuesSame, SMTT(30)
  <2>9. todo' = <<>> /\ got' = Values(shared', First', Last')
    BY <1>1, <1>2, <2>6, <2>8
  <2> QED BY <1>1, <1>3, <2>2, <2>7, <2>9 DEF CallOrder, FlushOrder, BlockOrder
<1> QED BY <1>2, <1>4

-----------------------------------------------------------------------------
LEMMA InitOrderInv == Init => OrderInv
<1> SUFFICES ASSUME Init PROVE OrderInv
  OBVIOUS
<1>1. /\ TurnsInv /\ pc = "Idle" /\ edcl_cnt = 0 /\ tmpbuf = <<>>
      /\ edcl_trans = [i \in Slots |-> Blank] /\ todo = <<>> /\ got = <<>>
  BY InitTurnsInv DEF Init
<1>2. edcl_trans[0].ptr = Null
  BY <1>1, Numbers DEF Blank, Op
<1>3. Base = 0
  BY <1>2, Codes DEF Base
<1>4. 0..(0 - 1) = {}
  OBVIOUS
<1>5. HostQueue
  BY <1>1, <1>2, <1>3, <1>4 DEF HostQueue, Flushing
<1>6. Slice(edcl_trans, 0, 0) = <<>>
  <2>1. [k \in 1..(0 - 0) |-> edcl_trans[0 + k - 1]] = <<>>
    BY EmptySeq
  <2> QED BY <2>1 DEF Slice
<1>7. Order
  BY <1>1, <1>3, <1>6 DEF Order, CallOrder, FlushOrder, BlockOrder
<1> QED BY <1>1, <1>5, <1>7 DEF OrderInv

LEMMA NextOrderInv ==
  ASSUME Acks \/ Limits = {}
  PROVE  OrderInv /\ [Next]_vars => OrderInv'
<1> SUFFICES ASSUME OrderInv, [Next]_vars PROVE OrderInv'
  OBVIOUS
<1>1. TurnsInv'
  BY NextTurnsInv DEF OrderInv
<1>2. CASE Calls
  BY <1>1, <1>2, QueueFlushOrder, QueueWriteOrder, QueueReadOrder,
     QueueReadArrayOrder, QueueBlockRead1Order DEF Calls, OrderInv
<1>3. CASE Host
  BY <1>1, <1>3, FlushWriteOrder, FlushRingOrder, FlushPollOrder,
     FlushClearOrder, ReadBackOrder, ArrayBackOrder, ArrayAppendOrder,
     BlockSlotOrder, BlockRingOrder, BlockPollOrder, BlockDataOrder
     DEF Host, OrderInv
<1>4. CASE HostRestart
  BY <1>1, <1>4, HostRestartOrder DEF OrderInv
<1>5. CASE Minion
  BY <1>1, <1>5, MinionStartOrder, MinionWriteOrder, MinionReadOrder,
     MinionBlockReadOrder, MinionFinishOrder DEF Minion, OrderInv
<1>6. CASE UNCHANGED vars
  <2>1. UNCHANGED host /\ UNCHANGED <<shared, minion, todo, got, faults>>
    BY <1>6 DEF vars
  <2>2. HostQueue' /\ Base' = Base /\ First' = First /\ Last' = Last
    BY <2>1, MinionHostQueue
  <2>3. UNCHANGED <<edcl_trans, edcl_cnt, pc, call, pos, flushed, tmp, tmpbuf>>
    BY <2>1 DEF host
  <2>4. (CallOrder' <=> CallOrder) /\ (BlockOrder' <=> BlockOrder)
    BY <2>1, <2>2, <2>3 DEF CallOrder, BlockOrder, BlockThere
  <2>5. /\ (Fresh' <=> Fresh) /\ (Copied(pos)' <=> Copied(pos))
        /\ (Copied(edcl_cnt)' <=> Copied(edcl_cnt))
        /\ (Performing' <=> Performing)
    BY <2>1, <2>2, <2>3 DEF Fresh, Copied, Performing
  <2>6. FlushOrder' <=> FlushOrder
    BY <2>1, <2>2, <2>3, <2>5, Zenon DEF FlushOrder
  <2>7. Order'
    BY <2>1, <2>4, <2>6 DEF OrderInv, Order
  <2> QED BY <1>1, <2>2, <2>7 DEF OrderInv
<1> QED BY <1>2, <1>3, <1>4, <1>5, <1>6 DEF Next

LEMMA AlwaysOrderInv ==
  ASSUME Acks \/ Limits = {}
  PROVE  Spec => []OrderInv
BY InitOrderInv, NextOrderInv, PTL DEF Spec

\* What the minion does next, by the mode of its slot.
LEMMA MinionDoes ==
  ASSUME OrderInv, minion.run, faults = 0
  PROVE  LET slot == shared[minion.at] IN
         /\ slot.mode \in {Read, Write, BlockRead} /\ slot.ptr # SharedBase =>
              todo # <<>> /\ Head(todo) = slot
         /\ slot.mode = Write => IsWrite(slot)
         /\ slot.mode = Read => IsRead(slot) \/ slot.ptr = SharedBase
         /\ slot.mode = BlockRead => slot = Block
<1> DEFINE slot == shared[minion.at]
<1>1. CASE pc = "BlockPoll"
  <2>1. slot = Block /\ todo = <<Block>>
    BY <1>1, BlockSlot0
  <2>2. todo # <<>> /\ Head(todo) = slot
    BY <2>1
  <2> QED BY <2>1, <2>2, OpFields, Codes
<1>2. CASE pc = "FlushPoll"
  <2>1. /\ Base \in {0, 1} /\ Last \in Nat /\ First \in Nat
        /\ minion.at \in Nat /\ minion.at <= Last
    BY <1>2, FlushSlot, FlushFacts
  <2>2. CASE minion.at = Last
    BY <1>2, <2>2, FlushSlot, Codes
  <2>3. CASE minion.at < Last /\ minion.at < Base
    BY <1>2, <2>3, FlushSlot, Codes
  <2>4. CASE minion.at < Last /\ minion.at >= Base
    <3>1. IsWrite(slot) \/ IsRead(slot)
      BY <1>2, <2>1, <2>4, FlushSlot
    <3>2. todo # <<>> /\ Head(todo) = slot
      BY <1>2, <2>4, FlushSlot
    <3> QED BY <3>1, <3>2, OpFields, Codes
  <2> QED BY <2>1, <2>2, <2>3, <2>4
<1> QED BY <1>1, <1>2, MinionPolled

\* As long as no exchange fails the minion performs the operations of the
\* queue in the order the callers issued them, each of them once.
THEOREM InOrder ==
  ASSUME Acks \/ Limits = {}
  PROVE  Spec => []InOrderExactlyOnce
<1>1. OrderInv => InOrderExactlyOnce
  BY MinionDoes DEF InOrderExactlyOnce
<1> QED BY <1>1, AlwaysOrderInv, PTL

\* Between two calls the queue owes its callers nothing but the writes that
\* still wait in edcl_trans.
THEOREM NothingOwed ==
  ASSUME Acks \/ Limits = {}
  PROVE  Spec => []AllPerformedAtReturn
<1>1. OrderInv => AllPerformedAtReturn
  BY DEF OrderInv, Order, CallOrder, Slice, Base, AllPerformedAtReturn
<1> QED BY <1>1, AlwaysOrderInv, PTL

\* What a call that waits for data returns.
Returned ==
  /\ pc \in {"ReadBack", "ArrayBack"} => result' = got
  /\ pc \in {"BlockPoll", "BlockData"} =>
       result' = SubSeq(got, 1, IF call.n < Len(got) THEN call.n ELSE Len(got))

\* A block read that found no data returns none.
LEMMA BlockPollValue ==
  ASSUME OrderInv, NEW ok \in BOOLEAN, BlockPoll(ok), faults' = 0, pc' = "Idle"
  PROVE  Returned
<1>1. pc = "BlockPoll" /\ PollDone(tmp') /\ BlockCount(tmp') = 0 /\ result' = <<>>
  BY DEF BlockPoll, Return
<1>2. BlockCount(tmp') = IF call.n < Len(got) THEN call.n ELSE Len(got)
  <2>1. tmp'.mode = Len(got)
    BY <1>1, BlockPollDone DEF BlockThere
  <2>2. Len(got) \in Nat /\ call.n \in Nat
    BY TypeFacts DEF OrderInv, TurnsInv, TypeInv, TypeOK, Call
  <2> QED BY <2>1, <2>2 DEF BlockCount
<1>3. SubSeq(got, 1, 0) = <<>>
  BY SubSeqEmpty
<1> QED BY <1>1, <1>2, <1>3 DEF Returned

\* A block read returns as much of the block as its count says.
LEMMA BlockDataValue ==
  ASSUME OrderInv, NEW ok \in BOOLEAN, BlockData(ok), faults' = 0, pc' = "Idle"
  PROVE  Returned
<1> DEFINE n == BlockCount(tmp)
           end == ChunkEnd(pos, n + 1)
           data == [k \in 1..(end - pos) |-> shared[pos + k - 1].val]
<1>1. /\ ok /\ tmp.mode = Len(got) /\ n \in Nat
      /\ end \in Nat /\ end <= n + 1
      /\ tmpbuf \o data = SubSeq(got, 1, end - 1)
  BY BlockDataCopied
<1>2. pc = "BlockData" /\ ~(end < n + 1) /\ result' = tmpbuf \o data
  BY <1>1 DEF BlockData, Return
<1>3. n = IF call.n < Len(got) THEN call.n ELSE Len(got)
  <2>1. Len(got) \in Nat /\ call.n \in Nat
    BY TypeFacts DEF OrderInv, TurnsInv, TypeInv, TypeOK, Call
  <2> QED BY <1>1, <2>1 DEF BlockCount
<1> HIDE DEF n, end, data
<1>4. end - 1 = n
  BY <1>1, <1>2
<1> QED BY <1>1, <1>2, <1>3, <1>4 DEF Returned

LEMMA ReadStep ==
  ASSUME OrderInv, [Next]_vars, faults' = 0, pc' = "Idle"
  PROVE  Returned
<1>1. CASE Calls
  BY <1>1 DEF Calls, QueueFlush, QueueWrite, QueueRead, QueueReadArray,
              QueueBlockRead1, Returned
<1>2. CASE Host
  <2>1. ASSUME NEW ok \in BOOLEAN, ReadBack(ok) \/ ArrayBack(ok) PROVE Returned
    <3>1. pc \in {"ReadBack", "ArrayBack"} /\ result' = got
      BY <2>1, ReadBackValue, ArrayBackValue DEF ReadBack, ArrayBack
    <3> QED BY <3>1 DEF Returned
  <2>2. ASSUME NEW ok \in BOOLEAN, BlockPoll(ok) \/ BlockData(ok) PROVE Returned
    BY <2>2, BlockPollValue, BlockDataValue
  <2>3. CASE pc \notin {"ReadBack", "ArrayBack", "BlockPoll", "BlockData"}
    BY <2>3 DEF Returned
  <2>4. CASE pc \in {"ReadBack", "ArrayBack", "BlockPoll", "BlockData"}
    BY <1>2, <2>1, <2>2, <2>4
       DEF Host, FlushWrite, FlushPoll, FlushClear, FlushRing, BlockSlot,
           BlockRing, ArrayAppend
  <2> QED BY <2>3, <2>4
<1>3. CASE HostRestart
  BY <1>3, QueueAssumption DEF HostRestart, OrderInv, TurnsInv, TypeInv, TypeOK
<1>4. CASE Minion
  <2>1. pc' = pc
    BY <1>4 DEF Minion, MinionStart, MinionWrite, MinionRead, MinionBlockRead,
                MinionFinish, host
  <2> QED BY <2>1 DEF Returned
<1>5. CASE UNCHANGED vars
  BY <1>5 DEF vars, host, Returned
<1> QED BY <1>1, <1>2, <1>3, <1>4, <1>5 DEF Next

\* queue_read and queue_read_array find in their slots of the shared memory
\* what the devices gave, whatever waited in the queue before their reads, and
\* queue_block_read1 finds the words of its block there, however they are cut
\* into exchanges.
THEOREM ReadsReturn ==
  ASSUME Acks \/ Limits = {}
  PROVE  Spec => ReadsReturnDeviceValues
<1>1. OrderInv /\ [Next]_vars =>
        [faults' = 0 /\ pc' = "Idle" => Returned]_vars
  BY ReadStep
<1>2. [faults' = 0 /\ pc' = "Idle" => Returned]_vars =>
        [faults' = 0 /\ pc' = "Idle" =>
           /\ pc \in {"ReadBack", "ArrayBack"} => result' = got
           /\ pc \in {"BlockPoll", "BlockData"} =>
                result' = SubSeq(got, 1, IF call.n < Len(got) THEN call.n ELSE Len(got))]_vars
  BY DEF Returned
<1> QED BY <1>1, <1>2, AlwaysOrderInv, PTL DEF Spec, ReadsReturnDeviceValues

-----------------------------------------------------------------------------
(* The refinement of RegisterBus, where no exchange fails *)

\* The operations the queue can issue, as RegisterBus has them
Issued ==
  {Op(Write, r, v) : r \in Regs, v \in Vals}
    \cup {Op(Read, r, Dead) : r \in Regs} \cup {Op(BlockRead, RxFifo, 1)}

LEMMA IssuedOp ==
  ASSUME NEW op, IsWrite(op) \/ IsRead(op) \/ op = Block
  PROVE  op \in Issued
BY DEF Issued, IsWrite, IsRead, Block

LEMMA IssueStep ==
  ASSUME TypeInv, NEW ops \in Seq(Slot), ops # <<>>, todo' = todo \o ops,
         \A k \in 1..Len(ops) : IsWrite(ops[k]) \/ IsRead(ops[k]) \/ ops[k] = Block,
         UNCHANGED <<got, result>>
  PROVE  Promise!Issue
<1>1. todo \in Seq(Slot) /\ Len(todo) \in Nat /\ Len(ops) \in Nat /\ Len(ops) # 0
  BY TypeFacts, EmptySeq
<1>2. /\ Len(todo') = Len(todo) + Len(ops)
      /\ \A i \in 1..(Len(todo) + Len(ops)) :
           todo'[i] = IF i <= Len(todo) THEN todo[i] ELSE ops[i - Len(todo)]
  BY <1>1, ConcatProperties
<1>3. SubSeq(todo', 1, Len(todo)) = todo
  <2>1. SubSeq(todo \o ops, 1, Len(todo)) = SubSeq(todo, 1, Len(todo))
    BY <1>1, SubSeqOfConcat1
  <2> QED BY <1>1, <2>1, SubSeqFull
<1>4. ASSUME NEW k \in (Len(todo) + 1)..Len(todo')
      PROVE  IsWrite(todo'[k]) \/ IsRead(todo'[k]) \/ todo'[k] = Block
  <2>1. /\ k \in 1..(Len(todo) + Len(ops)) /\ ~(k <= Len(todo))
        /\ k - Len(todo) \in 1..Len(ops)
    BY <1>1, <1>2
  <2>2. todo'[k] = ops[k - Len(todo)]
    BY <1>2, <2>1
  <2> QED BY <2>1, <2>2
<1>5. Len(todo') > Len(todo)
  BY <1>1, <1>2
<1>6. ASSUME NEW k \in (Len(todo) + 1)..Len(todo')
      PROVE  todo'[k] \in Issued
  BY <1>4, IssuedOp
<1> QED BY <1>3, <1>5, <1>6 DEF Promise!Issue, Issued

LEMMA IssueOne ==
  ASSUME TypeInv, NEW op \in Slot, IsWrite(op) \/ IsRead(op) \/ op = Block,
         todo' = Append(todo, op), UNCHANGED <<got, result>>
  PROVE  Promise!Issue
<1>1. todo' = todo \o <<op>>
  BY TypeFacts, AppendIsConcat
<1>2. <<op>> \in Seq(Slot) /\ <<op>> # <<>> /\ Len(<<op>>) = 1 /\ <<op>>[1] = op
  OBVIOUS
<1>3. \A k \in 1..Len(<<op>>) :
        IsWrite(<<op>>[k]) \/ IsRead(<<op>>[k]) \/ <<op>>[k] = Block
  BY <1>2
<1> QED BY <1>1, <1>2, <1>3, IssueStep

LEMMA IssueArray ==
  ASSUME TypeInv, NEW r \in Regs, NEW n \in Arrays, r + n - 1 \in Regs,
         AppendArray(r, n), UNCHANGED <<got, result>>
  PROVE  Promise!Issue
<1> DEFINE ops == [k \in 1..n |-> Op(Read, r + k - 1, Dead)]
<1>1. n \in Nat /\ n >= 1
  <2>1. n \in 1..(EdclMax - 2) /\ EdclMax \in Nat
    BY QueueAssumption
  <2> QED BY <2>1
<1>2. ASSUME NEW k \in 1..n PROVE ops[k] \in Slot /\ IsRead(ops[k])
  <2>1. r + k - 1 \in Regs
    BY <1>1, QueueAssumption DEF Regs
  <2>2. ops[k] = Op(Read, r + k - 1, Dead)
    OBVIOUS
  <2> QED BY <2>1, <2>2, ReadOp
<1>3. ops \in [1..n -> Slot]
  BY <1>2
<1>4. todo' = todo \o ops
  BY DEF AppendArray
<1> HIDE DEF ops
<1>5. ops \in Seq(Slot) /\ Len(ops) = n
  BY <1>1, <1>3, FunctionSeq
<1>6. ops # <<>>
  BY <1>1, <1>5, EmptySeq
<1>7. \A k \in 1..Len(ops) : IsWrite(ops[k]) \/ IsRead(ops[k]) \/ ops[k] = Block
  BY <1>2, <1>5
<1> QED BY <1>4, <1>5, <1>6, <1>7, IssueStep, Zenon

\* A call returns the first n of the values of its reads.
LEMMA CompleteStep ==
  ASSUME todo = <<>>, NEW n \in 0..Len(got), result' = SubSeq(got, 1, n),
         got' = <<>>, UNCHANGED todo
  PROVE  Promise!Complete
BY DEF Promise!Complete

LEMMA CompleteNone ==
  ASSUME TypeInv, todo = <<>>, result' = <<>>, got' = <<>>, UNCHANGED todo
  PROVE  Promise!Complete
<1>1. 0 \in 0..Len(got) /\ SubSeq(got, 1, 0) = <<>>
  <2>1. Len(got) \in Nat
    BY TypeFacts
  <2> QED BY <2>1, SubSeqEmpty
<1> QED BY <1>1, CompleteStep

LEMMA CompleteAll ==
  ASSUME TypeInv, todo = <<>>, result' = got, got' = <<>>, UNCHANGED todo
  PROVE  Promise!Complete
<1>1. Len(got) \in 0..Len(got) /\ SubSeq(got, 1, Len(got)) = got
  <2>1. Len(got) \in Nat /\ got \in Seq(Vals)
    BY TypeFacts
  <2> QED BY <2>1, SubSeqFull
<1> QED BY <1>1, CompleteStep

LEMMA CallsPromised ==
  ASSUME OrderInv, Calls
  PROVE  Promise!Next \/ UNCHANGED Promise!vars
<1>0. TypeInv
  BY DEF OrderInv, TurnsInv
<1> USE DEF Promise!Next, Promise!vars
<1>1. CASE QueueFlush
  BY <1>1 DEF QueueFlush
<1>2. ASSUME NEW r \in Regs, NEW v \in Vals, NEW flush \in BOOLEAN,
             QueueWrite(r, v, flush)
      PROVE  Promise!Next
  <2>1. todo' = Append(todo, Op(Write, r, v)) /\ UNCHANGED <<got, result>>
    BY <1>2 DEF QueueWrite
  <2> QED BY <1>0, <2>1, WriteOp, IssueOne
<1>3. ASSUME NEW r \in Regs, QueueRead(r) PROVE Promise!Next
  <2>1. todo' = Append(todo, Op(Read, r, Dead)) /\ UNCHANGED <<got, result>>
    BY <1>3 DEF QueueRead
  <2> QED BY <1>0, <2>1, ReadOp, IssueOne
<1>4. ASSUME NEW r \in Regs, NEW n \in Arrays, r + n - 1 \in Regs,
             QueueReadArray(r, n)
      PROVE  Promise!Next \/ UNCHANGED Promise!vars
  <2>1. UNCHANGED <<got, result>> /\ (todo' = todo \/ AppendArray(r, n))
    BY <1>4 DEF QueueReadArray
  <2> QED BY <1>0, <1>4, <2>1, IssueArray
<1>5. ASSUME NEW max \in Limits, QueueBlockRead1(max)
      PROVE  UNCHANGED Promise!vars
  BY <1>5 DEF QueueBlockRead1
<1> QED BY <1>1, <1>2, <1>3, <1>4, <1>5 DEF Calls

LEMMA HostPromised ==
  ASSUME OrderInv, Host, faults' = 0
  PROVE  Promise!Next \/ UNCHANGED Promise!vars
<1>0. TypeInv
  BY DEF OrderInv, TurnsInv
<1> USE DEF Promise!Next, Promise!vars
<1>1. ASSUME NEW ok \in BOOLEAN,
             \/ FlushWrite(ok) \/ FlushPoll(ok) \/ BlockRing(ok)
             \/ \E junk \in 0..RxFifo : FlushRing(ok, junk)
      PROVE  UNCHANGED Promise!vars
  BY <1>1 DEF FlushWrite, FlushPoll, FlushRing, BlockRing
<1>2. ASSUME NEW ok \in BOOLEAN, FlushClear(ok)
      PROVE  Promise!Next \/ UNCHANGED Promise!vars
  <2>1. /\ UNCHANGED todo /\ pc = "FlushClear" /\ Bus(ok)
        /\ \/ result' = <<>> /\ got' = <<>>
           \/ UNCHANGED <<result, got>>
    BY <1>2 DEF FlushClear, Return
  <2>2. todo = <<>>
    <3>1. faults = 0
      BY <1>0, <2>1, BusType, TypeFacts
    <3> QED BY <2>1, <3>1 DEF OrderInv, Order, FlushOrder
  <2> QED BY <1>0, <2>1, <2>2, CompleteNone
<1>3. ASSUME NEW ok \in BOOLEAN, ReadBack(ok) PROVE Promise!Next
  <2>1. result' = got /\ todo = <<>>
    BY <1>3, ReadBackValue
  <2>2. got' = <<>> /\ UNCHANGED todo
    BY <1>3 DEF ReadBack, Return
  <2> QED BY <1>0, <2>1, <2>2, CompleteAll
<1>4. ASSUME NEW ok \in BOOLEAN, ArrayBack(ok)
      PROVE  Promise!Next \/ UNCHANGED Promise!vars
  <2>1. /\ UNCHANGED todo
        /\ \/ UNCHANGED <<result, got>>
           \/ pc' = "Idle" /\ got' = <<>>
    BY <1>4 DEF ArrayBack, Return
  <2>2. CASE pc' = "Idle" /\ got' = <<>>
    BY <1>0, <1>4, <2>1, <2>2, ArrayBackValue, CompleteAll
  <2> QED BY <2>1, <2>2
<1>5. ASSUME ArrayAppend PROVE Promise!Next
  <2>1. /\ UNCHANGED <<got, result>> /\ AppendArray(call.ptr, call.n)
        /\ pc = "ArrayAppend"
    BY <1>5 DEF ArrayAppend
  <2>2. /\ call.n \in Arrays /\ call.ptr \in Regs
        /\ call.ptr + call.n - 1 \in Regs
    BY <1>0, <2>1 DEF TypeInv, Bounds
  <2> QED BY <1>0, <2>1, <2>2, IssueArray
<1>6. ASSUME NEW ok \in BOOLEAN, BlockSlot(ok) PROVE Promise!Next
  <2>1. todo' = Append(todo, Block) /\ UNCHANGED <<got, result>>
    BY <1>6 DEF BlockSlot, Block
  <2>2. Block \in Slot
    BY OpType, Numbers DEF Block
  <2> QED BY <1>0, <2>1, <2>2, IssueOne
<1>7. ASSUME NEW ok \in BOOLEAN, BlockPoll(ok)
      PROVE  Promise!Next \/ UNCHANGED Promise!vars
  <2>1. /\ UNCHANGED todo
        /\ \/ UNCHANGED <<result, got>>
           \/ PollDone(tmp') /\ result' = <<>> /\ got' = <<>>
    BY <1>7 DEF BlockPoll, Return
  <2>2. PollDone(tmp') => todo = <<>>
    BY <1>7, BlockPollDone DEF BlockThere
  <2> QED BY <1>0, <2>1, <2>2, CompleteNone
<1>8. ASSUME NEW ok \in BOOLEAN, BlockData(ok)
      PROVE  Promise!Next \/ UNCHANGED Promise!vars
  <2> DEFINE end == ChunkEnd(pos, BlockCount(tmp) + 1)
             data == [k \in 1..(end - pos) |-> shared[pos + k - 1].val]
  <2>1. /\ ok /\ BlockThere
        /\ BlockCount(tmp) \in Nat /\ BlockCount(tmp) <= Len(got)
        /\ end \in Nat /\ end <= BlockCount(tmp) + 1
        /\ tmpbuf \o data = SubSeq(got, 1, end - 1)
    BY <1>8, BlockDataCopied
  <2>2. /\ UNCHANGED todo
        /\ \/ UNCHANGED <<result, got>>
           \/ /\ ~(end < BlockCount(tmp) + 1)
              /\ result' = tmpbuf \o data /\ got' = <<>>
    BY <1>8, <2>1 DEF BlockData, Return
  <2> HIDE DEF end, data
  <2>3. CASE /\ ~(end < BlockCount(tmp) + 1)
             /\ result' = tmpbuf \o data /\ got' = <<>>
    <3>1. end - 1 \in 0..Len(got)
      <4>1. Len(got) \in Nat
        BY <1>0, TypeFacts
      <4> QED BY <2>1, <2>3, <4>1
    <3> QED BY <2>1, <2>2, <2>3, <3>1, CompleteStep DEF BlockThere
  <2> QED BY <2>2, <2>3
<1> QED BY <1>1, <1>2, <1>3, <1>4, <1>5, <1>6, <1>7, <1>8 DEF Host

\* An operation the minion performs is the oldest one that is issued.
LEMMA PerformStep ==
  ASSUME todo # <<>>, todo' = Tail(todo), UNCHANGED result,
         \/ IsWrite(Head(todo)) /\ got' = got
         \/ IsRead(Head(todo)) /\ \E v \in Vals : got' = Append(got, v)
         \/ /\ Head(todo) = Block /\ Len(got') >= Len(got)
            /\ SubSeq(got', 1, Len(got)) = got
  PROVE  Promise!Perform
BY DEF Promise!Perform, IsWrite, IsRead, Block

LEMMA MinionPromised ==
  ASSUME OrderInv, Minion, faults = 0
  PROVE  Promise!Next \/ UNCHANGED Promise!vars
<1> DEFINE slot == shared[minion.at]
<1>0. TypeInv /\ UNCHANGED result
  BY DEF OrderInv, TurnsInv, Minion, MinionStart, MinionWrite, MinionRead,
         MinionBlockRead, MinionFinish, host
<1>1. CASE MinionStart
  BY <1>0, <1>1 DEF MinionStart, Promise!vars
<1>2. CASE MinionWrite
  <2>1. minion.run /\ slot.mode = Write /\ Performed(slot) /\ got' = got
    BY <1>2 DEF MinionWrite
  <2>2. IsWrite(slot) /\ slot.ptr # SharedBase
    BY <2>1, MinionDoes, OpFields
  <2>3. todo # <<>> /\ Head(todo) = slot
    BY <2>1, <2>2, MinionDoes
  <2>4. todo' = Tail(todo)
    BY <2>1, <2>2, <2>3 DEF Performed
  <2> QED BY <1>0, <2>1, <2>2, <2>3, <2>4, PerformStep DEF Promise!Next
<1>3. CASE MinionRead
  <2>1. minion.run /\ slot.mode = Read /\ Performed(slot)
    BY <1>3 DEF MinionRead
  <2>2. PICK v \in Vals :
          got' = IF slot.ptr = SharedBase THEN got ELSE Append(got, v)
    BY <1>3 DEF MinionRead
  <2>3. CASE slot.ptr = SharedBase
    BY <1>0, <2>1, <2>2, <2>3 DEF Performed, Promise!vars
  <2>4. CASE slot.ptr # SharedBase
    <3>1. IsRead(slot) /\ todo # <<>> /\ Head(todo) = slot
      BY <2>1, <2>4, MinionDoes
    <3>2. todo' = Tail(todo) /\ got' = Append(got, v)
      BY <2>1, <2>2, <2>4, <3>1 DEF Performed
    <3> QED BY <1>0, <3>1, <3>2, PerformStep DEF Promise!Next
  <2> QED BY <2>3, <2>4
<1>4. CASE MinionBlockRead
  <2>1. minion.run /\ slot.mode = BlockRead /\ Performed(slot)
    BY <1>4 DEF MinionBlockRead
  <2>2. slot = Block /\ slot.ptr # SharedBase
    BY <2>1, MinionDoes, OpFields
  <2>3. todo # <<>> /\ Head(todo) = slot
    BY <2>1, <2>2, MinionDoes
  <2>4. todo' = Tail(todo)
    BY <2>1, <2>2, <2>3 DEF Performed
  <2>5. PICK s \in Seq(Vals) : got' = got \o s
    BY <1>4, BlockGiven
  <2>6. Len(got') >= Len(got) /\ SubSeq(got', 1, Len(got)) = got
    <3>1. Len(s) \in Nat
      BY LenProperties
    <3>2. got \in Seq(Vals) /\ Len(got) \in Nat
      BY <1>0, TypeFacts
    <3>3. Len(got \o s) = Len(got) + Len(s)
      BY <3>2, ConcatProperties
    <3>4. SubSeq(got \o s, 1, Len(got)) = SubSeq(got, 1, Len(got))
      BY <3>2, SubSeqOfConcat1
    <3>5. SubSeq(got, 1, Len(got)) = got
      BY <3>2, SubSeqFull
    <3> QED BY <2>5, <3>1, <3>2, <3>3, <3>4, <3>5
  <2> QED BY <1>0, <2>2, <2>3, <2>4, <2>6, PerformStep DEF Promise!Next
<1>5. CASE MinionFinish
  BY <1>0, <1>5 DEF MinionFinish, Promise!vars
<1> QED BY <1>1, <1>2, <1>3, <1>4, <1>5 DEF Minion

LEMMA NextPromised ==
  ASSUME MaxFaults = 0, OrderInv, OrderInv', [Next]_vars
  PROVE  [Promise!Next]_(Promise!vars)
<1>1. faults = 0 /\ faults' = 0
  BY DEF OrderInv, TurnsInv, TypeInv, TypeOK
<1>2. CASE Calls
  BY <1>2, CallsPromised
<1>3. CASE Host
  BY <1>1, <1>3, HostPromised
<1>4. CASE HostRestart
  BY <1>1, <1>4 DEF HostRestart
<1>5. CASE Minion
  BY <1>1, <1>5, MinionPromised
<1>6. CASE UNCHANGED vars
  BY <1>6 DEF vars, host, Promise!vars
<1> QED BY <1>2, <1>3, <1>4, <1>5, <1>6 DEF Next

\* Where no exchange fails the functions of queue.c are a bus of registers:
\* every operation is performed once and in order, and a call returns when all
\* that was issued has been performed, with the values its own reads gave.
THEOREM QueueRefines ==
  ASSUME Acks \/ Limits = {}, MaxFaults = 0
  PROVE  Spec => ImplementsRegisterBus
<1>1. Init => Promise!Init
  BY DEF Init, Promise!Init
<1>2. OrderInv /\ OrderInv' /\ [Next]_vars => [Promise!Next]_(Promise!vars)
  BY NextPromised
<1>3. OrderInv /\ [Next]_vars => OrderInv'
  BY NextOrderInv
<1> QED BY InitOrderInv, <1>1, <1>2, <1>3, PTL
        DEF Spec, ImplementsRegisterBus, Promise!Spec
=============================================================================
