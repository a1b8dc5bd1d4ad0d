---------------------------- MODULE EdclTransport ----------------------------
(***************************************************************************)
(* edcl.cpp and the UDP socket of udp.cpp: edcl_read and edcl_write cut a  *)
(* transfer into requests of at most EDCL_PAYLOAD_MAX_BYTES, send one at a *)
(* time and wait in a blocking recvfrom for its answer.  Requests carry a  *)
(* sequence number; a NAK carries the number the board expects.            *)
(*                                                                         *)
(* The EDCL hardware of the board is external.  The network delivers in    *)
(* order; it may lose or repeat a datagram.  A byte is a cell of Addrs.    *)
(*                                                                         *)
(* An operator named ..._bug is a variant of the next one with a plausible *)
(* fault; it is in no specification and serves to see that a property      *)
(* depends on that line of the code.                                       *)
(***************************************************************************)
EXTENDS Integers, Sequences

CONSTANTS
  MemSize,    \* bytes of board memory
  Vals,       \* the values of a byte
  Payload,    \* EDCL_PAYLOAD_MAX_BYTES (32 in the code)
  SeqMod,     \* numbers of the field seqidx (2^14 in the code)
  MaxBytes,   \* bound: the longest transfer
  MaxDupReq, MaxDupRsp, MaxLost,   \* bounds: datagrams repeated and lost
  MaxSendErr, MaxRecvErr,          \* bounds: failed sendto and recvfrom
  MaxRestarts,                     \* bound: restarts of the host
  MaxFaults                        \* bound: on all of these together

ASSUME TransportAssumption ==
  /\ MemSize \in Nat \ {0} /\ Vals # {}
  /\ Payload \in Nat \ {0} /\ MaxBytes \in 0..MemSize
  /\ SeqMod \in Nat /\ SeqMod >= 2
  /\ {MaxDupReq, MaxDupRsp, MaxLost, MaxSendErr, MaxRecvErr, MaxRestarts,
      MaxFaults} \subseteq Nat

Addrs == 0..(MemSize - 1)
SeqIdx == 0..(SeqMod - 1)
Bytes(n) == [1..n -> Vals]

VARIABLES
  seq_cnt,    \* seq_cnt_, as its users see it: the field seqidx
  pc,         \* "Idle", "Send" or "Recv"
  call,       \* the transfer: [op, addr, bytes, ibuf]
  done,       \* rd_bytes or wr_bytes
  obuf,       \* what a read has copied
  ret,        \* the value the last call returned
  port,       \* the UDP port of this run of the host, a new one every time
  toBoard,    \* requests on their way
  toHost,     \* answers on their way
  mem,        \* the board's memory
  expected,   \* the sequence number the board expects
  bad         \* what has gone wrong so far, by kind

host  == <<seq_cnt, pc, call, done, obuf, ret, port>>
net   == <<toBoard, toHost>>
board == <<mem, expected>>
vars  == <<host, net, board, bad>>

NoCall == [op |-> "none", addr |-> 0, bytes |-> 0, ibuf |-> <<>>]
NoBad  == [dupReq |-> 0, dupRsp |-> 0, lost |-> 0,
           sendErr |-> 0, recvErr |-> 0, restart |-> 0]

\* The first call opens the socket and sets seq_cnt_ to 0; the board's counter
\* is whatever it was left at.
Init ==
  /\ seq_cnt = 0 /\ pc = "Idle" /\ call = NoCall
  /\ done = 0 /\ obuf = <<>> /\ ret = 0 /\ port = 0
  /\ toBoard = <<>> /\ toHost = <<>>
  /\ mem \in [Addrs -> Vals] /\ expected \in SeqIdx
  /\ bad = NoBad

\* the 14 bits of a counter that fit the field seqidx
SeqField_bug(n) == n
SeqField(n) == n % SeqMod

Faults ==
  bad.dupReq + bad.dupRsp + bad.lost + bad.sendErr + bad.recvErr + bad.restart

Goes(kind, max) ==
  /\ bad[kind] < max /\ Faults < MaxFaults
  /\ bad' = [bad EXCEPT ![kind] = @ + 1]

-----------------------------------------------------------------------------
(* EdclService_read and EdclService_write *)

Return(value) == pc' = "Idle" /\ ret' = value

Begin(c) ==
  /\ pc = "Idle"
  /\ call' = c
  /\ done' = 0 /\ obuf' = <<>>
  /\ IF c.bytes = 0 THEN Return(0) ELSE pc' = "Send" /\ UNCHANGED ret
  /\ UNCHANGED <<seq_cnt, port, net, board, bad>>

EdclRead(addr, bytes) ==
  Begin([op |-> "read", addr |-> addr, bytes |-> bytes, ibuf |-> <<>>])

EdclWrite(addr, ibuf) ==
  Begin([op |-> "write", addr |-> addr, bytes |-> Len(ibuf), ibuf |-> ibuf])

ReqLen_bug == Payload
ReqLen == IF call.bytes - done > Payload THEN Payload ELSE call.bytes - done

ReqAddr_bug == call.addr
ReqAddr == call.addr + done

Request ==
  [from |-> port, seq |-> seq_cnt, op |-> call.op, addr |-> ReqAddr,
   len |-> ReqLen,
   data |-> IF call.op = "write" THEN SubSeq(call.ibuf, done + 1, done + ReqLen)
            ELSE <<>>]

\* A sendto that fails makes UdpService_sendData return 1, which is not the -1
\* its callers look for: they go on to wait for the answer.
SendData(ok) ==
  /\ pc = "Send"
  /\ IF ok THEN toBoard' = Append(toBoard, Request) /\ UNCHANGED bad
           ELSE Goes("sendErr", MaxSendErr) /\ UNCHANGED toBoard
  /\ pc' = "Recv"
  /\ UNCHANGED <<seq_cnt, call, done, obuf, ret, port, toHost, board>>

SeqAfterNak_bug(rsp) == SeqField(seq_cnt + 1)
SeqAfterNak(rsp) == rsp.seq

SeqAfterAck_bug(rsp) == rsp.seq
SeqAfterAck(rsp) == SeqField(seq_cnt + 1)

\* A write cannot count on the answer's len, which is 0.
Moved_bug(rsp) == rsp.len
Moved_full_bug(rsp) == IF call.op = "read" THEN Payload ELSE ReqLen
Moved(rsp) == IF call.op = "read" THEN rsp.len ELSE ReqLen

IsNak_bug(rsp) == FALSE
IsNak(rsp) == rsp.nak

\* The number of the answer is not compared with the number of the request.
Answered ==
  LET rsp == Head(toHost) IN
  /\ pc = "Recv" /\ toHost # <<>> /\ rsp.to = port
  /\ toHost' = Tail(toHost)
  /\ IF IsNak(rsp)
       THEN seq_cnt' = SeqAfterNak(rsp) /\ pc' = "Send" /\ UNCHANGED <<done, obuf, ret>>
       ELSE /\ seq_cnt' = SeqAfterAck(rsp)
            /\ done' = done + Moved(rsp)
            /\ obuf' = IF call.op = "read" THEN obuf \o rsp.data ELSE obuf
            /\ IF done' < call.bytes THEN pc' = "Send" /\ UNCHANGED ret
                                     ELSE Return(done')
  /\ UNCHANGED <<call, port, toBoard, board, bad>>

\* recvfrom fails (a signal): both values UdpService_readData may give for it
\* end the call with -1; the answer can still arrive
RecvError ==
  /\ pc = "Recv"
  /\ Goes("recvErr", MaxRecvErr)
  /\ Return(-1)
  /\ UNCHANGED <<seq_cnt, call, done, obuf, port, net, board>>

HostRestart ==
  /\ Goes("restart", MaxRestarts)
  /\ port' = port + 1
  /\ seq_cnt' = 0 /\ pc' = "Idle" /\ call' = NoCall
  /\ done' = 0 /\ obuf' = <<>> /\ ret' = 0
  /\ UNCHANGED <<net, board>>

-----------------------------------------------------------------------------
(* The board *)

Stored(req) ==
  [a \in Addrs |-> IF a >= req.addr /\ a < req.addr + req.len
                     THEN req.data[a - req.addr + 1] ELSE mem[a]]

Fetched(req) == [k \in 1..req.len |-> mem[(req.addr + k - 1) % MemSize]]

Ack(req, len, data) ==
  [to |-> req.from, nak |-> FALSE, seq |-> req.seq, len |-> len, data |-> data]

Nak(req) ==
  [to |-> req.from, nak |-> TRUE, seq |-> expected, len |-> 0, data |-> <<>>]

BoardAnswer ==
  LET req == Head(toBoard) IN
  /\ toBoard # <<>>
  /\ toBoard' = Tail(toBoard)
  /\ IF req.seq # expected
       THEN toHost' = Append(toHost, Nak(req)) /\ UNCHANGED board
       ELSE /\ expected' = (expected + 1) % SeqMod
            /\ IF req.op = "write"
                 THEN /\ mem' = Stored(req)
                      /\ toHost' = Append(toHost, Ack(req, 0, <<>>))
                 ELSE /\ mem' = mem
                      /\ toHost' = Append(toHost, Ack(req, req.len, Fetched(req)))
  /\ UNCHANGED <<host, bad>>

-----------------------------------------------------------------------------
(* The network *)

\* An answer to a port nobody has open any more is dropped.
NoReceiver ==
  /\ toHost # <<>> /\ Head(toHost).to # port
  /\ toHost' = Tail(toHost)
  /\ UNCHANGED <<host, toBoard, board, bad>>

Lose ==
  /\ Goes("lost", MaxLost)
  /\ \/ toBoard # <<>> /\ toBoard' = Tail(toBoard) /\ UNCHANGED toHost
     \/ toHost # <<>> /\ toHost' = Tail(toHost) /\ UNCHANGED toBoard
  /\ UNCHANGED <<host, board>>

DuplicateRequest ==
  /\ toBoard # <<>>
  /\ Goes("dupReq", MaxDupReq)
  /\ toBoard' = <<Head(toBoard)>> \o toBoard
  /\ UNCHANGED <<host, toHost, board>>

DuplicateAnswer ==
  /\ toHost # <<>>
  /\ Goes("dupRsp", MaxDupRsp)
  /\ toHost' = <<Head(toHost)>> \o toHost
  /\ UNCHANGED <<host, toBoard, board>>

-----------------------------------------------------------------------------
Calls ==
  \E addr \in Addrs, n \in 0..MaxBytes :
    /\ addr + n <= MemSize
    /\ EdclRead(addr, n) \/ \E ibuf \in Bytes(n) : EdclWrite(addr, ibuf)

Host    == (\E ok \in BOOLEAN : SendData(ok)) \/ Answered
Network == NoReceiver \/ Lose \/ DuplicateRequest \/ DuplicateAnswer

Next == Calls \/ Host \/ RecvError \/ HostRestart \/ BoardAnswer \/ Network

Spec == Init /\ [][Next]_vars

\* The host runs when an answer is there, the board answers what it receives,
\* and a datagram for a closed port does not stand in the way of others.
FairSpec == Spec /\ WF_vars(Host) /\ WF_vars(BoardAnswer) /\ WF_vars(NoReceiver)

-----------------------------------------------------------------------------
(* Properties *)

\* No answer was repeated and none came after its call had given up.
Clean == bad.dupRsp = 0 /\ bad.recvErr = 0

Datagrams ==
  [from : 0..MaxRestarts, seq : SeqIdx, op : {"read", "write"}, addr : Addrs,
   len : 1..Payload, data : Seq(Vals)]

Answers ==
  [to : 0..MaxRestarts, nak : BOOLEAN, seq : SeqIdx, len : 0..Payload,
   data : Seq(Vals)]

\* The variables have their types.
TypeOK ==
  /\ seq_cnt \in SeqIdx /\ expected \in SeqIdx
  /\ pc \in {"Idle", "Send", "Recv"}
  /\ call \in [op : {"none", "read", "write"}, addr : 0..MemSize,
               bytes : 0..MaxBytes, ibuf : Seq(Vals)]
  /\ done \in Nat /\ obuf \in Seq(Vals) /\ ret \in Nat \cup {-1}
  /\ port \in 0..MaxRestarts
  /\ toBoard \in Seq(Datagrams) /\ toHost \in Seq(Answers)
  /\ mem \in [Addrs -> Vals]
  /\ bad \in [DOMAIN NoBad -> Nat]

\* The ACK a call is about to accept has the number of its last request and,
\* for a read, its length: the code compares neither.
AckAnswersRequest ==
  Clean /\ pc = "Recv" /\ toHost # <<>> =>
    LET rsp == Head(toHost) IN
    rsp.to = port /\ ~rsp.nak =>
      /\ rsp.seq = seq_cnt
      /\ rsp.len = IF call.op = "read" THEN ReqLen ELSE 0

\* A read copies no more bytes to the caller's buffer than it asked for,
\* though it copies as many as the answer says.
ReadFitsBuffer == Clean => done <= call.bytes

\* After a call that moved bytes host and board agree on the next number, after
\* a restart and with answers to repeated requests on their way too.
CountersAgree ==
  Clean /\ pc = "Idle" /\ ret > 0 => seq_cnt = expected

\* A call that returned all its bytes has stored them, or has read what the
\* memory holds.
ReturnedBytesAreThere ==
  Clean /\ pc = "Idle" /\ ret > 0 =>
    /\ ret = call.bytes
    /\ \A k \in 1..call.bytes :
         mem[call.addr + k - 1] = (IF call.op = "read" THEN obuf ELSE call.ibuf)[k]

\* Unless a datagram is lost or repeated by the board's answer, or the socket
\* fails, a call returns: NAKs bring the counters together.
CallReturns ==
  pc # "Idle" ~> pc = "Idle" \/ ~Clean \/ bad.lost + bad.sendErr > 0

\* edcl.cpp: a request that cannot be sent ends the call with "Data sending
\* error" and -1.
SendErrorReported == bad.sendErr = 1 ~> pc = "Idle" /\ ret = -1
=============================================================================
