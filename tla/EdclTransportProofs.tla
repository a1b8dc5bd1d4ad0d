------------------------- MODULE EdclTransportProofs -------------------------
(* Theorems about EdclTransport for every memory, payload, range of numbers *)
(* and every number of datagrams lost or repeated and of restarts: while no *)
(* answer is repeated and no recvfrom fails the numbers do what the code    *)
(* relies on without checking it.                                           *)
EXTENDS MCEdclTransport, TLAPS

-----------------------------------------------------------------------------
(* The inductive invariant *)

MineOnWay(i)  == i \in DOMAIN toBoard /\ toBoard[i].from = port
MineAnswer(i) == i \in DOMAIN toHost /\ toHost[i].to = port
MyAck(i)      == MineAnswer(i) /\ ~toHost[i].nak
NoneOld       == \A i \in DOMAIN toBoard : toBoard[i].from = port

\* What TypeOK does not say: how long the data are, where a transfer lies.
Shape ==
  /\ port = bad.restart
  /\ call.addr + call.bytes <= MemSize
  /\ call.op = "write" => Len(call.ibuf) = call.bytes
  /\ pc # "Idle" => done < call.bytes /\ call.op # "none"
  /\ \A i \in DOMAIN toBoard :
       toBoard[i].op = "write" => Len(toBoard[i].data) = toBoard[i].len

\* Requests of an earlier run are ahead of this one's, and their answers too.
InOrder ==
  /\ \A i \in DOMAIN toBoard : toBoard[i].from <= port
  /\ \A i \in DOMAIN toHost : toHost[i].to <= port
  /\ \A i, j \in DOMAIN toBoard : i < j => toBoard[i].from <= toBoard[j].from
  /\ \A i \in DOMAIN toHost, j \in DOMAIN toBoard : toHost[i].to <= toBoard[j].from

\* While the board does not expect the host's number all requests of this run
\* carry it; while it does, those that carry it come last.
RequestsAgree ==
  /\ expected # seq_cnt \/ ~NoneOld =>
       \A i \in DOMAIN toBoard : MineOnWay(i) => toBoard[i].seq = seq_cnt
  /\ \A i, j \in DOMAIN toBoard :
       i < j /\ MineOnWay(i) /\ MineOnWay(j) /\ toBoard[i].seq = seq_cnt
         => toBoard[j].seq = seq_cnt
  /\ \A i \in DOMAIN toBoard :
       MineOnWay(i) /\ toBoard[i].seq = seq_cnt => pc # "Idle" /\ toBoard[i] = Request

\* There is one ACK for the host at most, its number is the host's, and a NAK
\* carries the number the host has when it comes to the ACK.
TheAnswers ==
  /\ \A i \in DOMAIN toHost : MyAck(i) =>
       toHost[i].seq = seq_cnt /\ expected = SeqField(seq_cnt + 1) /\ pc # "Idle"
  /\ \A i, j \in DOMAIN toHost : MyAck(i) /\ MyAck(j) => i = j
  /\ \A i \in DOMAIN toHost : MineAnswer(i) /\ toHost[i].nak =>
       \/ \E j \in DOMAIN toHost : i < j /\ MyAck(j) /\ toHost[i].seq = seq_cnt
       \/ (\A j \in DOMAIN toHost : i < j => ~MyAck(j)) /\ toHost[i].seq = expected

\* The ACK says what the board has done for the request it answers.
AckTrue ==
  \A i \in DOMAIN toHost : MyAck(i) =>
    IF call.op = "read"
      THEN /\ toHost[i].len = ReqLen /\ Len(toHost[i].data) = ReqLen
           /\ \A k \in 1..ReqLen : toHost[i].data[k] = mem[call.addr + done + k - 1]
      ELSE /\ toHost[i].len = 0 /\ toHost[i].data = <<>>
           /\ \A k \in 1..ReqLen : mem[call.addr + done + k - 1] = call.ibuf[done + k]

\* The bytes moved so far are where they belong, and stay there: once a byte has
\* been moved nothing of an earlier run is on its way to the board.
MovedRight ==
  /\ done <= call.bytes
  /\ call.op = "read" => Len(obuf) = done
  /\ \A k \in 1..done :
       mem[call.addr + k - 1] = (IF call.op = "read" THEN obuf ELSE call.ibuf)[k]
  /\ done > 0 => NoneOld

\* A call that returned its bytes leaves the counters equal.
Agreed ==
  pc = "Idle" /\ ret > 0 =>
    ret = call.bytes /\ done = call.bytes /\ seq_cnt = expected /\ NoneOld

Good == InOrder /\ RequestsAgree /\ TheAnswers /\ AckTrue /\ MovedRight /\ Agreed

IInv ==
  /\ TypeOK /\ Shape
  /\ Clean => Good

-----------------------------------------------------------------------------
(* Numbers and sequences *)

LEMMA Sizes ==
  /\ SeqMod \in Nat /\ SeqMod >= 2 /\ MemSize \in Nat /\ MemSize >= 1
  /\ Payload \in Nat /\ Payload >= 1 /\ MaxBytes \in Nat /\ MaxBytes <= MemSize
  /\ 0 \in SeqIdx
BY TransportAssumption DEF SeqIdx

\* The field's number after n is another one, however small the field.
LEMMA NextSeq ==
  ASSUME NEW n \in SeqIdx
  PROVE  SeqField(n + 1) \in SeqIdx /\ SeqField(n + 1) # n
<1>1. n \in Nat /\ n <= SeqMod - 1 /\ SeqMod \in Nat /\ SeqMod >= 2
  BY Sizes DEF SeqIdx
<1>2. CASE n + 1 < SeqMod
  <2>1. (n + 1) % SeqMod = n + 1
    BY <1>1, <1>2
  <2> QED BY <1>1, <1>2, <2>1 DEF SeqField, SeqIdx
<1>3. CASE n + 1 = SeqMod
  <2>1. SeqMod % SeqMod = 0
    BY <1>1
  <2> QED BY <1>1, <1>3, <2>1 DEF SeqField, SeqIdx
<1> QED BY <1>1, <1>2, <1>3

LEMMA TailFacts ==
  ASSUME NEW S, NEW q \in Seq(S), q # <<>>
  PROVE  /\ Tail(q) \in Seq(S) /\ Len(Tail(q)) = Len(q) - 1 /\ Len(q) \in Nat \ {0}
         /\ DOMAIN q = 1..Len(q) /\ DOMAIN Tail(q) = 1..(Len(q) - 1)
         /\ Head(q) = q[1] /\ q[1] \in S /\ 1 \in DOMAIN q
         /\ \A i \in 1..(Len(q) - 1) : Tail(q)[i] = q[i + 1] /\ i + 1 \in DOMAIN q
OBVIOUS

LEMMA AppendFacts ==
  ASSUME NEW S, NEW q \in Seq(S), NEW e \in S
  PROVE  /\ Append(q, e) \in Seq(S) /\ Len(q) \in Nat
         /\ DOMAIN q = 1..Len(q) /\ DOMAIN Append(q, e) = 1..(Len(q) + 1)
         /\ Append(q, e)[Len(q) + 1] = e
         /\ \A i \in DOMAIN q : Append(q, e)[i] = q[i]
OBVIOUS

LEMMA RepeatFacts ==
  ASSUME NEW S, NEW q \in Seq(S), q # <<>>
  PROVE  /\ <<Head(q)>> \o q \in Seq(S) /\ Len(q) \in Nat \ {0}
         /\ DOMAIN q = 1..Len(q) /\ DOMAIN (<<Head(q)>> \o q) = 1..(Len(q) + 1)
         /\ (<<Head(q)>> \o q)[1] = q[1] /\ 1 \in DOMAIN q
         /\ \A i \in DOMAIN q : (<<Head(q)>> \o q)[i + 1] = q[i]
OBVIOUS

LEMMA PartFacts ==
  ASSUME NEW S, NEW q \in Seq(S), NEW m \in Nat, NEW n \in Nat, m + n <= Len(q)
  PROVE  /\ SubSeq(q, m + 1, m + n) \in Seq(S) /\ Len(SubSeq(q, m + 1, m + n)) = n
         /\ \A k \in 1..n : SubSeq(q, m + 1, m + n)[k] = q[m + k]
OBVIOUS

LEMMA Elements ==
  ASSUME NEW S, NEW q \in Seq(S), NEW i \in DOMAIN q
  PROVE  q[i] \in S
OBVIOUS

\* What lies in cells from base on when two sequences lie there one after the other.
LEMMA JoinedCells ==
  ASSUME NEW p \in Seq(Vals), NEW q \in Seq(Vals), NEW m, NEW base \in Nat,
         \A k \in 1..Len(p) : m[base + k - 1] = p[k],
         \A k \in 1..Len(q) : m[base + Len(p) + k - 1] = q[k]
  PROVE  /\ Len(p \o q) = Len(p) + Len(q)
         /\ \A k \in 1..(Len(p) + Len(q)) : m[base + k - 1] = (p \o q)[k]
<1>1. Len(p) \in Nat /\ Len(q) \in Nat /\ Len(p \o q) = Len(p) + Len(q)
  OBVIOUS
<1>2. ASSUME NEW k \in 1..(Len(p) + Len(q))
      PROVE  m[base + k - 1] = (p \o q)[k]
  <2>1. CASE k <= Len(p)
    BY <1>1, <2>1
  <2>2. CASE k > Len(p)
    <3> DEFINE j == k - Len(p)
    <3>1. j \in 1..Len(q) /\ base + Len(p) + j - 1 = base + k - 1
      BY <1>1, <2>2
    <3>2. (p \o q)[k] = q[j]
      BY <1>1, <2>2
    <3> QED BY <3>1, <3>2
  <2> QED BY <1>1, <2>1, <2>2
<1> QED BY <1>1, <1>2

LEMMA SmallMod == ASSUME NEW a \in Nat, NEW m \in Nat, a < m PROVE a % m = a
OBVIOUS

-----------------------------------------------------------------------------
(* Types *)

TypeInv == TypeOK /\ Shape

Kinds == {"dupReq", "dupRsp", "lost", "sendErr", "recvErr", "restart"}

LEMMA InitType == Init => TypeInv
<1> SUFFICES ASSUME Init PROVE TypeInv
  OBVIOUS
<1>1. DOMAIN NoBad = Kinds /\ NoBad \in [Kinds -> Nat] /\ NoBad.restart = 0
  BY DEF NoBad, Kinds
<1>2. TypeOK
  <2>1. /\ seq_cnt = 0 /\ pc = "Idle" /\ call = NoCall /\ done = 0 /\ obuf = <<>>
        /\ ret = 0 /\ port = 0 /\ toBoard = <<>> /\ toHost = <<>> /\ bad = NoBad
        /\ mem \in [Addrs -> Vals] /\ expected \in SeqIdx
    BY DEF Init
  <2>2. call \in [op : {"none", "read", "write"}, addr : 0..MemSize,
                  bytes : 0..MaxBytes, ibuf : Seq(Vals)]
    BY <2>1, Sizes DEF NoCall
  <2>3. port \in 0..MaxRestarts /\ bad \in [DOMAIN NoBad -> Nat]
    BY <2>1, <1>1, TransportAssumption
  <2>4. /\ obuf \in Seq(Vals) /\ toBoard \in Seq(Datagrams) /\ toHost \in Seq(Answers)
        /\ done \in Nat /\ ret \in Nat \cup {-1} /\ seq_cnt \in SeqIdx
    BY <2>1, Sizes
  <2> QED BY <2>1, <2>2, <2>3, <2>4 DEF TypeOK
<1>3. Shape
  BY <1>1, Sizes DEF Init, Shape, NoCall
<1> QED BY <1>2, <1>3 DEF TypeInv

LEMMA TypeParts ==
  ASSUME TypeOK
  PROVE  /\ seq_cnt \in SeqIdx /\ seq_cnt \in Nat /\ expected \in SeqIdx
         /\ call.op \in {"none", "read", "write"} /\ call.addr \in 0..MemSize
         /\ call.addr \in Nat /\ call.bytes \in 0..MaxBytes /\ call.bytes \in Nat
         /\ call.ibuf \in Seq(Vals) /\ done \in Nat /\ obuf \in Seq(Vals)
         /\ port \in Nat /\ toBoard \in Seq(Datagrams) /\ toHost \in Seq(Answers)
         /\ mem \in [Addrs -> Vals]
         /\ bad \in [Kinds -> Nat]
<1>1. DOMAIN NoBad = Kinds
  BY DEF NoBad, Kinds
<1> QED BY <1>1, TransportAssumption DEF TypeOK, SeqIdx

LEMMA GoesFacts ==
  ASSUME TypeOK, NEW kind \in Kinds, NEW max \in Nat, Goes(kind, max)
  PROVE  /\ bad' \in [DOMAIN NoBad -> Nat]
         /\ bad'[kind] = bad[kind] + 1 /\ bad'[kind] <= max
         /\ \A other \in Kinds \ {kind} : bad'[other] = bad[other]
<1>1. DOMAIN NoBad = Kinds
  BY DEF NoBad, Kinds
<1>2. bad \in [Kinds -> Nat] /\ bad[kind] \in Nat
  BY TypeParts
<1> QED BY <1>1, <1>2 DEF Goes

\* A request lies inside its transfer, and so inside the memory.
LEMMA RequestType ==
  ASSUME TypeInv, pc # "Idle"
  PROVE  /\ ReqLen \in 1..Payload /\ ReqLen \in Nat /\ done + ReqLen <= call.bytes
         /\ ReqAddr = call.addr + done /\ ReqAddr \in Addrs
         /\ call.addr + done + ReqLen <= MemSize
         /\ Request \in Datagrams /\ Request.from = port /\ Request.seq = seq_cnt
         /\ Request.op = call.op /\ Request.addr = ReqAddr /\ Request.len = ReqLen
         /\ call.op = "write" =>
              /\ Len(Request.data) = ReqLen
              /\ \A k \in 1..ReqLen : Request.data[k] = call.ibuf[done + k]
<1>1. /\ done < call.bytes /\ call.op \in {"read", "write"} /\ done \in Nat
      /\ call.bytes \in Nat /\ call.addr \in Nat /\ call.addr + call.bytes <= MemSize
      /\ call.ibuf \in Seq(Vals) /\ (call.op = "write" => Len(call.ibuf) = call.bytes)
      /\ seq_cnt \in SeqIdx /\ port \in 0..MaxRestarts
  BY TypeParts DEF TypeInv, Shape, TypeOK
<1>2. /\ ReqLen \in 1..Payload /\ ReqLen \in Nat /\ done + ReqLen <= call.bytes
      /\ ReqAddr = call.addr + done /\ ReqAddr \in Addrs
      /\ call.addr + done + ReqLen <= MemSize
  <2>1. /\ done < call.bytes /\ done \in Nat /\ call.bytes \in Nat /\ call.addr \in Nat
        /\ call.addr + call.bytes <= MemSize /\ MemSize \in Nat
        /\ Payload \in Nat /\ Payload >= 1
    BY <1>1, Sizes
  <2>2. ReqLen \in Nat /\ ReqLen >= 1 /\ ReqLen <= Payload /\ done + ReqLen <= call.bytes
    BY <2>1 DEF ReqLen
  <2> QED BY <2>1, <2>2 DEF ReqAddr, Addrs
<1>3. CASE call.op = "write"
  <2>1. /\ SubSeq(call.ibuf, done + 1, done + ReqLen) \in Seq(Vals)
        /\ Len(SubSeq(call.ibuf, done + 1, done + ReqLen)) = ReqLen
        /\ \A k \in 1..ReqLen :
             SubSeq(call.ibuf, done + 1, done + ReqLen)[k] = call.ibuf[done + k]
    <3>1. /\ call.ibuf \in Seq(Vals) /\ done + ReqLen <= Len(call.ibuf)
          /\ done \in Nat /\ ReqLen \in Nat
      BY <1>1, <1>2, <1>3
    <3> QED BY <3>1, PartFacts
  <2>2. /\ Request.from = port /\ Request.seq = seq_cnt /\ Request.op = call.op
        /\ Request.addr = ReqAddr /\ Request.len = ReqLen
        /\ Request.data = SubSeq(call.ibuf, done + 1, done + ReqLen)
    BY <1>3 DEF Request
  <2>3. Request \in Datagrams
    BY <1>1, <1>2, <1>3, <2>1 DEF Request, Datagrams
  <2> QED BY <1>2, <2>1, <2>2, <2>3
<1>4. CASE call.op = "read"
  BY <1>1, <1>2, <1>4 DEF Request, Datagrams
<1> QED BY <1>1, <1>3, <1>4

LEMMA BeginType ==
  ASSUME TypeInv,
         NEW c \in [op : {"read", "write"}, addr : 0..MemSize, bytes : 0..MaxBytes,
                    ibuf : Seq(Vals)],
         c.addr + c.bytes <= MemSize, c.op = "write" => Len(c.ibuf) = c.bytes,
         Begin(c)
  PROVE  TypeInv'
<1>1. /\ call' = c /\ done' = 0 /\ obuf' = <<>>
      /\ \/ c.bytes = 0 /\ pc' = "Idle" /\ ret' = 0
         \/ c.bytes # 0 /\ pc' = "Send" /\ ret' = ret
      /\ UNCHANGED <<seq_cnt, port, toBoard, toHost, mem, expected, bad>>
  BY DEF Begin, Return, net, board
<1>2. TypeOK'
  <2>1. obuf' \in Seq(Vals) /\ done' \in Nat /\ pc' \in {"Idle", "Send", "Recv"}
        /\ ret' \in Nat \cup {-1}
    BY <1>1 DEF TypeInv, TypeOK
  <2>2. call' \in [op : {"none", "read", "write"}, addr : 0..MemSize,
                   bytes : 0..MaxBytes, ibuf : Seq(Vals)]
    BY <1>1
  <2> QED BY <1>1, <2>1, <2>2 DEF TypeInv, TypeOK
<1>3. c.bytes \in Nat
  BY Sizes
<1>4. Shape'
  BY <1>1, <1>3 DEF TypeInv, Shape
<1> QED BY <1>2, <1>4 DEF TypeInv

LEMMA SendType ==
  ASSUME TypeInv, NEW ok \in BOOLEAN, SendData(ok)
  PROVE  TypeInv'
<1>1. /\ pc = "Send" /\ pc' = "Recv"
      /\ UNCHANGED <<seq_cnt, call, done, obuf, ret, port, toHost, mem, expected>>
      /\ \/ toBoard' = Append(toBoard, Request) /\ bad' = bad
         \/ Goes("sendErr", MaxSendErr) /\ toBoard' = toBoard
  BY DEF SendData, board
<1>2. bad' \in [DOMAIN NoBad -> Nat] /\ bad'.restart = bad.restart
  BY <1>1, GoesFacts, TransportAssumption DEF TypeInv, TypeOK, Kinds
<1>3. Request \in Datagrams /\ toBoard \in Seq(Datagrams)
      /\ (Request.op = "write" => Len(Request.data) = Request.len)
  BY <1>1, RequestType, TypeParts DEF TypeInv
<1>4. /\ toBoard' \in Seq(Datagrams)
      /\ \A i \in DOMAIN toBoard' :
           toBoard'[i].op = "write" => Len(toBoard'[i].data) = toBoard'[i].len
  <2>1. CASE toBoard' = toBoard
    BY <1>3, <2>1 DEF TypeInv, Shape
  <2>2. CASE toBoard' = Append(toBoard, Request)
    BY <1>3, <2>2, AppendFacts DEF TypeInv, Shape
  <2> QED BY <1>1, <2>1, <2>2
<1>5. TypeOK'
  BY <1>1, <1>2, <1>4 DEF TypeInv, TypeOK
<1>6. Shape'
  BY <1>1, <1>2, <1>4 DEF TypeInv, Shape
<1> QED BY <1>5, <1>6 DEF TypeInv

\* A call goes on only when bytes of it are left.
LEMMA AnsweredType ==
  ASSUME TypeInv, Answered
  PROVE  TypeInv'
<1> DEFINE rsp == Head(toHost)
<1>1. /\ pc = "Recv" /\ toHost # <<>> /\ toHost' = Tail(toHost)
      /\ UNCHANGED <<call, port, toBoard, mem, expected, bad>>
      /\ \/ /\ rsp.nak /\ seq_cnt' = rsp.seq /\ pc' = "Send"
            /\ UNCHANGED <<done, obuf, ret>>
         \/ /\ seq_cnt' = SeqField(seq_cnt + 1)
            /\ done' = done + (IF call.op = "read" THEN rsp.len ELSE ReqLen)
            /\ obuf' = (IF call.op = "read" THEN obuf \o rsp.data ELSE obuf)
            /\ \/ done' < call.bytes /\ pc' = "Send" /\ ret' = ret
               \/ pc' = "Idle" /\ ret' = done'
  BY DEF Answered, IsNak, SeqAfterNak, SeqAfterAck, Moved, Return, board
<1>2. /\ rsp \in Answers /\ toHost' \in Seq(Answers) /\ seq_cnt \in SeqIdx
      /\ done \in Nat /\ obuf \in Seq(Vals) /\ ret \in Nat \cup {-1}
      /\ ReqLen \in Nat /\ call.bytes \in Nat
  BY <1>1, TypeParts, RequestType, TailFacts DEF TypeInv, TypeOK
<1>3. rsp.len \in Nat /\ rsp.seq \in SeqIdx /\ rsp.data \in Seq(Vals)
  BY <1>2, Sizes DEF Answers
<1>4. /\ seq_cnt' \in SeqIdx /\ done' \in Nat /\ obuf' \in Seq(Vals)
      /\ ret' \in Nat \cup {-1} /\ pc' \in {"Idle", "Send", "Recv"}
      /\ (pc' # "Idle" => done' < call.bytes)
  <2>1. CASE rsp.nak /\ seq_cnt' = rsp.seq /\ pc' = "Send" /\ UNCHANGED <<done, obuf, ret>>
    BY <1>1, <1>2, <1>3, <2>1 DEF TypeInv, Shape
  <2>2. CASE /\ seq_cnt' = SeqField(seq_cnt + 1)
             /\ done' = done + (IF call.op = "read" THEN rsp.len ELSE ReqLen)
             /\ obuf' = (IF call.op = "read" THEN obuf \o rsp.data ELSE obuf)
             /\ \/ done' < call.bytes /\ pc' = "Send" /\ ret' = ret
                \/ pc' = "Idle" /\ ret' = done'
    <3>1. seq_cnt' \in SeqIdx
      BY <1>2, <2>2, NextSeq
    <3>2. done' \in Nat
      BY <1>2, <1>3, <2>2
    <3>3. obuf' \in Seq(Vals)
      BY <1>2, <1>3, <2>2
    <3> QED BY <1>2, <2>2, <3>1, <3>2, <3>3
  <2> QED BY <1>1, <2>1, <2>2
<1>5. TypeOK'
  BY <1>1, <1>2, <1>4 DEF TypeInv, TypeOK
<1>6. Shape'
  BY <1>1, <1>4 DEF TypeInv, Shape
<1> QED BY <1>5, <1>6 DEF TypeInv

LEMMA RecvErrorType ==
  ASSUME TypeInv, RecvError
  PROVE  TypeInv' /\ ~Clean'
<1>1. /\ pc' = "Idle" /\ ret' = -1 /\ Goes("recvErr", MaxRecvErr)
      /\ UNCHANGED <<seq_cnt, call, done, obuf, port, toBoard, toHost, mem, expected>>
  BY DEF RecvError, Return, net, board
<1>2. /\ bad' \in [DOMAIN NoBad -> Nat] /\ bad'.restart = bad.restart
      /\ bad'.recvErr = bad.recvErr + 1 /\ bad.recvErr \in Nat
  BY <1>1, GoesFacts, TypeParts, TransportAssumption DEF TypeInv, Kinds
<1>3. TypeOK'
  BY <1>1, <1>2 DEF TypeInv, TypeOK
<1>4. Shape'
  BY <1>1, <1>2 DEF TypeInv, Shape
<1> QED BY <1>2, <1>3, <1>4 DEF TypeInv, Clean

LEMMA RestartType ==
  ASSUME TypeInv, HostRestart
  PROVE  TypeInv'
<1>1. /\ Goes("restart", MaxRestarts) /\ port' = port + 1 /\ seq_cnt' = 0
      /\ pc' = "Idle" /\ call' = NoCall /\ done' = 0 /\ obuf' = <<>> /\ ret' = 0
      /\ UNCHANGED <<toBoard, toHost, mem, expected>>
  BY DEF HostRestart, net, board
<1>2. /\ bad' \in [DOMAIN NoBad -> Nat] /\ bad'.restart = port' /\ port' <= MaxRestarts
      /\ port \in Nat
  BY <1>1, GoesFacts, TypeParts, TransportAssumption DEF TypeInv, Kinds, Shape
<1>3. port' \in 0..MaxRestarts
  BY <1>1, <1>2, TransportAssumption
<1>4. call' \in [op : {"none", "read", "write"}, addr : 0..MemSize,
                 bytes : 0..MaxBytes, ibuf : Seq(Vals)]
  BY <1>1, Sizes DEF NoCall
<1>5. /\ seq_cnt' \in SeqIdx /\ done' \in Nat /\ obuf' \in Seq(Vals)
      /\ ret' \in Nat \cup {-1}
  BY <1>1, Sizes
<1>6. TypeOK'
  BY <1>1, <1>2, <1>3, <1>4, <1>5 DEF TypeInv, TypeOK
<1>7. Shape'
  BY <1>1, <1>2, Sizes DEF TypeInv, Shape, NoCall
<1> QED BY <1>6, <1>7 DEF TypeInv

\* What the board answers is an answer, whatever the request at the head asks for.
LEMMA AnswerTypes ==
  ASSUME TypeInv, toBoard # <<>>
  PROVE  LET req == Head(toBoard) IN
         /\ Nak(req) \in Answers /\ Ack(req, 0, <<>>) \in Answers
         /\ Ack(req, req.len, Fetched(req)) \in Answers
<1> DEFINE req == Head(toBoard)
<1>1. req \in Datagrams /\ expected \in SeqIdx /\ mem \in [Addrs -> Vals]
  BY TypeParts, TailFacts DEF TypeInv
<1>2. /\ req.from \in 0..MaxRestarts /\ req.seq \in SeqIdx /\ req.addr \in Addrs
      /\ req.len \in 1..Payload
  BY <1>1 DEF Datagrams
<1>3. \A k \in 1..req.len : (req.addr + k - 1) % MemSize \in Addrs
  BY <1>2, Sizes DEF Addrs
<1>4. Fetched(req) \in [1..req.len -> Vals]
  BY <1>1, <1>3 DEF Fetched
<1>5. Fetched(req) \in Seq(Vals)
  BY <1>2, <1>4, Sizes
<1> QED BY <1>1, <1>2, <1>5, Sizes DEF Nak, Ack, Answers

\* What the board does with the request at the head of the queue.
LEMMA BoardType ==
  ASSUME TypeInv, BoardAnswer
  PROVE  TypeInv'
<1> DEFINE req == Head(toBoard)
<1>1. /\ toBoard # <<>> /\ toBoard' = Tail(toBoard)
      /\ UNCHANGED <<seq_cnt, pc, call, done, obuf, ret, port, bad>>
      /\ \/ /\ toHost' = Append(toHost, Nak(req)) /\ mem' = mem /\ expected' = expected
         \/ /\ req.op = "write" /\ mem' = Stored(req)
            /\ expected' = (expected + 1) % SeqMod
            /\ toHost' = Append(toHost, Ack(req, 0, <<>>))
         \/ /\ mem' = mem /\ expected' = (expected + 1) % SeqMod
            /\ toHost' = Append(toHost, Ack(req, req.len, Fetched(req)))
  BY DEF BoardAnswer, host, board
<1>2. /\ toBoard \in Seq(Datagrams) /\ toHost \in Seq(Answers) /\ req \in Datagrams
      /\ toBoard' \in Seq(Datagrams) /\ expected \in SeqIdx /\ mem \in [Addrs -> Vals]
      /\ (req.op = "write" => Len(req.data) = req.len)
  BY <1>1, TypeParts, TailFacts DEF TypeInv, Shape
<1>3. /\ req.addr \in Addrs /\ req.len \in 1..Payload /\ req.data \in Seq(Vals)
  BY <1>2 DEF Datagrams
<1>4. /\ Nak(req) \in Answers /\ Ack(req, 0, <<>>) \in Answers
      /\ Ack(req, req.len, Fetched(req)) \in Answers
  BY <1>1, AnswerTypes
<1>5. expected' \in SeqIdx
  BY <1>1, <1>2, NextSeq DEF SeqField
<1>6. mem' \in [Addrs -> Vals]
  <2>1. CASE mem' = mem
    BY <1>2, <2>1
  <2>2. CASE req.op = "write" /\ mem' = Stored(req)
    <3>1. \A a \in Addrs : a >= req.addr /\ a < req.addr + req.len =>
            req.data[a - req.addr + 1] \in Vals
      BY <1>2, <1>3, <2>2, Sizes DEF Addrs
    <3> QED BY <1>2, <2>2, <3>1 DEF Stored
  <2> QED BY <1>1, <2>1, <2>2
<1>7. toHost' \in Seq(Answers)
  <2>1. PICK e \in Answers : toHost' = Append(toHost, e)
    BY <1>1, <1>4
  <2> QED BY <1>2, <2>1, AppendFacts
<1>8. TypeOK'
  BY <1>1, <1>2, <1>5, <1>6, <1>7 DEF TypeInv, TypeOK
<1>9. Shape'
  BY <1>1, <1>2, TailFacts DEF TypeInv, Shape
<1> QED BY <1>8, <1>9 DEF TypeInv

\* Whatever the network does to its two queues, the rest stays.
LEMMA NetworkFacts ==
  ASSUME TypeInv, Network
  PROVE  /\ UNCHANGED <<seq_cnt, pc, call, done, obuf, ret, port, mem, expected>>
         /\ bad' \in [DOMAIN NoBad -> Nat] /\ bad'.restart = bad.restart
         /\ (Clean' => Clean)
         /\ \/ toHost # <<>> /\ toHost' = Tail(toHost) /\ toBoard' = toBoard
            \/ toBoard # <<>> /\ toBoard' = Tail(toBoard) /\ toHost' = toHost
            \/ toBoard # <<>> /\ toBoard' = <<Head(toBoard)>> \o toBoard /\ toHost' = toHost
            \/ /\ toHost # <<>> /\ toHost' = <<Head(toHost)>> \o toHost
               /\ toBoard' = toBoard /\ ~Clean'
<1>1. bad \in [Kinds -> Nat] /\ bad \in [DOMAIN NoBad -> Nat]
  BY TypeParts DEF TypeInv, TypeOK
<1>2. CASE NoReceiver
  BY <1>1, <1>2 DEF NoReceiver, host, board, Clean
<1>3. CASE Lose
  <2>1. /\ bad' \in [DOMAIN NoBad -> Nat] /\ bad'.restart = bad.restart
        /\ bad'.dupRsp = bad.dupRsp /\ bad'.recvErr = bad.recvErr
    BY <1>3, GoesFacts, TransportAssumption DEF Lose, TypeInv, Kinds
  <2> QED BY <1>3, <2>1 DEF Lose, host, board, Clean
<1>4. CASE DuplicateRequest
  <2>1. /\ bad' \in [DOMAIN NoBad -> Nat] /\ bad'.restart = bad.restart
        /\ bad'.dupRsp = bad.dupRsp /\ bad'.recvErr = bad.recvErr
    BY <1>4, GoesFacts, TransportAssumption DEF DuplicateRequest, TypeInv, Kinds
  <2> QED BY <1>4, <2>1 DEF DuplicateRequest, host, board, Clean
<1>5. CASE DuplicateAnswer
  <2>1. /\ bad' \in [DOMAIN NoBad -> Nat] /\ bad'.restart = bad.restart
        /\ bad'.dupRsp = bad.dupRsp + 1
    BY <1>5, GoesFacts, TransportAssumption DEF DuplicateAnswer, TypeInv, Kinds
  <2>2. bad.dupRsp \in Nat
    BY <1>1 DEF Kinds
  <2> QED BY <1>5, <2>1, <2>2 DEF DuplicateAnswer, host, board, Clean
<1> QED BY <1>2, <1>3, <1>4, <1>5 DEF Network

LEMMA NetworkType ==
  ASSUME TypeInv, Network
  PROVE  TypeInv'
<1>1. toBoard \in Seq(Datagrams) /\ toHost \in Seq(Answers)
  BY TypeParts DEF TypeInv
<1>2. toBoard' \in Seq(Datagrams) /\ toHost' \in Seq(Answers)
  <2>1. CASE toHost # <<>> /\ toHost' = Tail(toHost) /\ toBoard' = toBoard
    BY <1>1, <2>1, TailFacts
  <2>2. CASE toBoard # <<>> /\ toBoard' = Tail(toBoard) /\ toHost' = toHost
    BY <1>1, <2>2, TailFacts
  <2>3. CASE /\ toBoard # <<>> /\ toBoard' = <<Head(toBoard)>> \o toBoard
             /\ toHost' = toHost
    BY <1>1, <2>3, RepeatFacts
  <2>4. CASE /\ toHost # <<>> /\ toHost' = <<Head(toHost)>> \o toHost
             /\ toBoard' = toBoard
    BY <1>1, <2>4, RepeatFacts
  <2> QED BY <2>1, <2>2, <2>3, <2>4, NetworkFacts
<1>3. \A i \in DOMAIN toBoard' :
        toBoard'[i].op = "write" => Len(toBoard'[i].data) = toBoard'[i].len
  <2>1. CASE toBoard' = toBoard
    BY <2>1 DEF TypeInv, Shape
  <2>2. CASE toBoard # <<>> /\ toBoard' = Tail(toBoard)
    BY <1>1, <2>2, TailFacts DEF TypeInv, Shape
  <2>3. CASE toBoard # <<>> /\ toBoard' = <<Head(toBoard)>> \o toBoard
    <3> SUFFICES ASSUME NEW i \in DOMAIN toBoard'
                 PROVE  \E j \in DOMAIN toBoard : toBoard'[i] = toBoard[j]
      BY DEF TypeInv, Shape
    <3>1. i = 1 \/ (i - 1 \in DOMAIN toBoard /\ toBoard'[(i - 1) + 1] = toBoard[i - 1])
      BY <1>1, <2>3, RepeatFacts
    <3> QED BY <1>1, <2>3, <3>1, RepeatFacts
  <2> QED BY <2>1, <2>2, <2>3, NetworkFacts
<1>4. TypeOK'
  BY <1>2, NetworkFacts DEF TypeInv, TypeOK
<1>5. Shape'
  BY <1>3, NetworkFacts DEF TypeInv, Shape
<1> QED BY <1>4, <1>5 DEF TypeInv

\* The transfers the program asks for lie inside the memory.
LEMMA CallFacts ==
  ASSUME Calls
  PROVE  \E c \in [op : {"read", "write"}, addr : 0..MemSize, bytes : 0..MaxBytes,
                   ibuf : Seq(Vals)] :
           /\ c.addr + c.bytes <= MemSize
           /\ c.op = "write" => Len(c.ibuf) = c.bytes
           /\ Begin(c)
<1>1. PICK addr \in Addrs, n \in 0..MaxBytes :
        /\ addr + n <= MemSize
        /\ EdclRead(addr, n) \/ \E ibuf \in Bytes(n) : EdclWrite(addr, ibuf)
  BY DEF Calls
<1>2. addr \in 0..MemSize /\ n \in Nat
  BY Sizes DEF Addrs
<1>3. CASE EdclRead(addr, n)
  <2> DEFINE c == [op |-> "read", addr |-> addr, bytes |-> n, ibuf |-> <<>>]
  <2>1. c \in [op : {"read", "write"}, addr : 0..MemSize, bytes : 0..MaxBytes,
               ibuf : Seq(Vals)]
    BY <1>2
  <2>2. Begin(c) /\ c.addr + c.bytes <= MemSize
    BY <1>1, <1>3 DEF EdclRead
  <2> QED BY <2>1, <2>2
<1>4. CASE \E ibuf \in Bytes(n) : EdclWrite(addr, ibuf)
  <2>1. PICK ibuf \in Bytes(n) : EdclWrite(addr, ibuf)
    BY <1>4
  <2>2. ibuf \in Seq(Vals) /\ Len(ibuf) = n
    BY <1>2 DEF Bytes
  <2> DEFINE c == [op |-> "write", addr |-> addr, bytes |-> Len(ibuf), ibuf |-> ibuf]
  <2>3. c \in [op : {"read", "write"}, addr : 0..MemSize, bytes : 0..MaxBytes,
               ibuf : Seq(Vals)]
    BY <1>2, <2>2
  <2>4. Begin(c) /\ c.addr + c.bytes <= MemSize
    BY <1>1, <2>1, <2>2 DEF EdclWrite
  <2> QED BY <2>2, <2>3, <2>4
<1> QED BY <1>1, <1>3, <1>4

LEMMA NextType == TypeInv /\ [Next]_vars => TypeInv'
<1> SUFFICES ASSUME TypeInv, [Next]_vars PROVE TypeInv'
  OBVIOUS
<1>1. CASE UNCHANGED vars
  BY <1>1 DEF vars, host, net, board, TypeInv, TypeOK, Shape
<1>2. CASE Calls
  BY <1>2, CallFacts, BeginType
<1>3. CASE Host
  BY <1>3, SendType, AnsweredType DEF Host
<1>4. CASE RecvError \/ HostRestart \/ BoardAnswer \/ Network
  BY <1>4, RecvErrorType, RestartType, BoardType, NetworkType
<1> QED BY <1>1, <1>2, <1>3, <1>4 DEF Next

\* The variables of the transport have their types, whatever is lost or repeated:
\* no request is longer than the payload or outside the memory.
THEOREM EdclTypeOK == Spec => []TypeOK
<1>1. TypeInv => TypeOK
  BY DEF TypeInv
<1> QED BY InitType, NextType, <1>1, PTL DEF Spec

-----------------------------------------------------------------------------
(* The numbers agree while no answer is repeated and no receive fails *)

LEMMA InitGood == Init => Good
BY DEF Init, Good, InOrder, RequestsAgree, TheAnswers, AckTrue, MovedRight, Agreed,
       MineOnWay, MineAnswer, MyAck, NoneOld, NoCall

LEMMA PortTypes ==
  ASSUME TypeInv
  PROVE  /\ port \in Nat
         /\ \A i \in DOMAIN toBoard : toBoard[i] \in Datagrams /\ toBoard[i].from \in Nat
         /\ \A i \in DOMAIN toHost : toHost[i] \in Answers /\ toHost[i].to \in Nat
<1>1. port \in Nat /\ toBoard \in Seq(Datagrams) /\ toHost \in Seq(Answers)
  BY TypeParts DEF TypeInv
<1>2. MaxRestarts \in Nat
  BY TransportAssumption
<1>3. ASSUME NEW i \in DOMAIN toBoard
      PROVE  toBoard[i] \in Datagrams /\ toBoard[i].from \in Nat
  <2>1. toBoard[i] \in Datagrams
    BY <1>1, Elements
  <2> QED BY <1>2, <2>1 DEF Datagrams
<1>4. ASSUME NEW i \in DOMAIN toHost
      PROVE  toHost[i] \in Answers /\ toHost[i].to \in Nat
  <2>1. toHost[i] \in Answers
    BY <1>1, Elements
  <2> QED BY <1>2, <2>1 DEF Answers
<1> QED BY <1>1, <1>3, <1>4

\* Where an answer for this run is on its way no request of an earlier one is.
LEMMA MineLast ==
  ASSUME TypeInv, Good, NEW i \in DOMAIN toHost, toHost[i].to = port
  PROVE  NoneOld
BY PortTypes DEF Good, InOrder, NoneOld

\* Between calls no request is on its way that the board could accept.
LEMMA BeginGood ==
  ASSUME TypeInv, Good, NEW c, c.bytes \in Nat, Begin(c)
  PROVE  Good'
<1>1. /\ pc = "Idle" /\ call' = c /\ done' = 0 /\ obuf' = <<>>
      /\ (pc' = "Idle" => ret' = 0)
      /\ UNCHANGED <<seq_cnt, port, toBoard, toHost, mem, expected>>
  BY DEF Begin, Return, net, board
<1>2. (\A i \in DOMAIN toHost : ~MyAck(i))
      /\ (\A i \in DOMAIN toBoard : MineOnWay(i) => toBoard[i].seq # seq_cnt)
  BY <1>1 DEF Good, TheAnswers, RequestsAgree
<1>3. InOrder'
  BY <1>1 DEF Good, InOrder
<1>4. RequestsAgree'
  BY <1>1, <1>2 DEF Good, RequestsAgree, MineOnWay, NoneOld
<1>5. TheAnswers'
  BY <1>1, <1>2 DEF Good, TheAnswers, MyAck, MineAnswer
<1>6. AckTrue'
  BY <1>1, <1>2 DEF AckTrue, MyAck, MineAnswer
<1>7. MovedRight' /\ Agreed'
  BY <1>1 DEF MovedRight, Agreed
<1> QED BY <1>3, <1>4, <1>5, <1>6, <1>7 DEF Good

LEMMA SendGood ==
  ASSUME TypeInv, Good, NEW ok \in BOOLEAN, SendData(ok)
  PROVE  Good'
<1>1. /\ pc # "Idle" /\ pc' = "Recv"
      /\ UNCHANGED <<seq_cnt, call, done, obuf, ret, port, toHost, mem, expected>>
      /\ toBoard' = Append(toBoard, Request) \/ toBoard' = toBoard
  BY DEF SendData, board
<1>2. /\ Request' = Request /\ ReqLen' = ReqLen
      /\ Request \in Datagrams /\ Request.from = port /\ Request.seq = seq_cnt
      /\ toBoard \in Seq(Datagrams) /\ port \in Nat
  BY <1>1, RequestType, TypeParts DEF TypeInv, Request, ReqLen, ReqAddr
<1> DEFINE n == Len(toBoard)
<1>3. /\ n \in Nat /\ DOMAIN toBoard = 1..n
      /\ \/ toBoard' = toBoard
         \/ /\ DOMAIN toBoard' = 1..(n + 1) /\ toBoard'[n + 1] = Request
            /\ \A i \in 1..n : toBoard'[i] = toBoard[i]
  BY <1>1, <1>2, AppendFacts
<1>4. InOrder'
  <2>1. CASE toBoard' = toBoard
    BY <1>1, <2>1 DEF Good, InOrder
  <2>2. CASE /\ DOMAIN toBoard' = 1..(n + 1) /\ toBoard'[n + 1] = Request
             /\ \A i \in 1..n : toBoard'[i] = toBoard[i]
    BY <1>1, <1>2, <1>3, <2>2 DEF Good, InOrder
  <2> QED BY <1>3, <2>1, <2>2
<1>5. NoneOld' <=> NoneOld
  BY <1>1, <1>2, <1>3 DEF NoneOld
<1>6. RequestsAgree'
  <2>1. CASE toBoard' = toBoard
    BY <1>1, <1>2, <1>5, <2>1 DEF Good, RequestsAgree, MineOnWay
  <2>2. CASE /\ DOMAIN toBoard' = 1..(n + 1) /\ toBoard'[n + 1] = Request
             /\ \A i \in 1..n : toBoard'[i] = toBoard[i]
    BY <1>1, <1>2, <1>3, <1>5, <2>2 DEF Good, RequestsAgree, MineOnWay
  <2> QED BY <1>3, <2>1, <2>2
<1>7. TheAnswers'
  BY <1>1 DEF Good, TheAnswers, MyAck, MineAnswer
<1>8. AckTrue'
  BY <1>1, <1>2 DEF Good, AckTrue, MyAck, MineAnswer
<1>9. MovedRight' /\ Agreed'
  BY <1>1, <1>5 DEF Good, MovedRight, Agreed
<1> QED BY <1>4, <1>6, <1>7, <1>8, <1>9 DEF Good

LEMMA RestartGood ==
  ASSUME TypeInv, Good, HostRestart
  PROVE  Good'
<1>1. /\ port' = port + 1 /\ pc' = "Idle" /\ call' = NoCall /\ done' = 0
      /\ obuf' = <<>> /\ ret' = 0 /\ UNCHANGED <<toBoard, toHost, mem, expected>>
  BY DEF HostRestart, net, board
<1>2. /\ port \in Nat
      /\ \A i \in DOMAIN toBoard : toBoard[i].from \in Nat /\ toBoard[i].from # port'
      /\ \A i \in DOMAIN toHost : toHost[i].to \in Nat /\ toHost[i].to # port'
  BY <1>1, PortTypes DEF Good, InOrder
<1>3. InOrder'
  BY <1>1, <1>2 DEF Good, InOrder
<1>4. RequestsAgree' /\ TheAnswers' /\ AckTrue'
  BY <1>1, <1>2 DEF RequestsAgree, TheAnswers, AckTrue, MineOnWay, MyAck, MineAnswer
<1>5. MovedRight' /\ Agreed'
  BY <1>1 DEF MovedRight, Agreed, NoCall
<1> QED BY <1>3, <1>4, <1>5 DEF Good

\* An answer taken from the head of the queue, or lost, leaves the others alone.
LEMMA ShorterHost ==
  ASSUME TypeInv, toHost # <<>>, toHost' = Tail(toHost)
  PROVE  /\ 1 \in DOMAIN toHost /\ Head(toHost) = toHost[1] /\ toHost[1] \in Answers
         /\ DOMAIN toHost \subseteq Nat /\ DOMAIN toHost' \subseteq Nat
         /\ \A i \in DOMAIN toHost' : toHost'[i] = toHost[i + 1] /\ i + 1 \in DOMAIN toHost
         /\ \A i \in DOMAIN toHost \ {1} :
              i - 1 \in DOMAIN toHost' /\ toHost'[i - 1] = toHost[i] /\ i > 1
<1>1. toHost \in Seq(Answers)
  BY TypeParts DEF TypeInv
<1> QED BY <1>1, TailFacts

\* The answers behind the head agree with the numbers as long as these stay.
LEMMA ShorterAnswers ==
  ASSUME TypeInv, Good, toHost # <<>>, toHost' = Tail(toHost),
         UNCHANGED <<seq_cnt, expected, port>>,
         pc' # "Idle" \/ pc' = pc
  PROVE  TheAnswers'
<1>1. /\ \A i \in DOMAIN toHost' : MyAck(i)' <=> MyAck(i + 1)
      /\ \A i \in DOMAIN toHost' : MineAnswer(i)' <=> MineAnswer(i + 1)
  BY ShorterHost DEF MyAck, MineAnswer
<1>2. \A i \in DOMAIN toHost' : MyAck(i)' =>
        toHost'[i].seq = seq_cnt' /\ expected' = SeqField(seq_cnt' + 1) /\ pc' # "Idle"
  BY <1>1, ShorterHost DEF Good, TheAnswers
<1>3. ASSUME NEW i \in DOMAIN toHost', NEW j \in DOMAIN toHost', MyAck(i)', MyAck(j)'
      PROVE  i = j
  <2>1. i + 1 = j + 1
    BY <1>1, <1>3, ShorterHost DEF Good, TheAnswers
  <2>2. i \in Nat /\ j \in Nat
    BY ShorterHost
  <2> QED BY <2>1, <2>2
<1>4. ASSUME NEW i \in DOMAIN toHost', MineAnswer(i)', toHost'[i].nak
      PROVE  \/ \E j \in DOMAIN toHost' : i < j /\ MyAck(j)' /\ toHost'[i].seq = seq_cnt'
             \/ /\ \A j \in DOMAIN toHost' : i < j => ~MyAck(j)'
                /\ toHost'[i].seq = expected'
  <2>1. i \in Nat /\ i + 1 \in DOMAIN toHost /\ toHost'[i] = toHost[i + 1]
        /\ MineAnswer(i + 1) /\ toHost[i + 1].nak
    BY <1>1, <1>4, ShorterHost
  <2>2. CASE \E j \in DOMAIN toHost : i + 1 < j /\ MyAck(j) /\ toHost[i + 1].seq = seq_cnt
    <3>1. PICK j \in DOMAIN toHost : i + 1 < j /\ MyAck(j) /\ toHost[i + 1].seq = seq_cnt
      BY <2>2
    <3>2. j \in Nat /\ j - 1 \in DOMAIN toHost' /\ (j - 1) + 1 = j /\ i < j - 1
      BY <2>1, <3>1, ShorterHost
    <3>3. MyAck(j - 1)'
      BY <1>1, <3>1, <3>2
    <3> QED BY <2>1, <3>1, <3>2, <3>3
  <2>3. CASE /\ \A j \in DOMAIN toHost : i + 1 < j => ~MyAck(j)
             /\ toHost[i + 1].seq = expected
    <3>1. ASSUME NEW j \in DOMAIN toHost', i < j
          PROVE  ~MyAck(j)'
      <4>1. j \in Nat /\ j + 1 \in DOMAIN toHost /\ i + 1 < j + 1
        BY <2>1, <3>1, ShorterHost
      <4> QED BY <1>1, <2>3, <4>1
    <3> QED BY <2>1, <2>3, <3>1
  <2> QED BY <2>1, <2>2, <2>3 DEF Good, TheAnswers
<1> QED BY <1>2, <1>3, <1>4 DEF TheAnswers

\* A NAK brings the host's number to the one the board expects, unless the board
\* has accepted a request since: then it is the number the host has.
LEMMA NakGood ==
  ASSUME TypeInv, Good, pc = "Recv", toHost # <<>>, Head(toHost).to = port,
         Head(toHost).nak, toHost' = Tail(toHost), seq_cnt' = Head(toHost).seq,
         pc' = "Send",
         UNCHANGED <<done, obuf, ret, call, port, toBoard, mem, expected>>
  PROVE  Good'
<1>1. MineAnswer(1) /\ toHost[1].nak /\ seq_cnt' = toHost[1].seq /\ NoneOld
  BY ShorterHost, MineLast DEF MineAnswer
<1>2. \/ \E j \in DOMAIN toHost : MyAck(j) /\ seq_cnt' = seq_cnt
      \/ (\A j \in DOMAIN toHost : ~MyAck(j)) /\ seq_cnt' = expected
  <2>1. \A j \in DOMAIN toHost : j = 1 \/ 1 < j
    BY ShorterHost
  <2> QED BY <1>1, <2>1, ShorterHost DEF Good, TheAnswers, MyAck
<1>3. /\ \A i \in DOMAIN toHost' : MyAck(i)' <=> MyAck(i + 1)
      /\ \A i \in DOMAIN toHost' : MineAnswer(i)' <=> MineAnswer(i + 1)
  BY ShorterHost DEF MyAck, MineAnswer
<1>4. ReqLen' = ReqLen /\ (seq_cnt' = seq_cnt => Request' = Request)
  BY DEF Request, ReqLen, ReqAddr
<1>5. InOrder'
  BY ShorterHost DEF Good, InOrder
<1>6. RequestsAgree'
  <2>1. NoneOld'
    BY <1>1 DEF NoneOld
  <2>2. CASE seq_cnt' = seq_cnt
    BY <1>1, <1>4, <2>1, <2>2 DEF Good, RequestsAgree, MineOnWay
  <2>3. CASE seq_cnt' = expected /\ seq_cnt # expected
    <3>1. \A i \in DOMAIN toBoard : MineOnWay(i) => toBoard[i].seq # expected
      BY <2>3 DEF Good, RequestsAgree
    <3> QED BY <2>1, <2>3, <3>1 DEF RequestsAgree, MineOnWay
  <2> QED BY <1>2, <2>2, <2>3
<1>7. TheAnswers'
  <2>1. CASE \E j \in DOMAIN toHost : MyAck(j) /\ seq_cnt' = seq_cnt
    BY <2>1, ShorterAnswers
  <2>2. CASE (\A j \in DOMAIN toHost : ~MyAck(j)) /\ seq_cnt' = expected
    BY <1>3, <2>2, ShorterHost DEF Good, TheAnswers
  <2> QED BY <1>2, <2>1, <2>2
<1>8. AckTrue'
  BY <1>3, <1>4, ShorterHost DEF Good, AckTrue
<1>9. MovedRight' /\ Agreed'
  BY DEF Good, MovedRight, Agreed, NoneOld
<1> QED BY <1>5, <1>6, <1>7, <1>8, <1>9 DEF Good

\* The ACK is the one to the request the call is at: the bytes it moves are its.
LEMMA AckGood ==
  ASSUME TypeInv, Good, pc = "Recv", toHost # <<>>, Head(toHost).to = port,
         ~Head(toHost).nak, toHost' = Tail(toHost), seq_cnt' = SeqField(seq_cnt + 1),
         done' = done + (IF call.op = "read" THEN Head(toHost).len ELSE ReqLen),
         obuf' = (IF call.op = "read" THEN obuf \o Head(toHost).data ELSE obuf),
         pc' = "Send" \/ (pc' = "Idle" /\ ret' = done' /\ done' >= call.bytes),
         UNCHANGED <<call, port, toBoard, mem, expected>>
  PROVE  Good'
<1> DEFINE rsp == toHost[1]
<1>1. /\ 1 \in DOMAIN toHost /\ rsp = Head(toHost) /\ MyAck(1) /\ NoneOld
      /\ rsp \in Answers
  BY ShorterHost, MineLast DEF MyAck, MineAnswer
<1>2. /\ rsp.seq = seq_cnt /\ seq_cnt' = expected /\ seq_cnt # expected
      /\ \A i \in DOMAIN toHost : MyAck(i) => i = 1
  <2>1. seq_cnt \in SeqIdx
    BY TypeParts DEF TypeInv
  <2> QED BY <1>1, <2>1, NextSeq DEF Good, TheAnswers
<1>3. \A i \in DOMAIN toHost' : ~MyAck(i)'
  <2> SUFFICES ASSUME NEW i \in DOMAIN toHost', MyAck(i)' PROVE FALSE
    OBVIOUS
  <2>1. i + 1 \in DOMAIN toHost /\ MyAck(i + 1) /\ 1 <= i /\ i \in Nat
    BY ShorterHost, TypeParts, TailFacts DEF MyAck, MineAnswer, TypeInv
  <2> QED BY <1>2, <2>1
<1>4. /\ ReqLen \in Nat /\ done + ReqLen <= call.bytes /\ done \in Nat
      /\ call.op \in {"read", "write"} /\ call.bytes \in Nat /\ call.addr \in Nat
      /\ done' = done + ReqLen
  <2>1. /\ ReqLen \in Nat /\ done + ReqLen <= call.bytes /\ done \in Nat
        /\ call.op \in {"read", "write"} /\ call.bytes \in Nat /\ call.addr \in Nat
    BY RequestType, TypeParts DEF TypeInv, Shape
  <2> QED BY <1>1, <2>1 DEF Good, AckTrue
<1>5. InOrder'
  BY ShorterHost DEF Good, InOrder
<1>6. NoneOld'
  BY <1>1 DEF NoneOld
<1>7. RequestsAgree'
  <2>1. \A i \in DOMAIN toBoard : MineOnWay(i)' => toBoard[i].seq # seq_cnt'
    BY <1>2 DEF Good, RequestsAgree, MineOnWay
  <2> QED BY <1>2, <1>6, <2>1 DEF RequestsAgree
<1>8. TheAnswers'
  <2>1. ASSUME NEW i \in DOMAIN toHost', MineAnswer(i)', toHost'[i].nak
        PROVE  toHost'[i].seq = expected'
    <3>1. /\ i + 1 \in DOMAIN toHost /\ toHost'[i] = toHost[i + 1]
          /\ MineAnswer(i + 1) /\ toHost[i + 1].nak /\ i \in Nat /\ 1 <= i
      BY <2>1, ShorterHost, TypeParts, TailFacts DEF MineAnswer, TypeInv
    <3>2. \A j \in DOMAIN toHost : i + 1 < j => ~MyAck(j)
      BY <1>2, <3>1
    <3> QED BY <3>1, <3>2 DEF Good, TheAnswers
  <2> QED BY <1>3, <2>1 DEF TheAnswers
<1>9. AckTrue'
  BY <1>3 DEF AckTrue
<1>10. MovedRight'
  <2>1. CASE call.op = "read"
    <3>1. /\ rsp.data \in Seq(Vals) /\ obuf \in Seq(Vals) /\ Len(obuf) = done
          /\ Len(rsp.data) = ReqLen /\ obuf' = obuf \o rsp.data
          /\ \A k \in 1..ReqLen : rsp.data[k] = mem[call.addr + done + k - 1]
          /\ \A k \in 1..done : mem[call.addr + k - 1] = obuf[k]
      <4>1. rsp.data \in Seq(Vals) /\ obuf \in Seq(Vals)
        BY <1>1, TypeParts DEF Answers, TypeInv
      <4>2. /\ Len(rsp.data) = ReqLen /\ obuf' = obuf \o rsp.data
            /\ \A k \in 1..ReqLen : rsp.data[k] = mem[call.addr + done + k - 1]
        BY <1>1, <2>1 DEF Good, AckTrue
      <4>3. Len(obuf) = done /\ \A k \in 1..done : mem[call.addr + k - 1] = obuf[k]
        BY <2>1 DEF Good, MovedRight
      <4> QED BY <4>1, <4>2, <4>3
    <3>2. /\ \A k \in 1..Len(obuf) : mem[call.addr + k - 1] = obuf[k]
          /\ \A k \in 1..Len(rsp.data) : mem[call.addr + Len(obuf) + k - 1] = rsp.data[k]
      BY <3>1
    <3>3. /\ Len(obuf \o rsp.data) = done + ReqLen
          /\ \A k \in 1..(done + ReqLen) : mem[call.addr + k - 1] = (obuf \o rsp.data)[k]
      <4>1. /\ Len(obuf \o rsp.data) = Len(obuf) + Len(rsp.data)
            /\ \A k \in 1..(Len(obuf) + Len(rsp.data)) :
                 mem[call.addr + k - 1] = (obuf \o rsp.data)[k]
        <5>1. obuf \in Seq(Vals) /\ rsp.data \in Seq(Vals) /\ call.addr \in Nat
          BY <1>4, <3>1
        <5> QED BY <3>2, <5>1, JoinedCells, ZenonT(30)
      <4> QED BY <3>1, <4>1
    <3>4. done' <= call.bytes
      BY <1>4
    <3>5. Len(obuf') = done'
      BY <1>4, <3>1, <3>3, Zenon
    <3>6. \A k \in 1..done' : mem'[call.addr + k - 1] = obuf'[k]
      BY <1>4, <3>1, <3>3, Zenon
    <3> QED BY <1>6, <2>1, <3>4, <3>5, <3>6, Zenon DEF MovedRight
  <2>2. CASE call.op = "write"
    <3>1. ASSUME NEW k \in 1..done'
          PROVE  mem[call.addr + k - 1] = call.ibuf[k]
      <4>1. CASE k <= done
        BY <1>4, <2>2, <4>1 DEF Good, MovedRight
      <4>2. CASE k > done
        <5>1. /\ k - done \in 1..ReqLen /\ done + (k - done) = k
              /\ call.addr + done + (k - done) - 1 = call.addr + k - 1
          BY <1>4, <4>2
        <5> QED BY <1>1, <2>2, <5>1 DEF Good, AckTrue
      <4> QED BY <1>4, <4>1, <4>2
    <3> QED BY <1>4, <1>6, <2>2, <3>1 DEF MovedRight
  <2> QED BY <1>4, <2>1, <2>2
<1>11. Agreed'
  BY <1>2, <1>4, <1>6 DEF Agreed
<1> QED BY <1>5, <1>7, <1>8, <1>9, <1>10, <1>11 DEF Good

LEMMA AnsweredGood == ASSUME TypeInv, Good, Answered PROVE Good'
<1>1. call.bytes \in Nat /\ done' \in Nat
  BY AnsweredType, TypeParts DEF TypeInv, TypeOK
<1>2. CASE Head(toHost).nak
  BY <1>2, NakGood DEF Answered, IsNak, SeqAfterNak, board
<1>3. CASE ~Head(toHost).nak
  BY <1>1, <1>3, AckGood DEF Answered, IsNak, SeqAfterAck, Moved, Return, board
<1> QED BY <1>2, <1>3

\* A request taken from the head of the queue, or lost, leaves the others alone.
LEMMA ShorterBoard ==
  ASSUME TypeInv, toBoard # <<>>, toBoard' = Tail(toBoard)
  PROVE  /\ 1 \in DOMAIN toBoard /\ Head(toBoard) = toBoard[1] /\ toBoard[1] \in Datagrams
         /\ DOMAIN toBoard \subseteq Nat
         /\ \A i \in DOMAIN toBoard' :
              toBoard'[i] = toBoard[i + 1] /\ i + 1 \in DOMAIN toBoard /\ 1 < i + 1 /\ i \in Nat
<1>1. toBoard \in Seq(Datagrams)
  BY TypeParts DEF TypeInv
<1> QED BY <1>1, TailFacts

\* What the board and the network leave as it is when a request is gone.
LEMMA FewerRequests ==
  ASSUME TypeInv, Good, toBoard # <<>>, toBoard' = Tail(toBoard),
         UNCHANGED <<port, seq_cnt, pc, call, done>>
  PROVE  /\ \A i, j \in DOMAIN toBoard' : i < j => toBoard'[i].from <= toBoard'[j].from
         /\ \A i \in DOMAIN toBoard' : toBoard'[i].from <= port
         /\ NoneOld => NoneOld'
         /\ \A i, j \in DOMAIN toBoard' :
              i < j /\ MineOnWay(i)' /\ MineOnWay(j)' /\ toBoard'[i].seq = seq_cnt
                => toBoard'[j].seq = seq_cnt
         /\ \A i \in DOMAIN toBoard' :
              MineOnWay(i)' /\ toBoard'[i].seq = seq_cnt
                => pc # "Idle" /\ toBoard'[i] = Request'
         /\ \A i \in DOMAIN toBoard' : MineOnWay(i)' => MineOnWay(i + 1)
<1>1. Request' = Request
  BY DEF Request, ReqAddr, ReqLen
<1>2. \A i, j \in DOMAIN toBoard' : i < j => i + 1 < j + 1
  BY ShorterBoard
<1>3. \A i \in DOMAIN toBoard' : MineOnWay(i)' <=> MineOnWay(i + 1)
  BY ShorterBoard DEF MineOnWay
<1>4. /\ \A i, j \in DOMAIN toBoard' : i < j => toBoard'[i].from <= toBoard'[j].from
      /\ \A i \in DOMAIN toBoard' : toBoard'[i].from <= port
  BY <1>2, ShorterBoard DEF Good, InOrder
<1>5. NoneOld => NoneOld'
  BY ShorterBoard DEF NoneOld
<1>6. \A i, j \in DOMAIN toBoard' :
        i < j /\ MineOnWay(i)' /\ MineOnWay(j)' /\ toBoard'[i].seq = seq_cnt
          => toBoard'[j].seq = seq_cnt
  BY <1>2, <1>3, ShorterBoard DEF Good, RequestsAgree
<1>7. \A i \in DOMAIN toBoard' :
        MineOnWay(i)' /\ toBoard'[i].seq = seq_cnt => pc # "Idle" /\ toBoard'[i] = Request'
  BY <1>1, <1>3, ShorterBoard DEF Good, RequestsAgree
<1> QED BY <1>3, <1>4, <1>5, <1>6, <1>7

\* The board appends its answer to those on their way.
LEMMA LongerHost ==
  ASSUME TypeInv, NEW e \in Answers, toHost' = Append(toHost, e), port' = port
  PROVE  \E n \in Nat :
         /\ DOMAIN toHost = 1..n /\ DOMAIN toHost' = 1..(n + 1)
         /\ n + 1 \in DOMAIN toHost'
         /\ \A i \in DOMAIN toHost' : i = n + 1 \/ (i \in 1..n /\ i < n + 1)
         /\ toHost'[n + 1] = e /\ \A i \in 1..n : toHost'[i] = toHost[i]
         /\ \A i \in 1..n : MyAck(i)' <=> MyAck(i)
         /\ \A i \in 1..n : MineAnswer(i)' <=> MineAnswer(i)
<1>0. PICK n \in Nat : n = Len(toHost)
  BY TypeParts, AppendFacts DEF TypeInv
<1>1. /\ DOMAIN toHost = 1..n /\ DOMAIN toHost' = 1..(n + 1)
      /\ toHost'[n + 1] = e /\ \A i \in 1..n : toHost'[i] = toHost[i]
  BY <1>0, TypeParts, AppendFacts DEF TypeInv
<1>2. /\ \A i \in 1..n : i \in 1..(n + 1)
      /\ n + 1 \in 1..(n + 1)
      /\ \A i \in 1..(n + 1) : i = n + 1 \/ (i \in 1..n /\ i < n + 1)
  BY <1>1
<1>3. /\ \A i \in 1..n : MyAck(i)' <=> MyAck(i)
      /\ \A i \in 1..n : MineAnswer(i)' <=> MineAnswer(i)
  BY <1>1, <1>2 DEF MyAck, MineAnswer
<1> QED BY <1>1, <1>2, <1>3

\* The order of the runs is kept when the board answers.
LEMMA BoardInOrder ==
  ASSUME TypeInv, Good, toBoard # <<>>, toBoard' = Tail(toBoard),
         NEW e \in Answers, e.to = Head(toBoard).from, toHost' = Append(toHost, e),
         UNCHANGED <<port, seq_cnt, pc, call, done>>
  PROVE  InOrder'
<1>1. \A i \in DOMAIN toHost' : \/ i \in DOMAIN toHost /\ toHost'[i] = toHost[i]
                                \/ toHost'[i] = e
  BY LongerHost
<1>2. e.to <= port /\ \A j \in DOMAIN toBoard' : e.to <= toBoard'[j].from
  BY ShorterBoard DEF Good, InOrder
<1>3. \A i \in DOMAIN toHost' : toHost'[i].to <= port
  BY <1>1, <1>2 DEF Good, InOrder
<1>4. \A i \in DOMAIN toHost', j \in DOMAIN toBoard' : toHost'[i].to <= toBoard'[j].from
  BY <1>1, <1>2, ShorterBoard DEF Good, InOrder
<1> QED BY <1>3, <1>4, FewerRequests DEF InOrder

\* What a request of an earlier run does concerns nobody: it comes before this
\* run has moved a byte.
LEMMA OldGood ==
  ASSUME TypeInv, Good, toBoard # <<>>, toBoard' = Tail(toBoard),
         NEW e \in Answers, e.to = Head(toBoard).from, toHost' = Append(toHost, e),
         Head(toBoard).from # port,
         UNCHANGED <<port, seq_cnt, pc, call, done, obuf, ret>>
  PROVE  Good'
<1>1. /\ ~NoneOld /\ done = 0 /\ ~(pc = "Idle" /\ ret > 0)
  BY ShorterBoard, PortTypes, TypeParts DEF Good, MovedRight, Agreed, NoneOld, TypeInv
<1>2. \A i \in DOMAIN toHost : ~MineAnswer(i)
  BY <1>1, MineLast DEF MineAnswer
<1>3. \A i \in DOMAIN toHost' : ~MineAnswer(i)' /\ ~MyAck(i)'
  BY <1>2, LongerHost, ShorterBoard DEF MyAck, MineAnswer
<1>4. \A i \in DOMAIN toBoard' : MineOnWay(i)' => toBoard'[i].seq = seq_cnt
  BY <1>1, ShorterBoard, FewerRequests DEF Good, RequestsAgree
<1>5. RequestsAgree'
  BY <1>4, FewerRequests DEF RequestsAgree
<1>6. TheAnswers' /\ AckTrue'
  BY <1>3 DEF TheAnswers, AckTrue
<1>7. MovedRight' /\ Agreed'
  BY <1>1 DEF Good, MovedRight, Agreed
<1> QED BY <1>5, <1>6, <1>7, BoardInOrder DEF Good

\* The request refused has a number the board does not expect; the NAK has it.
LEMMA RefusedGood ==
  ASSUME TypeInv, Good, toBoard # <<>>, toBoard' = Tail(toBoard),
         Nak(Head(toBoard)) \in Answers, toHost' = Append(toHost, Nak(Head(toBoard))),
         Head(toBoard).from = port,
         UNCHANGED <<port, seq_cnt, pc, call, done, obuf, ret, mem, expected>>
  PROVE  Good'
<1> DEFINE e == Nak(Head(toBoard))
<1>1. /\ e.nak /\ e.to = port /\ e.seq = expected /\ e.to = Head(toBoard).from
      /\ e \in Answers /\ toHost' = Append(toHost, e)
  BY DEF Nak
<1>2. PICK n \in Nat :
      /\ DOMAIN toHost = 1..n /\ DOMAIN toHost' = 1..(n + 1)
      /\ n + 1 \in DOMAIN toHost'
      /\ \A i \in DOMAIN toHost' : i = n + 1 \/ (i \in 1..n /\ i < n + 1)
      /\ toHost'[n + 1] = e /\ \A i \in 1..n : toHost'[i] = toHost[i]
      /\ \A i \in 1..n : MyAck(i)' <=> MyAck(i)
      /\ \A i \in 1..n : MineAnswer(i)' <=> MineAnswer(i)
  BY LongerHost
<1> HIDE DEF e
<1>3. ~MyAck(n + 1)'
  BY <1>1, <1>2 DEF MyAck
<1>4. RequestsAgree'
  <2>1. expected' # seq_cnt' \/ ~NoneOld' =>
          \A i \in DOMAIN toBoard' : MineOnWay(i)' => toBoard'[i].seq = seq_cnt'
    BY FewerRequests, ShorterBoard DEF Good, RequestsAgree
  <2> QED BY <2>1, FewerRequests DEF RequestsAgree
<1>5. TheAnswers'
  <2>1. \A i \in DOMAIN toHost' : MyAck(i)' =>
          toHost'[i].seq = seq_cnt' /\ expected' = SeqField(seq_cnt' + 1) /\ pc' # "Idle"
    BY <1>2, <1>3 DEF Good, TheAnswers
  <2>2. \A i, j \in DOMAIN toHost' : MyAck(i)' /\ MyAck(j)' => i = j
    BY <1>2, <1>3 DEF Good, TheAnswers
  <2>3. ASSUME NEW i \in DOMAIN toHost', MineAnswer(i)', toHost'[i].nak
        PROVE  \/ \E j \in DOMAIN toHost' : i < j /\ MyAck(j)' /\ toHost'[i].seq = seq_cnt'
               \/ /\ \A j \in DOMAIN toHost' : i < j => ~MyAck(j)'
                  /\ toHost'[i].seq = expected'
    <3>1. CASE i = n + 1
      BY <1>1, <1>2, <3>1
    <3>2. CASE i \in 1..n /\ i < n + 1
      <4>1. \/ \E j \in 1..n : i < j /\ MyAck(j) /\ toHost[i].seq = seq_cnt
            \/ (\A j \in 1..n : i < j => ~MyAck(j)) /\ toHost[i].seq = expected
        BY <1>2, <2>3, <3>2 DEF Good, TheAnswers
      <4>2. \A j \in 1..n : j \in DOMAIN toHost'
        BY <1>2
      <4> QED BY <1>2, <1>3, <3>2, <4>1, <4>2
    <3> QED BY <1>2, <3>1, <3>2
  <2> QED BY <2>1, <2>2, <2>3 DEF TheAnswers
<1>6. AckTrue'
  BY <1>2, <1>3 DEF Good, AckTrue, ReqLen
<1>7. MovedRight' /\ Agreed'
  BY FewerRequests DEF Good, MovedRight, Agreed
<1> QED BY <1>1, <1>4, <1>5, <1>6, <1>7, BoardInOrder DEF Good

\* The request accepted is the one the call is at; those behind it, its repeats,
\* have a number that has been used up.
LEMMA AcceptedGood ==
  ASSUME TypeInv, Good, toBoard # <<>>, toBoard' = Tail(toBoard),
         Head(toBoard).from = port, Head(toBoard).seq = expected,
         NEW e \in Answers, ~e.nak, e.to = port, e.seq = expected,
         toHost' = Append(toHost, e), expected' = SeqField(expected + 1),
         \/ /\ Head(toBoard).op = "write" /\ mem' = Stored(Head(toBoard)) /\ e.len = 0
            /\ e.data = <<>>
         \/ /\ Head(toBoard).op # "write" /\ mem' = mem /\ e.len = Head(toBoard).len
            /\ e.data = Fetched(Head(toBoard)),
         UNCHANGED <<port, seq_cnt, pc, call, done, obuf, ret>>
  PROVE  Good'
<1> DEFINE req == toBoard[1]
<1>1. req = Head(toBoard) /\ MineOnWay(1) /\ 1 \in DOMAIN toBoard
  BY ShorterBoard DEF MineOnWay
<1>2. NoneOld
  <2>1. ASSUME NEW i \in DOMAIN toBoard
        PROVE  toBoard[i].from = port
    <3>1. toBoard[i].from \in Nat /\ toBoard[i].from <= port /\ port \in Nat
      BY PortTypes DEF Good, InOrder
    <3>2. i = 1 \/ 1 < i
      BY TypeParts, TailFacts DEF TypeInv
    <3> QED BY <1>1, <3>1, <3>2 DEF Good, InOrder, MineOnWay
  <2> QED BY <2>1 DEF NoneOld
<1>3. seq_cnt = expected /\ pc # "Idle" /\ req = Request
  BY <1>1 DEF Good, RequestsAgree
<1>4. /\ \A i \in DOMAIN toBoard : toBoard[i].seq = seq_cnt
      /\ expected' # seq_cnt
  <2>1. \A i \in DOMAIN toBoard : i = 1 \/ 1 < i
    BY ShorterBoard, TypeParts, TailFacts DEF TypeInv
  <2>2. expected' # seq_cnt
    BY <1>3, NextSeq, TypeParts DEF TypeInv
  <2> QED BY <1>1, <1>2, <1>3, <2>1, <2>2 DEF Good, RequestsAgree, MineOnWay, NoneOld
<1>5. PICK n \in Nat :
      /\ DOMAIN toHost = 1..n /\ DOMAIN toHost' = 1..(n + 1)
      /\ n + 1 \in DOMAIN toHost'
      /\ \A i \in DOMAIN toHost' : i = n + 1 \/ (i \in 1..n /\ i < n + 1)
      /\ toHost'[n + 1] = e /\ \A i \in 1..n : toHost'[i] = toHost[i]
      /\ \A i \in 1..n : MyAck(i)' <=> MyAck(i)
      /\ \A i \in 1..n : MineAnswer(i)' <=> MineAnswer(i)
  BY LongerHost
<1>6. (\A i \in 1..n : ~MyAck(i) /\ ~MyAck(i)') /\ MyAck(n + 1)'
  <2>1. \A i \in 1..n : ~MyAck(i)
    BY <1>3, <1>5, NextSeq, TypeParts DEF Good, TheAnswers, TypeInv
  <2>2. MyAck(n + 1)'
    BY <1>5 DEF MyAck, MineAnswer
  <2> QED BY <1>5, <2>1, <2>2
<1>7. RequestsAgree'
  BY <1>3, <1>4, ShorterBoard, FewerRequests DEF RequestsAgree
<1>8. TheAnswers'
  <2>1. \A i \in DOMAIN toHost' : MineAnswer(i)' /\ toHost'[i].nak =>
          i < n + 1 /\ toHost'[i].seq = seq_cnt'
    <3> SUFFICES ASSUME NEW i \in DOMAIN toHost', MineAnswer(i)', toHost'[i].nak
                 PROVE  i < n + 1 /\ toHost'[i].seq = seq_cnt'
      OBVIOUS
    <3>1. i \in 1..n /\ i < n + 1 /\ MineAnswer(i) /\ toHost[i].nak
      BY <1>5, <1>6
    <3> QED BY <1>3, <1>5, <1>6, <3>1 DEF Good, TheAnswers
  <2> QED BY <1>3, <1>5, <1>6, <2>1 DEF TheAnswers
<1>9. /\ ReqLen \in 1..Payload /\ call.addr \in Nat /\ done \in Nat
      /\ call.addr + done + ReqLen <= MemSize /\ req.addr = call.addr + done
      /\ req.len = ReqLen /\ req.op = call.op /\ ReqLen' = ReqLen
      /\ (call.op = "write" => \A k \in 1..ReqLen : req.data[k] = call.ibuf[done + k])
  BY <1>3, RequestType, TypeParts DEF TypeInv, ReqLen
<1>10. \A k \in 1..ReqLen : call.addr + done + k - 1 \in Addrs /\ k \in Nat
  BY <1>9, Sizes DEF Addrs
<1>11. AckTrue'
  <2>1. CASE call.op = "write"
    <3>1. e.len = 0 /\ e.data = <<>> /\ mem' = Stored(req)
      BY <1>1, <1>9, <2>1
    <3>2. ASSUME NEW k \in 1..ReqLen
          PROVE  mem'[call.addr + done + k - 1] = call.ibuf[done + k]
      <4>1. /\ call.addr + done + k - 1 >= req.addr
            /\ call.addr + done + k - 1 < req.addr + req.len
            /\ (call.addr + done + k - 1) - req.addr + 1 = k
        <5>1. /\ call.addr \in Nat /\ done \in Nat /\ ReqLen \in Nat /\ k \in 1..ReqLen
              /\ req.addr = call.addr + done /\ req.len = ReqLen
          BY <1>9, Sizes
        <5> HIDE DEF req
        <5> QED BY <5>1
      <4> QED BY <1>9, <1>10, <2>1, <3>1, <4>1 DEF Stored
    <3> QED BY <1>5, <1>6, <1>9, <2>1, <3>1, <3>2 DEF AckTrue
  <2>2. CASE call.op = "read"
    <3>1. e.len = ReqLen /\ e.data = Fetched(req) /\ mem' = mem
      BY <1>1, <1>9, <2>2
    <3>2. Len(e.data) = ReqLen
      BY <1>9, <3>1, Sizes DEF Fetched
    <3>3. ASSUME NEW k \in 1..ReqLen
          PROVE  e.data[k] = mem'[call.addr + done + k - 1]
      <4>1. (req.addr + k - 1) % MemSize = call.addr + done + k - 1
        <5>1. call.addr + done + k - 1 \in Nat /\ call.addr + done + k - 1 < MemSize
          BY <1>9, <1>10, Sizes DEF Addrs
        <5>2. req.addr + k - 1 = call.addr + done + k - 1
          BY <1>9, <1>10
        <5>3. (call.addr + done + k - 1) % MemSize = call.addr + done + k - 1
          BY <5>1, SmallMod, Sizes
        <5> QED BY <5>2, <5>3, Zenon
      <4> QED BY <1>9, <3>1, <4>1 DEF Fetched
    <3> QED BY <1>5, <1>6, <1>9, <2>2, <3>1, <3>2, <3>3 DEF AckTrue
  <2> QED BY <1>3, <2>1, <2>2, TypeParts DEF TypeInv, Shape
<1>12. MovedRight'
  <2>1. \A k \in 1..done : mem'[call.addr + k - 1] = mem[call.addr + k - 1]
    <3> SUFFICES ASSUME NEW k \in 1..done, mem' = Stored(req)
                 PROVE  mem'[call.addr + k - 1] = mem[call.addr + k - 1]
      BY <1>1
    <3>1. call.addr + k - 1 \in Addrs /\ call.addr + k - 1 < req.addr
      BY <1>9, Sizes DEF Addrs
    <3> QED BY <1>9, <3>1 DEF Stored, Addrs
  <2> QED BY <1>2, <2>1, FewerRequests DEF Good, MovedRight
<1>13. Agreed'
  BY <1>3 DEF Agreed
<1> QED BY <1>1, <1>7, <1>8, <1>11, <1>12, <1>13, BoardInOrder DEF Good

LEMMA BoardGood ==
  ASSUME TypeInv, Good, BoardAnswer
  PROVE  Good'
<1> DEFINE req == Head(toBoard)
<1>1. /\ toBoard # <<>> /\ toBoard' = Tail(toBoard)
      /\ UNCHANGED <<seq_cnt, pc, call, done, obuf, ret, port, bad>>
      /\ \/ /\ req.seq # expected /\ toHost' = Append(toHost, Nak(req))
            /\ mem' = mem /\ expected' = expected
         \/ /\ req.seq = expected /\ req.op = "write" /\ mem' = Stored(req)
            /\ expected' = SeqField(expected + 1)
            /\ toHost' = Append(toHost, Ack(req, 0, <<>>))
         \/ /\ req.seq = expected /\ req.op # "write" /\ mem' = mem
            /\ expected' = SeqField(expected + 1)
            /\ toHost' = Append(toHost, Ack(req, req.len, Fetched(req)))
  BY DEF BoardAnswer, host, board, SeqField
<1>2. /\ Nak(req) \in Answers /\ Ack(req, 0, <<>>) \in Answers
      /\ Ack(req, req.len, Fetched(req)) \in Answers
  BY <1>1, AnswerTypes
<1>3. PICK e \in Answers : e.to = req.from /\ toHost' = Append(toHost, e)
  BY <1>1, <1>2 DEF Nak, Ack
<1>4. CASE req.from # port
  BY <1>1, <1>3, <1>4, OldGood
<1>5. CASE req.from = port /\ req.seq # expected
  BY <1>1, <1>2, <1>5, RefusedGood
<1>6. CASE req.from = port /\ req.seq = expected /\ req.op = "write"
  <2> DEFINE f == Ack(req, 0, <<>>)
  <2>1. f \in Answers /\ ~f.nak /\ f.to = port /\ f.seq = expected /\ f.len = 0
        /\ f.data = <<>>
    BY <1>2, <1>6 DEF Ack
  <2> HIDE DEF f
  <2> QED BY <1>1, <1>6, <2>1, AcceptedGood DEF f
<1>7. CASE req.from = port /\ req.seq = expected /\ req.op # "write"
  <2> DEFINE f == Ack(req, req.len, Fetched(req))
  <2>1. /\ f \in Answers /\ ~f.nak /\ f.to = port /\ f.seq = expected
        /\ f.len = req.len /\ f.data = Fetched(req)
    BY <1>2, <1>7 DEF Ack
  <2>2. toHost' = Append(toHost, f)
    BY <1>1, <1>7
  <2> HIDE DEF f
  <2> QED BY <1>1, <1>7, <2>1, <2>2, AcceptedGood
<1> QED BY <1>4, <1>5, <1>6, <1>7

\* A lost datagram takes nothing with it that an invariant needs.
LEMMA LoseAnswerGood ==
  ASSUME TypeInv, Good, toHost # <<>>, toHost' = Tail(toHost), toBoard' = toBoard,
         UNCHANGED <<seq_cnt, pc, call, done, obuf, ret, port, mem, expected>>
  PROVE  Good'
<1>1. \A i \in DOMAIN toHost' : MyAck(i)' <=> MyAck(i + 1)
  BY ShorterHost DEF MyAck, MineAnswer
<1>2. Request' = Request /\ ReqLen' = ReqLen
  BY DEF Request, ReqLen, ReqAddr
<1>3. InOrder'
  BY ShorterHost DEF Good, InOrder
<1>4. RequestsAgree'
  BY <1>2 DEF Good, RequestsAgree, MineOnWay, NoneOld
<1>5. TheAnswers'
  BY ShorterAnswers
<1>6. AckTrue'
  BY <1>1, <1>2, ShorterHost DEF Good, AckTrue
<1>7. MovedRight' /\ Agreed'
  BY DEF Good, MovedRight, Agreed, NoneOld
<1> QED BY <1>3, <1>4, <1>5, <1>6, <1>7 DEF Good

LEMMA LoseRequestGood ==
  ASSUME TypeInv, Good, toBoard # <<>>, toBoard' = Tail(toBoard), toHost' = toHost,
         UNCHANGED <<seq_cnt, pc, call, done, obuf, ret, port, mem, expected>>
  PROVE  Good'
<1>1. InOrder'
  BY ShorterBoard, FewerRequests DEF Good, InOrder
<1>2. RequestsAgree'
  <2>1. expected' # seq_cnt' \/ ~NoneOld' =>
          \A i \in DOMAIN toBoard' : MineOnWay(i)' => toBoard'[i].seq = seq_cnt'
    BY FewerRequests, ShorterBoard DEF Good, RequestsAgree
  <2> QED BY <2>1, FewerRequests DEF RequestsAgree
<1>3. TheAnswers'
  BY DEF Good, TheAnswers, MyAck, MineAnswer
<1>4. AckTrue'
  BY DEF Good, AckTrue, MyAck, MineAnswer, ReqLen
<1>5. MovedRight' /\ Agreed'
  BY FewerRequests DEF Good, MovedRight, Agreed
<1> QED BY <1>1, <1>2, <1>3, <1>4, <1>5 DEF Good

\* A repeated request comes again before anything else does.
LEMMA RepeatGood ==
  ASSUME TypeInv, Good, toBoard # <<>>, toBoard' = <<Head(toBoard)>> \o toBoard,
         toHost' = toHost,
         UNCHANGED <<seq_cnt, pc, call, done, obuf, ret, port, mem, expected>>
  PROVE  Good'
<1> DEFINE old(i) == IF i = 1 THEN 1 ELSE i - 1
<1>1. /\ \A i \in DOMAIN toBoard' : toBoard'[i] = toBoard[old(i)] /\ old(i) \in DOMAIN toBoard
      /\ \A i, j \in DOMAIN toBoard' : i < j => old(i) = old(j) \/ old(i) < old(j)
  <2>1. /\ toBoard' \in Seq(Datagrams) /\ Len(toBoard) \in Nat \ {0}
        /\ DOMAIN toBoard = 1..Len(toBoard) /\ DOMAIN toBoard' = 1..(Len(toBoard) + 1)
        /\ toBoard'[1] = toBoard[1] /\ 1 \in DOMAIN toBoard
        /\ \A i \in DOMAIN toBoard : toBoard'[i + 1] = toBoard[i]
    BY TypeParts, RepeatFacts DEF TypeInv
  <2>2. ASSUME NEW i \in DOMAIN toBoard'
        PROVE  toBoard'[i] = toBoard[old(i)] /\ old(i) \in DOMAIN toBoard
    <3>1. CASE i = 1
      BY <2>1, <3>1
    <3>2. CASE i # 1
      <4>1. i - 1 \in DOMAIN toBoard /\ (i - 1) + 1 = i
        BY <2>1, <3>2
      <4> QED BY <2>1, <3>2, <4>1
    <3> QED BY <3>1, <3>2
  <2>3. \A i, j \in DOMAIN toBoard' : i < j => old(i) = old(j) \/ old(i) < old(j)
    BY <2>1
  <2> QED BY <2>2, <2>3
<1> HIDE DEF old
<1>2. \A i \in DOMAIN toBoard' : MineOnWay(i)' <=> MineOnWay(old(i))
  BY <1>1 DEF MineOnWay
<1>3. Request' = Request /\ ReqLen' = ReqLen
  BY DEF Request, ReqLen, ReqAddr
<1>4. NoneOld' <=> NoneOld
  <2>1. NoneOld => NoneOld'
    BY <1>1 DEF NoneOld
  <2>2. ASSUME NEW i \in DOMAIN toBoard
        PROVE  i + 1 \in DOMAIN toBoard' /\ toBoard'[i + 1] = toBoard[i]
    <3>1. toBoard \in Seq(Datagrams)
      BY TypeParts DEF TypeInv
    <3>2. /\ DOMAIN toBoard = 1..Len(toBoard) /\ Len(toBoard) \in Nat
          /\ DOMAIN toBoard' = 1..(Len(toBoard) + 1) /\ toBoard'[i + 1] = toBoard[i]
      BY <3>1, RepeatFacts
    <3> QED BY <3>2
  <2> QED BY <2>1, <2>2 DEF NoneOld
<1>5. InOrder'
  <2>1. \A i, j \in DOMAIN toBoard' : i < j => toBoard'[i].from <= toBoard'[j].from
    <3> SUFFICES ASSUME NEW i \in DOMAIN toBoard', NEW j \in DOMAIN toBoard', i < j
                 PROVE  toBoard[old(i)].from <= toBoard[old(j)].from
      BY <1>1
    <3>1. old(i) = old(j) \/ old(i) < old(j)
      BY <1>1
    <3>2. old(i) \in DOMAIN toBoard /\ old(j) \in DOMAIN toBoard
      BY <1>1
    <3> QED BY <3>1, <3>2, PortTypes DEF Good, InOrder
  <2> QED BY <1>1, <2>1 DEF Good, InOrder
<1>6. RequestsAgree'
  <2>1. ASSUME NEW i \in DOMAIN toBoard', NEW j \in DOMAIN toBoard', i < j,
               MineOnWay(i)', MineOnWay(j)', toBoard'[i].seq = seq_cnt
        PROVE  toBoard'[j].seq = seq_cnt
    <3>1. /\ old(i) = old(j) \/ old(i) < old(j)
          /\ old(i) \in DOMAIN toBoard /\ old(j) \in DOMAIN toBoard
          /\ MineOnWay(old(i)) /\ MineOnWay(old(j)) /\ toBoard[old(i)].seq = seq_cnt
          /\ toBoard'[j] = toBoard[old(j)]
      BY <1>1, <1>2, <2>1
    <3> QED BY <3>1 DEF Good, RequestsAgree
  <2> QED BY <1>1, <1>2, <1>3, <1>4, <2>1 DEF Good, RequestsAgree
<1>7. TheAnswers'
  BY DEF Good, TheAnswers, MyAck, MineAnswer
<1>8. AckTrue'
  BY <1>3 DEF Good, AckTrue, MyAck, MineAnswer
<1>9. MovedRight' /\ Agreed'
  BY <1>4 DEF Good, MovedRight, Agreed
<1> QED BY <1>5, <1>6, <1>7, <1>8, <1>9 DEF Good

-----------------------------------------------------------------------------
(* The invariant *)

LEMMA SendClean == ASSUME TypeInv, NEW ok \in BOOLEAN, SendData(ok), Clean' PROVE Clean
<1>1. CASE ok
  BY <1>1 DEF SendData, Clean
<1>2. CASE ~ok
  <2>1. bad'.dupRsp = bad.dupRsp /\ bad'.recvErr = bad.recvErr
    BY <1>2, GoesFacts, TransportAssumption DEF SendData, TypeInv, Kinds
  <2> QED BY <2>1 DEF Clean
<1> QED BY <1>1, <1>2

LEMMA RestartClean == ASSUME TypeInv, HostRestart, Clean' PROVE Clean
<1>1. bad'.dupRsp = bad.dupRsp /\ bad'.recvErr = bad.recvErr
  BY GoesFacts, TransportAssumption DEF HostRestart, TypeInv, Kinds
<1> QED BY <1>1 DEF Clean

LEMMA NextGood == TypeInv /\ (Clean => Good) /\ [Next]_vars => (Clean' => Good')
<1> SUFFICES ASSUME TypeInv, Clean => Good, [Next]_vars, Clean' PROVE Good'
  OBVIOUS
<1>1. CASE UNCHANGED vars
  BY <1>1 DEF vars, host, net, board, Clean, Good, InOrder, RequestsAgree, TheAnswers,
     AckTrue, MovedRight, Agreed, MineOnWay, MineAnswer, MyAck, NoneOld, Request, ReqLen,
     ReqAddr
<1>2. CASE Calls
  <2>1. PICK c \in [op : {"read", "write"}, addr : 0..MemSize, bytes : 0..MaxBytes,
                    ibuf : Seq(Vals)] : Begin(c)
    BY <1>2, CallFacts
  <2>2. c.bytes \in Nat /\ Clean
    BY <2>1, Sizes DEF Begin, Clean
  <2> QED BY <2>1, <2>2, BeginGood
<1>3. CASE \E ok \in BOOLEAN : SendData(ok)
  <2>1. PICK ok \in BOOLEAN : SendData(ok)
    BY <1>3
  <2>2. Clean
    BY <2>1, SendClean
  <2> QED BY <2>1, <2>2, SendGood
<1>4. CASE Answered
  BY <1>4, AnsweredGood DEF Answered, Clean
<1>5. CASE RecvError
  BY <1>5, RecvErrorType
<1>6. CASE HostRestart
  BY <1>6, RestartClean, RestartGood
<1>7. CASE BoardAnswer
  BY <1>7, BoardGood DEF BoardAnswer, Clean
<1>8. CASE Network
  <2>1. Clean
    BY <1>8, NetworkFacts
  <2> QED BY <1>8, <2>1, NetworkFacts, LoseAnswerGood, LoseRequestGood, RepeatGood
<1> QED BY <1>1, <1>2, <1>3, <1>4, <1>5, <1>6, <1>7, <1>8 DEF Next, Host

LEMMA Invariant == Spec => []IInv
<1>1. Init => IInv
  BY InitType, InitGood DEF IInv, TypeInv
<1>2. IInv /\ [Next]_vars => IInv'
  BY NextType, NextGood DEF IInv, TypeInv
<1> QED BY <1>1, <1>2, PTL DEF Spec

\* While no answer is repeated and no receive fails, host and board agree on the
\* next number after every call that moved bytes: lost datagrams, repeated
\* requests and restarts of the host do not set them apart.
THEOREM EdclCountersAgree == Spec => []CountersAgree
<1>1. IInv => CountersAgree
  BY DEF IInv, Good, Agreed, CountersAgree
<1> QED BY <1>1, Invariant, PTL

\* The ACK edcl_read and edcl_write take without comparing its number is the one
\* to the request they sent last, and has the length they asked for.
THEOREM EdclAckAnswersRequest == Spec => []AckAnswersRequest
<1>1. IInv => AckAnswersRequest
  <2> SUFFICES ASSUME IInv, Clean, toHost # <<>>, Head(toHost).to = port,
                      ~Head(toHost).nak
               PROVE  /\ Head(toHost).seq = seq_cnt
                      /\ Head(toHost).len = IF call.op = "read" THEN ReqLen ELSE 0
    BY DEF AckAnswersRequest
  <2>1. toHost \in Seq(Answers)
    BY TypeParts DEF IInv
  <2>2. Head(toHost) = toHost[1] /\ 1 \in DOMAIN toHost
    BY <2>1, TailFacts
  <2>3. MyAck(1)
    BY <2>2 DEF MyAck, MineAnswer
  <2> QED BY <2>2, <2>3 DEF IInv, Good, TheAnswers, AckTrue
<1> QED BY <1>1, Invariant, PTL

\* edcl_read copies what the answer says it has, and that fits the buffer.
THEOREM EdclReadFitsBuffer == Spec => []ReadFitsBuffer
<1>1. IInv => ReadFitsBuffer
  BY DEF IInv, Good, MovedRight, ReadFitsBuffer
<1> QED BY <1>1, Invariant, PTL

\* A call that returned its bytes has moved them, all of them and in place.
THEOREM EdclReturnedBytesAreThere == Spec => []ReturnedBytesAreThere
<1>1. IInv => ReturnedBytesAreThere
  BY DEF IInv, Good, Agreed, MovedRight, ReturnedBytesAreThere
<1> QED BY <1>1, Invariant, PTL
-----------------------------------------------------------------------------
(* EdclTransport implements RemoteMemory, with any number of repeated      *)
(* requests and of sends that fail, where no datagram is lost, no answer   *)
(* repeated and no receive fails.                                          *)

NoLoss == MaxLost = 0 /\ MaxDupRsp = 0 /\ MaxRecvErr = 0 /\ MaxRestarts = 0

\* All that is on its way is of this run, and a call that is over moved all.
ThisRun ==
  /\ Clean /\ NoneOld
  /\ \A i \in DOMAIN toHost : toHost[i].to = port
  /\ pc = "Idle" => done = call.bytes

RInv == IInv /\ ThisRun

-----------------------------------------------------------------------------
(* What cannot happen *)

LEMMA NotGoing ==
  ASSUME TypeOK, NEW kind \in Kinds, Goes(kind, 0)
  PROVE  FALSE
<1>1. bad[kind] \in Nat
  BY TypeParts
<1> QED BY <1>1 DEF Goes

LEMMA NothingLost ==
  ASSUME NoLoss, RInv, Next
  PROVE  \/ Calls \/ Host \/ BoardAnswer \/ DuplicateRequest
<1>1. ~RecvError /\ ~HostRestart /\ ~Lose /\ ~DuplicateAnswer
  BY NotGoing DEF NoLoss, RInv, IInv, Kinds, RecvError, HostRestart, Lose, DuplicateAnswer
<1>2. ~NoReceiver
  <2> SUFFICES ASSUME NoReceiver PROVE FALSE
    OBVIOUS
  <2>1. toHost \in Seq(Answers) /\ toHost # <<>>
    BY TypeParts DEF NoReceiver, RInv, IInv
  <2>2. 1 \in DOMAIN toHost /\ Head(toHost) = toHost[1]
    BY <2>1, TailFacts
  <2> QED BY <2>2 DEF NoReceiver, RInv, ThisRun
<1> QED BY <1>1, <1>2 DEF Next, Network

-----------------------------------------------------------------------------
(* The invariant *)

LEMMA RInit == Init => RInv
<1>1. Init => IInv
  BY InitType, InitGood DEF IInv, TypeInv
<1>2. Init => ThisRun
  BY DEF Init, ThisRun, Clean, NoneOld, NoCall, NoBad
<1> QED BY <1>1, <1>2 DEF RInv

LEMMA RNext == ASSUME NoLoss, RInv, [Next]_vars PROVE RInv'
<1>1. TypeInv /\ Good /\ Clean /\ NoneOld /\ toHost \in Seq(Answers)
      /\ toBoard \in Seq(Datagrams)
  BY TypeParts DEF RInv, ThisRun, IInv, TypeInv
<1>2. IInv'
  BY NextType, NextGood DEF RInv, IInv, TypeInv
<1>3. CASE UNCHANGED vars
  <2>1. ThisRun'
    BY <1>3 DEF vars, host, net, board, RInv, ThisRun, Clean, NoneOld
  <2> QED BY <1>2, <2>1 DEF RInv
<1>4. CASE Calls
  <2>1. PICK c : Begin(c)
    BY <1>4, CallFacts
  <2>2. /\ UNCHANGED <<port, toBoard, toHost, bad>> /\ call' = c /\ done' = 0
        /\ (pc' = "Idle" => c.bytes = 0)
    BY <2>1 DEF Begin, Return, net, board
  <2> QED BY <1>2, <2>2 DEF RInv, ThisRun, Clean, NoneOld
<1>5. CASE \E ok \in BOOLEAN : SendData(ok)
  <2>1. PICK ok \in BOOLEAN : SendData(ok)
    BY <1>5
  <2>2. /\ pc # "Idle" /\ pc' = "Recv" /\ UNCHANGED <<port, toHost>>
        /\ \/ toBoard' = Append(toBoard, Request) /\ bad' = bad
           \/ toBoard' = toBoard /\ Goes("sendErr", MaxSendErr)
    BY <2>1 DEF SendData
  <2>3. Clean'
    <3>1. CASE bad' = bad
      BY <1>1, <3>1 DEF Clean
    <3>2. CASE Goes("sendErr", MaxSendErr)
      <4>1. bad'.dupRsp = bad.dupRsp /\ bad'.recvErr = bad.recvErr
        BY <1>1, <3>2, GoesFacts, TransportAssumption DEF TypeInv, Kinds
      <4> QED BY <1>1, <4>1 DEF Clean
    <3> QED BY <2>2, <3>1, <3>2
  <2>4. NoneOld'
    <3>1. CASE toBoard' = toBoard
      BY <1>1, <2>2, <3>1 DEF NoneOld
    <3>2. CASE toBoard' = Append(toBoard, Request)
      <4>1. Request \in Datagrams /\ Request.from = port
        BY <1>1, <2>2, RequestType
      <4>2. \A i \in DOMAIN toBoard' : toBoard'[i] = Request
                                       \/ (i \in DOMAIN toBoard /\ toBoard'[i] = toBoard[i])
        BY <1>1, <3>2, <4>1, AppendFacts
      <4> QED BY <1>1, <2>2, <4>1, <4>2 DEF NoneOld
    <3> QED BY <2>2, <3>1, <3>2
  <2> QED BY <1>2, <2>2, <2>3, <2>4 DEF RInv, ThisRun
<1>6. CASE Answered
  <2>1. /\ toHost # <<>> /\ toHost' = Tail(toHost) /\ UNCHANGED <<port, toBoard, bad, call>>
        /\ (pc' = "Idle" => ret' = done' /\ done' >= call.bytes)
    <3>1. done' \in Nat /\ call.bytes \in Nat
      BY <1>1, <1>6, AnsweredType, TypeParts DEF TypeInv, TypeOK
    <3> QED BY <1>6, <3>1 DEF Answered, Return, board
  <2>2. \A i \in DOMAIN toHost' : toHost'[i].to = port
    BY <1>1, <2>1, ShorterHost DEF RInv, ThisRun
  <2>3. Clean' /\ NoneOld'
    BY <1>1, <2>1 DEF Clean, NoneOld
  <2>4. done' <= call.bytes /\ done' \in Nat /\ call.bytes \in Nat
    BY <1>1, <1>2, <2>1, <2>3, TypeParts DEF IInv, Good, MovedRight, TypeOK, TypeInv
  <2> QED BY <1>2, <2>1, <2>2, <2>3, <2>4 DEF RInv, ThisRun
<1>7. CASE BoardAnswer
  <2>1. /\ toBoard # <<>> /\ toBoard' = Tail(toBoard)
        /\ UNCHANGED <<pc, port, bad, call, done>>
    BY <1>7 DEF BoardAnswer, host
  <2>2. PICK e \in Answers : e.to = Head(toBoard).from /\ toHost' = Append(toHost, e)
    BY <1>1, <1>7, <2>1, AnswerTypes DEF BoardAnswer, Nak, Ack
  <2>3. e.to = port
    BY <1>1, <2>1, <2>2, ShorterBoard DEF NoneOld
  <2>4. \A i \in DOMAIN toHost' : toHost'[i] = e
                                  \/ (i \in DOMAIN toHost /\ toHost'[i] = toHost[i])
    BY <1>1, <2>2, AppendFacts
  <2>5. \A i \in DOMAIN toHost' : toHost'[i].to = port'
    BY <2>1, <2>3, <2>4 DEF RInv, ThisRun
  <2>6. NoneOld'
    BY <1>1, <2>1, ShorterBoard DEF NoneOld
  <2> QED BY <1>2, <2>1, <2>5, <2>6 DEF RInv, ThisRun, Clean
<1>8. CASE DuplicateRequest
  <2>1. /\ toBoard # <<>> /\ toBoard' = <<Head(toBoard)>> \o toBoard
        /\ Goes("dupReq", MaxDupReq) /\ UNCHANGED <<pc, port, toHost, call, done>>
    BY <1>8 DEF DuplicateRequest, host
  <2>2. bad'.dupRsp = bad.dupRsp /\ bad'.recvErr = bad.recvErr
    BY <1>1, <2>1, GoesFacts, TransportAssumption DEF TypeInv, Kinds
  <2>3. ASSUME NEW i \in DOMAIN toBoard'
        PROVE  \E j \in DOMAIN toBoard : toBoard'[i] = toBoard[j]
    <3>1. i = 1 \/ (i - 1 \in DOMAIN toBoard /\ toBoard'[(i - 1) + 1] = toBoard[i - 1])
      BY <1>1, <2>1, <2>3, RepeatFacts
    <3> QED BY <1>1, <2>1, <2>3, <3>1, RepeatFacts
  <2>4. NoneOld'
    BY <1>1, <2>1, <2>3 DEF NoneOld
  <2> QED BY <1>2, <2>1, <2>2, <2>4 DEF RInv, ThisRun, Clean
<1> QED BY <1>3, <1>4, <1>5, <1>6, <1>7, <1>8, NothingLost DEF Host

-----------------------------------------------------------------------------
(* What the board has moved *)

AckKnown ==
  /\ \A k \in DOMAIN toHost : MyAck(k) =>
       MovedSoFar = done + ReqLen /\ GotSoFar = obuf \o toHost[k].data
  /\ (\A k \in DOMAIN toHost : ~MyAck(k)) => MovedSoFar = done /\ GotSoFar = obuf

LEMMA AckFacts == RInv => AckKnown
<1> SUFFICES ASSUME RInv PROVE AckKnown
  OBVIOUS
<1>1. DOMAIN toHost = 1..Len(toHost)
  BY TypeParts DEF RInv, IInv
<1>2. \A k \in DOMAIN toHost : MyAck(k) <=> ~toHost[k].nak
  BY DEF RInv, ThisRun, MyAck, MineAnswer
<1>3. ASSUME NEW k \in DOMAIN toHost, MyAck(k)
      PROVE  MovedSoFar = done + ReqLen /\ GotSoFar = obuf \o toHost[k].data
  <2>1. pc # "Idle" /\ \A i, j \in DOMAIN toHost : MyAck(i) /\ MyAck(j) => i = j
    BY <1>3 DEF RInv, IInv, ThisRun, Good, TheAnswers
  <2>2. AckOnItsWay
    BY <1>1, <1>2, <1>3, <2>1 DEF AckOnItsWay
  <2>3. (CHOOSE i \in 1..Len(toHost) : ~toHost[i].nak) = k
    BY <1>1, <1>2, <1>3, <2>1
  <2> QED BY <2>2, <2>3 DEF MovedSoFar, GotSoFar, TheAck
<1>4. ASSUME \A k \in DOMAIN toHost : ~MyAck(k)
      PROVE  MovedSoFar = done /\ GotSoFar = obuf
  <2>1. ~AckOnItsWay
    BY <1>1, <1>2, <1>4 DEF AckOnItsWay
  <2> QED BY <2>1 DEF MovedSoFar, GotSoFar
<1> QED BY <1>3, <1>4 DEF AckKnown

\* The host takes a NAK: what the board has moved stays as it is.
LEMMA NakStutters ==
  ASSUME RInv, RInv', Answered, Head(toHost).nak
  PROVE  UNCHANGED <<mem, call, MovedSoFar, GotSoFar>>
<1>1. AckKnown /\ AckKnown'
  BY AckFacts, PTL
<1>2. /\ toHost # <<>> /\ toHost' = Tail(toHost)
      /\ UNCHANGED <<call, done, obuf, port, mem>>
  BY DEF Answered, IsNak, board
<1>3. ReqLen' = ReqLen
  BY <1>2 DEF ReqLen
<1>4. ~MyAck(1) /\ \A i \in DOMAIN toHost' :
        toHost'[i] = toHost[i + 1] /\ i + 1 \in DOMAIN toHost /\ (MyAck(i)' <=> MyAck(i + 1))
  BY <1>2, ShorterHost DEF RInv, IInv, TypeInv, MyAck, MineAnswer
<1>5. CASE \E k \in DOMAIN toHost : MyAck(k)
  <2>1. PICK k \in DOMAIN toHost : MyAck(k)
    BY <1>5
  <2>2. k - 1 \in DOMAIN toHost' /\ toHost'[k - 1] = toHost[k] /\ (k - 1) + 1 = k
    BY <1>2, <1>4, <2>1, ShorterHost DEF RInv, IInv, TypeInv
  <2>3. MyAck(k - 1)'
    BY <1>4, <2>1, <2>2
  <2>4. MovedSoFar' = done' + ReqLen' /\ GotSoFar' = obuf' \o toHost'[k - 1].data
    BY <1>1, <2>2, <2>3 DEF AckKnown
  <2>5. MovedSoFar = done + ReqLen /\ GotSoFar = obuf \o toHost[k].data
    BY <1>1, <2>1 DEF AckKnown
  <2> QED BY <1>2, <1>3, <2>2, <2>4, <2>5
<1>6. CASE \A k \in DOMAIN toHost : ~MyAck(k)
  <2>1. \A k \in DOMAIN toHost' : ~MyAck(k)'
    BY <1>4, <1>6
  <2> QED BY <1>1, <1>2, <1>6, <2>1 DEF AckKnown
<1> QED BY <1>5, <1>6

\* The host takes the ACK: it now counts the bytes the board has moved before.
LEMMA AckStutters ==
  ASSUME RInv, RInv', Answered, ~Head(toHost).nak
  PROVE  UNCHANGED <<mem, call, MovedSoFar, GotSoFar>>
<1>1. AckKnown /\ AckKnown'
  BY AckFacts, PTL
<1>2. /\ pc = "Recv" /\ toHost # <<>> /\ toHost' = Tail(toHost)
      /\ done' = done + (IF call.op = "read" THEN Head(toHost).len ELSE ReqLen)
      /\ obuf' = (IF call.op = "read" THEN obuf \o Head(toHost).data ELSE obuf)
      /\ Head(toHost).to = port
      /\ UNCHANGED <<call, port, mem>>
  BY DEF Answered, IsNak, Moved, board
<1>3. /\ 1 \in DOMAIN toHost /\ Head(toHost) = toHost[1] /\ MyAck(1)
      /\ \A i \in DOMAIN toHost' : i + 1 \in DOMAIN toHost /\ i + 1 # 1
                                   /\ (MyAck(i)' <=> MyAck(i + 1))
  BY <1>2, ShorterHost DEF RInv, IInv, TypeInv, MyAck, MineAnswer
<1>4. \A i \in DOMAIN toHost' : ~MyAck(i)'
  BY <1>3 DEF RInv, ThisRun, IInv, Good, TheAnswers
<1>5. MovedSoFar' = done' /\ GotSoFar' = obuf'
  BY <1>1, <1>4 DEF AckKnown
<1>6. MovedSoFar = done + ReqLen /\ GotSoFar = obuf \o toHost[1].data
  BY <1>1, <1>3 DEF AckKnown
<1>7. CASE call.op = "read"
  <2>1. toHost[1].len = ReqLen
    BY <1>3, <1>7 DEF RInv, ThisRun, IInv, Good, AckTrue
  <2> QED BY <1>2, <1>3, <1>5, <1>6, <1>7, <2>1
<1>8. CASE call.op # "read"
  <2>1. toHost[1].data = <<>>
    BY <1>3, <1>8 DEF RInv, ThisRun, IInv, Good, AckTrue
  <2>2. obuf \in Seq(Vals)
    BY TypeParts DEF RInv, IInv
  <2>3. obuf \o <<>> = obuf
    BY <2>2
  <2> QED BY <1>2, <1>5, <1>6, <1>8, <2>1, <2>3
<1> QED BY <1>7, <1>8

\* Neither a send nor a repeated request moves anything.
LEMMA SameAnswers ==
  ASSUME RInv, RInv', UNCHANGED <<mem, call, done, obuf, port, toHost>>
  PROVE  UNCHANGED <<mem, call, MovedSoFar, GotSoFar>>
<1>1. AckKnown /\ AckKnown'
  BY AckFacts, PTL
<1>2. ReqLen' = ReqLen /\ \A k \in DOMAIN toHost : MyAck(k)' <=> MyAck(k)
  BY DEF ReqLen, MyAck, MineAnswer
<1>3. CASE \E k \in DOMAIN toHost : MyAck(k)
  <2>1. PICK k \in DOMAIN toHost : MyAck(k) /\ MyAck(k)'
    BY <1>2, <1>3
  <2>2. MovedSoFar = done + ReqLen /\ GotSoFar = obuf \o toHost[k].data
    BY <1>1, <2>1 DEF AckKnown
  <2>3. MovedSoFar' = done' + ReqLen' /\ GotSoFar' = obuf' \o toHost'[k].data
    BY <1>1, <2>1 DEF AckKnown
  <2> QED BY <1>2, <2>2, <2>3
<1>4. CASE \A k \in DOMAIN toHost : ~MyAck(k)
  BY <1>1, <1>2, <1>4 DEF AckKnown
<1> QED BY <1>3, <1>4

\* A new call starts with nothing moved, when the one before has moved all.
LEMMA BeginBegins ==
  ASSUME RInv, RInv', NEW c, Begin(c)
  PROVE  Promise!Begin
<1>1. AckKnown /\ AckKnown'
  BY AckFacts, PTL
<1>2. pc = "Idle" /\ done' = 0 /\ obuf' = <<>> /\ UNCHANGED <<mem, toHost, port>>
  BY DEF Begin, net, board
<1>3. \A k \in DOMAIN toHost : ~MyAck(k)
  BY <1>2 DEF RInv, ThisRun, IInv, Good, TheAnswers
<1>4. \A k \in DOMAIN toHost' : ~MyAck(k)'
  BY <1>2, <1>3 DEF MyAck, MineAnswer
<1>5. MovedSoFar = call.bytes /\ MovedSoFar' = 0 /\ GotSoFar' = <<>>
  BY <1>1, <1>2, <1>3, <1>4 DEF AckKnown, RInv, ThisRun
<1> QED BY <1>2, <1>5 DEF Promise!Begin

\* The board refuses a request: no ACK comes or goes.
LEMMA RefusalStutters ==
  ASSUME RInv, RInv', NEW e \in Answers, e.nak, toHost' = Append(toHost, e),
         UNCHANGED <<mem, call, done, obuf, port>>
  PROVE  UNCHANGED <<mem, call, MovedSoFar, GotSoFar>>
<1>0. AckKnown /\ AckKnown'
  BY AckFacts, PTL
<1>1. AckKnown /\ AckKnown' /\ ReqLen' = ReqLen
  BY <1>0 DEF ReqLen
<1>2. PICK n \in Nat :
        /\ DOMAIN toHost = 1..n /\ DOMAIN toHost' = 1..(n + 1)
        /\ n + 1 \in DOMAIN toHost'
        /\ \A i \in DOMAIN toHost' : i = n + 1 \/ (i \in 1..n /\ i < n + 1)
        /\ toHost'[n + 1] = e /\ \A i \in 1..n : toHost'[i] = toHost[i]
        /\ \A i \in 1..n : MyAck(i)' <=> MyAck(i)
        /\ \A i \in 1..n : MineAnswer(i)' <=> MineAnswer(i)
  BY LongerHost DEF RInv, IInv, TypeInv
<1>3. ~MyAck(n + 1)'
  BY <1>2 DEF MyAck
<1>4. CASE \E k \in DOMAIN toHost : MyAck(k)
  <2>1. PICK k \in 1..n : MyAck(k) /\ MyAck(k)' /\ k \in DOMAIN toHost'
                          /\ toHost'[k] = toHost[k]
    BY <1>2, <1>4
  <2>2. MovedSoFar = done + ReqLen /\ GotSoFar = obuf \o toHost[k].data
    BY <1>1, <1>2, <2>1 DEF AckKnown
  <2>3. MovedSoFar' = done' + ReqLen' /\ GotSoFar' = obuf' \o toHost'[k].data
    BY <1>1, <2>1 DEF AckKnown
  <2> QED BY <1>1, <2>1, <2>2, <2>3
<1>5. CASE \A k \in DOMAIN toHost : ~MyAck(k)
  <2>1. \A k \in DOMAIN toHost' : ~MyAck(k)'
    BY <1>2, <1>3, <1>5
  <2> QED BY <1>1, <1>5, <2>1 DEF AckKnown
<1> QED BY <1>4, <1>5

\* The board accepts a request: it is the host's last, not answered before, and
\* its bytes are the next ones of the transfer.
LEMMA AcceptedMoves ==
  ASSUME RInv, RInv', toBoard # <<>>, Head(toBoard).seq = expected,
         NEW e \in Answers, ~e.nak, e.to = Head(toBoard).from,
         toHost' = Append(toHost, e),
         \/ /\ Head(toBoard).op = "write" /\ mem' = Stored(Head(toBoard))
            /\ e.data = <<>>
         \/ /\ Head(toBoard).op # "write" /\ mem' = mem
            /\ e.data = Fetched(Head(toBoard)),
         UNCHANGED <<call, done, obuf, port>>
  PROVE  Promise!Next
<1> DEFINE req == toBoard[1]
<1>1. AckKnown /\ AckKnown'
  BY AckFacts, PTL
<1>2. TypeInv /\ Good /\ NoneOld /\ 1 \in DOMAIN toBoard /\ req = Head(toBoard)
  <2>1. TypeInv /\ Good /\ NoneOld /\ toBoard \in Seq(Datagrams)
    BY TypeParts DEF RInv, IInv, ThisRun, TypeInv
  <2> QED BY <2>1, TailFacts
<1>3. req.from = port /\ MineOnWay(1)
  BY <1>2 DEF NoneOld, MineOnWay
<1>4. seq_cnt = expected /\ pc # "Idle" /\ req = Request
  BY <1>2, <1>3 DEF Good, RequestsAgree
<1>5. /\ ReqLen \in Nat /\ ReqLen >= 1 /\ done + ReqLen <= call.bytes
      /\ req.len = ReqLen /\ req.addr = call.addr + done /\ req.op = call.op
      /\ call.addr \in Nat /\ done \in Nat /\ call.bytes \in Nat
      /\ call.addr + done + ReqLen <= MemSize
      /\ DOMAIN mem = Addrs /\ obuf \in Seq(Vals)
      /\ (call.op = "write" => \A k \in 1..ReqLen : req.data[k] = call.ibuf[done + k])
  BY <1>2, <1>4, RequestType, TypeParts DEF TypeInv
<1>6. PICK n \in Nat :
        /\ DOMAIN toHost = 1..n /\ DOMAIN toHost' = 1..(n + 1)
        /\ n + 1 \in DOMAIN toHost'
        /\ \A i \in DOMAIN toHost' : i = n + 1 \/ (i \in 1..n /\ i < n + 1)
        /\ toHost'[n + 1] = e /\ \A i \in 1..n : toHost'[i] = toHost[i]
        /\ \A i \in 1..n : MyAck(i)' <=> MyAck(i)
        /\ \A i \in 1..n : MineAnswer(i)' <=> MineAnswer(i)
  BY <1>2, LongerHost
<1>7. (\A k \in DOMAIN toHost : ~MyAck(k)) /\ MyAck(n + 1)'
  <2>1. \A k \in DOMAIN toHost : ~MyAck(k)
    BY <1>2, <1>4, NextSeq, TypeParts DEF Good, TheAnswers, TypeInv
  <2>2. MyAck(n + 1)'
    BY <1>2, <1>3, <1>6 DEF MyAck, MineAnswer
  <2> QED BY <2>1, <2>2
<1>8. /\ MovedSoFar = done /\ GotSoFar = obuf
      /\ MovedSoFar' = done + ReqLen /\ GotSoFar' = obuf \o e.data
  <2>1. ReqLen' = ReqLen
    BY DEF ReqLen
  <2> QED BY <1>1, <1>6, <1>7, <2>1 DEF AckKnown
<1>9. CASE call.op = "write"
  <2>1. mem' = Stored(req) /\ e.data = <<>> /\ obuf \o <<>> = obuf
    BY <1>2, <1>5, <1>9
  <2> HIDE DEF req
  <2>2. ASSUME NEW a \in Addrs, a >= call.addr + done, a < call.addr + done + ReqLen
        PROVE  req.data[a - (call.addr + done) + 1] = call.ibuf[a - call.addr + 1]
    <3> DEFINE k == a - (call.addr + done) + 1
    <3>1. /\ call.addr \in Nat /\ done \in Nat /\ ReqLen \in Nat /\ a \in Nat
          /\ a >= call.addr + done /\ a < call.addr + done + ReqLen
      BY <1>5, <2>2, Sizes DEF Addrs
    <3>2. k \in 1..ReqLen /\ done + k = a - call.addr + 1
      BY <3>1
    <3> QED BY <1>5, <1>9, <3>2
  <2>3. mem' = [a \in DOMAIN mem |->
                  IF a >= call.addr + done /\ a < call.addr + done + ReqLen
                    THEN call.ibuf[a - call.addr + 1] ELSE mem[a]]
    BY <1>5, <2>1, <2>2 DEF Stored
  <2>4. Promise!Move(ReqLen)
    BY <1>5, <1>8, <1>9, <2>1, <2>3 DEF Promise!Move
  <2> QED BY <1>5, <2>4 DEF Promise!Next
<1>10. CASE call.op # "write"
  <2>1. mem' = mem /\ e.data = Fetched(req)
    BY <1>2, <1>5, <1>10
  <2>2. ASSUME NEW k \in 1..ReqLen
        PROVE  (req.addr + k - 1) % MemSize = call.addr + done + k - 1
    <3>1. call.addr + done + k - 1 \in Nat /\ call.addr + done + k - 1 < MemSize
      BY <1>5, Sizes, SMTT(30)
    <3>2. (call.addr + done + k - 1) % MemSize = call.addr + done + k - 1
      BY <3>1, SmallMod, Sizes
    <3> QED BY <1>5, <3>2, Zenon
  <2>3. e.data = [k \in 1..ReqLen |-> mem[call.addr + done + k - 1]]
    BY <1>5, <2>1, <2>2 DEF Fetched
  <2>4. Promise!Move(ReqLen)
    BY <1>5, <1>8, <1>10, <2>1, <2>3 DEF Promise!Move
  <2> QED BY <1>5, <2>4 DEF Promise!Next
<1> QED BY <1>9, <1>10

-----------------------------------------------------------------------------
(* The refinement *)

LEMMA InitPromised == Init => Promise!Init
<1> SUFFICES ASSUME Init PROVE Promise!Init
  OBVIOUS
<1>1. ~AckOnItsWay
  BY DEF Init, AckOnItsWay
<1> QED BY <1>1 DEF Init, NoCall, Promise!Init, MovedSoFar, GotSoFar

LEMMA BoardPromised ==
  ASSUME RInv, RInv', BoardAnswer
  PROVE  Promise!Next \/ UNCHANGED Promise!vars
<1> DEFINE req == Head(toBoard)
<1>1. /\ toBoard # <<>> /\ UNCHANGED <<call, done, obuf, port>>
      /\ \/ req.seq # expected /\ toHost' = Append(toHost, Nak(req)) /\ mem' = mem
         \/ /\ req.seq = expected /\ req.op = "write" /\ mem' = Stored(req)
            /\ toHost' = Append(toHost, Ack(req, 0, <<>>))
         \/ /\ req.seq = expected /\ req.op # "write" /\ mem' = mem
            /\ toHost' = Append(toHost, Ack(req, req.len, Fetched(req)))
  BY DEF BoardAnswer, host, board
<1>2. /\ Nak(req) \in Answers /\ Ack(req, 0, <<>>) \in Answers
      /\ Ack(req, req.len, Fetched(req)) \in Answers
  BY <1>1, AnswerTypes DEF RInv, IInv, TypeInv
<1>3. /\ Nak(req).nak
      /\ ~Ack(req, 0, <<>>).nak /\ Ack(req, 0, <<>>).to = req.from
      /\ Ack(req, 0, <<>>).data = <<>>
      /\ ~Ack(req, req.len, Fetched(req)).nak
      /\ Ack(req, req.len, Fetched(req)).to = req.from
      /\ Ack(req, req.len, Fetched(req)).data = Fetched(req)
  BY DEF Nak, Ack
<1>4. CASE req.seq # expected
  BY <1>1, <1>2, <1>3, <1>4, RefusalStutters DEF Promise!vars
<1>5. CASE req.seq = expected
  BY <1>1, <1>2, <1>3, <1>5, AcceptedMoves
<1> QED BY <1>4, <1>5

LEMMA StepPromised ==
  ASSUME NoLoss, RInv, RInv', [Next]_vars
  PROVE  [Promise!Next]_(Promise!vars)
<1>1. CASE UNCHANGED vars
  BY <1>1, SameAnswers DEF vars, host, net, board, Promise!vars
<1>2. CASE Calls
  <2>1. PICK c : Begin(c)
    BY <1>2, CallFacts
  <2> QED BY <2>1, BeginBegins DEF Promise!Next
<1>3. CASE \E ok \in BOOLEAN : SendData(ok)
  BY <1>3, SameAnswers DEF SendData, board, Promise!vars
<1>4. CASE Answered
  BY <1>4, NakStutters, AckStutters DEF Promise!vars
<1>5. CASE BoardAnswer
  BY <1>5, BoardPromised
<1>6. CASE DuplicateRequest
  BY <1>6, SameAnswers DEF DuplicateRequest, host, board, Promise!vars
<1> QED BY <1>1, <1>2, <1>3, <1>4, <1>5, <1>6, NothingLost DEF Host

\* Where nothing is lost and no receive fails, a caller of edcl_read and edcl_write
\* sees its bytes moved once and in order, whatever numbers the two sides start
\* from, however often a request is repeated and whichever sends fail.
THEOREM EdclRefines == ASSUME NoLoss PROVE Spec => ImplementsRemoteMemory
<1>1. RInv /\ [Next]_vars => RInv'
  BY RNext
<1>2. RInv /\ RInv' /\ [Next]_vars => [Promise!Next]_(Promise!vars)
  BY StepPromised
<1> QED BY RInit, InitPromised, <1>1, <1>2, PTL DEF Spec, ImplementsRemoteMemory, Promise!Spec
=============================================================================
