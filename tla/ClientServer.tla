---------------------------- MODULE ClientServer ----------------------------
(***************************************************************************)
(* client.c and serve.c: the program selftest reaches the board through a  *)
(* server that owns the Ethernet link.  A call is a datagram to the server *)
(* on the same machine, which delivers in order, and the server answers    *)
(* each one: a read with the data, a write with an empty datagram.  A      *)
(* client never waits for the answer to a write; it finds the empty        *)
(* datagrams in its socket when it waits for the data of the next read.    *)
(*                                                                         *)
(* What the server does to the board (log_edcl_read and log_edcl_write,    *)
(* which are not in the repository, and the queue) is a read or a write of *)
(* one cell of mem.                                                        *)
(*                                                                         *)
(* An operator named ..._bug is a variant of the next one with a plausible *)
(* fault; it is in no specification and serves to see that a property      *)
(* depends on that line of the code.                                       *)
(***************************************************************************)
EXTENDS Integers, Sequences, FiniteSets

CONSTANTS
  Clients,      \* programs that use the server at the same time
  Addrs, Vals,  \* the board's cells and their values
  None,         \* no value
  Burst,        \* calls a client makes between two reads of data (3 in queue.c)
  ServerBuf,    \* datagrams the server's socket holds
  ClientBuf,    \* datagrams a client's socket holds
  MaxRestarts   \* bound: restarts of each client

ASSUME ServerAssumption ==
  /\ IsFiniteSet(Clients)
  /\ Vals # {} /\ None \notin Vals /\ None \notin Addrs
  /\ Burst \in Nat /\ MaxRestarts \in Nat
  /\ ServerBuf \in Nat /\ ClientBuf \in Nat

VARIABLES
  waiting,  \* the address of a client's read in progress, or None
  since,    \* its calls since the last read that returned data
  result,   \* what that read returned
  sock,     \* the datagrams in its socket: the data, or None if empty
  run,      \* its runs: the socket of every run has another port
  inbox,    \* the datagrams in the server's socket
  lost,     \* history: it had no room for some request
  mem       \* the board

client == <<waiting, since, result, sock, run>>
vars   == <<client, inbox, lost, mem>>

Requests ==
  [cmd : {"write", "read", "read0"}, from : Clients, run : 0..MaxRestarts,
   addr : Addrs, val : Vals \cup {None}]

Init ==
  /\ waiting = [c \in Clients |-> None] /\ since = [c \in Clients |-> 0]
  /\ result = [c \in Clients |-> None] /\ sock = [c \in Clients |-> <<>>]
  /\ run = [c \in Clients |-> 0]
  /\ inbox = <<>> /\ lost = FALSE /\ mem \in [Addrs -> Vals]

\* A socket whose buffer is full drops what arrives.
Arrive(queue, datagrams, room) ==
  LET all == queue \o datagrams
  IN  IF Len(all) <= room THEN all ELSE SubSeq(all, 1, room)

Send(cmd, c, a, v) ==
  /\ inbox' = Arrive(inbox, <<[cmd |-> cmd, from |-> c, run |-> run[c],
                               addr |-> a, val |-> v]>>, ServerBuf)
  /\ lost' = (lost \/ inbox' = inbox)

-----------------------------------------------------------------------------
(* The clients *)

\* client_write and simple_write: the read of 0 bytes takes nothing from the
\* socket, and simple_write does not even try
ClientWrite(c, a, v) ==
  /\ waiting[c] = None /\ since[c] < Burst
  /\ Send("write", c, a, v)
  /\ since' = [since EXCEPT ![c] = @ + 1]
  /\ UNCHANGED <<waiting, result, sock, run, mem>>

\* client_read of 0 bytes, with which queue_block_read1(NULL, 0) ends: it sends
\* the request and returns
ClientRead0(c, a) ==
  /\ waiting[c] = None /\ since[c] < Burst
  /\ Send("read0", c, a, None)
  /\ since' = [since EXCEPT ![c] = @ + 1]
  /\ UNCHANGED <<waiting, result, sock, run, mem>>

\* client_read and simple_read: only the header of the request is sent
ClientRead(c, a) ==
  /\ waiting[c] = None
  /\ Send("read", c, a, None)
  /\ waiting' = [waiting EXCEPT ![c] = a]
  /\ UNCHANGED <<since, result, sock, run, mem>>

\* An empty datagram adds nothing to cnt, and the loop goes on.
Complete_bug(datagram) == TRUE
Complete(datagram) == datagram # None

ClientTakes(c) ==
  LET datagram == Head(sock[c]) IN
  /\ waiting[c] # None /\ sock[c] # <<>>
  /\ sock' = [sock EXCEPT ![c] = Tail(@)]
  /\ IF Complete(datagram)
       THEN /\ result' = [result EXCEPT ![c] = datagram]
            /\ waiting' = [waiting EXCEPT ![c] = None]
            /\ since' = [since EXCEPT ![c] = 0]
       ELSE UNCHANGED <<waiting, since, result>>
  /\ UNCHANGED <<run, inbox, lost, mem>>

\* The program ends at any point and is started again, with another socket.
ClientRestart(c) ==
  /\ run[c] < MaxRestarts
  /\ run' = [run EXCEPT ![c] = @ + 1]
  /\ waiting' = [waiting EXCEPT ![c] = None] /\ since' = [since EXCEPT ![c] = 0]
  /\ result' = [result EXCEPT ![c] = None] /\ sock' = [sock EXCEPT ![c] = <<>>]
  /\ UNCHANGED <<inbox, lost, mem>>

-----------------------------------------------------------------------------
(* The server *)

\* the answers to a request, one each ("break" ends every case)
Answers_bug(req) == IF req.cmd = "write" THEN <<None, None>> ELSE <<mem[req.addr]>>
Answers(req) == IF req.cmd = "read" THEN <<mem[req.addr]>> ELSE <<None>>

Performed_bug(req) ==
  IF req.cmd = "read" THEN mem ELSE [mem EXCEPT ![req.addr] = req.val]
Performed(req) ==
  IF req.cmd = "write" THEN [mem EXCEPT ![req.addr] = req.val] ELSE mem

\* one turn of the for loop; an answer to a port that is closed is lost
Serve ==
  LET req == Head(inbox) IN
  /\ inbox # <<>>
  /\ inbox' = Tail(inbox)
  /\ mem' = Performed(req)
  /\ sock' = IF req.run = run[req.from]
               THEN [sock EXCEPT ![req.from] = Arrive(@, Answers(req), ClientBuf)]
               ELSE sock
  /\ UNCHANGED <<waiting, since, result, run, lost>>

-----------------------------------------------------------------------------
Calls ==
  \E c \in Clients, a \in Addrs :
    \/ \E v \in Vals : ClientWrite(c, a, v)
    \/ ClientRead0(c, a)
    \/ ClientRead(c, a)

Next ==
  \/ Calls
  \/ \E c \in Clients : ClientTakes(c) \/ ClientRestart(c)
  \/ Serve

Spec == Init /\ [][Next]_vars

\* The server and the loop of a read never stop.
FairSpec == Spec /\ WF_vars(Serve) /\ \A c \in Clients : WF_vars(ClientTakes(c))

-----------------------------------------------------------------------------
(* Properties *)

\* The variables have their types.
TypeOK ==
  /\ waiting \in [Clients -> Addrs \cup {None}]
  /\ since \in [Clients -> 0..Burst]
  /\ result \in [Clients -> Vals \cup {None}]
  /\ sock \in [Clients -> Seq(Vals \cup {None})]
  /\ run \in [Clients -> 0..MaxRestarts]
  /\ inbox \in Seq(Requests) /\ lost \in BOOLEAN /\ mem \in [Addrs -> Vals]

\* where the requests of c's present run lie that the server has not answered
Unanswered(c) == {i \in DOMAIN inbox : inbox[i].from = c /\ inbox[i].run = run[c]}

\* The answers nobody waits for do not pile up: what a client has not answered
\* or not taken out of its socket are the calls since its last read, so the
\* socket of a client that reads now and then never drops the data.
AnswersDoNotPileUp ==
  \A c \in Clients :
    Cardinality(Unanswered(c)) + Len(sock[c])
      <= since[c] + (IF waiting[c] = None THEN 0 ELSE 1)

\* Every read of a client returns unless the server's socket lost a request: the
\* client's own socket, with room for the calls between two reads, loses no data.
ReadReturns ==
  \A c \in Clients : waiting[c] # None ~> waiting[c] = None \/ lost
=============================================================================
