--------------------------- MODULE BufferedMemory ---------------------------
(***************************************************************************)
(* What client.c and serve.c promise several programs that share a board:  *)
(* a write is posted, the writes of one program take effect in its order,  *)
(* and a read gives the value of the memory at one moment of the call when *)
(* all earlier writes of the same program have taken effect.               *)
(***************************************************************************)
EXTENDS Sequences

CONSTANTS Clients, Addrs, Vals,
          None    \* no address, no answer yet

VARIABLES
  mem,      \* the board's memory
  buffer,   \* writes of each client that have not taken effect
  asking,   \* the address each client waits for
  answer,   \* the value it will get
  result    \* the value its last read returned

vars == <<mem, buffer, asking, answer, result>>

Init ==
  /\ mem \in [Addrs -> Vals] /\ buffer = [c \in Clients |-> <<>>]
  /\ asking = [c \in Clients |-> None] /\ answer = [c \in Clients |-> None]
  /\ result = [c \in Clients |-> None]

Write(c) ==
  /\ asking[c] = None
  /\ \E a \in Addrs, v \in Vals :
       buffer' = [buffer EXCEPT ![c] = Append(@, [addr |-> a, val |-> v])]
  /\ UNCHANGED <<mem, asking, answer, result>>

TakeEffect(c) ==
  /\ buffer[c] # <<>>
  /\ mem' = [mem EXCEPT ![Head(buffer[c]).addr] = Head(buffer[c]).val]
  /\ buffer' = [buffer EXCEPT ![c] = Tail(@)]
  /\ UNCHANGED <<asking, answer, result>>

Ask(c) ==
  /\ asking[c] = None
  /\ \E a \in Addrs : asking' = [asking EXCEPT ![c] = a]
  /\ UNCHANGED <<mem, buffer, answer, result>>

Sample(c) ==
  /\ asking[c] # None /\ answer[c] = None /\ buffer[c] = <<>>
  /\ answer' = [answer EXCEPT ![c] = mem[asking[c]]]
  /\ UNCHANGED <<mem, buffer, asking, result>>

Deliver(c) ==
  /\ answer[c] # None
  /\ result' = [result EXCEPT ![c] = answer[c]]
  /\ asking' = [asking EXCEPT ![c] = None]
  /\ answer' = [answer EXCEPT ![c] = None]
  /\ UNCHANGED <<mem, buffer>>

\* the program ends and is started again: its writes are on their way still
Restart(c) ==
  /\ asking' = [asking EXCEPT ![c] = None]
  /\ answer' = [answer EXCEPT ![c] = None]
  /\ result' = [result EXCEPT ![c] = None]
  /\ UNCHANGED <<mem, buffer>>

Next ==
  \E c \in Clients :
    Write(c) \/ TakeEffect(c) \/ Ask(c) \/ Sample(c) \/ Deliver(c) \/ Restart(c)

Spec == Init /\ [][Next]_vars
=============================================================================
