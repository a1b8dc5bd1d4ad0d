--------------------------- MODULE MCClientServer ---------------------------
(* Instances of ClientServer for TLC, and its refinement of BufferedMemory. *)
EXTENDS ClientServer

\* the k-th smallest member of a finite set of numbers
Nth(P, k) == CHOOSE i \in P : Cardinality({j \in P : j < i}) = k - 1

\* the writes of c in the server's socket, of this run or an earlier one
Writes(c) == {i \in DOMAIN inbox : inbox[i].from = c /\ inbox[i].cmd = "write"}
WritesOf(c) ==
  [k \in 1..Cardinality(Writes(c)) |->
     LET req == inbox[Nth(Writes(c), k)] IN [addr |-> req.addr, val |-> req.val]]

\* the data that c waits for, when the server has sent it
DataIn(datagrams) ==
  LET data == {datagrams[i] : i \in DOMAIN datagrams} \ {None}
  IN  IF data = {} THEN None ELSE CHOOSE d \in data : TRUE
DataFor(c) == DataIn(sock[c])

Promise == INSTANCE BufferedMemory WITH
  buffer <- [c \in Clients |-> WritesOf(c)],
  asking <- waiting,
  answer <- [c \in Clients |-> DataFor(c)]

\* Seen by its programs the server is a memory with posted writes.
ImplementsBufferedMemory == Promise!Spec

=============================================================================
