--------------------------- MODULE MCEdclTransport ---------------------------
(* Instances of EdclTransport for TLC, and its refinement of RemoteMemory. *)
EXTENDS EdclTransport

\* The board has moved the bytes of the request whose ACK is on its way.
AckOnItsWay ==
  pc # "Idle" /\ \E k \in 1..Len(toHost) : ~toHost[k].nak

TheAck == toHost[CHOOSE k \in 1..Len(toHost) : ~toHost[k].nak]

MovedSoFar == IF AckOnItsWay THEN done + ReqLen ELSE done
GotSoFar   == IF AckOnItsWay THEN obuf \o TheAck.data ELSE obuf

Promise == INSTANCE RemoteMemory WITH moved <- MovedSoFar, got <- GotSoFar

\* Seen by their callers edcl_read and edcl_write move each byte once, in order.
ImplementsRemoteMemory == Promise!Spec
=============================================================================
