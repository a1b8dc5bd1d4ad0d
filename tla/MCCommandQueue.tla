--------------------------- MODULE MCCommandQueue ---------------------------
(* Instances of CommandQueue for TLC, and its refinement of RegisterBus.   *)
EXTENDS CommandQueue

\* The queue's history variables are the state of the bus.
Promise == INSTANCE RegisterBus WITH
  pending <- todo,
  Writes  <- {Op(Write, r, v) : r \in Regs, v \in Vals},
  Reads   <- {Op(Read, r, Dead) : r \in Regs},
  Blocks  <- {Op(BlockRead, RxFifo, 1)}

\* Seen by its callers the queue is a bus of device registers.
ImplementsRegisterBus == Promise!Spec

\* Bound: a minion that starts early leaves operations undone, and the history
\* of them would grow for ever.
HistoryBound == Len(todo) <= 4 /\ Len(got) <= 4
=============================================================================
