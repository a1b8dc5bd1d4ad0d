----------------------------- MODULE RegisterBus -----------------------------
(***************************************************************************)
(* What the functions of bare_metal/queue.c promise their callers: the     *)
(* device registers seem to be on a bus that performs the operations one   *)
(* at a time in the order they were issued.  Writes are posted; a call     *)
(* that returns values, or that flushes, returns when everything issued    *)
(* before has been performed, with what the devices gave for its reads.    *)
(***************************************************************************)
EXTENDS Integers, Sequences

CONSTANTS
  Writes,   \* the operations that give no value
  Reads,    \* those that give one value
  Blocks,   \* those that give any number of values
  Vals      \* the values

VARIABLES
  pending,  \* operations issued and not performed yet, oldest first
  got,      \* values the devices gave for the call in progress
  result    \* what the last call returned

vars == <<pending, got, result>>

Init == pending = <<>> /\ got = <<>> /\ result = <<>>

Issue ==
  /\ Len(pending') > Len(pending)
  /\ SubSeq(pending', 1, Len(pending)) = pending
  /\ \A k \in Len(pending) + 1 .. Len(pending') :
       pending'[k] \in Writes \cup Reads \cup Blocks
  /\ UNCHANGED <<got, result>>

Perform ==
  /\ pending # <<>>
  /\ pending' = Tail(pending)
  /\ \/ Head(pending) \in Writes /\ got' = got
     \/ Head(pending) \in Reads /\ \E v \in Vals : got' = Append(got, v)
     \/ /\ Head(pending) \in Blocks
        /\ Len(got') >= Len(got)
        /\ SubSeq(got', 1, Len(got)) = got
  /\ UNCHANGED result

\* A call returns the values of its reads, or as many of them as it asked for.
Complete ==
  /\ pending = <<>>
  /\ \E n \in 0..Len(got) : result' = SubSeq(got, 1, n)
  /\ got' = <<>>
  /\ UNCHANGED pending

Next == Issue \/ Perform \/ Complete

Spec == Init /\ [][Next]_vars
=============================================================================
