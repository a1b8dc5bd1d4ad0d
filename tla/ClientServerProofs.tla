------------------------- MODULE ClientServerProofs -------------------------
(* Theorems about ClientServer for any clients, cells, values, sizes of     *)
(* sockets and numbers of restarts: answers do not pile up in a client's    *)
(* socket, and the programs see the memory of BufferedMemory.               *)
EXTENDS MCClientServer, SequenceTheorems, FiniteSetTheorems, TLAPS

-----------------------------------------------------------------------------
(* Positions in a sequence *)

Before(P, i) == {j \in P : j < i}

LEMMA InBefore ==
  ASSUME NEW P, NEW i, NEW j
  PROVE  j \in Before(P, i) <=> j \in P /\ j < i
BY DEF Before

LEMMA Positions ==
  ASSUME NEW n \in Nat, NEW P, P \subseteq 1..n
  PROVE  IsFiniteSet(P) /\ Cardinality(P) \in Nat /\ Cardinality(P) <= n
<1>1. IsFiniteSet(1..n) /\ Cardinality(1..n) = n
  BY FS_Interval
<1>2. IsFiniteSet(P) /\ Cardinality(P) <= Cardinality(1..n)
  BY <1>1, FS_Subset
<1> QED BY <1>1, <1>2, FS_CardinalityType

\* Every number below the size of the set is how many lie before some member.
LEMMA NthFacts ==
  ASSUME NEW n \in Nat, NEW P, P \subseteq 1..n, NEW k \in 1..Cardinality(P)
  PROVE  /\ Nth(P, k) \in P /\ Cardinality(Before(P, Nth(P, k))) = k - 1
         /\ \A i \in P : Cardinality(Before(P, i)) = k - 1 => i = Nth(P, k)
<1> DEFINE f == [i \in P |-> Cardinality(Before(P, i))]
<1> DEFINE T == 0..(Cardinality(P) - 1)
<1>0. IsFiniteSet(P) /\ Cardinality(P) \in Nat
  BY Positions
<1>1. ASSUME NEW i \in P
      PROVE  IsFiniteSet(Before(P, i)) /\ Cardinality(Before(P, i)) \in T
  <2>0. i \in 1..n
    OBVIOUS
  <2>1. Before(P, i) \subseteq 1..n /\ i \notin Before(P, i)
    <3>1. ~(i < i)
      BY <2>0
    <3> QED BY <3>1, InBefore
  <2>2. IsFiniteSet(Before(P, i)) /\ Cardinality(Before(P, i)) \in Nat
    BY <2>1, Positions
  <2>3. Cardinality(Before(P, i) \cup {i}) = Cardinality(Before(P, i)) + 1
    BY <2>1, <2>2, FS_AddElement
  <2>4. Before(P, i) \cup {i} \in SUBSET P
    BY InBefore
  <2>5. Cardinality(Before(P, i) \cup {i}) <= Cardinality(P)
    BY <1>0, <2>4, FS_Subset
  <2> QED BY <1>0, <2>2, <2>3, <2>5
<1>2. ASSUME NEW i \in P, NEW j \in P, i < j
      PROVE  Cardinality(Before(P, i)) < Cardinality(Before(P, j))
  <2>0. i \in 1..n /\ j \in 1..n /\ (\A p \in P : p \in 1..n)
    OBVIOUS
  <2>1. i \notin Before(P, i) /\ Before(P, i) \cup {i} \in SUBSET Before(P, j)
    <3>1. i \notin Before(P, i)
      BY <2>0 DEF Before
    <3>2. \A p \in Before(P, i) : p \in Before(P, j)
      BY <1>2, <2>0 DEF Before
    <3>3. i \in Before(P, j)
      BY <1>2 DEF Before
    <3> QED BY <3>1, <3>2, <3>3
  <2>2. Cardinality(Before(P, i) \cup {i}) = Cardinality(Before(P, i)) + 1
    BY <1>1, <2>1, FS_AddElement
  <2>3. Cardinality(Before(P, i) \cup {i}) <= Cardinality(Before(P, j))
    BY <1>1, <2>1, FS_Subset
  <2>4. Cardinality(Before(P, i)) \in Int /\ Cardinality(Before(P, j)) \in Int
    BY <1>1
  <2> QED BY <2>2, <2>3, <2>4
<1>3. ASSUME NEW i \in P, NEW j \in P, f[i] = f[j]
      PROVE  i = j
  <2>1. i \in Nat /\ j \in Nat
    OBVIOUS
  <2>2. f[i] \in Int /\ ~(f[i] < f[j]) /\ ~(f[j] < f[i])
    BY <1>1, <1>3
  <2>3. ~(i < j) /\ ~(j < i)
    BY <1>2, <2>2
  <2> QED BY <2>1, <2>3
<1>4. f \in Injection(P, T)
  <2>1. f \in [P -> T]
    BY <1>1
  <2> HIDE DEF f, T
  <2> QED BY <1>3, <2>1 DEF Injection, IsInjective
<1>5. IsFiniteSet(T) /\ Cardinality(T) = Cardinality(P)
  <2>1. Cardinality(P) - 1 \in Int /\ 0 \in Int
    BY <1>0
  <2> QED BY <1>0, <2>1, FS_Interval
<1>6. f \in Surjection(P, T)
  BY <1>4, <1>5, FS_Injection
<1>7. k - 1 \in T
  BY <1>0
<1>8. \E i \in P : f[i] = k - 1
  BY <1>6, <1>7 DEF Surjection
<1>9. \E i \in P : Cardinality({j \in P : j < i}) = k - 1
  BY <1>8 DEF Before
<1>10. Nth(P, k) \in P /\ Cardinality(Before(P, Nth(P, k))) = k - 1
  BY <1>9 DEF Nth, Before
<1> QED BY <1>3, <1>10

\* a set with a member after all others
LEMMA NthOfMore ==
  ASSUME NEW n \in Nat, NEW P, P \subseteq 1..n
  PROVE  /\ Cardinality(P \cup {n + 1}) = Cardinality(P) + 1
         /\ \A k \in 1..Cardinality(P) : Nth(P \cup {n + 1}, k) = Nth(P, k)
         /\ Nth(P \cup {n + 1}, Cardinality(P) + 1) = n + 1
<1> DEFINE Q == P \cup {n + 1}
<1>0. \A p \in P : p \in Int /\ p < n + 1
  OBVIOUS
<1>1. IsFiniteSet(P) /\ Cardinality(P) \in Nat /\ n + 1 \notin P
  <2>1. ~(n + 1 < n + 1)
    OBVIOUS
  <2> QED BY <1>0, <2>1, Positions
<1>2. Cardinality(Q) = Cardinality(P) + 1
  BY <1>1, FS_AddElement
<1>3. Q \subseteq 1..(n + 1) /\ n + 1 \in Nat
  OBVIOUS
<1>4. ASSUME NEW k \in 1..Cardinality(P) PROVE Nth(Q, k) = Nth(P, k)
  <2>1. Nth(P, k) \in P /\ Cardinality(Before(P, Nth(P, k))) = k - 1
    BY NthFacts
  <2> DEFINE i == Nth(P, k)
  <2>2. Before(Q, i) = Before(P, i)
    <3>1. i \in Int /\ i < n + 1
      BY <1>0, <2>1
    <3> HIDE DEF i
    <3>2. ~(n + 1 < i)
      BY <3>1
    <3>3. \A j : j \in Before(Q, i) <=> j \in Before(P, i)
      BY <3>2, InBefore, Zenon
    <3> QED BY <3>3 DEF Before
  <2>3. k \in 1..Cardinality(Q)
    BY <1>1, <1>2
  <2> HIDE DEF Q
  <2>4. \A j \in Q : Cardinality(Before(Q, j)) = k - 1 => j = Nth(Q, k)
    BY <1>3, <2>3, NthFacts
  <2>5. Nth(P, k) \in Q
    BY <2>1 DEF Q
  <2> QED BY <2>1, <2>2, <2>4, <2>5
<1>5. Nth(Q, Cardinality(P) + 1) = n + 1
  <2>1. Before(Q, n + 1) = P
    <3>1. ~(n + 1 < n + 1)
      OBVIOUS
    <3>2. \A j : j \in Before(Q, n + 1) <=> j \in Q /\ j < n + 1
      BY InBefore
    <3>3. \A j : j \in Q <=> j \in P \/ j = n + 1
      OBVIOUS
    <3> HIDE DEF Q
    <3>4. \A j : j \in Before(Q, n + 1) <=> j \in P
      BY <1>0, <3>1, <3>2, <3>3, Zenon
    <3> QED BY <3>4 DEF Before
  <2>2. Cardinality(P) + 1 \in 1..Cardinality(Q) /\ n + 1 \in Q
    BY <1>1, <1>2
  <2> HIDE DEF Q
  <2>3. \A i \in Q : Cardinality(Before(Q, i)) = (Cardinality(P) + 1) - 1
                       => i = Nth(Q, Cardinality(P) + 1)
    BY <1>3, <2>2, NthFacts
  <2> QED BY <1>1, <2>1, <2>2, <2>3
<1> QED BY <1>2, <1>4, <1>5

\* the members of P as they lie when the first position is gone
Down(P, n) == {i \in 1..(n - 1) : i + 1 \in P}

LEMMA DownCardinality ==
  ASSUME NEW n \in Nat, NEW P, P \subseteq 1..n
  PROVE  Cardinality(Down(P, n)) = Cardinality(P \ {1})
<1> DEFINE f == [i \in Down(P, n) |-> i + 1]
<1>1. f \in [Down(P, n) -> P \ {1}]
  BY DEF Down
<1>2. \A i, j \in Down(P, n) : f[i] = f[j] => i = j
  BY DEF Down
<1>3. ASSUME NEW p \in P \ {1} PROVE \E i \in Down(P, n) : f[i] = p
  <2>1. p - 1 \in Down(P, n) /\ f[p - 1] = p
    BY DEF Down
  <2> QED BY <2>1
<1>4. f \in Bijection(Down(P, n), P \ {1})
  BY <1>1, <1>2, <1>3 DEF Bijection, Injection, IsInjective, Surjection
<1>5. ExistsBijection(Down(P, n), P \ {1})
  BY <1>4 DEF ExistsBijection
<1>6. IsFiniteSet(Down(P, n))
  <2>1. Down(P, n) \subseteq 1..n
    BY DEF Down
  <2> QED BY <2>1, Positions
<1> QED BY <1>5, <1>6, FS_Bijection

\* a set whose first position is gone
LEMMA NthShifted ==
  ASSUME NEW n \in Nat, NEW P, P \subseteq 1..n,
         NEW d \in 0..1, 1 \in P => d = 1, 1 \notin P => d = 0
  PROVE  /\ Cardinality(P) = Cardinality(Down(P, n)) + d
         /\ \A k \in 1..Cardinality(Down(P, n)) : Nth(P, k + d) = Nth(Down(P, n), k) + 1
         /\ d = 1 => Nth(P, 1) = 1
<1> DEFINE Q == Down(P, n)
<1>1. IsFiniteSet(P) /\ Cardinality(P) \in Nat
  BY Positions
<1>2. Cardinality(Q) = Cardinality(P \ {1})
  BY DownCardinality
<1>3. Cardinality(P) = Cardinality(Q) + d
  <2>1. Cardinality(P \ {1}) = IF 1 \in P THEN Cardinality(P) - 1 ELSE Cardinality(P)
    BY <1>1, FS_RemoveElement
  <2>2. CASE d = 1
    BY <1>1, <1>2, <2>1, <2>2
  <2>3. CASE d = 0
    BY <1>1, <1>2, <2>1, <2>3
  <2> QED BY <2>2, <2>3
<1>4. Q \subseteq 1..n
  BY DEF Down
<1>5. Cardinality(Q) \in Nat
  BY <1>4, Positions
<1>6. ASSUME NEW k \in 1..Cardinality(Q) PROVE Nth(P, k + d) = Nth(Q, k) + 1
  <2> DEFINE i == Nth(Q, k)
  <2>1. i \in Q /\ Cardinality(Before(Q, i)) = k - 1
    BY <1>4, NthFacts
  <2> HIDE DEF i
  <2>2. i + 1 \in P /\ i \in 1..(n - 1)
    BY <2>1 DEF Down
  <2> DEFINE R == Before(P, i + 1)
  <2>3. Before(Q, i) = Down(R, n)
    BY <2>2 DEF Before, Down
  <2>4. R \subseteq 1..n /\ (1 \in R <=> 1 \in P)
    <3>1. 1 < i + 1 /\ R = {j \in P : j < i + 1}
      BY <2>2 DEF Before
    <3> QED BY <3>1
  <2>5. IsFiniteSet(R) /\ Cardinality(R) \in Nat
    BY <2>4, Positions
  <2> HIDE DEF R
  <2>6. Cardinality(Down(R, n)) = Cardinality(R \ {1})
    BY <2>4, DownCardinality
  <2>7. Cardinality(R \ {1}) = IF 1 \in R THEN Cardinality(R) - 1 ELSE Cardinality(R)
    BY <2>5, FS_RemoveElement
  <2>8. Cardinality(R) = k + d - 1
    <3>1. CASE d = 1
      BY <2>1, <2>3, <2>4, <2>5, <2>6, <2>7, <3>1
    <3>2. CASE d = 0
      BY <2>1, <2>3, <2>4, <2>5, <2>6, <2>7, <3>2
    <3> QED BY <3>1, <3>2
  <2>9. k + d \in 1..Cardinality(P)
    BY <1>3, <1>5
  <2>10. \A j \in P : Cardinality(Before(P, j)) = (k + d) - 1 => j = Nth(P, k + d)
    BY <2>9, NthFacts
  <2>11. Nth(P, k + d) = i + 1
    BY <2>2, <2>8, <2>10 DEF R
  <2> QED BY <2>11 DEF i
<1>7. ASSUME d = 1 PROVE Nth(P, 1) = 1
  <2>1. 1 \in P /\ Before(P, 1) = {} /\ 1 \in 1..Cardinality(P)
    <3>1. 1 \in P
      BY <1>7
    <3>2. Before(P, 1) = {}
      <4>1. \A p \in P : ~(p < 1)
        OBVIOUS
      <4> QED BY <4>1, InBefore
    <3>3. Cardinality(P) >= 1
      BY <1>3, <1>5, <1>7
    <3> QED BY <1>1, <3>1, <3>2, <3>3
  <2>2. Cardinality(Before(P, 1)) = 1 - 1
    BY <2>1, FS_EmptySet
  <2>3. \A j \in P : Cardinality(Before(P, j)) = 1 - 1 => j = Nth(P, 1)
    BY <2>1, NthFacts
  <2> QED BY <2>1, <2>2, <2>3
<1> QED BY <1>3, <1>6, <1>7

LEMMA NthOfTail ==
  ASSUME NEW n \in Nat, NEW P, P \subseteq 1..n
  PROVE  /\ 1 \in P =>
              /\ Cardinality(P) = Cardinality(Down(P, n)) + 1 /\ Nth(P, 1) = 1
              /\ \A k \in 1..Cardinality(Down(P, n)) :
                   Nth(P, k + 1) = Nth(Down(P, n), k) + 1
         /\ 1 \notin P =>
              /\ Cardinality(P) = Cardinality(Down(P, n))
              /\ \A k \in 1..Cardinality(Down(P, n)) :
                   Nth(P, k) = Nth(Down(P, n), k) + 1
<1> DEFINE Q == Down(P, n)
<1>1. Q \subseteq 1..n
  BY DEF Down
<1>2. Cardinality(Q) \in Nat
  BY <1>1, Positions
<1>3. CASE 1 \in P
  <2>1. 1 \in 0..1 /\ (1 \in P => 1 = 1) /\ (1 \notin P => 1 = 0)
    BY <1>3
  <2> QED BY <1>3, <2>1, NthShifted
<1>4. CASE 1 \notin P
  <2>1. 0 \in 0..1 /\ (1 \in P => 0 = 1) /\ (1 \notin P => 0 = 0)
    BY <1>4
  <2>2. /\ Cardinality(P) = Cardinality(Q) + 0
        /\ \A k \in 1..Cardinality(Q) : Nth(P, k + 0) = Nth(Q, k) + 1
    BY <2>1, NthShifted
  <2> QED BY <1>2, <1>4, <2>2
<1> QED BY <1>3, <1>4

-----------------------------------------------------------------------------
(* The inductive invariant *)

Data(c) == {i \in DOMAIN sock[c] : sock[c][i] # None}

\* What is in a socket fits, and what came for an earlier run is known as such.
Sockets ==
  /\ Len(inbox) <= ServerBuf
  /\ \A c \in Clients : Len(sock[c]) <= ClientBuf
  /\ \A i \in DOMAIN inbox : inbox[i].run <= run[inbox[i].from]
  /\ \A i \in DOMAIN inbox : inbox[i].cmd = "write" => inbox[i].val \in Vals

\* The read a client waits for is the last of its requests, and its answer the
\* last datagram in its socket.
Reading(c) ==
  /\ \A i \in Unanswered(c) : inbox[i].cmd = "read" =>
       /\ waiting[c] = inbox[i].addr /\ Data(c) = {}
       /\ \A j \in DOMAIN inbox : inbox[j].from = c => j <= i
  /\ \A k \in Data(c) :
       waiting[c] # None /\ k = Len(sock[c]) /\ Unanswered(c) = {}

Pending(c) ==
  Cardinality(Unanswered(c)) + Len(sock[c])
    <= since[c] + (IF waiting[c] = None THEN 0 ELSE 1)

IInv ==
  /\ TypeOK /\ Sockets
  /\ \A c \in Clients : Reading(c) /\ Pending(c)

LEMMA TypeParts ==
  ASSUME TypeOK, NEW c \in Clients
  PROVE  /\ waiting[c] \in Addrs \cup {None} /\ since[c] \in 0..Burst
         /\ result[c] \in Vals \cup {None} /\ sock[c] \in Seq(Vals \cup {None})
         /\ run[c] \in 0..MaxRestarts /\ inbox \in Seq(Requests)
         /\ mem \in [Addrs -> Vals]
BY DEF TypeOK

LEMMA RequestFacts ==
  ASSUME NEW req \in Requests
  PROVE  /\ req.cmd \in {"write", "read", "read0"} /\ req.from \in Clients
         /\ req.run \in 0..MaxRestarts /\ req.addr \in Addrs
         /\ req.val \in Vals \cup {None}
BY DEF Requests

LEMMA ArriveFacts ==
  ASSUME NEW S, NEW q \in Seq(S), NEW e \in S, NEW room \in Nat, Len(q) <= room
  PROVE  /\ \/ Arrive(q, <<e>>, room) = Append(q, e)
            \/ Arrive(q, <<e>>, room) = q
         /\ Arrive(q, <<e>>, room) \in Seq(S)
         /\ Len(Arrive(q, <<e>>, room)) \in Len(q)..room
         /\ Len(Arrive(q, <<e>>, room)) <= Len(q) + 1
<1>1. q \o <<e>> = Append(q, e) /\ Append(q, e) \in Seq(S)
      /\ Len(Append(q, e)) = Len(q) + 1 /\ Len(q) \in Nat
      /\ \A i \in 1..Len(q) : Append(q, e)[i] = q[i]
  BY AppendProperties, AppendIsConcat, LenProperties
<1>2. CASE Len(q) + 1 <= room
  BY <1>1, <1>2 DEF Arrive
<1>3. CASE Len(q) = room
  <2>1. Arrive(q, <<e>>, room) = SubSeq(Append(q, e), 1, room)
    BY <1>1, <1>3 DEF Arrive
  <2>2. room \in 0..Len(Append(q, e))
    BY <1>1, <1>3
  <2>3. SubSeq(Append(q, e), 1, room) = [i \in 1..room |-> Append(q, e)[i]]
    BY <1>1, <2>2, SubSeqRestrict DEF Restrict
  <2>4. q = [i \in 1..room |-> q[i]]
    BY <1>3, LenProperties
  <2>5. [i \in 1..room |-> Append(q, e)[i]] = [i \in 1..room |-> q[i]]
    BY <1>1, <1>3
  <2>6. SubSeq(Append(q, e), 1, room) = q
    BY <2>3, <2>4, <2>5
  <2> QED BY <1>1, <1>3, <2>1, <2>6
<1> QED BY <1>1, <1>2, <1>3

LEMMA InitOK == ASSUME Init PROVE IInv
<1>1. TypeOK
  <2>1. 0 \in 0..Burst /\ 0 \in 0..MaxRestarts
    BY ServerAssumption
  <2>2. <<>> \in Seq(Vals \cup {None}) /\ <<>> \in Seq(Requests)
    OBVIOUS
  <2> QED BY <2>1, <2>2, Zenon DEF Init, TypeOK
<1>2. inbox = <<>> /\ DOMAIN inbox = {}
  BY DEF Init
<1>3. Sockets
  BY <1>2, ServerAssumption DEF Init, Sockets
<1>4. ASSUME NEW c \in Clients PROVE Reading(c) /\ Pending(c)
  <2>1. Unanswered(c) = {} /\ sock[c] = <<>> /\ Data(c) = {}
    BY <1>2 DEF Init, Unanswered, Data
  <2>2. waiting[c] = None /\ since[c] = 0
    BY DEF Init
  <2>3. Reading(c)
    BY <2>1 DEF Reading
  <2>4. Cardinality(Unanswered(c)) = 0 /\ Len(sock[c]) = 0
    BY <2>1, FS_EmptySet
  <2> QED BY <2>2, <2>3, <2>4 DEF Pending
<1> QED BY <1>1, <1>3, <1>4 DEF IInv

-----------------------------------------------------------------------------
(* The server's socket *)

LEMMA Sent ==
  ASSUME inbox \in Seq(Requests), NEW req \in Requests, inbox' = Append(inbox, req)
  PROVE  /\ inbox' \in Seq(Requests) /\ Len(inbox) \in Nat
         /\ DOMAIN inbox = 1..Len(inbox) /\ DOMAIN inbox' = 1..(Len(inbox) + 1)
         /\ inbox'[Len(inbox) + 1] = req
         /\ \A i \in 1..Len(inbox) : inbox'[i] = inbox[i]
<1>1. /\ inbox' \in Seq(Requests) /\ Len(inbox') = Len(inbox) + 1
      /\ \A i \in 1..Len(inbox) : inbox'[i] = inbox[i]
      /\ inbox'[Len(inbox) + 1] = req
  BY AppendProperties
<1> QED BY <1>1, LenProperties

LEMMA Taken ==
  ASSUME inbox \in Seq(Requests), inbox # <<>>, inbox' = Tail(inbox)
  PROVE  /\ inbox' \in Seq(Requests) /\ Len(inbox) \in Nat \ {0}
         /\ Len(inbox') = Len(inbox) - 1
         /\ DOMAIN inbox = 1..Len(inbox) /\ DOMAIN inbox' = 1..(Len(inbox) - 1)
         /\ Head(inbox) = inbox[1] /\ inbox[1] \in Requests
         /\ \A i \in 1..(Len(inbox) - 1) : inbox'[i] = inbox[i + 1]
<1>1. /\ inbox' \in Seq(Requests) /\ Len(inbox') = Len(inbox) - 1
      /\ \A i \in 1..Len(inbox') : inbox'[i] = inbox[i + 1]
  BY HeadTailProperties
<1>2. Len(inbox) \in Nat \ {0} /\ DOMAIN inbox = 1..Len(inbox)
  BY EmptySeq, LenProperties
<1>3. DOMAIN inbox' = 1..Len(inbox')
  BY <1>1, LenProperties
<1>4. Head(inbox) = inbox[1] /\ inbox[1] \in Requests
  BY <1>2, ElementOfSeq
<1> QED BY <1>1, <1>2, <1>3, <1>4

LEMMA UnansweredFacts ==
  ASSUME inbox \in Seq(Requests), NEW c
  PROVE  /\ Unanswered(c) \subseteq 1..Len(inbox) /\ Len(inbox) \in Nat
         /\ IsFiniteSet(Unanswered(c)) /\ Cardinality(Unanswered(c)) \in Nat
<1>1. DOMAIN inbox = 1..Len(inbox) /\ Len(inbox) \in Nat
  BY LenProperties
<1>2. Unanswered(c) \subseteq 1..Len(inbox)
  BY <1>1 DEF Unanswered
<1> QED BY <1>1, <1>2, Positions

\* What a request adds to those of its client, and of no other.
LEMMA UnansweredSent ==
  ASSUME inbox \in Seq(Requests), NEW req \in Requests, inbox' = Append(inbox, req),
         run' = run, req.run = run[req.from], NEW d
  PROVE  Unanswered(d)' = IF d = req.from THEN Unanswered(d) \cup {Len(inbox) + 1}
                                          ELSE Unanswered(d)
<1> DEFINE n == Len(inbox)
<1>1. /\ n \in Nat /\ DOMAIN inbox = 1..n /\ DOMAIN inbox' = 1..(n + 1)
      /\ inbox'[n + 1] = req /\ \A i \in 1..n : inbox'[i] = inbox[i]
  BY Sent
<1>2. Unanswered(d) = {i \in 1..n : inbox[i].from = d /\ inbox[i].run = run[d]}
  BY <1>1 DEF Unanswered
<1>3. Unanswered(d)' = {i \in 1..(n + 1) : inbox'[i].from = d /\ inbox'[i].run = run[d]}
  BY <1>1 DEF Unanswered
<1> HIDE DEF n
<1>4. \A i : i \in 1..(n + 1) <=> i \in 1..n \/ i = n + 1
  BY <1>1
<1>5. \A i \in Unanswered(d)' : i \in Unanswered(d) \/ (i = n + 1 /\ d = req.from)
  BY <1>1, <1>2, <1>3, <1>4
<1>6. \A i \in Unanswered(d) : i \in Unanswered(d)'
  BY <1>1, <1>2, <1>3, <1>4
<1>7. d = req.from => n + 1 \in Unanswered(d)'
  BY <1>1, <1>3, <1>4
<1>8. CASE d = req.from
  BY <1>5, <1>6, <1>7, <1>8 DEF n
<1>9. CASE d # req.from
  BY <1>5, <1>6, <1>9
<1> QED BY <1>8, <1>9

LEMMA UnansweredTaken ==
  ASSUME inbox \in Seq(Requests), inbox # <<>>, inbox' = Tail(inbox), run' = run, NEW d
  PROVE  Unanswered(d)' = Down(Unanswered(d), Len(inbox))
<1> DEFINE n == Len(inbox)
<1>1. /\ n \in Nat \ {0} /\ DOMAIN inbox = 1..n /\ DOMAIN inbox' = 1..(n - 1)
      /\ \A i \in 1..(n - 1) : inbox'[i] = inbox[i + 1]
  BY Taken
<1>2. Unanswered(d) = {i \in 1..n : inbox[i].from = d /\ inbox[i].run = run[d]}
  BY <1>1 DEF Unanswered
<1>3. Unanswered(d)' = {i \in 1..(n - 1) : inbox'[i].from = d /\ inbox'[i].run = run[d]}
  BY <1>1 DEF Unanswered
<1> HIDE DEF n
<1>4. \A i \in 1..(n - 1) : i + 1 \in 1..n
  BY <1>1
<1>5. \A i \in 1..(n - 1) : i \in Unanswered(d)' <=> i + 1 \in Unanswered(d)
  BY <1>1, <1>2, <1>3, <1>4
<1>6. Unanswered(d)' = {i \in 1..(n - 1) : i + 1 \in Unanswered(d)}
  BY <1>3, <1>5
<1> QED BY <1>6 DEF Down, n

LEMMA SameInbox ==
  ASSUME UNCHANGED <<inbox, run>>, NEW d
  PROVE  Unanswered(d)' = Unanswered(d)
BY DEF Unanswered

-----------------------------------------------------------------------------
(* The calls *)

LEMMA SendOK ==
  ASSUME IInv, NEW c \in Clients, NEW a \in Addrs, NEW v \in Vals \cup {None},
         NEW cmd \in {"write", "read", "read0"}, cmd = "write" => v \in Vals,
         waiting[c] = None, Send(cmd, c, a, v),
         \/ /\ cmd # "read" /\ since[c] < Burst
            /\ since' = [since EXCEPT ![c] = @ + 1] /\ waiting' = waiting
         \/ /\ cmd = "read"
            /\ since' = since /\ waiting' = [waiting EXCEPT ![c] = a],
         UNCHANGED <<result, sock, run, mem>>
  PROVE  IInv'
<1> DEFINE req == [cmd |-> cmd, from |-> c, run |-> run[c], addr |-> a, val |-> v]
<1> DEFINE n == Len(inbox)
<1>1. /\ inbox \in Seq(Requests) /\ req \in Requests /\ req.from = c /\ req.run = run[c]
      /\ req.cmd = cmd /\ req.addr = a /\ req.val = v
  BY TypeParts DEF IInv, Requests
<1>2. inbox' = Arrive(inbox, <<req>>, ServerBuf)
  BY DEF Send
<1> HIDE DEF req
<1>3. /\ inbox' = Append(inbox, req) \/ inbox' = inbox
      /\ inbox' \in Seq(Requests) /\ Len(inbox') <= ServerBuf
  <2>1. ServerBuf \in Nat /\ Len(inbox) <= ServerBuf /\ Len(inbox) \in Nat
    BY <1>1, ServerAssumption, LenProperties DEF IInv, Sockets
  <2>2. /\ \/ Arrive(inbox, <<req>>, ServerBuf) = Append(inbox, req)
           \/ Arrive(inbox, <<req>>, ServerBuf) = inbox
        /\ Arrive(inbox, <<req>>, ServerBuf) \in Seq(Requests)
        /\ Len(Arrive(inbox, <<req>>, ServerBuf)) \in Len(inbox)..ServerBuf
    BY <1>1, <2>1, ArriveFacts
  <2> QED BY <1>2, <2>1, <2>2
<1>4. TypeOK'
  <2>1. waiting' \in [Clients -> Addrs \cup {None}]
    BY DEF IInv, TypeOK
  <2>2. since' \in [Clients -> 0..Burst]
    <3>1. since[c] \in 0..Burst /\ Burst \in Nat
      BY TypeParts, ServerAssumption DEF IInv
    <3>2. since[c] < Burst => since[c] + 1 \in 0..Burst
      BY <3>1
    <3> QED BY <3>2 DEF IInv, TypeOK
  <2>3. lost' \in BOOLEAN
    BY DEF Send, IInv, TypeOK
  <2> QED BY <1>3, <2>1, <2>2, <2>3 DEF IInv, TypeOK
<1>5. Sockets'
  <2>1. CASE inbox' = inbox
    BY <1>3, <2>1 DEF IInv, Sockets
  <2>2. CASE inbox' = Append(inbox, req)
    <3>1. /\ n \in Nat /\ DOMAIN inbox = 1..n /\ DOMAIN inbox' = 1..(n + 1)
          /\ inbox'[n + 1] = req /\ \A i \in 1..n : inbox'[i] = inbox[i]
      BY <1>1, <2>2, Sent
    <3>2. run[c] <= run[c]
      BY TypeParts DEF IInv
    <3>3. ASSUME NEW i \in DOMAIN inbox'
          PROVE  /\ inbox'[i].run <= run'[inbox'[i].from]
                 /\ inbox'[i].cmd = "write" => inbox'[i].val \in Vals
      <4>1. CASE i = n + 1
        BY <1>1, <3>1, <3>2, <4>1
      <4>2. CASE i \in DOMAIN inbox
        BY <3>1, <4>2 DEF IInv, Sockets
      <4> QED BY <3>1, <4>1, <4>2
    <3> QED BY <1>3, <3>3 DEF IInv, Sockets
  <2> QED BY <1>3, <2>1, <2>2
<1>6. ASSUME NEW d \in Clients PROVE Data(d)' = Data(d)
  BY DEF Data
<1>7. Data(c) = {}
  BY DEF IInv, Reading
<1>8. \A i \in Unanswered(c) : inbox[i].cmd # "read"
  <2>1. \A i \in Unanswered(c) : inbox[i].addr \in Addrs
    <3> SUFFICES ASSUME NEW i \in Unanswered(c) PROVE inbox[i].addr \in Addrs
      OBVIOUS
    <3>1. inbox[i] \in Requests
      BY <1>1, UnansweredFacts, ElementOfSeq
    <3> QED BY <3>1, RequestFacts
  <2> QED BY <2>1, ServerAssumption DEF IInv, Reading
<1>9. ASSUME NEW d \in Clients PROVE Reading(d)'
  <2>1. CASE inbox' = inbox
    <3>1. Unanswered(d)' = Unanswered(d)
      BY <2>1, SameInbox
    <3>2. CASE d = c
      BY <1>6, <1>7, <1>8, <2>1, <3>1, <3>2 DEF Reading
    <3>3. CASE d # c
      <4>1. waiting'[d] = waiting[d] /\ Reading(d)
        BY <3>3 DEF IInv, TypeOK
      <4> QED BY <1>6, <2>1, <3>1, <4>1 DEF Reading
    <3> QED BY <3>2, <3>3
  <2>2. CASE inbox' = Append(inbox, req)
    <3>1. /\ n \in Nat /\ DOMAIN inbox = 1..n /\ DOMAIN inbox' = 1..(n + 1)
          /\ inbox'[n + 1] = req /\ \A i \in 1..n : inbox'[i] = inbox[i]
      BY <1>1, <2>2, Sent
    <3>2. Unanswered(d)' = IF d = c THEN Unanswered(d) \cup {n + 1} ELSE Unanswered(d)
      BY <1>1, <2>2, UnansweredSent
    <3>3. Unanswered(d) \subseteq 1..n
      BY <1>1, UnansweredFacts
    <3> HIDE DEF n
    <3>4. CASE d = c
      <4>1. ASSUME NEW i \in Unanswered(c)', inbox'[i].cmd = "read"
            PROVE  /\ waiting'[c] = inbox'[i].addr /\ Data(c)' = {}
                   /\ \A j \in DOMAIN inbox' : inbox'[j].from = c => j <= i
        <5>1. i = n + 1
          BY <1>8, <3>1, <3>2, <3>3, <3>4, <4>1
        <5>2. cmd = "read" /\ inbox'[i].addr = a
          BY <1>1, <3>1, <4>1, <5>1
        <5>3. waiting'[c] = a
          BY <5>2 DEF IInv, TypeOK
        <5>4. \A j \in DOMAIN inbox' : j <= i
          BY <3>1, <5>1
        <5> QED BY <1>6, <1>7, <5>2, <5>3, <5>4
      <4> QED BY <1>6, <1>7, <3>4, <4>1 DEF Reading
    <3>5. CASE d # c
      <4>1. waiting'[d] = waiting[d] /\ Reading(d) /\ Unanswered(d)' = Unanswered(d)
        BY <3>2, <3>5 DEF IInv, TypeOK
      <4>2. \A j \in DOMAIN inbox' : inbox'[j].from = d => j \in DOMAIN inbox /\ inbox'[j] = inbox[j]
        BY <1>1, <3>1, <3>5
      <4>3. \A i \in Unanswered(d) : inbox'[i] = inbox[i]
        BY <3>1, <3>3
      <4> QED BY <1>6, <4>1, <4>2, <4>3 DEF Reading
    <3> QED BY <3>4, <3>5
  <2> QED BY <1>3, <2>1, <2>2
<1>10. ASSUME NEW d \in Clients PROVE Pending(d)'
  <2>1. /\ IsFiniteSet(Unanswered(d)) /\ Cardinality(Unanswered(d)) \in Nat
        /\ Unanswered(d) \subseteq 1..n /\ n \in Nat
    BY <1>1, UnansweredFacts
  <2>2. Len(sock[d]) \in Nat /\ sock' = sock /\ since[d] \in 0..Burst
    BY TypeParts, LenProperties DEF IInv
  <2>3. Pending(d)
    BY DEF IInv
  <2>4. n + 1 \notin Unanswered(d)
    BY <2>1
  <2>5. Cardinality(Unanswered(d) \cup {n + 1}) = Cardinality(Unanswered(d)) + 1
    BY <2>1, <2>4, FS_AddElement
  <2>6. /\ Cardinality(Unanswered(d)') \in Nat
        /\ Cardinality(Unanswered(d)')
             <= Cardinality(Unanswered(d)) + (IF d = c THEN 1 ELSE 0)
    <3>1. CASE inbox' = inbox
      <4>1. Unanswered(d)' = Unanswered(d)
        BY <3>1, SameInbox
      <4> QED BY <2>1, <4>1
    <3>2. CASE inbox' = Append(inbox, req)
      <4>1. Unanswered(d)' = IF d = c THEN Unanswered(d) \cup {n + 1} ELSE Unanswered(d)
        BY <1>1, <3>2, UnansweredSent
      <4> QED BY <2>1, <2>5, <4>1
    <3> QED BY <1>3, <3>1, <3>2
  <2>7. CASE d # c
    <3>1. waiting'[d] = waiting[d] /\ since'[d] = since[d]
      BY <2>7 DEF IInv, TypeOK
    <3> QED BY <2>1, <2>2, <2>3, <2>6, <2>7, <3>1 DEF Pending
  <2>8. CASE d = c /\ cmd # "read"
    <3>1. waiting'[d] = None /\ waiting[d] = None /\ since'[d] = since[d] + 1
      BY <2>8 DEF IInv, TypeOK
    <3> QED BY <2>1, <2>2, <2>3, <2>6, <2>8, <3>1 DEF Pending
  <2>9. CASE d = c /\ cmd = "read"
    <3>1. waiting'[d] = a /\ waiting[d] = None /\ a # None /\ since'[d] = since[d]
      BY <2>9, ServerAssumption DEF IInv, TypeOK
    <3> QED BY <2>1, <2>2, <2>3, <2>6, <2>9, <3>1 DEF Pending
  <2> QED BY <2>7, <2>8, <2>9
<1> QED BY <1>4, <1>5, <1>9, <1>10 DEF IInv

-----------------------------------------------------------------------------
(* A client takes an answer, or starts again *)

LEMMA TakesOK ==
  ASSUME IInv, NEW c \in Clients, ClientTakes(c)
  PROVE  IInv'
<1> DEFINE datagram == Head(sock[c])
<1>1. /\ sock[c] \in Seq(Vals \cup {None}) /\ sock[c] # <<>>
      /\ sock' = [sock EXCEPT ![c] = Tail(sock[c])]
      /\ UNCHANGED <<run, inbox, lost, mem>>
  BY TypeParts DEF IInv, ClientTakes
<1>2. /\ Tail(sock[c]) \in Seq(Vals \cup {None}) /\ Len(sock[c]) \in Nat \ {0}
      /\ Len(Tail(sock[c])) = Len(sock[c]) - 1
      /\ DOMAIN sock[c] = 1..Len(sock[c])
      /\ DOMAIN Tail(sock[c]) = 1..(Len(sock[c]) - 1)
      /\ datagram = sock[c][1] /\ datagram \in Vals \cup {None}
      /\ \A i \in 1..(Len(sock[c]) - 1) : Tail(sock[c])[i] = sock[c][i + 1]
  <2>1. Len(sock[c]) \in Nat \ {0} /\ DOMAIN sock[c] = 1..Len(sock[c])
    BY <1>1, EmptySeq, LenProperties
  <2>2. /\ Tail(sock[c]) \in Seq(Vals \cup {None})
        /\ Len(Tail(sock[c])) = Len(sock[c]) - 1
        /\ datagram \in Vals \cup {None}
        /\ \A i \in 1..Len(Tail(sock[c])) : Tail(sock[c])[i] = sock[c][i + 1]
    BY <1>1, HeadTailProperties
  <2>3. DOMAIN Tail(sock[c]) = 1..Len(Tail(sock[c]))
    BY <2>2, LenProperties
  <2>4. datagram = sock[c][1]
    BY <1>1
  <2> QED BY <2>1, <2>2, <2>3, <2>4
<1>3. sock'[c] = Tail(sock[c]) /\ \A d \in Clients \ {c} : sock'[d] = sock[d]
  BY <1>1 DEF IInv, TypeOK
<1>4. \/ /\ datagram # None
         /\ result' = [result EXCEPT ![c] = datagram]
         /\ waiting' = [waiting EXCEPT ![c] = None]
         /\ since' = [since EXCEPT ![c] = 0]
      \/ /\ datagram = None
         /\ UNCHANGED <<waiting, since, result>>
  BY DEF ClientTakes, Complete
<1> HIDE DEF datagram
<1>5. \A d \in Clients \ {c} : waiting'[d] = waiting[d] /\ since'[d] = since[d]
  BY <1>4 DEF IInv, TypeOK
<1>6. TypeOK'
  <2>1. sock' \in [Clients -> Seq(Vals \cup {None})]
    BY <1>1, <1>2 DEF IInv, TypeOK
  <2>2. CASE datagram # None
    <3>1. datagram \in Vals \cup {None} /\ 0 \in 0..Burst
      BY <1>2, ServerAssumption
    <3>2. result' \in [Clients -> Vals \cup {None}]
      BY <1>4, <2>2, <3>1 DEF IInv, TypeOK
    <3>3. waiting' \in [Clients -> Addrs \cup {None}] /\ since' \in [Clients -> 0..Burst]
      BY <1>4, <2>2, <3>1 DEF IInv, TypeOK
    <3> QED BY <1>1, <2>1, <3>2, <3>3 DEF IInv, TypeOK
  <2>3. CASE datagram = None
    BY <1>1, <1>4, <2>1, <2>3 DEF IInv, TypeOK
  <2> QED BY <2>2, <2>3
<1>7. Sockets'
  <2>1. \A d \in Clients : Len(sock'[d]) <= ClientBuf
    <3>1. Len(sock[c]) - 1 <= ClientBuf
      BY <1>2, ServerAssumption DEF IInv, Sockets
    <3> QED BY <1>2, <1>3, <3>1 DEF IInv, Sockets
  <2> QED BY <1>1, <2>1 DEF IInv, Sockets
<1>8. \A d \in Clients : Unanswered(d)' = Unanswered(d)
  BY <1>1, SameInbox
<1>9. ASSUME NEW d \in Clients, d # c PROVE Reading(d)' /\ Pending(d)'
  <2>1. Reading(d) /\ Pending(d) /\ Data(d)' = Data(d)
    BY <1>3, <1>9 DEF IInv, Data
  <2>2. waiting'[d] = waiting[d] /\ since'[d] = since[d] /\ sock'[d] = sock[d]
    BY <1>3, <1>5, <1>9
  <2>3. Unanswered(d)' = Unanswered(d) /\ inbox' = inbox
    BY <1>1, <1>8
  <2>4. Reading(d)'
    BY <2>1, <2>2, <2>3 DEF Reading
  <2>5. Pending(d)'
    BY <2>1, <2>2, <2>3 DEF Pending
  <2> QED BY <2>4, <2>5
<1>10. /\ IsFiniteSet(Unanswered(c)) /\ Cardinality(Unanswered(c)) \in Nat
       /\ Reading(c) /\ Pending(c) /\ since[c] \in 0..Burst
  BY TypeParts, UnansweredFacts DEF IInv
<1>11. CASE datagram # None
  <2>1. 1 \in Data(c)
    BY <1>2, <1>11 DEF Data
  <2>2. Len(sock[c]) = 1 /\ Unanswered(c) = {}
    BY <1>10, <2>1 DEF Reading
  <2>3. Data(c)' = {} /\ Unanswered(c)' = {}
    BY <1>2, <1>3, <1>8, <2>2 DEF Data
  <2>4. Reading(c)'
    BY <2>3 DEF Reading
  <2>5. Cardinality(Unanswered(c)') = 0 /\ Len(sock'[c]) = 0
    BY <1>2, <1>3, <2>2, <2>3, FS_EmptySet
  <2>6. waiting'[c] = None /\ since'[c] = 0
    BY <1>4, <1>11 DEF IInv, TypeOK
  <2>7. Pending(c)'
    BY <2>5, <2>6 DEF Pending
  <2> QED BY <1>6, <1>7, <1>9, <2>4, <2>7 DEF IInv
<1>12. CASE datagram = None
  <2>1. Data(c)' = {k \in 1..(Len(sock[c]) - 1) : k + 1 \in Data(c)}
    <3>1. Data(c)' = {k \in DOMAIN Tail(sock[c]) : Tail(sock[c])[k] # None}
      BY <1>3 DEF Data
    <3>2. \A k \in 1..(Len(sock[c]) - 1) : k + 1 \in 1..Len(sock[c])
      BY <1>2
    <3>3. \A k \in 1..(Len(sock[c]) - 1) : Tail(sock[c])[k] # None <=> k + 1 \in Data(c)
      BY <1>2, <3>2 DEF Data
    <3> QED BY <1>2, <3>1, <3>3
  <2>2. waiting' = waiting /\ since' = since /\ inbox' = inbox
    BY <1>1, <1>4, <1>12
  <2>3. Reading(c)'
    <3>1. Data(c) = {} => Data(c)' = {}
      BY <2>1
    <3>2. \A k \in Data(c)' : k + 1 \in Data(c) /\ k \in 1..(Len(sock[c]) - 1)
      BY <2>1
    <3>3. \A k \in Data(c)' : k = Len(sock'[c])
      BY <1>2, <1>3, <1>10, <3>2 DEF Reading
    <3>4. \A k \in Data(c)' : waiting'[c] # None /\ Unanswered(c)' = {}
      BY <1>8, <1>10, <2>2, <3>2 DEF Reading
    <3>5. Unanswered(c)' = Unanswered(c)
      BY <1>8
    <3> QED BY <1>10, <2>2, <3>1, <3>3, <3>4, <3>5 DEF Reading
  <2>4. Pending(c)'
    <3>1. Len(sock'[c]) = Len(sock[c]) - 1 /\ Unanswered(c)' = Unanswered(c)
      BY <1>2, <1>3, <1>8
    <3> QED BY <1>2, <1>10, <2>2, <3>1 DEF Pending
  <2> QED BY <1>6, <1>7, <1>9, <2>3, <2>4 DEF IInv
<1> QED BY <1>11, <1>12

LEMMA RestartOK ==
  ASSUME IInv, NEW c \in Clients, ClientRestart(c)
  PROVE  IInv'
<1>1. /\ run[c] < MaxRestarts /\ run[c] \in 0..MaxRestarts /\ MaxRestarts \in Nat
      /\ inbox \in Seq(Requests) /\ UNCHANGED <<inbox, lost, mem>>
  BY TypeParts, ServerAssumption DEF IInv, ClientRestart
<1>2. /\ run'[c] = run[c] + 1 /\ waiting'[c] = None /\ since'[c] = 0 /\ sock'[c] = <<>>
      /\ \A d \in Clients \ {c} : run'[d] = run[d] /\ waiting'[d] = waiting[d]
           /\ since'[d] = since[d] /\ sock'[d] = sock[d]
  BY DEF IInv, TypeOK, ClientRestart
<1>3. TypeOK'
  <2>1. run[c] + 1 \in 0..MaxRestarts /\ 0 \in 0..Burst
    BY <1>1, ServerAssumption
  <2>2. <<>> \in Seq(Vals \cup {None})
    OBVIOUS
  <2>3. run' \in [Clients -> 0..MaxRestarts] /\ since' \in [Clients -> 0..Burst]
    BY <2>1 DEF IInv, TypeOK, ClientRestart
  <2>4. /\ waiting' \in [Clients -> Addrs \cup {None}]
        /\ result' \in [Clients -> Vals \cup {None}]
        /\ sock' \in [Clients -> Seq(Vals \cup {None})]
    BY <2>2 DEF IInv, TypeOK, ClientRestart
  <2> QED BY <1>1, <2>3, <2>4 DEF IInv, TypeOK
<1>4. ASSUME NEW i \in DOMAIN inbox
      PROVE  /\ inbox[i].from \in Clients /\ inbox[i].run \in Nat
             /\ inbox[i].run <= run[inbox[i].from]
  <2>1. inbox[i] \in Requests
    BY <1>1, LenProperties, ElementOfSeq
  <2> QED BY <1>1, <2>1, RequestFacts DEF IInv, Sockets
<1>5. Sockets'
  <2>1. \A i \in DOMAIN inbox : inbox[i].run <= run'[inbox[i].from]
    <3> SUFFICES ASSUME NEW i \in DOMAIN inbox PROVE inbox[i].run <= run'[inbox[i].from]
      OBVIOUS
    <3>1. CASE inbox[i].from = c
      BY <1>1, <1>2, <1>4, <3>1
    <3>2. CASE inbox[i].from # c
      BY <1>2, <1>4, <3>2
    <3> QED BY <3>1, <3>2
  <2>2. \A d \in Clients : Len(sock'[d]) <= ClientBuf
    <3>1. Len(sock'[c]) = 0 /\ ClientBuf \in Nat
      BY <1>2, ServerAssumption
    <3> QED BY <1>2, <3>1 DEF IInv, Sockets
  <2> QED BY <1>1, <2>1, <2>2 DEF IInv, Sockets
<1>6. Unanswered(c)' = {} /\ Data(c)' = {}
  <2>1. \A i \in DOMAIN inbox : ~(inbox[i].from = c /\ inbox[i].run = run'[c])
    BY <1>1, <1>2, <1>4
  <2>2. Unanswered(c)' = {}
    BY <1>1, <2>1 DEF Unanswered
  <2>3. DOMAIN sock'[c] = {}
    BY <1>2
  <2> QED BY <2>2, <2>3 DEF Data
<1>7. Reading(c)' /\ Pending(c)'
  <2>1. Cardinality(Unanswered(c)') = 0 /\ Len(sock'[c]) = 0
    BY <1>2, <1>6, FS_EmptySet
  <2> QED BY <1>2, <1>6, <2>1 DEF Reading, Pending
<1>8. ASSUME NEW d \in Clients, d # c PROVE Reading(d)' /\ Pending(d)'
  <2>1. Reading(d) /\ Pending(d) /\ inbox' = inbox
    BY <1>1 DEF IInv
  <2>2. Unanswered(d)' = Unanswered(d) /\ Data(d)' = Data(d)
    BY <1>1, <1>2, <1>8 DEF Unanswered, Data
  <2>3. waiting'[d] = waiting[d] /\ since'[d] = since[d] /\ sock'[d] = sock[d]
    BY <1>2, <1>8
  <2>4. Reading(d)'
    BY <2>1, <2>2, <2>3 DEF Reading
  <2> QED BY <2>1, <2>2, <2>3, <2>4 DEF Pending
<1> QED BY <1>3, <1>5, <1>7, <1>8 DEF IInv

-----------------------------------------------------------------------------
(* The server *)

\* What Serve does to the sockets of the clients.
LEMMA ServeFacts ==
  ASSUME IInv, Serve
  PROVE  LET req == inbox[1]
             c   == inbox[1].from
             ans == IF req.cmd = "read" THEN mem[req.addr] ELSE None
         IN  /\ inbox \in Seq(Requests) /\ inbox # <<>> /\ inbox' = Tail(inbox)
             /\ req \in Requests /\ c \in Clients /\ req.run \in Nat
             /\ req.cmd = "read" => ans \in Vals /\ ans # None
             /\ ans \in Vals \cup {None}
             /\ mem' = IF req.cmd = "write" THEN [mem EXCEPT ![req.addr] = req.val] ELSE mem
             /\ \A d \in Clients \ {c} : sock'[d] = sock[d]
             /\ req.run # run[c] => sock' = sock
             /\ req.run = run[c] =>
                  sock'[c] = Append(sock[c], ans) \/ sock'[c] = sock[c]
             /\ sock' \in [Clients -> Seq(Vals \cup {None})]
             /\ Len(sock'[c]) <= ClientBuf /\ Len(sock'[c]) <= Len(sock[c]) + 1
             /\ UNCHANGED <<waiting, since, result, run, lost>>
<1> DEFINE req == inbox[1]
<1> DEFINE c == inbox[1].from
<1> DEFINE ans == IF req.cmd = "read" THEN mem[req.addr] ELSE None
<1>1. inbox \in Seq(Requests) /\ inbox # <<>> /\ inbox' = Tail(inbox)
  BY TypeParts DEF IInv, TypeOK, Serve
<1>2. Head(inbox) = req /\ req \in Requests
  BY <1>1, Taken
<1>3. /\ c \in Clients /\ req.run \in Nat /\ req.addr \in Addrs
      /\ req.cmd \in {"write", "read", "read0"}
  BY <1>2, RequestFacts, ServerAssumption
<1>4. /\ mem' = Performed(req) /\ UNCHANGED <<waiting, since, result, run, lost>>
      /\ sock' = IF req.run = run[c]
                   THEN [sock EXCEPT ![c] = Arrive(sock[c], Answers(req), ClientBuf)]
                   ELSE sock
  BY <1>2 DEF Serve
<1>5. Answers(req) = <<ans>>
  BY DEF Answers
<1>6. mem[req.addr] \in Vals /\ None \notin Vals
  BY <1>3, ServerAssumption DEF IInv, TypeOK
<1>7. ans \in Vals \cup {None} /\ (req.cmd = "read" => ans \in Vals /\ ans # None)
  BY <1>6
<1>8. mem' = IF req.cmd = "write" THEN [mem EXCEPT ![req.addr] = req.val] ELSE mem
  BY <1>4 DEF Performed
<1> HIDE DEF req, c, ans
<1>9. /\ sock[c] \in Seq(Vals \cup {None}) /\ ClientBuf \in Nat /\ Len(sock[c]) \in Nat
      /\ Len(sock[c]) <= ClientBuf /\ sock \in [Clients -> Seq(Vals \cup {None})]
  BY <1>3, TypeParts, LenProperties, ServerAssumption DEF IInv, Sockets, TypeOK
<1>10. /\ \/ Arrive(sock[c], <<ans>>, ClientBuf) = Append(sock[c], ans)
          \/ Arrive(sock[c], <<ans>>, ClientBuf) = sock[c]
       /\ Arrive(sock[c], <<ans>>, ClientBuf) \in Seq(Vals \cup {None})
       /\ Len(Arrive(sock[c], <<ans>>, ClientBuf)) \in Len(sock[c])..ClientBuf
       /\ Len(Arrive(sock[c], <<ans>>, ClientBuf)) <= Len(sock[c]) + 1
  BY <1>7, <1>9, ArriveFacts
<1>11. CASE req.run = run[c]
  <2>1. sock' = [sock EXCEPT ![c] = Arrive(sock[c], <<ans>>, ClientBuf)]
    BY <1>4, <1>5, <1>11
  <2>2. sock'[c] = Arrive(sock[c], <<ans>>, ClientBuf)
        /\ \A d \in Clients \ {c} : sock'[d] = sock[d]
    BY <1>3, <1>9, <2>1
  <2>4. sock' \in [Clients -> Seq(Vals \cup {None})]
    BY <1>9, <1>10, <2>1
  <2>3. Len(sock'[c]) <= ClientBuf
    BY <1>9, <1>10, <2>2
  <2> QED BY <1>1, <1>2, <1>3, <1>4, <1>7, <1>8, <1>10, <1>11, <2>2, <2>3, <2>4 DEF req, c, ans
<1>12. CASE req.run # run[c]
  <2>1. sock' = sock
    BY <1>4, <1>12
  <2>2. Len(sock'[c]) <= ClientBuf /\ Len(sock'[c]) <= Len(sock[c]) + 1
    BY <1>9, <2>1
  <2> QED BY <1>1, <1>2, <1>3, <1>4, <1>7, <1>8, <1>9, <1>12, <2>1, <2>2 DEF req, c, ans
<1> QED BY <1>11, <1>12

LEMMA ServeOK ==
  ASSUME IInv, Serve
  PROVE  IInv'
<1> DEFINE req == inbox[1]
<1>0. PICK c \in Clients : c = req.from
  BY ServeFacts
<1> DEFINE ans == IF req.cmd = "read" THEN mem[req.addr] ELSE None
<1> DEFINE n == Len(inbox)
<1>1. /\ inbox \in Seq(Requests) /\ inbox # <<>> /\ inbox' = Tail(inbox)
      /\ req \in Requests /\ c \in Clients
      /\ req.cmd = "read" => ans # None
      /\ ans \in Vals \cup {None}
      /\ mem' = IF req.cmd = "write" THEN [mem EXCEPT ![req.addr] = req.val] ELSE mem
      /\ \A d \in Clients \ {c} : sock'[d] = sock[d]
      /\ req.run # run[c] => sock' = sock
      /\ req.run = run[c] => sock'[c] = Append(sock[c], ans) \/ sock'[c] = sock[c]
      /\ sock' \in [Clients -> Seq(Vals \cup {None})]
      /\ Len(sock'[c]) <= ClientBuf /\ Len(sock'[c]) <= Len(sock[c]) + 1
      /\ UNCHANGED <<waiting, since, result, run, lost>>
  BY <1>0, ServeFacts
<1>2. /\ inbox' \in Seq(Requests) /\ n \in Nat \ {0} /\ Len(inbox') = n - 1
      /\ DOMAIN inbox = 1..n /\ DOMAIN inbox' = 1..(n - 1)
      /\ \A i \in 1..(n - 1) : inbox'[i] = inbox[i + 1]
  BY <1>1, Taken
<1>3. /\ req.cmd = "write" => req.val \in Vals
      /\ req.addr \in Addrs /\ 1 \in DOMAIN inbox
  <2>1. 1 \in DOMAIN inbox
    BY <1>2
  <2>2. req.addr \in Addrs
    BY <1>1, RequestFacts
  <2>3. req.cmd = "write" => req.val \in Vals
    BY <2>1 DEF IInv, Sockets
  <2> QED BY <2>1, <2>2, <2>3
<1>4. \A i \in 1..(n - 1) : i + 1 \in 1..n
  BY <1>2
<1>5. ans # None => req.cmd = "read"
  OBVIOUS
<1> HIDE DEF n, req, ans
<1>6. TypeOK'
  <2>1. mem' \in [Addrs -> Vals]
    BY <1>1, <1>3 DEF IInv, TypeOK
  <2> QED BY <1>1, <1>2, <2>1 DEF IInv, TypeOK
<1>7. Sockets'
  <2>1. \A d \in Clients : Len(sock'[d]) <= ClientBuf
    BY <1>1 DEF IInv, Sockets
  <2>2. n - 1 <= ServerBuf
    BY <1>2, ServerAssumption DEF IInv, Sockets, n
  <2>3. \A i \in DOMAIN inbox' : /\ inbox'[i].run <= run'[inbox'[i].from]
                                 /\ inbox'[i].cmd = "write" => inbox'[i].val \in Vals
    BY <1>1, <1>2, <1>4 DEF IInv, Sockets
  <2> QED BY <1>2, <2>1, <2>2, <2>3 DEF Sockets
<1>8. ASSUME NEW d \in Clients
      PROVE  /\ Unanswered(d)' = {i \in 1..(n - 1) : i + 1 \in Unanswered(d)}
             /\ Unanswered(d) \subseteq 1..n
             /\ IsFiniteSet(Unanswered(d)) /\ Cardinality(Unanswered(d)) \in Nat
             /\ IsFiniteSet(Unanswered(d)') /\ Cardinality(Unanswered(d)') \in Nat
             /\ Cardinality(Unanswered(d)') =
                  IF 1 \in Unanswered(d) THEN Cardinality(Unanswered(d)) - 1
                                         ELSE Cardinality(Unanswered(d))
  <2>1. Unanswered(d)' = Down(Unanswered(d), n)
    BY <1>1, UnansweredTaken DEF n
  <2>2. /\ Unanswered(d) \subseteq 1..n /\ IsFiniteSet(Unanswered(d))
        /\ Cardinality(Unanswered(d)) \in Nat
    BY <1>1, UnansweredFacts DEF n
  <2>3. Cardinality(Unanswered(d)') = Cardinality(Unanswered(d) \ {1})
    BY <1>2, <2>1, <2>2, DownCardinality
  <2>4. Down(Unanswered(d), n) \subseteq 1..n
    BY <1>2 DEF Down
  <2>5. IsFiniteSet(Unanswered(d)') /\ Cardinality(Unanswered(d)') \in Nat
    BY <1>2, <2>1, <2>4, Positions
  <2>6. Cardinality(Unanswered(d) \ {1}) =
          IF 1 \in Unanswered(d) THEN Cardinality(Unanswered(d)) - 1
                                 ELSE Cardinality(Unanswered(d))
    BY <2>2, FS_RemoveElement
  <2>7. Unanswered(d)' = {i \in 1..(n - 1) : i + 1 \in Unanswered(d)}
    BY <2>1 DEF Down
  <2> QED BY <2>2, <2>3, <2>5, <2>6, <2>7
<1>9. \A d \in Clients : 1 \in Unanswered(d) <=> d = c /\ req.run = run[d]
  BY <1>0, <1>2, <1>3 DEF Unanswered, req
\* Nothing changes but the positions.
<1>10. ASSUME NEW d \in Clients, sock'[d] = sock[d]
       PROVE  Reading(d)'
  <2>1. Reading(d) /\ Data(d)' = Data(d) /\ waiting'[d] = waiting[d]
    BY <1>1, <1>10 DEF IInv, Data
  <2>2. ASSUME NEW i \in Unanswered(d)', inbox'[i].cmd = "read"
        PROVE  /\ waiting'[d] = inbox'[i].addr /\ Data(d)' = {}
               /\ \A j \in DOMAIN inbox' : inbox'[j].from = d => j <= i
    <3>1. i \in 1..(n - 1) /\ i + 1 \in Unanswered(d) /\ inbox'[i] = inbox[i + 1]
      BY <1>2, <1>8
    <3>2. \A j \in DOMAIN inbox : inbox[j].from = d => j <= i + 1
      BY <2>1, <2>2, <3>1 DEF Reading
    <3>3. \A j \in DOMAIN inbox' : inbox'[j].from = d => j + 1 <= i + 1
      BY <1>2, <1>4, <3>2
    <3>4. \A j \in DOMAIN inbox' : inbox'[j].from = d => j <= i
      BY <1>2, <3>1, <3>3
    <3> QED BY <2>1, <2>2, <3>1, <3>4 DEF Reading
  <2>3. Unanswered(d) = {} => Unanswered(d)' = {}
    BY <1>8
  <2> QED BY <1>10, <2>1, <2>2, <2>3 DEF Reading
<1>11. ASSUME NEW d \in Clients, ~(d = c /\ req.run = run[c])
       PROVE  Reading(d)' /\ Pending(d)'
  <2>1. sock'[d] = sock[d]
    BY <1>1, <1>11
  <2>2. Cardinality(Unanswered(d)') = Cardinality(Unanswered(d))
    BY <1>8, <1>9, <1>11
  <2>3. Pending(d) /\ waiting' = waiting /\ since' = since
    BY <1>1 DEF IInv
  <2> QED BY <1>10, <2>1, <2>2, <2>3 DEF Pending
<1>12. ASSUME req.run = run[c]
       PROVE  Reading(c)' /\ Pending(c)'
  <2>1. 1 \in Unanswered(c) /\ Reading(c) /\ Pending(c)
    BY <1>1, <1>9, <1>12 DEF IInv
  <2>2. Data(c) = {}
    BY <2>1 DEF Reading
  <2>3. /\ sock[c] \in Seq(Vals \cup {None}) /\ Len(sock[c]) \in Nat
        /\ Len(sock'[c]) \in Nat /\ since[c] \in 0..Burst
    BY <1>1, TypeParts, LenProperties DEF IInv
  <2>4. Pending(c)'
    <3>1. Cardinality(Unanswered(c)') = Cardinality(Unanswered(c)) - 1
      BY <1>1, <1>8, <2>1
    <3>2. Cardinality(Unanswered(c)) \in Nat
      BY <1>1, <1>8
    <3> QED BY <1>1, <2>1, <2>3, <3>1, <3>2 DEF Pending
  <2>5. CASE sock'[c] = sock[c]
    BY <1>1, <1>10, <2>4, <2>5
  <2>6. CASE sock'[c] = Append(sock[c], ans)
    <3> DEFINE m == Len(sock[c])
    <3>1. /\ Len(sock'[c]) = m + 1 /\ DOMAIN sock'[c] = 1..(m + 1) /\ m \in Nat
          /\ \A i \in 1..m : sock'[c][i] = sock[c][i] /\ sock[c][i] = None
          /\ sock'[c][m + 1] = ans
      <4>1. /\ Len(sock'[c]) = m + 1 /\ sock'[c] \in Seq(Vals \cup {None})
            /\ \A i \in 1..m : sock'[c][i] = sock[c][i]
            /\ sock'[c][m + 1] = ans
        BY <1>1, <2>3, <2>6, AppendProperties
      <4>2. DOMAIN sock'[c] = 1..(m + 1) /\ DOMAIN sock[c] = 1..m
        BY <2>3, <4>1, LenProperties
      <4> QED BY <2>2, <2>3, <4>1, <4>2 DEF Data
    <3>2. \A k \in Data(c)' : k = Len(sock'[c]) /\ req.cmd = "read"
      <4> HIDE DEF m
      <4> SUFFICES ASSUME NEW k \in Data(c)' PROVE k = Len(sock'[c]) /\ req.cmd = "read"
        OBVIOUS
      <4>1. k \in 1..(m + 1) /\ sock'[c][k] # None
        BY <3>1 DEF Data
      <4>2. k = m + 1
        BY <3>1, <4>1
      <4> QED BY <1>5, <3>1, <4>1, <4>2
    <3>3. ASSUME req.cmd = "read" PROVE Unanswered(c)' = {} /\ waiting'[c] # None
      <4>1. \A j \in DOMAIN inbox : inbox[j].from = c => j <= 1
        BY <2>1, <3>3 DEF Reading, req
      <4>2. \A j \in Unanswered(c) : j <= 1
        BY <4>1 DEF Unanswered
      <4>3. \A j \in 1..(n - 1) : ~(j + 1 <= 1)
        BY <1>2
      <4>4. Unanswered(c)' = {}
        BY <1>1, <1>8, <4>2, <4>3
      <4>5. waiting[c] = req.addr
        BY <2>1, <3>3 DEF Reading, req
      <4> QED BY <1>1, <1>3, <4>4, <4>5, ServerAssumption
    <3>4. ASSUME req.cmd # "read" PROVE Reading(c)'
      <4>1. Data(c)' = {}
        BY <3>2, <3>4
      <4>2. ASSUME NEW i \in Unanswered(c)', inbox'[i].cmd = "read"
            PROVE  /\ waiting'[c] = inbox'[i].addr
                   /\ \A j \in DOMAIN inbox' : inbox'[j].from = c => j <= i
        <5>1. i \in 1..(n - 1) /\ i + 1 \in Unanswered(c) /\ inbox'[i] = inbox[i + 1]
          BY <1>1, <1>2, <1>8
        <5>2. \A j \in DOMAIN inbox : inbox[j].from = c => j <= i + 1
          BY <2>1, <4>2, <5>1 DEF Reading
        <5>3. \A j \in DOMAIN inbox' : inbox'[j].from = c => j + 1 <= i + 1
          BY <1>2, <1>4, <5>2
        <5>4. \A j \in DOMAIN inbox' : inbox'[j].from = c => j <= i
          BY <1>2, <5>1, <5>3
        <5> QED BY <1>1, <2>1, <4>2, <5>1, <5>4 DEF Reading
      <4> QED BY <4>1, <4>2 DEF Reading
    <3>5. ASSUME req.cmd = "read" PROVE Reading(c)'
      BY <3>2, <3>3, <3>5 DEF Reading
    <3> QED BY <2>4, <3>4, <3>5
  <2> QED BY <1>1, <1>12, <2>5, <2>6
<1> QED BY <1>6, <1>7, <1>11, <1>12 DEF IInv

-----------------------------------------------------------------------------
(* The invariant is kept *)

LEMMA NextOK ==
  ASSUME IInv, [Next]_vars
  PROVE  IInv'
<1>1. CASE UNCHANGED vars
  <2>1. UNCHANGED <<waiting, since, result, sock, run, inbox, lost, mem>>
    BY <1>1 DEF vars, client
  <2>2. TypeOK'
    BY <2>1 DEF IInv, TypeOK
  <2>3. Sockets'
    BY <2>1 DEF IInv, Sockets
  <2>4. ASSUME NEW c \in Clients PROVE Reading(c)' /\ Pending(c)'
    <3>1. Unanswered(c)' = Unanswered(c) /\ Data(c)' = Data(c)
      BY <2>1 DEF Unanswered, Data
    <3>2. Reading(c) /\ Pending(c)
      BY DEF IInv
    <3>3. Reading(c)'
      BY <2>1, <3>1, <3>2 DEF Reading
    <3> QED BY <2>1, <3>1, <3>2, <3>3 DEF Pending
  <2> QED BY <2>2, <2>3, <2>4 DEF IInv
<1>2. ASSUME NEW c \in Clients, NEW a \in Addrs, NEW v \in Vals, ClientWrite(c, a, v)
      PROVE  IInv'
  BY <1>2, SendOK DEF ClientWrite
<1>3. ASSUME NEW c \in Clients, NEW a \in Addrs, ClientRead0(c, a)
      PROVE  IInv'
  BY <1>3, SendOK DEF ClientRead0
<1>4. ASSUME NEW c \in Clients, NEW a \in Addrs, ClientRead(c, a)
      PROVE  IInv'
  BY <1>4, SendOK DEF ClientRead
<1>5. Calls => IInv'
  BY <1>2, <1>3, <1>4 DEF Calls
<1> QED BY <1>1, <1>5, TakesOK, RestartOK, ServeOK DEF Next

LEMMA Invariance == Spec => []IInv
<1>1. Init => IInv
  BY InitOK
<1>2. IInv /\ [Next]_vars => IInv'
  BY NextOK
<1> QED BY <1>1, <1>2, PTL DEF Spec

\* The variables have their types, for any clients, cells, values and sockets.
THEOREM ServerTypeOK == Spec => []TypeOK
<1>1. IInv => TypeOK
  BY DEF IInv
<1> QED BY <1>1, Invariance, PTL

\* What a client has not been answered or not taken out of its socket are the
\* calls since its last read: answers nobody waits for do not pile up.
THEOREM AnswersBounded == Spec => []AnswersDoNotPileUp
<1>1. IInv => AnswersDoNotPileUp
  BY DEF IInv, Pending, AnswersDoNotPileUp
<1> QED BY <1>1, Invariance, PTL

-----------------------------------------------------------------------------
(* What the programs see *)

Posted == [addr : Addrs, val : Vals \cup {None}]
Post(req) == [addr |-> req.addr, val |-> req.val]

LEMMA WritesFacts ==
  ASSUME inbox \in Seq(Requests), NEW d
  PROVE  /\ Writes(d) \subseteq 1..Len(inbox) /\ Len(inbox) \in Nat
         /\ Cardinality(Writes(d)) \in Nat
         /\ WritesOf(d) \in Seq(Posted) /\ Len(WritesOf(d)) = Cardinality(Writes(d))
         /\ \A k \in 1..Cardinality(Writes(d)) :
              /\ Nth(Writes(d), k) \in 1..Len(inbox)
              /\ WritesOf(d)[k] = Post(inbox[Nth(Writes(d), k)])
<1>1. DOMAIN inbox = 1..Len(inbox) /\ Len(inbox) \in Nat
  BY LenProperties
<1>2. Writes(d) \subseteq 1..Len(inbox)
  BY <1>1 DEF Writes
<1>3. Cardinality(Writes(d)) \in Nat
  BY <1>1, <1>2, Positions
<1>4. ASSUME NEW k \in 1..Cardinality(Writes(d))
      PROVE  /\ Nth(Writes(d), k) \in 1..Len(inbox)
             /\ Post(inbox[Nth(Writes(d), k)]) \in Posted
  <2>1. Nth(Writes(d), k) \in 1..Len(inbox)
    BY <1>1, <1>2, NthFacts
  <2>2. inbox[Nth(Writes(d), k)] \in Requests
    BY <2>1, ElementOfSeq
  <2> QED BY <2>1, <2>2, RequestFacts DEF Post, Posted
<1>5. WritesOf(d) = [k \in 1..Cardinality(Writes(d)) |-> Post(inbox[Nth(Writes(d), k)])]
  BY DEF WritesOf, Post
<1>6. WritesOf(d) \in [1..Cardinality(Writes(d)) -> Posted]
  BY <1>4, <1>5
<1>7. WritesOf(d) \in Seq(Posted) /\ Len(WritesOf(d)) = Cardinality(Writes(d))
  BY <1>3, <1>6
<1> QED BY <1>1, <1>2, <1>3, <1>4, <1>5, <1>7

LEMMA WritesSent ==
  ASSUME inbox \in Seq(Requests), NEW req \in Requests, inbox' = Append(inbox, req),
         NEW d
  PROVE  Writes(d)' = IF d = req.from /\ req.cmd = "write"
                        THEN Writes(d) \cup {Len(inbox) + 1} ELSE Writes(d)
<1> DEFINE n == Len(inbox)
<1>1. /\ n \in Nat /\ DOMAIN inbox = 1..n /\ DOMAIN inbox' = 1..(n + 1)
      /\ inbox'[n + 1] = req /\ \A i \in 1..n : inbox'[i] = inbox[i]
  BY Sent
<1>2. Writes(d) = {i \in 1..n : inbox[i].from = d /\ inbox[i].cmd = "write"}
  BY <1>1 DEF Writes
<1>3. Writes(d)' = {i \in 1..(n + 1) : inbox'[i].from = d /\ inbox'[i].cmd = "write"}
  BY <1>1 DEF Writes
<1> HIDE DEF n
<1>4. \A i : i \in 1..(n + 1) <=> i \in 1..n \/ i = n + 1
  BY <1>1
<1>5. \A i \in Writes(d)' :
        i \in Writes(d) \/ (i = n + 1 /\ d = req.from /\ req.cmd = "write")
  BY <1>1, <1>2, <1>3, <1>4
<1>6. \A i \in Writes(d) : i \in Writes(d)'
  BY <1>1, <1>2, <1>3, <1>4
<1>7. d = req.from /\ req.cmd = "write" => n + 1 \in Writes(d)'
  BY <1>1, <1>3, <1>4
<1>8. CASE d = req.from /\ req.cmd = "write"
  BY <1>5, <1>6, <1>7, <1>8 DEF n
<1>9. CASE ~(d = req.from /\ req.cmd = "write")
  BY <1>5, <1>6, <1>9
<1> QED BY <1>8, <1>9

LEMMA WritesTaken ==
  ASSUME inbox \in Seq(Requests), inbox # <<>>, inbox' = Tail(inbox), NEW d
  PROVE  Writes(d)' = Down(Writes(d), Len(inbox))
<1> DEFINE n == Len(inbox)
<1>1. /\ n \in Nat \ {0} /\ DOMAIN inbox = 1..n /\ DOMAIN inbox' = 1..(n - 1)
      /\ \A i \in 1..(n - 1) : inbox'[i] = inbox[i + 1]
  BY Taken
<1>2. Writes(d) = {i \in 1..n : inbox[i].from = d /\ inbox[i].cmd = "write"}
  BY <1>1 DEF Writes
<1>3. Writes(d)' = {i \in 1..(n - 1) : inbox'[i].from = d /\ inbox'[i].cmd = "write"}
  BY <1>1 DEF Writes
<1> HIDE DEF n
<1>4. \A i \in 1..(n - 1) : i + 1 \in 1..n
  BY <1>1
<1>5. \A i \in 1..(n - 1) : i \in Writes(d)' <=> i + 1 \in Writes(d)
  BY <1>1, <1>2, <1>3, <1>4
<1>6. Writes(d)' = {i \in 1..(n - 1) : i + 1 \in Writes(d)}
  BY <1>3, <1>5
<1> QED BY <1>6 DEF Down, n

\* A write that is sent comes last, and nothing else changes what is posted.
LEMMA WritesOfSent ==
  ASSUME inbox \in Seq(Requests), NEW req \in Requests, inbox' = Append(inbox, req),
         NEW d
  PROVE  WritesOf(d)' = IF d = req.from /\ req.cmd = "write"
                          THEN Append(WritesOf(d), Post(req)) ELSE WritesOf(d)
<1> DEFINE n == Len(inbox)
<1> DEFINE P == Writes(d)
<1> DEFINE Q == Writes(d)'
<1>1. /\ n \in Nat /\ inbox' \in Seq(Requests)
      /\ inbox'[n + 1] = req /\ \A i \in 1..n : inbox'[i] = inbox[i]
  BY Sent
<1>2. /\ P \subseteq 1..n /\ Cardinality(P) \in Nat
      /\ WritesOf(d) \in Seq(Posted) /\ Len(WritesOf(d)) = Cardinality(P)
      /\ \A k \in 1..Cardinality(P) :
           Nth(P, k) \in 1..n /\ WritesOf(d)[k] = Post(inbox[Nth(P, k)])
  BY WritesFacts
<1>3. WritesOf(d)' = [k \in 1..Cardinality(Q) |-> Post(inbox'[Nth(Q, k)])]
  BY DEF WritesOf, Post
<1>4. Q = IF d = req.from /\ req.cmd = "write" THEN P \cup {n + 1} ELSE P
  BY WritesSent
<1>5. WritesOf(d) = [k \in 1..Cardinality(P) |-> Post(inbox[Nth(P, k)])]
  BY DEF WritesOf, Post
<1> HIDE DEF n, P, Q
<1>6. CASE d = req.from /\ req.cmd = "write"
  <2>1. /\ Cardinality(Q) = Cardinality(P) + 1
        /\ \A k \in 1..Cardinality(P) : Nth(Q, k) = Nth(P, k)
        /\ Nth(Q, Cardinality(P) + 1) = n + 1
    BY <1>1, <1>2, <1>4, <1>6, NthOfMore
  <2> DEFINE m == Cardinality(P)
  <2>2. Post(req) \in Posted
    BY RequestFacts DEF Post, Posted
  <2>3. /\ Append(WritesOf(d), Post(req)) \in Seq(Posted)
        /\ Len(Append(WritesOf(d), Post(req))) = m + 1
        /\ \A k \in 1..m : Append(WritesOf(d), Post(req))[k] = WritesOf(d)[k]
        /\ Append(WritesOf(d), Post(req))[m + 1] = Post(req)
    BY <1>2, <2>2, AppendProperties
  <2>4. ASSUME NEW k \in 1..(m + 1)
        PROVE  Post(inbox'[Nth(Q, k)]) = Append(WritesOf(d), Post(req))[k]
    <3>1. CASE k = m + 1
      BY <1>1, <2>1, <2>3, <3>1
    <3>2. CASE k \in 1..m
      BY <1>1, <1>2, <2>1, <2>3, <3>2
    <3>3. k = m + 1 \/ k \in 1..m
      BY <1>2
    <3> QED BY <3>1, <3>2, <3>3
  <2>5. Append(WritesOf(d), Post(req))
          = [k \in 1..(m + 1) |-> Append(WritesOf(d), Post(req))[k]]
    BY <2>3, LenProperties
  <2> QED BY <1>3, <1>6, <2>1, <2>4, <2>5
<1>7. CASE ~(d = req.from /\ req.cmd = "write")
  <2>1. Q = P
    BY <1>4, <1>7
  <2>2. \A k \in 1..Cardinality(P) : inbox'[Nth(P, k)] = inbox[Nth(P, k)]
    BY <1>1, <1>2
  <2> QED BY <1>3, <1>5, <1>7, <2>1, <2>2
<1> QED BY <1>6, <1>7

\* The server takes the first of them, if the request it takes is a write.
LEMMA WritesOfTaken ==
  ASSUME inbox \in Seq(Requests), inbox # <<>>, inbox' = Tail(inbox), NEW d
  PROVE  IF inbox[1].from = d /\ inbox[1].cmd = "write"
           THEN /\ WritesOf(d) # <<>> /\ Head(WritesOf(d)) = Post(inbox[1])
                /\ WritesOf(d)' = Tail(WritesOf(d))
           ELSE WritesOf(d)' = WritesOf(d)
<1> DEFINE n == Len(inbox)
<1> DEFINE P == Writes(d)
<1> DEFINE Q == Writes(d)'
<1>1. /\ n \in Nat \ {0} /\ DOMAIN inbox = 1..n
      /\ \A i \in 1..(n - 1) : inbox'[i] = inbox[i + 1]
  BY Taken
<1>2. /\ P \subseteq 1..n /\ Cardinality(P) \in Nat
      /\ WritesOf(d) \in Seq(Posted) /\ Len(WritesOf(d)) = Cardinality(P)
      /\ \A k \in 1..Cardinality(P) : WritesOf(d)[k] = Post(inbox[Nth(P, k)])
  BY WritesFacts
<1>3. WritesOf(d)' = [k \in 1..Cardinality(Q) |-> Post(inbox'[Nth(Q, k)])]
  BY DEF WritesOf, Post
<1>4. Q = Down(P, n)
  BY WritesTaken
<1>5. WritesOf(d) = [k \in 1..Cardinality(P) |-> Post(inbox[Nth(P, k)])]
  BY DEF WritesOf, Post
<1>6. 1 \in P <=> inbox[1].from = d /\ inbox[1].cmd = "write"
  BY <1>1 DEF Writes
<1> HIDE DEF n, P, Q
<1>7. Q \subseteq 1..(n - 1) /\ Q \subseteq 1..n
  BY <1>1, <1>4 DEF Down
<1>8. Cardinality(Q) \in Nat
  BY <1>1, <1>7, Positions
<1>9. ASSUME NEW k \in 1..Cardinality(Q)
      PROVE  inbox'[Nth(Q, k)] = inbox[Nth(Q, k) + 1]
  <2>1. Nth(Q, k) \in Q
    BY <1>1, <1>7, NthFacts
  <2> QED BY <1>1, <1>7, <2>1
<1>10. CASE 1 \in P
  <2>1. n \in Nat
    BY <1>1
  <2>2. /\ Cardinality(P) = Cardinality(Down(P, n)) + 1 /\ Nth(P, 1) = 1
        /\ \A k \in 1..Cardinality(Down(P, n)) : Nth(P, k + 1) = Nth(Down(P, n), k) + 1
    BY <1>2, <1>10, <2>1, NthOfTail
  <2>3. /\ Cardinality(P) = Cardinality(Q) + 1
        /\ \A k \in 1..Cardinality(Q) : Nth(P, k + 1) = Nth(Q, k) + 1
        /\ Nth(P, 1) = 1
    BY <1>4, <2>2
  <2>4. 1 \in 1..Cardinality(P) /\ WritesOf(d) # <<>>
    BY <1>2, <1>8, <2>3
  <2>5. WritesOf(d)[1] = Post(inbox[1])
    BY <1>2, <2>3, <2>4
  <2>6. Head(WritesOf(d)) = WritesOf(d)[1]
    BY <1>2, <2>4
  <2>7. /\ Tail(WritesOf(d)) \in Seq(Posted)
        /\ Len(Tail(WritesOf(d))) = Cardinality(Q)
        /\ \A k \in 1..Cardinality(Q) : Tail(WritesOf(d))[k] = WritesOf(d)[k + 1]
    <3>1. /\ Tail(WritesOf(d)) \in Seq(Posted)
          /\ Len(Tail(WritesOf(d))) = Cardinality(P) - 1
          /\ \A k \in 1..Len(Tail(WritesOf(d))) : Tail(WritesOf(d))[k] = WritesOf(d)[k + 1]
      BY <1>2, <2>4, HeadTailProperties
    <3>2. Cardinality(P) - 1 = Cardinality(Q)
      BY <1>8, <2>3
    <3> QED BY <3>1, <3>2
  <2>8. ASSUME NEW k \in 1..Cardinality(Q)
        PROVE  Post(inbox'[Nth(Q, k)]) = Tail(WritesOf(d))[k]
    <3>1. k + 1 \in 1..Cardinality(P)
      BY <1>8, <2>3
    <3> QED BY <1>2, <1>9, <2>3, <2>7, <3>1
  <2>9. Tail(WritesOf(d)) = [k \in 1..Cardinality(Q) |-> Tail(WritesOf(d))[k]]
    BY <2>7, LenProperties
  <2>10. WritesOf(d)' = Tail(WritesOf(d))
    BY <1>3, <2>8, <2>9
  <2> QED BY <1>6, <1>10, <2>4, <2>5, <2>6, <2>10
<1>11. CASE 1 \notin P
  <2>1. n \in Nat
    BY <1>1
  <2>2. /\ Cardinality(P) = Cardinality(Down(P, n))
        /\ \A k \in 1..Cardinality(Down(P, n)) : Nth(P, k) = Nth(Down(P, n), k) + 1
    BY <1>2, <1>11, <2>1, NthOfTail
  <2>3. Cardinality(P) = Cardinality(Q) /\ \A k \in 1..Cardinality(Q) : Nth(P, k) = Nth(Q, k) + 1
    BY <1>4, <2>2
  <2>4. \A k \in 1..Cardinality(Q) : inbox'[Nth(Q, k)] = inbox[Nth(P, k)]
    BY <1>9, <2>3
  <2> QED BY <1>3, <1>5, <1>6, <1>11, <2>3, <2>4
<1> QED BY <1>10, <1>11

LEMMA DataInSame ==
  ASSUME NEW q, NEW r,
         {q[i] : i \in DOMAIN q} \ {None} = {r[i] : i \in DOMAIN r} \ {None}
  PROVE  DataIn(q) = DataIn(r)
BY DEF DataIn

LEMMA DataInNothing ==
  ASSUME NEW q, \A i \in DOMAIN q : q[i] = None
  PROVE  DataIn(q) = None
<1>1. {q[i] : i \in DOMAIN q} \ {None} = {}
  OBVIOUS
<1> QED BY <1>1 DEF DataIn

LEMMA DataInOne ==
  ASSUME NEW q, NEW k \in DOMAIN q, q[k] # None,
         \A i \in DOMAIN q : q[i] = None \/ q[i] = q[k]
  PROVE  DataIn(q) = q[k]
<1> DEFINE data == {q[i] : i \in DOMAIN q} \ {None}
<1>1. q[k] \in data /\ \A d \in data : d = q[k]
  OBVIOUS
<1>2. DataIn(q) = IF data = {} THEN None ELSE CHOOSE d \in data : TRUE
  BY DEF DataIn
<1> HIDE DEF data
<1>3. (CHOOSE d \in data : TRUE) \in data
  BY <1>1
<1> QED BY <1>1, <1>2, <1>3

LEMMA DataInMore ==
  ASSUME NEW S, NEW q \in Seq(S), NEW e \in S
  PROVE  /\ e = None => DataIn(Append(q, e)) = DataIn(q)
         /\ e # None /\ (\A i \in DOMAIN q : q[i] = None) => DataIn(Append(q, e)) = e
<1> DEFINE r == Append(q, e)
<1> DEFINE n == Len(q)
<1>1. /\ DOMAIN q = 1..n /\ DOMAIN r = 1..(n + 1) /\ n \in Nat
      /\ r[n + 1] = e /\ \A i \in 1..n : r[i] = q[i]
  <2>1. r \in Seq(S) /\ Len(r) = n + 1 /\ r[n + 1] = e /\ \A i \in 1..n : r[i] = q[i]
    BY AppendProperties
  <2> QED BY <2>1, LenProperties
<1> HIDE DEF r, n
<1>2. \A i : i \in 1..(n + 1) <=> i \in 1..n \/ i = n + 1
  BY <1>1
<1>3. ASSUME e = None PROVE DataIn(r) = DataIn(q)
  <2>1. {q[i] : i \in DOMAIN q} \ {None} = {r[i] : i \in DOMAIN r} \ {None}
    BY <1>1, <1>2, <1>3
  <2> QED BY <2>1, DataInSame
<1>4. ASSUME e # None, \A i \in DOMAIN q : q[i] = None PROVE DataIn(r) = e
  <2>1. n + 1 \in DOMAIN r /\ r[n + 1] # None
        /\ \A i \in DOMAIN r : r[i] = None \/ r[i] = r[n + 1]
    BY <1>1, <1>2, <1>4
  <2> QED BY <1>1, <2>1, DataInOne
<1> QED BY <1>3, <1>4 DEF r

LEMMA DataInLess ==
  ASSUME NEW S, NEW q \in Seq(S), q # <<>>
  PROVE  /\ Head(q) = None => DataIn(Tail(q)) = DataIn(q)
         /\ Len(q) = 1 => DataIn(Tail(q)) = None /\ DataIn(q) = Head(q)
<1> DEFINE r == Tail(q)
<1> DEFINE n == Len(q)
<1>1. /\ DOMAIN q = 1..n /\ DOMAIN r = 1..(n - 1) /\ n \in Nat \ {0}
      /\ Head(q) = q[1] /\ \A i \in 1..(n - 1) : r[i] = q[i + 1]
  <2>1. n \in Nat \ {0} /\ DOMAIN q = 1..n /\ Head(q) = q[1]
    BY EmptySeq, LenProperties
  <2>2. /\ r \in Seq(S) /\ Len(r) = n - 1
        /\ \A i \in 1..Len(r) : r[i] = q[i + 1]
    BY HeadTailProperties
  <2>3. DOMAIN r = 1..Len(r)
    BY <2>2, LenProperties
  <2> QED BY <2>1, <2>2, <2>3
<1> HIDE DEF r, n
<1>2. \A i \in 1..(n - 1) : i + 1 \in 1..n
  BY <1>1
<1>3. \A i \in 1..n : i = 1 \/ (i - 1 \in 1..(n - 1) /\ (i - 1) + 1 = i)
  BY <1>1
<1>4. ASSUME Head(q) = None PROVE DataIn(r) = DataIn(q)
  <2>1. \A i \in DOMAIN r : \E j \in DOMAIN q : r[i] = q[j]
    BY <1>1, <1>2
  <2>2. \A j \in DOMAIN q : q[j] # None => \E i \in DOMAIN r : r[i] = q[j]
    <3> SUFFICES ASSUME NEW j \in DOMAIN q, q[j] # None
                 PROVE  \E i \in DOMAIN r : r[i] = q[j]
      OBVIOUS
    <3>1. j # 1
      BY <1>1, <1>4
    <3>2. j - 1 \in DOMAIN r /\ (j - 1) + 1 = j
      BY <1>1, <1>3, <3>1
    <3>3. r[j - 1] = q[j]
      BY <1>1, <3>2
    <3> QED BY <3>2, <3>3
  <2>3. {q[i] : i \in DOMAIN q} \ {None} = {r[i] : i \in DOMAIN r} \ {None}
    BY <2>1, <2>2
  <2> QED BY <2>3, DataInSame
<1>5. ASSUME n = 1 PROVE DataIn(r) = None /\ DataIn(q) = Head(q)
  <2>1. DOMAIN q = {1} /\ DOMAIN r = {}
    BY <1>1, <1>5
  <2>2. DataIn(r) = None
    BY <2>1, DataInNothing
  <2>3. CASE q[1] = None
    BY <1>1, <2>1, <2>2, <2>3, DataInNothing
  <2>4. CASE q[1] # None
    BY <1>1, <2>1, <2>2, <2>4, DataInOne
  <2> QED BY <2>3, <2>4
<1> QED BY <1>4, <1>5 DEF r, n

-----------------------------------------------------------------------------
(* Every step is a step of BufferedMemory, or none *)

Buffer == [c \in Clients |-> WritesOf(c)]
Answer == [c \in Clients |-> DataFor(c)]

LEMMA SameView ==
  ASSUME UNCHANGED <<mem, waiting, result>>, Buffer' = Buffer, Answer' = Answer
  PROVE  UNCHANGED Promise!vars
BY DEF Promise!vars, Buffer, Answer

LEMMA SamePosts ==
  ASSUME inbox' = inbox
  PROVE  Buffer' = Buffer
<1>1. ASSUME NEW d \in Clients PROVE WritesOf(d)' = WritesOf(d)
  BY DEF WritesOf, Writes
<1> QED BY <1>1 DEF Buffer

LEMMA SameAnswer ==
  ASSUME NEW c \in Clients, \A d \in Clients \ {c} : sock'[d] = sock[d]
  PROVE  Answer' = [Answer EXCEPT ![c] = DataIn(sock'[c])]
<1>1. Answer = [d \in Clients |-> DataIn(sock[d])] /\ Answer' = [d \in Clients |-> DataIn(sock'[d])]
  BY DEF Answer, DataFor
<1> QED BY <1>1

\* The request of a call is posted if it is a write, and the socket has room.
LEMMA SendPosts ==
  ASSUME IInv, NEW c \in Clients, NEW a \in Addrs, NEW v \in Vals \cup {None},
         NEW cmd \in {"write", "read", "read0"}, Send(cmd, c, a, v)
  PROVE  \/ Buffer' = Buffer
         \/ /\ cmd = "write"
            /\ Buffer' = [Buffer EXCEPT ![c] = Append(@, [addr |-> a, val |-> v])]
<1> DEFINE req == [cmd |-> cmd, from |-> c, run |-> run[c], addr |-> a, val |-> v]
<1>1. /\ inbox \in Seq(Requests) /\ req \in Requests /\ req.from = c /\ req.cmd = cmd
      /\ Post(req) = [addr |-> a, val |-> v]
      /\ inbox' = Arrive(inbox, <<req>>, ServerBuf)
  BY TypeParts DEF IInv, Requests, Send, Post
<1> HIDE DEF req
<1>2. inbox' = Append(inbox, req) \/ inbox' = inbox
  <2>1. ServerBuf \in Nat /\ Len(inbox) <= ServerBuf
    BY ServerAssumption DEF IInv, Sockets
  <2> QED BY <1>1, <2>1, ArriveFacts
<1>3. CASE inbox' = inbox
  BY <1>3, SamePosts
<1>4. CASE inbox' = Append(inbox, req)
  <2>1. \A d \in Clients : WritesOf(d)' = IF d = c /\ cmd = "write"
                             THEN Append(WritesOf(d), Post(req)) ELSE WritesOf(d)
    BY <1>1, <1>4, WritesOfSent
  <2>2. /\ Buffer = [d \in Clients |-> WritesOf(d)]
        /\ Buffer' = [d \in Clients |-> WritesOf(d)']
    BY DEF Buffer
  <2>3. CASE cmd = "write"
    BY <1>1, <2>1, <2>2, <2>3
  <2>4. CASE cmd # "write"
    BY <2>1, <2>2, <2>4
  <2> QED BY <2>3, <2>4
<1> QED BY <1>2, <1>3, <1>4

LEMMA CallsRefine ==
  ASSUME IInv, Calls
  PROVE  (\E c \in Clients : Promise!Write(c) \/ Promise!Ask(c)) \/ UNCHANGED Promise!vars
<1>1. sock' = sock => Answer' = Answer
  BY DEF Answer, DataFor
<1>2. ASSUME NEW c \in Clients, NEW a \in Addrs, NEW v \in Vals, ClientWrite(c, a, v)
      PROVE  Promise!Write(c) \/ UNCHANGED Promise!vars
  <2>1. /\ Send("write", c, a, v) /\ waiting[c] = None
        /\ UNCHANGED <<waiting, result, sock, mem>>
    BY <1>2 DEF ClientWrite
  <2>2. \/ Buffer' = Buffer
        \/ Buffer' = [Buffer EXCEPT ![c] = Append(@, [addr |-> a, val |-> v])]
    BY <2>1, SendPosts
  <2>3. CASE Buffer' = Buffer
    BY <1>1, <2>1, <2>3, SameView
  <2>4. CASE Buffer' = [Buffer EXCEPT ![c] = Append(@, [addr |-> a, val |-> v])]
    BY <1>1, <2>1, <2>4 DEF Promise!Write, Buffer, Answer
  <2> QED BY <2>2, <2>3, <2>4
<1>3. ASSUME NEW c \in Clients, NEW a \in Addrs, ClientRead0(c, a)
      PROVE  UNCHANGED Promise!vars
  <2>1. Send("read0", c, a, None) /\ UNCHANGED <<waiting, result, sock, mem>>
    BY <1>3 DEF ClientRead0
  <2>2. Buffer' = Buffer
    BY <2>1, SendPosts
  <2> QED BY <1>1, <2>1, <2>2, SameView
<1>4. ASSUME NEW c \in Clients, NEW a \in Addrs, ClientRead(c, a)
      PROVE  Promise!Ask(c)
  <2>1. /\ Send("read", c, a, None) /\ waiting[c] = None
        /\ waiting' = [waiting EXCEPT ![c] = a] /\ UNCHANGED <<result, sock, mem>>
    BY <1>4 DEF ClientRead
  <2>2. Buffer' = Buffer
    BY <2>1, SendPosts
  <2> QED BY <1>1, <2>1, <2>2 DEF Promise!Ask, Buffer, Answer
<1> QED BY <1>2, <1>3, <1>4 DEF Calls

LEMMA TakesRefine ==
  ASSUME IInv, NEW c \in Clients, ClientTakes(c)
  PROVE  Promise!Deliver(c) \/ UNCHANGED Promise!vars
<1> DEFINE datagram == Head(sock[c])
<1>1. /\ sock[c] \in Seq(Vals \cup {None}) /\ sock[c] # <<>>
      /\ sock' = [sock EXCEPT ![c] = Tail(sock[c])]
      /\ UNCHANGED <<inbox, mem>> /\ sock \in [Clients -> Seq(Vals \cup {None})]
  BY TypeParts DEF IInv, TypeOK, ClientTakes
<1>2. sock'[c] = Tail(sock[c]) /\ \A d \in Clients \ {c} : sock'[d] = sock[d]
  BY <1>1
<1>3. Buffer' = Buffer /\ Answer' = [Answer EXCEPT ![c] = DataIn(Tail(sock[c]))]
  BY <1>1, <1>2, SamePosts, SameAnswer
<1>4. Answer[c] = DataIn(sock[c])
  BY DEF Answer, DataFor
<1>5. CASE datagram = None
  <2>1. DataIn(Tail(sock[c])) = DataIn(sock[c])
    BY <1>1, <1>5, DataInLess
  <2>2. Answer' = Answer
    BY <1>3, <1>4, <2>1 DEF Answer
  <2>3. UNCHANGED <<waiting, result>>
    BY <1>5 DEF ClientTakes, Complete
  <2> QED BY <1>1, <1>3, <2>2, <2>3, SameView
<1>6. CASE datagram # None
  <2>1. 1 \in DOMAIN sock[c] /\ datagram = sock[c][1] /\ Len(sock[c]) \in Nat
    BY <1>1, EmptySeq, LenProperties
  <2>2. Len(sock[c]) = 1
    BY <1>6, <2>1 DEF IInv, Reading, Data
  <2>3. DataIn(Tail(sock[c])) = None /\ DataIn(sock[c]) = datagram
    BY <1>1, <2>2, DataInLess
  <2>4. result' = [result EXCEPT ![c] = datagram] /\ waiting' = [waiting EXCEPT ![c] = None]
    BY <1>6 DEF ClientTakes, Complete
  <2>5. /\ Answer[c] # None /\ result' = [result EXCEPT ![c] = Answer[c]]
        /\ Answer' = [Answer EXCEPT ![c] = None] /\ UNCHANGED <<mem, Buffer>>
    BY <1>1, <1>3, <1>4, <1>6, <2>3, <2>4
  <2> QED BY <2>4, <2>5 DEF Promise!Deliver, Buffer, Answer
<1> QED BY <1>5, <1>6

LEMMA RestartRefines ==
  ASSUME IInv, NEW c \in Clients, ClientRestart(c)
  PROVE  Promise!Restart(c)
<1>1. /\ sock' = [sock EXCEPT ![c] = <<>>] /\ UNCHANGED <<inbox, mem>>
      /\ waiting' = [waiting EXCEPT ![c] = None] /\ result' = [result EXCEPT ![c] = None]
      /\ sock \in [Clients -> Seq(Vals \cup {None})]
  BY DEF IInv, TypeOK, ClientRestart
<1>2. sock'[c] = <<>> /\ \A d \in Clients \ {c} : sock'[d] = sock[d]
  BY <1>1
<1>3. DataIn(<<>>) = None
  <2>1. DOMAIN <<>> = {}
    OBVIOUS
  <2> QED BY <2>1, DataInNothing
<1>4. Buffer' = Buffer /\ Answer' = [Answer EXCEPT ![c] = None]
  BY <1>1, <1>2, <1>3, SamePosts, SameAnswer
<1> QED BY <1>1, <1>4 DEF Promise!Restart, Buffer, Answer

LEMMA AnswersRefine ==
  ASSUME IInv, Serve
  PROVE  \/ \E c \in Clients : Promise!TakeEffect(c) \/ Promise!Sample(c)
         \/ UNCHANGED Promise!vars
<1> DEFINE req == inbox[1]
<1>0. PICK c \in Clients : c = req.from
  BY ServeFacts
<1> DEFINE ans == IF req.cmd = "read" THEN mem[req.addr] ELSE None
<1>1. /\ inbox \in Seq(Requests) /\ inbox # <<>> /\ inbox' = Tail(inbox)
      /\ req \in Requests
      /\ req.cmd = "read" => ans # None
      /\ ans \in Vals \cup {None}
      /\ mem' = IF req.cmd = "write" THEN [mem EXCEPT ![req.addr] = req.val] ELSE mem
      /\ \A d \in Clients \ {c} : sock'[d] = sock[d]
      /\ req.run # run[c] => sock' = sock
      /\ req.run = run[c] => sock'[c] = Append(sock[c], ans) \/ sock'[c] = sock[c]
      /\ UNCHANGED <<waiting, result>>
  BY <1>0, ServeFacts
<1>2. \A d \in Clients :
        IF d = c /\ req.cmd = "write"
          THEN /\ WritesOf(d) # <<>> /\ Head(WritesOf(d)) = Post(req)
               /\ WritesOf(d)' = Tail(WritesOf(d))
          ELSE WritesOf(d)' = WritesOf(d)
  BY <1>0, <1>1, WritesOfTaken
<1>3. /\ Buffer = [d \in Clients |-> WritesOf(d)]
      /\ Buffer' = [d \in Clients |-> WritesOf(d)']
  BY DEF Buffer
<1>4. Answer' = [Answer EXCEPT ![c] = DataIn(sock'[c])] /\ Answer[c] = DataIn(sock[c])
      /\ sock[c] \in Seq(Vals \cup {None})
  BY <1>1, SameAnswer, TypeParts DEF IInv, Answer, DataFor
<1>5. sock'[c] = sock[c] \/ (req.run = run[c] /\ sock'[c] = Append(sock[c], ans))
  BY <1>1
<1>6. Post(req).addr = req.addr /\ Post(req).val = req.val
  BY DEF Post
<1>7. 1 \in DOMAIN inbox
  BY <1>1, Taken
<1>8. req.cmd = "read" => ans = mem[req.addr]
  OBVIOUS
<1>9. req.cmd # "read" => ans = None
  OBVIOUS
<1> HIDE DEF req, ans
<1>10. ASSUME DataIn(sock'[c]) = DataIn(sock[c]) PROVE Answer' = Answer
  BY <1>4, <1>10 DEF Answer
<1>11. /\ ans = None => DataIn(Append(sock[c], ans)) = DataIn(sock[c])
       /\ ans # None /\ (\A i \in DOMAIN sock[c] : sock[c][i] = None)
            => DataIn(Append(sock[c], ans)) = ans
  BY <1>1, <1>4, DataInMore
<1>12. CASE req.cmd = "write"
  <2>1. Answer' = Answer
    BY <1>5, <1>9, <1>10, <1>12, <1>11
  <2>2. /\ Buffer[c] # <<>>
        /\ mem' = [mem EXCEPT ![Head(Buffer[c]).addr] = Head(Buffer[c]).val]
        /\ Buffer' = [Buffer EXCEPT ![c] = Tail(@)]
    <3>1. WritesOf(c) # <<>> /\ Head(WritesOf(c)) = Post(req) /\ Buffer[c] = WritesOf(c)
      BY <1>2, <1>3, <1>12
    <3>2. Buffer' = [Buffer EXCEPT ![c] = Tail(@)]
      BY <1>2, <1>3, <1>12
    <3> QED BY <1>1, <1>6, <1>12, <3>1, <3>2
  <2>3. Promise!TakeEffect(c)
    BY <1>1, <2>1, <2>2 DEF Promise!TakeEffect, Buffer, Answer
  <2> QED BY <2>3
<1>13. CASE req.cmd # "write"
  <2>1. mem' = mem /\ Buffer' = Buffer
    BY <1>1, <1>2, <1>3, <1>13
  <2>2. CASE sock'[c] = sock[c] \/ ans = None
    <3>1. DataIn(sock'[c]) = DataIn(sock[c])
      BY <1>5, <1>11, <2>2
    <3> QED BY <1>1, <1>10, <2>1, <3>1, SameView
  <2>3. CASE req.run = run[c] /\ sock'[c] = Append(sock[c], ans) /\ ans # None
    <3>1. req.cmd = "read" /\ ans = mem[req.addr]
      BY <1>8, <1>9, <2>3
    <3>2. 1 \in Unanswered(c)
      BY <1>0, <1>7, <2>3 DEF Unanswered, req
    <3>3. /\ waiting[c] = req.addr /\ Data(c) = {}
          /\ \A j \in DOMAIN inbox : inbox[j].from = c => j <= 1
      BY <3>1, <3>2 DEF IInv, Reading, req
    <3>4. waiting[c] # None
      BY <1>1, <3>3, RequestFacts, ServerAssumption
    <3>5. \A i \in DOMAIN sock[c] : sock[c][i] = None
      BY <3>3 DEF Data
    <3>6. DataIn(sock[c]) = None /\ DataIn(sock'[c]) = ans
      BY <1>11, <2>3, <3>5, DataInNothing
    <3>7. Writes(c) = {}
      <4> SUFFICES ASSUME NEW j \in Writes(c) PROVE FALSE
        OBVIOUS
      <4>1. j \in DOMAIN inbox /\ inbox[j].from = c /\ inbox[j].cmd = "write"
        BY DEF Writes
      <4>2. j \in 1..Len(inbox) /\ j <= 1
        BY <1>1, <3>3, <4>1, LenProperties
      <4>3. j = 1
        BY <4>2
      <4> QED BY <1>13, <4>1, <4>3 DEF req
    <3>8. Buffer[c] = <<>>
      <4>1. Len(WritesOf(c)) = 0 /\ WritesOf(c) \in Seq(Posted)
        BY <1>1, <3>7, WritesFacts, FS_EmptySet
      <4>2. WritesOf(c) = <<>>
        BY <4>1, EmptySeq
      <4> QED BY <1>3, <4>2
    <3>9. Answer' = [Answer EXCEPT ![c] = mem[waiting[c]]] /\ Answer[c] = None
      BY <1>4, <3>1, <3>3, <3>6
    <3>10. Promise!Sample(c)
      BY <1>1, <2>1, <3>4, <3>8, <3>9 DEF Promise!Sample, Buffer, Answer
    <3> QED BY <3>10
  <2> QED BY <1>5, <2>2, <2>3
<1> QED BY <1>12, <1>13

LEMMA StartRefines ==
  ASSUME Init
  PROVE  Promise!Init
<1>1. ASSUME NEW c \in Clients PROVE WritesOf(c) = <<>> /\ DataFor(c) = None
  <2>1. inbox = <<>> /\ inbox \in Seq(Requests)
    BY DEF Init
  <2>2. sock[c] = <<>> /\ DOMAIN sock[c] = {} /\ DOMAIN inbox = {}
    BY <2>1 DEF Init
  <2>3. DataFor(c) = None
    BY <2>2, DataInNothing DEF DataFor
  <2>4. Writes(c) = {}
    BY <2>2 DEF Writes
  <2>5. Len(WritesOf(c)) = 0 /\ WritesOf(c) \in Seq(Posted)
    BY <2>1, <2>4, WritesFacts, FS_EmptySet
  <2> QED BY <2>3, <2>5, EmptySeq
<1>2. /\ [c \in Clients |-> WritesOf(c)] = [c \in Clients |-> <<>>]
      /\ [c \in Clients |-> DataFor(c)] = [c \in Clients |-> None]
  BY <1>1
<1> QED BY <1>2 DEF Init, Promise!Init

LEMMA StepRefines ==
  ASSUME IInv, [Next]_vars
  PROVE  [Promise!Next]_(Promise!vars)
<1>1. CASE UNCHANGED vars
  <2>1. Answer' = Answer /\ Buffer' = Buffer
    BY <1>1, SamePosts DEF Answer, DataFor, vars, client
  <2> QED BY <1>1, <2>1, SameView DEF vars, client
<1>2. CASE Calls
  BY <1>2, CallsRefine DEF Promise!Next
<1>3. ASSUME NEW c \in Clients, ClientTakes(c) PROVE [Promise!Next]_(Promise!vars)
  BY <1>3, TakesRefine DEF Promise!Next
<1>4. ASSUME NEW c \in Clients, ClientRestart(c) PROVE [Promise!Next]_(Promise!vars)
  BY <1>4, RestartRefines DEF Promise!Next
<1>5. CASE Serve
  BY <1>5, AnswersRefine DEF Promise!Next
<1> QED BY <1>1, <1>2, <1>3, <1>4, <1>5 DEF Next

\* Whatever the programs do, and whatever datagrams the sockets drop, they see
\* a memory with posted writes: those of a program take effect in its order,
\* and a read gives the value after all of its earlier ones.
THEOREM ServerRefines == Spec => ImplementsBufferedMemory
<1>1. Init => Promise!Init
  BY StartRefines
<1>2. IInv /\ [Next]_vars => [Promise!Next]_(Promise!vars)
  BY StepRefines
<1> QED BY <1>1, <1>2, Invariance, PTL DEF Spec, Promise!Spec, ImplementsBufferedMemory
=============================================================================
