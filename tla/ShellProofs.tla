---------------------------- MODULE ShellProofs ----------------------------
(* Theorems about Shell and the parts it runs: whatever the user does with *)
(* the card, whatever is lost on its wires and however many sectors cannot *)
(* be read, for any cards, addresses, lines and counts of sectors.         *)
EXTENDS Shell, TLAPS

\* The disk layer keeps its invariant by the lemmas of DiskIoProofs.
DP == INSTANCE DiskIoProofs WITH card <- card.in, pc <- dpc

-----------------------------------------------------------------------------
(* The card: what it is at each entry of init_sd *)

\* the runs of init_sd that InitSelects speaks of
Clean == script = "init_sd" /\ ~spoilt /\ lost < Sd!Attempts

Addressed == card.rca = rca
Unaddressed == card.state = "idle" /\ card.rca = Sd!NoRca

\* times the loop around ACMD41 can still go round
Rounds == Polls - timeout

\* Each attempt of the entry in progress that the card did not hear was lost,
\* so after the last one it has heard one of them.  The loop is not left early
\* on a response of an earlier script: it would take two losses to keep that,
\* and a third to hide the answer.
Identification ==
  /\ at <= 3 => timeout = 0
  /\ at = 3 =>
       /\ Unaddressed /\ (card.v2 \/ lost >= attempt)
       /\ attempt > 0 /\ resp.up => lost >= 1
  /\ at = 4 =>
       /\ card.v2
       /\ \/ card.state = "ready"
          \/ /\ Unaddressed /\ (card.app \/ lost >= attempt) /\ card.busy <= Rounds
             /\ resp.up => lost >= 1
             /\ attempt > 0 /\ resp.up => lost >= 2
  /\ at = 5 =>
       /\ card.v2
       /\ \/ card.state = "ready"
          \/ /\ Unaddressed
             /\ \/ (card.app /\ lost >= attempt /\ card.busy <= Rounds)
                \/ (attempt > 0 /\ card.busy < Rounds)
             /\ resp.up => lost >= 2 /\ attempt = 0
  /\ at = 6 => (card.state = "ready" /\ lost >= attempt) \/ card.state = "ident"
  /\ at = 7 => card.state = "ident" /\ attempt = 0

Selection ==
  /\ at \in {8, 9} => card.state = "stby" /\ Addressed
  /\ at = 10 =>
       Addressed /\ ((card.state = "stby" /\ lost >= attempt) \/ card.state = "tran")
  /\ at >= 11 => card.state = "tran" /\ Addressed
  /\ at = 15 => card.app \/ lost >= attempt
  /\ at = 16 => (card.app /\ lost >= attempt) \/ card.width = 4
  /\ at >= 17 => card.width = 4
  /\ at >= 18 => width = 4

Progress ==
  /\ Clean /\ at # 0 => Identification /\ Selection
  /\ Clean /\ at = 0 => Sd!Selected

InSlotUnlessSpoilt == ~spoilt => card.in

-----------------------------------------------------------------------------
(* The scripts *)

EntryType == {e \in [do : {"cmd", "width"}, n : Nat, addressed : BOOLEAN] :
                e.do = "width" => e.n \in {1, 4}}

LEMMA Joined ==
  ASSUME NEW s, s \in Seq(EntryType), NEW t, t \in Seq(EntryType)
  PROVE  /\ s \o t \in Seq(EntryType) /\ Len(s \o t) = Len(s) + Len(t)
         /\ \A i \in 1..Len(s) : (s \o t)[i] = s[i]
         /\ \A i \in (Len(s) + 1)..(Len(s) + Len(t)) : (s \o t)[i] = t[i - Len(s)]
OBVIOUS

LEMMA Scripts ==
  /\ Sd!Entries("init_sd") \in Seq(EntryType) /\ Len(Sd!Entries("init_sd")) = 20
  /\ Sd!Entries("old_init2") \in Seq(EntryType) /\ Len(Sd!Entries("old_init2")) = 15
  /\ LET e == Sd!Entries("init_sd") IN
     /\ e[1] = Sd!Bus(1) /\ e[2] = Sd!All(0)
     /\ e[3] = Sd!All(8) /\ e[4] = Sd!All(55)
     /\ e[5] = Sd!All(41) /\ e[6] = Sd!All(2)
     /\ e[7] = Sd!All(3) /\ e[8] = Sd!One(9)
     /\ e[9] = Sd!One(13) /\ e[10] = Sd!One(7)
     /\ e[11] = Sd!One(55) /\ e[12] = Sd!All(51)
     /\ e[13] = Sd!All(6) /\ e[14] = Sd!All(6)
     /\ e[15] = Sd!One(55) /\ e[16] = Sd!All(6)
     /\ e[17] = Sd!Bus(4) /\ e[18] = Sd!One(55)
     /\ e[19] = Sd!All(13) /\ e[20] = Sd!Bus(4)
  /\ Sd!Entries("old_init2")[3] = Sd!All(55)
<1>1. /\ Sd!Bus(1) \in EntryType /\ Sd!Bus(4) \in EntryType
      /\ \A n \in Nat : Sd!All(n) \in EntryType /\ Sd!One(n) \in EntryType
  BY DEF Sd!Bus, Sd!All, Sd!One, EntryType
<1> HIDE DEF EntryType
<1> DEFINE s1 == << Sd!Bus(1) >>
           s2 == Sd!Identify
           s3 == Sd!Select
           s4 == Sd!Widen
           s5 == << Sd!One(55), Sd!All(51), Sd!One(55), Sd!All(13), Sd!All(16), Sd!All(17) >>
<1>2. s1 \in Seq(EntryType) /\ Len(s1) = 1 /\ s1[1] = Sd!Bus(1)
  BY <1>1
<1>3. /\ s2 \in Seq(EntryType) /\ Len(s2) = 6
      /\ s2[1] = Sd!All(0) /\ s2[2] = Sd!All(8) /\ s2[3] = Sd!All(55)
      /\ s2[4] = Sd!All(41) /\ s2[5] = Sd!All(2) /\ s2[6] = Sd!All(3)
  BY <1>1 DEF Sd!Identify
<1>4. /\ s3 \in Seq(EntryType) /\ Len(s3) = 3
      /\ s3[1] = Sd!One(9) /\ s3[2] = Sd!One(13) /\ s3[3] = Sd!One(7)
  BY <1>1 DEF Sd!Select
<1>5. /\ s4 \in Seq(EntryType) /\ Len(s4) = 10
      /\ s4[1] = Sd!One(55) /\ s4[2] = Sd!All(51) /\ s4[3] = Sd!All(6)
      /\ s4[4] = Sd!All(6) /\ s4[5] = Sd!One(55) /\ s4[6] = Sd!All(6)
      /\ s4[7] = Sd!Bus(4) /\ s4[8] = Sd!One(55) /\ s4[9] = Sd!All(13)
      /\ s4[10] = Sd!Bus(4)
  BY <1>1 DEF Sd!Widen
<1>6. s5 \in Seq(EntryType) /\ Len(s5) = 6
  BY <1>1
<1> HIDE DEF s1, s2, s3, s4, s5
<1> DEFINE a == s1 \o s2
           b == a \o s3
           e == b \o s4
           c == s2 \o s3
           d == c \o s5
<1>7. /\ a \in Seq(EntryType) /\ Len(a) = 7
      /\ \A i \in 1..1 : a[i] = s1[i]
      /\ \A i \in 1..6 : a[1 + i] = s2[i]
  <2>1. s1 \in Seq(EntryType) /\ s2 \in Seq(EntryType)
    BY ONLY <1>2, <1>3
  <2>2. /\ a \in Seq(EntryType) /\ Len(a) = Len(s1) + Len(s2)
        /\ \A i \in 1..Len(s1) : a[i] = s1[i]
        /\ \A i \in (Len(s1) + 1)..(Len(s1) + Len(s2)) : a[i] = s2[i - Len(s1)]
    BY ONLY <2>1, Joined, Zenon DEF a
  <2> HIDE DEF a
  <2> QED BY ONLY <1>2, <1>3, <2>2
<1> HIDE DEF a
<1>8. /\ b \in Seq(EntryType) /\ Len(b) = 10
      /\ \A i \in 1..7 : b[i] = a[i]
      /\ \A i \in 1..3 : b[7 + i] = s3[i]
  <2>1. a \in Seq(EntryType) /\ s3 \in Seq(EntryType)
    BY ONLY <1>7, <1>4
  <2>2. /\ b \in Seq(EntryType) /\ Len(b) = Len(a) + Len(s3)
        /\ \A i \in 1..Len(a) : b[i] = a[i]
        /\ \A i \in (Len(a) + 1)..(Len(a) + Len(s3)) : b[i] = s3[i - Len(a)]
    BY ONLY <2>1, Joined, Zenon DEF b
  <2> HIDE DEF b
  <2> QED BY ONLY <1>7, <1>4, <2>2
<1> HIDE DEF b
<1>9. /\ e \in Seq(EntryType) /\ Len(e) = 20
      /\ \A i \in 1..10 : e[i] = b[i]
      /\ \A i \in 1..10 : e[10 + i] = s4[i]
  <2>1. b \in Seq(EntryType) /\ s4 \in Seq(EntryType)
    BY ONLY <1>8, <1>5
  <2>2. /\ e \in Seq(EntryType) /\ Len(e) = Len(b) + Len(s4)
        /\ \A i \in 1..Len(b) : e[i] = b[i]
        /\ \A i \in (Len(b) + 1)..(Len(b) + Len(s4)) : e[i] = s4[i - Len(b)]
    BY ONLY <2>1, Joined, Zenon DEF e
  <2> HIDE DEF e
  <2> QED BY ONLY <1>8, <1>5, <2>2
<1> HIDE DEF e
<1>10. /\ c \in Seq(EntryType) /\ Len(c) = 9
       /\ \A i \in 1..6 : c[i] = s2[i]
       /\ \A i \in 1..3 : c[6 + i] = s3[i]
  <2>1. s2 \in Seq(EntryType) /\ s3 \in Seq(EntryType)
    BY ONLY <1>3, <1>4
  <2>2. /\ c \in Seq(EntryType) /\ Len(c) = Len(s2) + Len(s3)
        /\ \A i \in 1..Len(s2) : c[i] = s2[i]
        /\ \A i \in (Len(s2) + 1)..(Len(s2) + Len(s3)) : c[i] = s3[i - Len(s2)]
    BY ONLY <2>1, Joined, Zenon DEF c
  <2> HIDE DEF c
  <2> QED BY ONLY <1>3, <1>4, <2>2
<1> HIDE DEF c
<1>11. /\ d \in Seq(EntryType) /\ Len(d) = 15
       /\ \A i \in 1..9 : d[i] = c[i]
       /\ \A i \in 1..6 : d[9 + i] = s5[i]
  <2>1. c \in Seq(EntryType) /\ s5 \in Seq(EntryType)
    BY ONLY <1>10, <1>6
  <2>2. /\ d \in Seq(EntryType) /\ Len(d) = Len(c) + Len(s5)
        /\ \A i \in 1..Len(c) : d[i] = c[i]
        /\ \A i \in (Len(c) + 1)..(Len(c) + Len(s5)) : d[i] = s5[i - Len(c)]
    BY ONLY <2>1, Joined, Zenon DEF d
  <2> HIDE DEF d
  <2> QED BY ONLY <1>10, <1>6, <2>2
<1> HIDE DEF d
<1>12. Sd!Entries("init_sd") = e /\ Sd!Entries("old_init2") = d
  BY DEF Sd!Entries, s1, s2, s3, s4, s5, a, b, c, d, e
<1>13. /\ e[1] = s1[1] /\ e[2] = s2[1] /\ e[3] = s2[2] /\ e[4] = s2[3]
       /\ e[5] = s2[4] /\ e[6] = s2[5] /\ e[7] = s2[6]
  <2>1. /\ e[1] = b[1] /\ e[2] = b[2] /\ e[3] = b[3] /\ e[4] = b[4]
        /\ e[5] = b[5] /\ e[6] = b[6] /\ e[7] = b[7]
    BY ONLY <1>9
  <2>2. /\ b[1] = a[1] /\ b[2] = a[2] /\ b[3] = a[3] /\ b[4] = a[4]
        /\ b[5] = a[5] /\ b[6] = a[6] /\ b[7] = a[7]
    BY ONLY <1>8
  <2>3. /\ a[1] = s1[1] /\ a[2] = s2[1] /\ a[3] = s2[2] /\ a[4] = s2[3]
        /\ a[5] = s2[4] /\ a[6] = s2[5] /\ a[7] = s2[6]
    BY ONLY <1>7
  <2> QED BY ONLY <2>1, <2>2, <2>3
<1>14. e[8] = s3[1] /\ e[9] = s3[2] /\ e[10] = s3[3]
  <2>1. e[8] = b[8] /\ e[9] = b[9] /\ e[10] = b[10]
    BY ONLY <1>9
  <2>2. b[8] = s3[1] /\ b[9] = s3[2] /\ b[10] = s3[3]
    BY ONLY <1>8
  <2> QED BY ONLY <2>1, <2>2
<1>15. /\ e[11] = s4[1] /\ e[12] = s4[2] /\ e[13] = s4[3] /\ e[14] = s4[4]
       /\ e[15] = s4[5] /\ e[16] = s4[6] /\ e[17] = s4[7] /\ e[18] = s4[8]
       /\ e[19] = s4[9] /\ e[20] = s4[10]
  BY ONLY <1>9
<1>16. /\ e[1] = Sd!Bus(1) /\ e[2] = Sd!All(0)
       /\ e[3] = Sd!All(8) /\ e[4] = Sd!All(55)
       /\ e[5] = Sd!All(41) /\ e[6] = Sd!All(2)
       /\ e[7] = Sd!All(3) /\ e[8] = Sd!One(9)
       /\ e[9] = Sd!One(13) /\ e[10] = Sd!One(7)
       /\ e[11] = Sd!One(55) /\ e[12] = Sd!All(51)
       /\ e[13] = Sd!All(6) /\ e[14] = Sd!All(6)
       /\ e[15] = Sd!One(55) /\ e[16] = Sd!All(6)
       /\ e[17] = Sd!Bus(4) /\ e[18] = Sd!One(55)
       /\ e[19] = Sd!All(13) /\ e[20] = Sd!Bus(4)
  BY ONLY <1>2, <1>3, <1>4, <1>5, <1>13, <1>14, <1>15
<1>17. d[3] = Sd!All(55)
  BY ONLY <1>3, <1>10, <1>11
<1> QED BY ONLY <1>9, <1>11, <1>12, <1>16, <1>17

LEMMA ScriptTypes ==
  /\ Sd!Entries("init_sd") \in Seq(EntryType) /\ Len(Sd!Entries("init_sd")) = 20
  /\ Sd!Entries("old_init2") \in Seq(EntryType) /\ Len(Sd!Entries("old_init2")) = 15
BY ONLY Scripts

LEMMA EntryThere ==
  ASSUME Sd!TypeOK, at # 0
  PROVE  /\ at \in 1..Len(Sd!Entries(script)) /\ Len(Sd!Entries(script)) \in {15, 20}
         /\ Sd!Entry \in EntryType
<1>1. at \in 1..Len(Sd!Entries(script)) /\ Len(Sd!Entries(script)) \in {15, 20}
  BY ScriptTypes DEF Sd!TypeOK
<1>2. Sd!Entries(script) \in Seq(EntryType)
  BY ScriptTypes DEF Sd!TypeOK
<1>3. \A s \in Seq(EntryType) : \A i \in 1..Len(s) : s[i] \in EntryType
  OBVIOUS
<1> QED BY ONLY <1>1, <1>2, <1>3 DEF Sd!Entry

LEMMA NextEntryThere ==
  ASSUME Sd!TypeOK, at # 0
  PROVE  Sd!NextEntry \in 0..Len(Sd!Entries(script))
BY EntryThere DEF Sd!NextEntry

\* the loop around ACMD41 begins with the CMD55 before it
LEMMA LoopStartThere ==
  ASSUME Sd!TypeOK
  PROVE  Sd!LoopStart \in 1..Len(Sd!Entries(script))
<1>1. \E i \in 1..Len(Sd!Entries(script)) : Sd!Entries(script)[i] = Sd!All(55)
  <2>1. CASE script = "init_sd"
    <3>1. 4 \in 1..Len(Sd!Entries(script)) /\ Sd!Entries(script)[4] = Sd!All(55)
      BY ONLY <2>1, Scripts
    <3> QED BY <3>1
  <2>2. CASE script = "old_init2"
    <3>1. 3 \in 1..Len(Sd!Entries(script)) /\ Sd!Entries(script)[3] = Sd!All(55)
      BY ONLY <2>2, Scripts
    <3> QED BY <3>1
  <2> QED BY <2>1, <2>2 DEF Sd!TypeOK
<1> QED BY <1>1 DEF Sd!LoopStart

LEMMA InitSdLoop ==
  ASSUME script = "init_sd"
  PROVE  Sd!LoopStart = 4
<1> DEFINE e == Sd!Entries("init_sd")
<1>1. Len(e) = 20
  BY Scripts
<1>2. /\ e[4] = Sd!All(55)
      /\ \A i \in 1..20 : e[i] = Sd!All(55) => i = 4
  <2>1. /\ Sd!All(0) # Sd!All(55) /\ Sd!All(8) # Sd!All(55) /\ Sd!All(41) # Sd!All(55)
        /\ Sd!All(2) # Sd!All(55) /\ Sd!All(3) # Sd!All(55) /\ Sd!All(51) # Sd!All(55)
        /\ Sd!All(6) # Sd!All(55) /\ Sd!All(13) # Sd!All(55)
        /\ Sd!One(9) # Sd!All(55) /\ Sd!One(13) # Sd!All(55) /\ Sd!One(7) # Sd!All(55)
        /\ Sd!One(55) # Sd!All(55) /\ Sd!Bus(1) # Sd!All(55) /\ Sd!Bus(4) # Sd!All(55)
    BY DEF Sd!All, Sd!One, Sd!Bus
  <2>2. ASSUME NEW i \in 1..20, i # 4
        PROVE  e[i] # Sd!All(55)
    <3>1. e[1] # Sd!All(55) /\ e[17] # Sd!All(55) /\ e[20] # Sd!All(55)
      BY ONLY <2>1, Scripts, Zenon
    <3>2. /\ e[8] # Sd!All(55) /\ e[9] # Sd!All(55) /\ e[10] # Sd!All(55)
          /\ e[11] # Sd!All(55) /\ e[15] # Sd!All(55) /\ e[18] # Sd!All(55)
      BY ONLY <2>1, Scripts, Zenon
    <3>3. e[2] # Sd!All(55) /\ e[3] # Sd!All(55) /\ e[5] # Sd!All(55)
      BY ONLY <2>1, Scripts, Zenon
    <3>4. e[6] # Sd!All(55) /\ e[7] # Sd!All(55) /\ e[12] # Sd!All(55)
      BY ONLY <2>1, Scripts, Zenon
    <3>5. e[13] # Sd!All(55) /\ e[14] # Sd!All(55)
      BY ONLY <2>1, Scripts, Zenon
    <3>6. e[16] # Sd!All(55) /\ e[19] # Sd!All(55)
      BY ONLY <2>1, Scripts, Zenon
    <3> HIDE DEF e
    <3>7. \/ i = 1 \/ i = 2 \/ i = 3 \/ i = 5 \/ i = 6 \/ i = 7 \/ i = 8 \/ i = 9 \/ i = 10
          \/ i = 11 \/ i = 12 \/ i = 13 \/ i = 14 \/ i = 15 \/ i = 16 \/ i = 17 \/ i = 18
          \/ i = 19 \/ i = 20
      BY ONLY <2>2
    <3> QED BY ONLY <3>1, <3>2, <3>3, <3>4, <3>5, <3>6, <3>7
  <2> QED BY ONLY <2>2, Scripts
<1>3. \A i : (i \in 1..20 /\ e[i] = Sd!All(55)) <=> i = 4
  BY ONLY <1>2
<1>4. Sd!LoopStart = CHOOSE i \in 1..20 : e[i] = Sd!All(55)
  BY <1>1 DEF Sd!LoopStart
<1> HIDE DEF e
<1> QED BY ONLY <1>3, <1>4

-----------------------------------------------------------------------------
(* The card and its types *)

Card == [in : BOOLEAN, state : {"idle", "ready", "ident", "stby", "tran"},
         rca : Rcas \cup {Sd!NoRca}, app : BOOLEAN, v2 : BOOLEAN,
         busy : 0..Busy, width : {1, 4}]

Plain(c) == [c EXCEPT !.app = FALSE]

\* what becomes of a card that obeys command n
Effect(c, n, d) ==
  /\ d \in Card /\ d.in
  /\ n = 0 => d.state = "idle" /\ d.rca = Sd!NoRca /\ d.busy = Busy
  /\ n = 8 => d.v2
  /\ n = 55 => d.app
  /\ n = 41 => IF Sd!PoweredUp(c) THEN d.state = "ready"
               ELSE d.state = c.state /\ (c.busy # 0 => d.busy = c.busy - 1)
  /\ n = 2 => d.state = "ident"
  /\ n = 3 => d.state = "stby"
  /\ n = 7 => d.state = "tran"
  /\ n = 6 /\ c.app => d.width = 4
  /\ n \notin {0, 41, 2, 3, 7} => d.state = c.state
  /\ n \notin {0, 3} => d.rca = c.rca
  /\ n \notin {0, 41} => d.busy = c.busy
  /\ n # 0 => (c.v2 => d.v2) /\ (c.width = 4 => d.width = 4)

LEMMA CardObeys ==
  ASSUME Sd!CardAssumption, NEW c \in Card, c.in, NEW n \in Nat, NEW d \in Sd!Obeyed(c, n)
  PROVE  Effect(c, n, d)
<1>1. Plain(c) \in Card /\ Plain(c).in
  BY DEF Plain, Card
<1>2. /\ Plain(c).state = c.state /\ Plain(c).rca = c.rca /\ Plain(c).v2 = c.v2
      /\ Plain(c).busy = c.busy /\ Plain(c).width = c.width
  BY DEF Plain, Card
<1>3. CASE n = 0
  <2>1. d = Sd!Inserted
    BY <1>3 DEF Sd!Obeyed, Plain
  <2>2. Sd!Empty \in Card
    BY DEF Sd!Empty, Card, Sd!NoRca, Sd!CardAssumption
  <2>3. Sd!Inserted \in Card
    BY <2>2 DEF Sd!Inserted, Card
  <2>4. /\ Sd!Inserted.in /\ Sd!Inserted.state = "idle" /\ Sd!Inserted.rca = Sd!NoRca
        /\ Sd!Inserted.busy = Busy
    BY DEF Sd!Inserted, Sd!Empty
  <2> QED BY <1>3, <2>1, <2>3, <2>4 DEF Effect
<1>4. CASE n = 8
  <2>1. d = [Plain(c) EXCEPT !.v2 = TRUE]
    BY <1>4 DEF Sd!Obeyed, Plain
  <2>2. /\ d \in Card /\ d.in /\ d.v2 /\ d.state = c.state /\ d.rca = c.rca
        /\ d.busy = c.busy /\ d.width = c.width
    BY <1>1, <1>2, <2>1 DEF Card
  <2> QED BY ONLY <1>4, <2>2 DEF Effect
<1>5. CASE n = 55
  <2>1. d = [c EXCEPT !.app = TRUE]
    BY <1>5 DEF Sd!Obeyed, Plain
  <2>2. /\ d \in Card /\ d.in /\ d.app /\ d.state = c.state /\ d.rca = c.rca
        /\ d.v2 = c.v2 /\ d.busy = c.busy /\ d.width = c.width
    BY <2>1 DEF Card
  <2> QED BY ONLY <1>5, <2>2 DEF Effect
<1>6. CASE n = 41
  <2>1. CASE Sd!PoweredUp(c)
    <3>1. d = [Plain(c) EXCEPT !.state = "ready"]
      BY <1>6, <2>1 DEF Sd!Obeyed, Plain
    <3>2. /\ d \in Card /\ d.in /\ d.state = "ready" /\ d.rca = c.rca
          /\ d.v2 = c.v2 /\ d.width = c.width
      BY <1>1, <1>2, <3>1 DEF Card
    <3> QED BY ONLY <1>6, <2>1, <3>2 DEF Effect
  <2>2. CASE ~Sd!PoweredUp(c)
    <3>1. d = [Plain(c) EXCEPT !.busy = IF Plain(c).busy = 0 THEN 0 ELSE Plain(c).busy - 1]
      BY <1>6, <2>2 DEF Sd!Obeyed, Plain
    <3>2. (IF c.busy = 0 THEN 0 ELSE c.busy - 1) \in 0..Busy
      BY DEF Card, Sd!CardAssumption
    <3>3. /\ d \in Card /\ d.in /\ d.state = c.state /\ d.rca = c.rca
          /\ d.v2 = c.v2 /\ d.width = c.width
          /\ d.busy = IF c.busy = 0 THEN 0 ELSE c.busy - 1
      BY <1>1, <1>2, <3>1, <3>2 DEF Card
    <3> QED BY ONLY <1>6, <2>2, <3>3 DEF Effect
  <2> QED BY <2>1, <2>2
<1>7. CASE n = 2
  <2>1. d = [Plain(c) EXCEPT !.state = "ident"]
    BY <1>7 DEF Sd!Obeyed, Plain
  <2> QED BY <1>1, <1>2, <1>7, <2>1 DEF Effect, Card
<1>8. CASE n = 3
  <2>1. d \in Sd!Published(c)
    BY <1>8 DEF Sd!Obeyed
  <2>2. PICK r \in Rcas : d = [c EXCEPT !.app = FALSE, !.state = "stby", !.rca = r]
    BY <2>1 DEF Sd!Published
  <2>3. /\ d \in Card /\ d.in /\ d.state = "stby"
        /\ d.v2 = c.v2 /\ d.busy = c.busy /\ d.width = c.width
    BY <2>2 DEF Card
  <2> QED BY ONLY <1>8, <2>3 DEF Effect
<1>9. CASE n = 7
  <2>1. d = [Plain(c) EXCEPT !.state = "tran"]
    BY <1>9 DEF Sd!Obeyed, Plain
  <2> QED BY <1>1, <1>2, <1>9, <2>1 DEF Effect, Card
<1>10. CASE n = 6
  <2>1. CASE c.app
    <3>1. d = [Plain(c) EXCEPT !.width = 4]
      BY <1>10, <2>1 DEF Sd!Obeyed, Plain
    <3> QED BY <1>1, <1>2, <1>10, <2>1, <3>1 DEF Effect, Card
  <2>2. CASE ~c.app
    <3>1. d = Plain(c)
      BY <1>10, <2>2 DEF Sd!Obeyed, Plain
    <3> QED BY <1>1, <1>2, <1>10, <2>2, <3>1 DEF Effect, Card
  <2> QED BY <2>1, <2>2
<1>11. CASE n \notin {0, 8, 55, 41, 2, 3, 7, 6}
  <2>1. d = Plain(c)
    BY <1>11 DEF Sd!Obeyed, Plain
  <2> QED BY <1>1, <1>2, <1>11, <2>1 DEF Effect, Card
<1> QED BY <1>3, <1>4, <1>5, <1>6, <1>7, <1>8, <1>9, <1>10, <1>11

\* and of one that does not take it for a command to it
LEMMA CardIgnores ==
  ASSUME NEW c \in Card, NEW n, NEW arg, NEW d, d = Sd!Ignored(c, n, arg)
  PROVE  /\ d \in Card /\ d.in = c.in /\ d.rca = c.rca /\ d.v2 = c.v2
         /\ d.busy = c.busy /\ d.width = c.width
         /\ n # 7 \/ arg = c.rca => d.state = c.state
BY DEF Sd!Ignored, Card

\* what an attempt does to the card and the response register
LEMMA Attempt ==
  ASSUME Sd!CardAssumption, Sd!TypeOK, NEW heard \in BOOLEAN, NEW answered \in BOOLEAN,
         Sd!Command(heard, answered)
  PROVE  /\ card' \in Card /\ (card.in => card'.in)
         /\ resp' \in [up : BOOLEAN, rca : Rcas \cup {Sd!NoRca, Sd!Noise}]
<1> DEFINE n == Sd!Entry.n
<1>1. n \in Nat /\ card \in Card
  BY EntryThere DEF Sd!Command, EntryType, Sd!TypeOK, Card
<1>2. PICK c \in (IF ~heard THEN {card}
                  ELSE IF Sd!Legal(card, n, Sd!Arg) THEN Sd!Obeyed(card, n)
                  ELSE {Sd!Ignored(card, n, Sd!Arg)}) :
        card' = c /\ resp' = IF answered THEN Sd!Response(c, n) ELSE resp
  BY DEF Sd!Command
<1>3. heard => card.in
  BY DEF Sd!Command, Sd!InSlot
<1>4. c \in Card /\ (card.in => c.in)
  <2>1. CASE ~heard
    BY <1>1, <1>2, <2>1
  <2>2. CASE heard
    <3>1. c \in Sd!Obeyed(card, n) \/ c = Sd!Ignored(card, n, Sd!Arg)
      BY <1>2, <2>2
    <3> HIDE DEF n
    <3>2. c \in Sd!Obeyed(card, n) => Effect(card, n, c)
      BY <1>1, <1>3, <2>2, CardObeys
    <3> QED BY <1>1, <3>1, <3>2, CardIgnores DEF Effect
  <2> QED BY <2>1, <2>2
<1>5. Sd!Response(c, n) \in [up : BOOLEAN, rca : Rcas \cup {Sd!NoRca, Sd!Noise}]
  BY <1>4 DEF Sd!Response, Card, Sd!Quiet
<1> QED BY <1>2, <1>4, <1>5 DEF Sd!TypeOK

-----------------------------------------------------------------------------
(* An attempt, and what it does in init_sd *)

LEMMA Legality ==
  ASSUME NEW c \in Card, NEW arg
  PROVE  /\ Sd!Legal(c, 0, arg)
         /\ Sd!Legal(c, 8, arg) <=> c.state = "idle"
         /\ Sd!Legal(c, 55, arg) <=> c.state \in {"idle", "stby", "tran"} /\ arg = c.rca
         /\ Sd!Legal(c, 41, arg) <=> c.state = "idle" /\ c.app
         /\ Sd!Legal(c, 2, arg) <=> c.state = "ready"
         /\ Sd!Legal(c, 3, arg) <=> c.state \in {"ident", "stby"}
         /\ Sd!Legal(c, 7, arg) <=> c.state = "stby" /\ arg = c.rca
         /\ Sd!Legal(c, 6, arg) <=> c.state = "tran"
BY DEF Sd!Legal, Card

LEMMA Responses ==
  ASSUME NEW c \in Card
  PROVE  /\ ~Sd!Response(c, 8).up
         /\ ~Sd!Response(c, 55).up
         /\ Sd!Response(c, 41).up <=> c.state = "ready"
         /\ Sd!Response(c, 3).rca = c.rca
<1>1. Sd!Response(c, 8) = Sd!Quiet /\ Sd!Response(c, 55) = Sd!Quiet
  BY DEF Sd!Response
<1>2. /\ Sd!Response(c, 41) = [up |-> c.state = "ready", rca |-> Sd!Noise]
      /\ Sd!Response(c, 3) = [up |-> FALSE, rca |-> c.rca]
  BY DEF Sd!Response
<1>3. ~Sd!Quiet.up
  BY DEF Sd!Quiet
<1>4. Sd!Response(c, 41).up <=> c.state = "ready"
  <2>1. CASE c.state = "ready"
    <3>1. (c.state = "ready") = TRUE
      BY <2>1, Zenon
    <3>2. Sd!Response(c, 41) = [up |-> TRUE, rca |-> Sd!Noise]
      BY ONLY <1>2, <3>1, Zenon
    <3> QED BY ONLY <2>1, <3>2
  <2>2. CASE c.state # "ready"
    <3>1. (c.state = "ready") = FALSE
      BY <2>2, Zenon
    <3>2. Sd!Response(c, 41) = [up |-> FALSE, rca |-> Sd!Noise]
      BY ONLY <1>2, <3>1, Zenon
    <3> QED BY ONLY <2>2, <3>2
  <2> QED BY ONLY <2>1, <2>2
<1>5. Sd!Response(c, 3).rca = c.rca
  BY <1>2
<1> QED BY ONLY <1>1, <1>3, <1>4, <1>5, Zenon

\* the command of the entry in progress, and whether the card takes it
N == Sd!Entry.n
Taken == Sd!Legal(card, N, Sd!Arg)

\* an attempt, in a run of init_sd that is still clean after it
Outcome(heard, answered) ==
  /\ Clean /\ card.in /\ card \in Card /\ card' \in Card
  /\ at \in 1..20 /\ attempt \in 0..2 /\ lost \in Nat /\ lost' \in Nat /\ lost' < 3
  /\ resp.up \in BOOLEAN /\ timeout \in 0..Polls
  /\ heard /\ Taken => Effect(card, N, card')
  /\ ~(heard /\ Taken) =>
       /\ card'.rca = card.rca /\ card'.v2 = card.v2
       /\ card'.busy = card.busy /\ card'.width = card.width
       /\ N # 7 \/ Sd!Arg = card.rca => card'.state = card.state
  /\ ~heard => lost' = lost + 1 /\ card' = card
  /\ ~answered /\ Taken /\ N # 0 /\ attempt = 0 => lost' = lost + 1
  /\ lost' >= lost
  /\ answered => heard /\ Taken /\ attempt = 0 /\ resp' = Sd!Response(card', N)
  /\ ~answered => resp' = resp
  /\ N = 0 => heard
  /\ N = 3 /\ Taken /\ attempt = 0 => answered
  /\ IF answered \/ N = 0 \/ attempt = 2
       THEN Sd!Proceed
       ELSE attempt' = attempt + 1 /\ UNCHANGED <<at, timeout, rca>>
  /\ UNCHANGED width

LEMMA AttemptOutcome ==
  ASSUME Sd!CardAssumption, Sd!TypeOK, InSlotUnlessSpoilt, NEW heard \in BOOLEAN,
         NEW answered \in BOOLEAN, Sd!Command(heard, answered), Clean'
  PROVE  Outcome(heard, answered)
<1>1. /\ N \in Nat /\ card \in Card /\ card' \in Card /\ lost \in Nat /\ at # 0
      /\ resp.up \in BOOLEAN /\ timeout \in 0..Polls /\ attempt \in 0..2
  BY EntryThere, Attempt DEF Sd!Command, EntryType, Sd!TypeOK, Card, N, Sd!Attempts
<1>2. /\ lost' = IF card.in /\ (~heard \/ ((card.in /\ Taken /\ N # 0 /\ attempt = 0) /\ ~answered))
                   THEN lost + 1 ELSE lost
      /\ spoilt' = (spoilt \/ (N = 0 /\ ~heard)
                     \/ (N = 3 /\ (card.in /\ Taken /\ N # 0 /\ attempt = 0) /\ ~answered))
      /\ answered => heard /\ card.in /\ Taken /\ N # 0 /\ attempt = 0
      /\ script' = script /\ width' = width
  BY DEF Sd!Command, Sd!InSlot, Sd!Expected, N, Taken
<1>3. PICK c \in (IF ~heard THEN {card}
                  ELSE IF Taken THEN Sd!Obeyed(card, N)
                  ELSE {Sd!Ignored(card, N, Sd!Arg)}) :
        card' = c /\ resp' = IF answered THEN Sd!Response(c, N) ELSE resp
  BY DEF Sd!Command, N, Taken
<1>4. IF answered \/ N = 0 \/ attempt + 1 = 3
        THEN Sd!Proceed
        ELSE attempt' = attempt + 1 /\ UNCHANGED <<at, timeout, rca>>
  BY DEF Sd!Command, Sd!LastAttempt, N, Sd!Attempts
<1>5. ~spoilt /\ card.in
  BY <1>2 DEF Clean, InSlotUnlessSpoilt
<1>6. Clean /\ lost' < 3 /\ lost' \in Nat /\ lost' >= lost
  BY <1>1, <1>2, <1>5 DEF Clean, Sd!Attempts
<1>7. at \in 1..20
  BY <1>1, <1>6, EntryThere, Scripts DEF Clean
<1> HIDE DEF N, Taken
<1>8. heard /\ Taken => Effect(card, N, card')
  BY <1>1, <1>3, <1>5, CardObeys
<1>9. ~heard => card' = card
  BY <1>3
<1>10. heard /\ ~Taken => card' = Sd!Ignored(card, N, Sd!Arg)
  BY <1>3
<1>11. ~(heard /\ Taken) =>
         /\ card'.rca = card.rca /\ card'.v2 = card.v2
         /\ card'.busy = card.busy /\ card'.width = card.width
         /\ N # 7 \/ Sd!Arg = card.rca => card'.state = card.state
  BY <1>1, <1>9, <1>10, CardIgnores
<1>12. /\ answered => resp' = Sd!Response(card', N)
       /\ ~answered => resp' = resp
  BY <1>3
<1>13. attempt + 1 = 3 <=> attempt = 2
  BY <1>1
<1>14. /\ ~heard => lost' = lost + 1
       /\ ~answered /\ Taken /\ N # 0 /\ attempt = 0 => lost' = lost + 1
  BY ONLY <1>2, <1>5
<1>15. /\ N = 0 => heard
       /\ N = 3 /\ Taken /\ attempt = 0 => answered
  <2>1. ~spoilt'
    BY DEF Clean
  <2>2. N = 3 => N # 0
    BY <1>1
  <2> QED BY ONLY <2>1, <2>2, <1>2, <1>5
<1> QED
  BY ONLY <1>1, <1>2, <1>4, <1>5, <1>6, <1>7, <1>8, <1>9, <1>11, <1>12, <1>13, <1>14, <1>15,
          Zenon DEF Outcome

\* the command of each entry and its argument
LEMMA InitSdEntry ==
  ASSUME script = "init_sd"
  PROVE  /\ at \in {1, 17, 20} => Sd!Entry.do = "width"
         /\ at = 1 => N = 1
         /\ at \in {17, 20} => N = 4
         /\ at \in (1..20) \ {1, 17, 20} => Sd!Entry.do = "cmd"
         /\ at = 2 => N = 0
         /\ at = 3 => N = 8
         /\ at = 4 => N = 55 /\ Sd!Arg = Sd!NoRca
         /\ at = 5 => N = 41
         /\ at = 6 => N = 2
         /\ at = 7 => N = 3
         /\ at = 8 => N = 9
         /\ at = 9 => N = 13
         /\ at = 10 => N = 7 /\ Sd!Arg = rca
         /\ at = 11 => N = 55
         /\ at = 12 => N = 51
         /\ at \in {13, 14, 16} => N = 6
         /\ at \in {15, 18} => N = 55 /\ Sd!Arg = rca
         /\ at = 19 => N = 13
<1>1. /\ \A n : Sd!All(n).do = "cmd" /\ Sd!All(n).n = n /\ Sd!All(n).addressed = FALSE
      /\ \A n : Sd!One(n).do = "cmd" /\ Sd!One(n).n = n /\ Sd!One(n).addressed = TRUE
      /\ \A n : Sd!Bus(n).do = "width" /\ Sd!Bus(n).n = n
  BY DEF Sd!All, Sd!One, Sd!Bus
<1>2. Sd!Arg = IF Sd!Entry.addressed THEN rca ELSE Sd!NoRca
  BY DEF Sd!Arg
<1>3. /\ at = 1 => Sd!Entry = Sd!Bus(1)
      /\ at = 2 => Sd!Entry = Sd!All(0)
      /\ at = 3 => Sd!Entry = Sd!All(8)
      /\ at = 4 => Sd!Entry = Sd!All(55)
      /\ at = 5 => Sd!Entry = Sd!All(41)
      /\ at = 6 => Sd!Entry = Sd!All(2)
      /\ at = 7 => Sd!Entry = Sd!All(3)
      /\ at = 8 => Sd!Entry = Sd!One(9)
      /\ at = 9 => Sd!Entry = Sd!One(13)
      /\ at = 10 => Sd!Entry = Sd!One(7)
  BY ONLY Scripts, script = "init_sd" DEF Sd!Entry
<1>4. /\ at = 11 => Sd!Entry = Sd!One(55)
      /\ at = 12 => Sd!Entry = Sd!All(51)
      /\ at = 13 => Sd!Entry = Sd!All(6)
      /\ at = 14 => Sd!Entry = Sd!All(6)
      /\ at = 15 => Sd!Entry = Sd!One(55)
      /\ at = 16 => Sd!Entry = Sd!All(6)
      /\ at = 17 => Sd!Entry = Sd!Bus(4)
      /\ at = 18 => Sd!Entry = Sd!One(55)
      /\ at = 19 => Sd!Entry = Sd!All(13)
      /\ at = 20 => Sd!Entry = Sd!Bus(4)
  BY ONLY Scripts, script = "init_sd" DEF Sd!Entry
<1> QED BY ONLY <1>1, <1>2, <1>3, <1>4 DEF N

-----------------------------------------------------------------------------
(* The entries of init_sd, one by one *)

LEMMA NextOfInitSd ==
  ASSUME script = "init_sd"
  PROVE  Sd!NextEntry = IF at = 20 THEN 0 ELSE at + 1
<1>1. Len(Sd!Entries(script)) = 20
  BY Scripts
<1> QED BY ONLY <1>1 DEF Sd!NextEntry

LEMMA GoesOn ==
  ASSUME NEW heard \in BOOLEAN, NEW answered \in BOOLEAN, Outcome(heard, answered)
  PROVE  /\ N \notin {3, 41} =>
              IF answered \/ N = 0 \/ attempt = 2
                THEN /\ attempt' = 0 /\ rca' = rca /\ timeout' = timeout
                     /\ at' = IF at = 20 THEN 0 ELSE at + 1
                ELSE attempt' = attempt + 1 /\ UNCHANGED <<at, timeout, rca>>
         /\ N \in {3, 41} =>
              IF answered \/ attempt = 2
                THEN Sd!Proceed
                ELSE attempt' = attempt + 1 /\ UNCHANGED <<at, timeout, rca>>
<1>1. Sd!NextEntry = IF at = 20 THEN 0 ELSE at + 1
  BY NextOfInitSd DEF Outcome, Clean
<1>2. IF answered \/ N = 0 \/ attempt = 2
        THEN Sd!Proceed
        ELSE attempt' = attempt + 1 /\ UNCHANGED <<at, timeout, rca>>
  BY DEF Outcome
<1>3. N \notin {3, 41} /\ Sd!Proceed =>
        /\ attempt' = 0 /\ rca' = rca /\ timeout' = timeout
        /\ at' = IF at = 20 THEN 0 ELSE at + 1
  BY <1>1 DEF Sd!Proceed, N
<1> QED BY ONLY <1>2, <1>3

\* what a command leaves as it is
LEMMA Kept ==
  ASSUME NEW heard \in BOOLEAN, NEW answered \in BOOLEAN, Outcome(heard, answered)
  PROVE  /\ N \notin {0, 41, 2, 3, 7} => card'.state = card.state
         /\ N \notin {0, 3} => card'.rca = card.rca
         /\ N \notin {0, 41} => card'.busy = card.busy
         /\ N # 0 /\ card.v2 => card'.v2
         /\ N # 0 /\ card.width = 4 => card'.width = 4
<1>1. CASE heard /\ Taken
  <2>1. Effect(card, N, card')
    BY <1>1 DEF Outcome
  <2> QED BY ONLY <2>1 DEF Effect
<1>2. CASE ~(heard /\ Taken)
  <2>1. /\ card'.rca = card.rca /\ card'.v2 = card.v2
        /\ card'.busy = card.busy /\ card'.width = card.width
        /\ N # 7 => card'.state = card.state
    BY <1>2 DEF Outcome
  <2> QED BY ONLY <2>1
<1> QED BY <1>1, <1>2

\* CMD0 and CMD8
LEMMA Awake ==
  ASSUME Sd!CardAssumption, Busy <= Polls, Progress, at \in {2, 3},
         NEW heard \in BOOLEAN, NEW answered \in BOOLEAN, Outcome(heard, answered)
  PROVE  at' \in 3..4 /\ Identification'
<1>1. Identification /\ script = "init_sd" /\ at # 0
  BY DEF Progress, Outcome, Clean
<1>2. CASE at = 2
  <2>1. N = 0 /\ heard /\ Taken
    BY <1>1, <1>2, InitSdEntry, Legality DEF Outcome, Taken
  <2>2. card'.state = "idle" /\ card'.rca = Sd!NoRca /\ timeout = 0
    BY <1>1, <1>2, <2>1 DEF Outcome, Effect, Identification
  <2>3. at' = 3 /\ attempt' = 0 /\ timeout' = timeout
    <3>1. N \notin {3, 41}
      BY ONLY <2>1
    <3>2. IF answered \/ N = 0 \/ attempt = 2
            THEN /\ attempt' = 0 /\ rca' = rca /\ timeout' = timeout
                 /\ at' = IF at = 20 THEN 0 ELSE at + 1
            ELSE attempt' = attempt + 1 /\ UNCHANGED <<at, timeout, rca>>
      BY <3>1, GoesOn, Zenon
    <3> QED BY ONLY <1>2, <2>1, <3>2
  <2>4. lost' \in Nat
    BY DEF Outcome
  <2> QED BY ONLY <2>2, <2>3, <2>4 DEF Identification, Unaddressed
<1>3. CASE at = 3
  <2>1. N = 8 /\ Taken
    BY <1>1, <1>3, InitSdEntry, Legality DEF Outcome, Taken, Identification, Unaddressed
  <2>2. /\ card'.state = "idle" /\ card'.rca = Sd!NoRca /\ card'.busy \in 0..Busy
        /\ heard => card'.v2
        /\ ~heard => card'.v2 = card.v2
    BY <1>1, <1>3, <2>1, Kept DEF Outcome, Effect, Identification, Unaddressed, Card
  <2>3. timeout = 0 /\ (card.v2 \/ lost >= attempt) /\ (attempt > 0 /\ resp.up => lost >= 1)
    BY <1>1, <1>3 DEF Identification
  <2>4. answered => ~resp'.up
    BY <2>1, Responses DEF Outcome
  <2>5. /\ attempt \in 0..2 /\ lost \in Nat /\ lost' \in Nat /\ lost' >= lost /\ lost' < 3
        /\ ~heard => lost' = lost + 1
        /\ ~answered /\ attempt = 0 => lost' = lost + 1
        /\ answered => heard /\ attempt = 0
        /\ ~answered => resp' = resp
    BY <2>1 DEF Outcome
  <2>6. Unaddressed'
    BY <2>2 DEF Unaddressed
  <2>7. heard \/ card.v2 => card'.v2
    BY <2>1, <2>2 DEF Outcome, Effect
  <2>8. CASE answered \/ attempt = 2
    <3>1. at' = 4 /\ attempt' = 0 /\ timeout' = 0
      BY <1>3, <2>1, <2>3, <2>8, GoesOn
    <3>2. card'.v2
      BY <2>3, <2>5, <2>7, <2>8
    <3>3. card'.busy <= Polls - timeout'
      BY <3>1, <2>2 DEF Sd!CardAssumption
    <3>4. resp'.up => lost' >= 1
      BY <2>3, <2>4, <2>5, <2>8
    <3> QED BY ONLY <3>1, <3>2, <3>3, <3>4, <2>5, <2>6 DEF Identification, Rounds
  <2>9. CASE ~(answered \/ attempt = 2)
    <3>1. at' = 3 /\ attempt' = attempt + 1 /\ timeout' = 0
      BY <1>3, <2>1, <2>3, <2>9, GoesOn
    <3>2. card'.v2 \/ lost' >= attempt'
      BY <2>3, <2>5, <2>7, <2>9, <3>1
    <3>3. resp'.up => lost' >= 1
      BY <2>3, <2>5, <2>9
    <3> QED BY ONLY <3>1, <3>2, <3>3, <2>6 DEF Identification
  <2> QED BY <2>8, <2>9
<1> QED BY <1>2, <1>3

\* CMD55 in the loop
LEMMA Announced ==
  ASSUME Sd!CardAssumption, Progress, at = 4,
         NEW heard \in BOOLEAN, NEW answered \in BOOLEAN, Outcome(heard, answered)
  PROVE  at' \in 4..5 /\ Identification'
<1>1. Identification /\ script = "init_sd" /\ at # 0
  BY DEF Progress, Outcome, Clean
<1>2. /\ attempt \in 0..2 /\ lost \in Nat /\ lost' \in Nat /\ lost' >= lost /\ lost' < 3
      /\ ~heard => lost' = lost + 1
      /\ answered => heard /\ attempt = 0
      /\ ~answered => resp' = resp
      /\ timeout \in 0..Polls
  BY DEF Outcome
<1>3. N = 55 /\ Sd!Arg = Sd!NoRca
  BY <1>1, InitSdEntry
<1>4. IF answered \/ attempt = 2
        THEN at' = 5 /\ attempt' = 0 /\ timeout' = timeout
        ELSE at' = 4 /\ attempt' = attempt + 1 /\ timeout' = timeout
  BY <1>3, GoesOn
<1>5. card.v2
  BY <1>1 DEF Identification
<1>6. card'.v2 /\ card'.state = card.state /\ card'.rca = card.rca /\ card'.busy = card.busy
  BY <1>3, <1>5, Kept
<1>7. CASE card.state = "ready"
  BY <1>4, <1>6, <1>7 DEF Identification
<1>8. CASE card.state # "ready"
  <2>1. /\ Unaddressed /\ (card.app \/ lost >= attempt) /\ card.busy <= Rounds
        /\ resp.up => lost >= 1
        /\ attempt > 0 /\ resp.up => lost >= 2
    BY <1>1, <1>8 DEF Identification
  <2>2. Taken
    BY <1>3, <2>1, Legality DEF Outcome, Taken, Unaddressed
  <2>3. /\ heard => card'.app
        /\ ~heard => card'.app = card.app
        /\ ~answered /\ attempt = 0 => lost' = lost + 1
        /\ answered => ~resp'.up
    BY <1>3, <2>2, Responses DEF Outcome, Effect
  <2>4. Unaddressed'
    BY <1>6, <2>1 DEF Unaddressed
  <2>5. card'.busy <= Rounds'
    BY <1>4, <1>6, <2>1 DEF Rounds
  <2>6. CASE answered \/ attempt = 2
    <3>1. card'.app
      BY <1>2, <2>1, <2>3, <2>6
    <3>2. resp'.up => lost' >= 2
      BY <1>2, <2>1, <2>3, <2>6
    <3>3. at' = 5 /\ attempt' = 0 /\ lost' >= attempt'
      BY <1>2, <1>4, <2>6
    <3> QED BY ONLY <3>1, <3>2, <3>3, <1>6, <2>4, <2>5 DEF Identification
  <2>7. CASE ~(answered \/ attempt = 2)
    <3>1. card'.app \/ lost' >= attempt + 1
      BY <1>2, <2>1, <2>3, <2>7
    <3>2. resp'.up => lost' >= 2
      BY <1>2, <2>1, <2>3, <2>7
    <3>3. at' = 4 /\ attempt' = attempt + 1
      BY <1>4, <2>7
    <3>4. resp'.up => lost' >= 1
      BY <3>2, <1>2
    <3> QED BY ONLY <3>1, <3>2, <3>3, <3>4, <1>6, <2>4, <2>5 DEF Identification
  <2> QED BY <2>6, <2>7
<1> QED BY <1>7, <1>8

\* ACMD41, at the end of the loop
LEMMA Polled ==
  ASSUME Sd!CardAssumption, Progress, at = 5,
         NEW heard \in BOOLEAN, NEW answered \in BOOLEAN, Outcome(heard, answered)
  PROVE  at' \in 4..6 /\ Identification'
<1>1. Identification /\ script = "init_sd" /\ at # 0
  BY DEF Progress, Outcome, Clean
<1>2. /\ attempt \in 0..2 /\ lost \in Nat /\ lost' \in Nat /\ lost' >= lost /\ lost' < 3
      /\ ~heard => lost' = lost + 1 /\ card' = card
      /\ answered => heard /\ attempt = 0
      /\ ~answered => resp' = resp
      /\ timeout \in 0..Polls /\ card.busy \in 0..Busy /\ card'.busy \in 0..Busy
      /\ Polls \in Nat /\ Busy \in Nat
  BY DEF Outcome, Card, Sd!CardAssumption
<1>3. N = 41 /\ script = "init_sd"
  BY <1>1, InitSdEntry
<1>4. card.v2
  BY <1>1 DEF Identification
<1>5. card'.v2 /\ card'.rca = card.rca
  BY <1>3, <1>4, Kept
<1>6. IF answered \/ attempt = 2
        THEN /\ attempt' = 0
             /\ IF ~resp'.up /\ timeout < Polls
                  THEN at' = 4 /\ timeout' = timeout + 1
                  ELSE at' = 6 /\ timeout' = 0
        ELSE at' = 5 /\ attempt' = attempt + 1 /\ timeout' = timeout
  <2>1. IF answered \/ attempt = 2
          THEN Sd!Proceed
          ELSE attempt' = attempt + 1 /\ UNCHANGED <<at, timeout, rca>>
    <3>1. N \in {3, 41}
      BY ONLY <1>3
    <3> QED BY <3>1, GoesOn, Zenon
  <2>2. Sd!NextEntry = 6
    BY ONLY at = 5, <1>3, NextOfInitSd
  <2>3. Sd!Proceed =>
          /\ attempt' = 0
          /\ IF ~resp'.up /\ timeout < Polls
               THEN at' = 4 /\ timeout' = timeout + 1
               ELSE at' = 6 /\ timeout' = 0
    BY <1>3, <2>2, InitSdLoop DEF Sd!Proceed, Sd!Again, N
  <2> QED BY <2>1, <2>3
<1>7. CASE card'.state = "ready"
  BY <1>2, <1>5, <1>6, <1>7 DEF Identification
<1>8. CASE card'.state # "ready"
  <2>1. card.state # "ready"
    <3>1. Taken => card.state = "idle"
      BY <1>3, Legality DEF Outcome, Taken
    <3>2. ~(heard /\ Taken) => card'.state = card.state
      BY <1>3 DEF Outcome
    <3> QED BY <1>8, <3>1, <3>2
  <2>2. /\ Unaddressed
        /\ \/ (card.app /\ lost >= attempt /\ card.busy <= Rounds)
           \/ (attempt > 0 /\ card.busy < Rounds)
        /\ resp.up => lost >= 2 /\ attempt = 0
    BY <1>1, <2>1 DEF Identification
  <2>3. Taken <=> card.app
    BY <1>3, <2>2, Legality DEF Outcome, Taken, Unaddressed
  \* a card that took the command was busy, and is less so
  <2>4. heard /\ card.app =>
          card'.state = "idle" /\ card.busy # 0 /\ card'.busy = card.busy - 1
    <3>1. ASSUME heard, card.app
          PROVE  Effect(card, 41, card')
      BY <1>3, <2>3, <3>1 DEF Outcome
    <3>2. Effect(card, 41, card') =>
            card'.state = "idle" /\ card.busy # 0 /\ card'.busy = card.busy - 1
      BY <1>4, <1>8, <2>2 DEF Effect, Sd!PoweredUp, Unaddressed
    <3> QED BY <3>1, <3>2
  <2>5. ~(heard /\ card.app) => card'.state = "idle" /\ card'.busy = card.busy
    BY <1>3, <2>2, <2>3 DEF Outcome, Unaddressed
  <2>6. Unaddressed'
    BY <1>5, <2>2, <2>4, <2>5 DEF Unaddressed
  <2>7. ~resp'.up
    <3>1. CASE answered
      BY <1>3, <1>8, <3>1, Responses DEF Outcome
    <3>2. CASE ~answered
      <4>1. attempt = 0 /\ card.app => lost' = lost + 1
        BY <1>3, <2>3, <3>2 DEF Outcome
      <4>2. attempt = 0 => card.app
        BY <1>2, <2>2
      <4> QED BY <1>2, <2>2, <3>2, <4>1, <4>2
    <3> QED BY <3>1, <3>2
  <2>8. card.busy <= Rounds /\ Rounds \in Int
    BY <1>2, <2>2 DEF Rounds
  <2>9. CASE answered \/ attempt = 2
    <3>1. card'.busy < Rounds
      <4>1. CASE heard /\ card.app
        BY <1>2, <2>4, <2>8, <4>1
      <4>2. CASE ~(heard /\ card.app)
        <5>1. ~answered
          BY <2>3, <4>2 DEF Outcome
        <5>2. ~(card.app /\ lost >= attempt)
          BY <1>2, <2>9, <4>2, <5>1
        <5> QED BY <2>2, <2>5, <4>2, <5>2
      <4> QED BY <4>1, <4>2
    <3>2. timeout < Polls
      BY <1>2, <3>1 DEF Rounds
    <3>3. at' = 4 /\ timeout' = timeout + 1 /\ attempt' = 0
      BY <1>6, <2>7, <2>9, <3>2
    <3>4. card'.busy <= Rounds'
      BY <1>2, <3>1, <3>3 DEF Rounds
    <3> QED BY ONLY <1>2, <1>5, <2>6, <2>7, <3>3, <3>4 DEF Identification
  <2>10. CASE ~(answered \/ attempt = 2)
    <3>1. at' = 5 /\ attempt' = attempt + 1 /\ timeout' = timeout /\ Rounds' = Rounds
      BY <1>6, <2>10 DEF Rounds
    <3>2. \/ (card'.app /\ lost' >= attempt' /\ card'.busy <= Rounds')
          \/ (attempt' > 0 /\ card'.busy < Rounds')
      <4>1. CASE heard /\ card.app
        BY <1>2, <2>4, <2>8, <3>1, <4>1
      <4>2. CASE ~(heard /\ card.app) /\ attempt > 0 /\ card.busy < Rounds
        BY <1>2, <2>5, <3>1, <4>2
      <4>3. CASE ~heard /\ card.app /\ lost >= attempt
        <5>1. card'.app /\ card'.busy <= Rounds'
          BY <1>2, <2>5, <2>8, <3>1, <4>3
        <5> QED BY ONLY <5>1, <1>2, <3>1, <4>3
      <4> QED BY <2>2, <4>1, <4>2, <4>3
    <3> QED BY ONLY <1>5, <2>6, <2>7, <3>1, <3>2 DEF Identification
  <2> QED BY <2>9, <2>10
<1> QED BY <1>7, <1>8

\* CMD2 and CMD3
LEMMA Named ==
  ASSUME Sd!CardAssumption, Progress, at \in {6, 7},
         NEW heard \in BOOLEAN, NEW answered \in BOOLEAN, Outcome(heard, answered)
  PROVE  at' \in 6..8 /\ Identification' /\ Selection'
<1>1. Identification /\ script = "init_sd" /\ at # 0
  BY DEF Progress, Outcome, Clean
<1>2. /\ attempt \in 0..2 /\ lost \in Nat /\ lost' \in Nat /\ lost' >= lost /\ lost' < 3
      /\ ~heard => lost' = lost + 1 /\ card' = card
      /\ answered => heard /\ attempt = 0
  BY DEF Outcome
<1>3. CASE at = 6
  <2>1. N = 2
    BY <1>1, <1>3, InitSdEntry
  <2>2. IF answered \/ attempt = 2
          THEN at' = 7 /\ attempt' = 0
          ELSE at' = 6 /\ attempt' = attempt + 1
    BY <1>3, <2>1, GoesOn
  <2>3. (card.state = "ready" /\ lost >= attempt) \/ card.state = "ident"
    BY <1>1, <1>3 DEF Identification
  <2>4. Taken <=> card.state = "ready"
    BY <2>1, Legality DEF Outcome, Taken
  <2>5. CASE heard
    <3>1. Taken => Effect(card, 2, card')
      BY <2>1, <2>5 DEF Outcome
    <3>2. ~Taken => card'.state = card.state
      BY <2>1 DEF Outcome
    <3>3. card'.state = "ident"
      BY <2>3, <2>4, <3>1, <3>2 DEF Effect
    <3> QED BY ONLY <2>2, <3>3, <1>2 DEF Identification, Selection
  <2>6. CASE ~heard
    <3>1. card'.state = "ident" \/ (card'.state = "ready" /\ lost' >= attempt + 1)
      BY <1>2, <2>3, <2>6
    <3>2. at' = 7 => card'.state = "ident"
      BY <1>2, <2>2, <2>6, <3>1
    <3> QED BY ONLY <2>2, <3>1, <3>2 DEF Identification, Selection
  <2> QED BY <2>5, <2>6
<1>4. CASE at = 7
  <2>1. N = 3 /\ card.state = "ident" /\ attempt = 0
    BY <1>1, <1>4, InitSdEntry DEF Identification
  <2>2. Taken
    BY <2>1, Legality DEF Outcome, Taken
  <2>3. answered
    BY <2>1, <2>2 DEF Outcome
  <2>4. Effect(card, 3, card') /\ resp' = Sd!Response(card', 3) /\ card' \in Card
    BY <2>1, <2>2, <2>3 DEF Outcome
  <2>5. card'.state = "stby"
    BY <2>4 DEF Effect
  <2>6. resp'.rca = card'.rca
    BY <2>4, Responses
  <2>7. Sd!Proceed
    <3>1. N \in {3, 41}
      BY ONLY <2>1
    <3> QED BY <2>3, <3>1, GoesOn, Zenon
  <2>8. Sd!NextEntry = 8
    BY ONLY <1>1, <1>4, NextOfInitSd
  <2>9. rca' = resp'.rca /\ at' = 8
    BY <2>1, <2>7, <2>8 DEF Sd!Proceed, N
  <2> QED BY ONLY <2>5, <2>6, <2>9 DEF Identification, Selection, Addressed
<1> QED BY <1>3, <1>4

\* from CMD9 on
LEMMA Chosen ==
  ASSUME Sd!CardAssumption, Progress, at \in (8..16) \cup {18, 19},
         NEW heard \in BOOLEAN, NEW answered \in BOOLEAN, Outcome(heard, answered)
  PROVE  at' \in 8..20 /\ Selection'
<1>1. Selection /\ script = "init_sd" /\ at \in 8..19
  BY DEF Progress, Outcome, Clean
<1>2. /\ attempt \in 0..2 /\ lost \in Nat /\ lost' \in Nat /\ lost' >= lost /\ lost' < 3
      /\ ~heard => lost' = lost + 1 /\ card' = card
      /\ answered => heard /\ attempt = 0
      /\ width' = width
  BY DEF Outcome
<1>3. N \in {9, 13, 7, 55, 51, 6}
  BY <1>1, InitSdEntry
<1>4. IF answered \/ attempt = 2
        THEN at' = at + 1 /\ attempt' = 0 /\ rca' = rca
        ELSE at' = at /\ attempt' = attempt + 1 /\ rca' = rca
  <2>1. N \notin {3, 41} /\ N # 0
    BY ONLY <1>3
  <2>2. IF answered \/ N = 0 \/ attempt = 2
          THEN /\ attempt' = 0 /\ rca' = rca /\ timeout' = timeout
               /\ at' = IF at = 20 THEN 0 ELSE at + 1
          ELSE attempt' = attempt + 1 /\ UNCHANGED <<at, timeout, rca>>
    BY <2>1, GoesOn, Zenon
  <2> QED BY ONLY <1>1, <2>1, <2>2
<1>5. /\ card.rca = rca /\ card'.rca = rca'
      /\ N # 7 => card'.state = card.state
      /\ card.width = 4 => card'.width = 4
  <2>1. card.rca = rca
    BY <1>1 DEF Selection, Addressed
  <2> QED BY <1>3, <1>4, <2>1, Kept
<1>6. CASE at \in {8, 9, 10}
  <2>1. CASE at \in {8, 9}
    <3>1. N # 7
      BY <1>1, <2>1, InitSdEntry
    <3>2. card'.state = "stby"
      BY <1>1, <1>5, <2>1, <3>1 DEF Selection
    <3>3. at' \in {8, 9} \/ (at' = 10 /\ attempt' = 0)
      BY <1>4, <2>1
    <3> QED BY ONLY <3>2, <3>3, <1>2, <1>5 DEF Selection, Addressed
  <2>2. CASE at = 10
    <3>1. N = 7 /\ Sd!Arg = card.rca
      BY <1>1, <1>5, <2>2, InitSdEntry
    <3>2. (card.state = "stby" /\ lost >= attempt) \/ card.state = "tran"
      BY <1>1, <2>2 DEF Selection
    <3>3. Taken <=> card.state = "stby"
      BY <3>1, Legality DEF Outcome, Taken
    <3>4. CASE heard
      <4>1. Taken => Effect(card, 7, card')
        BY <3>1, <3>4 DEF Outcome
      <4>2. ~Taken => card'.state = card.state
        BY <3>1 DEF Outcome
      <4>3. card'.state = "tran"
        BY <3>2, <3>3, <4>1, <4>2 DEF Effect
      <4>4. at' = 10 \/ at' = 11
        BY <1>4, <2>2
      <4> QED BY ONLY <4>3, <4>4, <1>5 DEF Selection, Addressed
    <3>5. CASE ~heard
      <4>1. card'.state = "tran" \/ (card'.state = "stby" /\ lost' >= attempt + 1)
        BY <1>2, <3>2, <3>5
      <4>2. (at' = 11 /\ card'.state = "tran") \/ (at' = 10 /\ attempt' = attempt + 1)
        BY <1>2, <1>4, <2>2, <3>5, <4>1
      <4> QED BY ONLY <4>1, <4>2, <1>5 DEF Selection, Addressed
    <3> QED BY <3>4, <3>5
  <2> QED BY <1>6, <2>1, <2>2
<1>7. CASE at \in (11..16) \cup {18, 19}
  <2>1. N # 7
    BY <1>1, <1>7, InitSdEntry
  <2>2. card'.state = "tran" /\ card.state = "tran"
    BY <1>1, <1>5, <1>7, <2>1 DEF Selection
  <2>3. CASE at \in 11..14
    <3>1. at' \in 11..14 \/ (at' = 15 /\ attempt' = 0)
      BY <1>4, <2>3
    <3> QED BY ONLY <1>2, <1>5, <2>2, <3>1 DEF Selection, Addressed
  <2>4. CASE at = 15
    <3>1. N = 55 /\ Sd!Arg = card.rca
      BY <1>1, <1>5, <2>4, InitSdEntry
    <3>2. card.app \/ lost >= attempt
      BY <1>1, <2>4 DEF Selection
    <3>3. Taken
      BY <2>2, <3>1, Legality DEF Outcome, Taken
    <3>4. heard => card'.app
      BY <3>1, <3>3 DEF Outcome, Effect
    <3>5. card'.app \/ (lost' >= attempt + 1 /\ ~heard)
      BY <1>2, <3>2, <3>4
    <3>6. (at' = 16 /\ card'.app /\ attempt' = 0) \/ (at' = 15 /\ attempt' = attempt + 1)
      BY <1>2, <1>4, <2>4, <3>5
    <3> QED BY ONLY <1>2, <1>5, <2>2, <3>5, <3>6 DEF Selection, Addressed
  <2>5. CASE at = 16
    <3>1. N = 6
      BY <1>1, <2>5, InitSdEntry
    <3>2. (card.app /\ lost >= attempt) \/ card.width = 4
      BY <1>1, <2>5 DEF Selection
    <3>3. Taken
      BY <2>2, <3>1, Legality DEF Outcome, Taken
    <3>4. heard /\ card.app => card'.width = 4
      BY <3>1, <3>3 DEF Outcome, Effect
    <3>5. card'.width = 4 \/ (card'.app /\ lost' >= attempt + 1 /\ ~heard)
      BY <1>2, <1>5, <3>2, <3>4
    <3>6. (at' = 17 /\ card'.width = 4) \/ (at' = 16 /\ attempt' = attempt + 1)
      BY <1>2, <1>4, <2>5, <3>5
    <3> QED BY ONLY <1>5, <2>2, <3>5, <3>6 DEF Selection, Addressed
  <2>6. CASE at \in {18, 19}
    <3>1. card'.width = 4 /\ width' = 4
      BY <1>1, <1>2, <1>5, <2>6 DEF Selection
    <3>2. at' \in 18..20
      BY <1>4, <2>6
    <3> QED BY ONLY <1>5, <2>2, <3>1, <3>2 DEF Selection, Addressed
  <2> QED BY <1>7, <2>3, <2>4, <2>5, <2>6
<1> QED BY <1>6, <1>7

\* Whatever is lost of it, an attempt of init_sd leaves a clean run where its
\* entry says.
LEMMA AttemptProgress ==
  ASSUME Sd!CardAssumption, Busy <= Polls, Sd!TypeOK, InSlotUnlessSpoilt, Progress,
         NEW heard \in BOOLEAN, NEW answered \in BOOLEAN, Sd!Command(heard, answered)
  PROVE  Progress'
<1>1. SUFFICES ASSUME Clean'
               PROVE  at' # 0 /\ Identification' /\ Selection'
  BY DEF Progress
<1>2. Outcome(heard, answered)
  BY <1>1, AttemptOutcome
<1>3. at \in 1..20 /\ script = "init_sd" /\ Sd!Entry.do = "cmd"
  BY <1>2 DEF Outcome, Clean, Sd!Command
<1>4. at \notin {1, 17, 20}
  BY <1>3, InitSdEntry
<1>5. CASE at \in {2, 3}
  BY <1>2, <1>5, Awake DEF Selection
<1>6. CASE at = 4
  BY <1>2, <1>6, Announced DEF Selection
<1>7. CASE at = 5
  BY <1>2, <1>7, Polled DEF Selection
<1>8. CASE at \in {6, 7}
  BY <1>2, <1>8, Named
<1>9. CASE at \in (8..16) \cup {18, 19}
  BY <1>2, <1>9, Chosen DEF Identification
<1> QED BY <1>3, <1>4, <1>5, <1>6, <1>7, <1>8, <1>9

-----------------------------------------------------------------------------
(* Every step of the card and of the scripts *)

CardInv == Sd!TypeOK /\ InSlotUnlessSpoilt

LEMMA CardInitOK ==
  ASSUME Sd!CardAssumption, Sd!Init
  PROVE  CardInv /\ Progress
<1>1. Sd!Empty \in Card
  BY DEF Sd!Empty, Card, Sd!NoRca, Sd!CardAssumption
<1>2. card \in Card
  BY <1>1 DEF Sd!Init, Sd!Inserted, Card
<1>3. /\ script = "init_sd" /\ at = 0 /\ attempt = 0 /\ timeout = 0
      /\ rca = Sd!NoRca /\ resp = Sd!Quiet /\ width = 1 /\ lost = 0 /\ spoilt = TRUE
  BY DEF Sd!Init
<1>4. resp \in [up : BOOLEAN, rca : Rcas \cup {Sd!NoRca, Sd!Noise}]
  BY <1>3 DEF Sd!Quiet
<1>5. at \in 0..Len(Sd!Entries(script)) /\ attempt \in 0..2 /\ timeout \in 0..Polls
      /\ lost \in 0..MaxLost
  BY <1>3, ScriptTypes DEF Sd!CardAssumption
<1>6. Sd!TypeOK
  BY ONLY <1>2, <1>3, <1>4, <1>5 DEF Sd!TypeOK, Card, Sd!Attempts
<1> QED BY <1>3, <1>6 DEF CardInv, InSlotUnlessSpoilt, Progress, Clean

LEMMA CardSameOK ==
  ASSUME CardInv, UNCHANGED <<card, host, lost, spoilt>>
  PROVE  CardInv' /\ (Progress => Progress')
<1>1. UNCHANGED <<card, script, at, attempt, timeout, rca, resp, width, lost, spoilt>>
  BY DEF host
<1>2. Sd!TypeOK' /\ InSlotUnlessSpoilt'
  BY ONLY <1>1, CardInv DEF CardInv, Sd!TypeOK, InSlotUnlessSpoilt, Sd!Entries, Sd!Attempts
<1>3. Clean' = Clean /\ Sd!Selected' = Sd!Selected
  BY ONLY <1>1 DEF Clean, Sd!Selected, Sd!Attempts
<1>4. (Identification => Identification') /\ (Selection => Selection')
  BY ONLY <1>1 DEF Identification, Selection, Addressed, Unaddressed, Rounds
<1> QED BY ONLY <1>1, <1>2, <1>3, <1>4 DEF CardInv, Progress

LEMMA StartOK ==
  ASSUME Sd!CardAssumption, CardInv, NEW name \in {"init_sd", "old_init2"}, Sd!Start(name)
  PROVE  CardInv' /\ (Progress => Progress')
<1>1. /\ at = 0 /\ attempt' = 0 /\ timeout' = 0 /\ UNCHANGED <<card, rca, resp, width>>
      /\ IF card.in THEN at' = 1 /\ script' = name /\ lost' = 0 /\ spoilt' = FALSE
                    ELSE at' = 0 /\ UNCHANGED <<script, lost, spoilt>>
  BY DEF Sd!Start, Sd!InSlot
<1>2. /\ script \in {"init_sd", "old_init2"} /\ name \in {"init_sd", "old_init2"}
      /\ lost \in 0..MaxLost /\ spoilt \in BOOLEAN /\ Polls \in Nat /\ MaxLost \in Nat
  BY DEF CardInv, Sd!TypeOK, Sd!CardAssumption
<1>3. /\ script' \in {"init_sd", "old_init2"} /\ at' \in 0..Len(Sd!Entries(script'))
      /\ attempt' \in 0..2 /\ timeout' \in 0..Polls /\ lost' \in 0..MaxLost
      /\ spoilt' \in BOOLEAN
  <2>1. script' \in {"init_sd", "old_init2"} /\ lost' \in 0..MaxLost /\ spoilt' \in BOOLEAN
    <3>1. CASE card.in
      <4>1. script' = name /\ lost' = 0 /\ spoilt' = FALSE
        BY ONLY <1>1, <3>1
      <4>2. script' \in {"init_sd", "old_init2"}
        BY ONLY <1>2, <4>1
      <4>3. lost' \in 0..MaxLost
        BY ONLY <1>2, <4>1
      <4>4. spoilt' \in BOOLEAN
        BY ONLY <4>1
      <4> QED BY ONLY <4>2, <4>3, <4>4
    <3>2. CASE ~card.in
      BY ONLY <1>1, <1>2, <3>2
    <3> QED BY ONLY <3>1, <3>2
  <2>2. at' \in 0..1 /\ attempt' \in 0..2 /\ timeout' \in 0..Polls
    BY ONLY <1>1, <1>2
  <2>3. Len(Sd!Entries(script')) \in {15, 20}
    BY ONLY <2>1, ScriptTypes
  <2>4. at' \in 0..Len(Sd!Entries(script'))
    <3>1. \A l \in {15, 20} : at' \in 0..l
      BY ONLY <2>2
    <3> QED BY ONLY <2>3, <3>1, Zenon
  <2> QED BY ONLY <2>1, <2>2, <2>4
<1>4. Sd!TypeOK'
  BY <1>1, <1>2, <1>3 DEF CardInv, Sd!TypeOK, Sd!Entries, Sd!Attempts
<1>5. InSlotUnlessSpoilt'
  BY <1>1 DEF CardInv, InSlotUnlessSpoilt
<1>6. ASSUME Progress, Clean'
      PROVE  IF at' = 0 THEN Sd!Selected' ELSE Identification' /\ Selection'
  <2>1. CASE card.in
    BY <1>1, <2>1 DEF Identification, Selection
  <2>2. CASE ~card.in
    <3>1. Clean
      BY <1>1, <1>6, <2>2 DEF Clean
    <3>2. Sd!Selected
      BY <1>1, <1>6, <3>1 DEF Progress
    <3> QED BY <1>1, <2>2, <3>2 DEF Sd!Selected
  <2> QED BY <2>1, <2>2
<1> QED BY <1>4, <1>5, <1>6 DEF CardInv, Progress

LEMMA SetWidthOK ==
  ASSUME Sd!CardAssumption, CardInv, Sd!SetWidth
  PROVE  CardInv' /\ (Progress => Progress')
<1>1. /\ at # 0 /\ Sd!Entry.do = "width" /\ width' = N /\ at' = Sd!NextEntry
      /\ UNCHANGED <<card, script, attempt, timeout, rca, resp, lost, spoilt>>
  BY DEF Sd!SetWidth, N
<1>2. N \in {1, 4}
  BY <1>1, EntryThere DEF CardInv, EntryType, N
<1>3. at' \in 0..Len(Sd!Entries(script'))
  BY <1>1, NextEntryThere DEF CardInv
<1>4. Sd!TypeOK'
  BY <1>1, <1>2, <1>3 DEF CardInv, Sd!TypeOK, Sd!Entries, Sd!Attempts
<1>5. InSlotUnlessSpoilt'
  BY <1>1 DEF CardInv, InSlotUnlessSpoilt
<1>6. ASSUME Progress, Clean'
      PROVE  IF at' = 0 THEN Sd!Selected' ELSE Identification' /\ Selection'
  <2>1. Clean /\ card.in
    BY <1>1, <1>6 DEF CardInv, InSlotUnlessSpoilt, Clean
  <2>2. Identification /\ Selection
    BY <1>1, <1>6, <2>1 DEF Progress
  <2>3. script = "init_sd" /\ at \in 1..20
    BY <1>1, <2>1, EntryThere, ScriptTypes DEF Clean, CardInv
  <2>4. at' = IF at = 20 THEN 0 ELSE at + 1
    BY <1>1, <2>3, NextOfInitSd
  <2>5. at \in {1, 17, 20}
    BY <1>1, <2>3, InitSdEntry
  <2>6. CASE at = 1
    BY <1>1, <2>2, <2>4, <2>6 DEF Identification, Selection
  <2>7. CASE at \in {17, 20}
    <3>1. width' = 4
      BY <1>1, <2>3, <2>7, InitSdEntry
    <3>2. card.state = "tran" /\ card.rca = rca /\ card.width = 4
      BY <2>2, <2>7 DEF Selection, Addressed
    <3>3. at' = 18 \/ at' = 0
      BY <2>4, <2>7
    <3> QED
      BY ONLY <1>1, <2>1, <3>1, <3>2, <3>3
      DEF Identification, Selection, Addressed, Sd!Selected
  <2> QED BY <2>5, <2>6, <2>7
<1> QED BY <1>4, <1>5, <1>6 DEF CardInv, Progress

LEMMA AttemptOK ==
  ASSUME Sd!CardAssumption, CardInv, NEW heard \in BOOLEAN, NEW answered \in BOOLEAN,
         Sd!Command(heard, answered)
  PROVE  CardInv' /\ (Busy <= Polls /\ Progress => Progress')
<1>1. /\ card' \in Card /\ (card.in => card'.in)
      /\ resp' \in [up : BOOLEAN, rca : Rcas \cup {Sd!NoRca, Sd!Noise}]
  BY Attempt DEF CardInv
<1>2. /\ at # 0 /\ lost' \in {lost, lost + 1} /\ lost' <= MaxLost
      /\ spoilt' \in BOOLEAN /\ (spoilt => spoilt')
      /\ UNCHANGED <<script, width>>
  BY DEF Sd!Command, CardInv, Sd!TypeOK
<1>3. IF answered \/ N = 0 \/ attempt + 1 = 3
        THEN Sd!Proceed
        ELSE attempt' = attempt + 1 /\ UNCHANGED <<at, timeout, rca>>
  BY DEF Sd!Command, Sd!LastAttempt, N, Sd!Attempts
<1>4. /\ Sd!LoopStart \in 0..Len(Sd!Entries(script))
      /\ Sd!NextEntry \in 0..Len(Sd!Entries(script))
  BY <1>2, LoopStartThere, NextEntryThere DEF CardInv
<1>5. /\ at \in 0..Len(Sd!Entries(script)) /\ attempt \in 0..2 /\ timeout \in 0..Polls
      /\ rca \in Rcas \cup {Sd!NoRca, Sd!Noise} /\ lost \in 0..MaxLost
      /\ script \in {"init_sd", "old_init2"} /\ width \in {1, 4}
  BY DEF CardInv, Sd!TypeOK, Sd!Attempts
<1>6. /\ at' \in 0..Len(Sd!Entries(script)) /\ attempt' \in 0..2 /\ timeout' \in 0..Polls
      /\ rca' \in Rcas \cup {Sd!NoRca, Sd!Noise}
  <2>1. CASE Sd!Proceed
    <3>1. /\ attempt' = 0 /\ rca' \in {rca, resp'.rca}
          /\ at' \in {Sd!LoopStart, Sd!NextEntry}
          /\ timeout' \in {0, timeout} \/ (timeout < Polls /\ timeout' = timeout + 1)
      BY <2>1 DEF Sd!Proceed, Sd!Again
    <3>2. resp'.rca \in Rcas \cup {Sd!NoRca, Sd!Noise}
      BY <1>1
    <3>3. timeout' \in 0..Polls
      BY ONLY <1>5, <3>1, Sd!CardAssumption DEF Sd!CardAssumption
    <3> QED BY ONLY <1>4, <1>5, <3>1, <3>2, <3>3
  <2>2. CASE ~Sd!Proceed
    BY <1>3, <1>5, <2>2
  <2> QED BY <2>1, <2>2
<1>7. lost' \in 0..MaxLost
  BY <1>2, <1>5 DEF Sd!CardAssumption
<1>8. Sd!TypeOK'
  <2>1. at' \in 0..Len(Sd!Entries(script'))
    BY <1>2, <1>6
  <2> QED BY ONLY <1>1, <1>2, <1>5, <1>6, <1>7, <2>1 DEF Sd!TypeOK, Card, Sd!Attempts, Sd!Entries
<1>9. InSlotUnlessSpoilt'
  BY <1>1, <1>2 DEF CardInv, InSlotUnlessSpoilt
<1>10. Busy <= Polls /\ Progress => Progress'
  BY AttemptProgress DEF CardInv
<1> QED BY <1>8, <1>9, <1>10 DEF CardInv

LEMMA StepOK ==
  ASSUME Sd!CardAssumption, CardInv, Sd!Step
  PROVE  CardInv' /\ (Busy <= Polls /\ Progress => Progress')
BY SetWidthOK, AttemptOK DEF Sd!Step

\* The user spoils the run.
LEMMA UserOK ==
  ASSUME Sd!CardAssumption, CardInv, Sd!MoveCard \/ Sd!HostRestart
  PROVE  CardInv' /\ Progress'
<1>1. spoilt' = TRUE
  BY DEF Sd!MoveCard, Sd!HostRestart
<1>2. Sd!TypeOK'
  <2>1. CASE Sd!MoveCard
    <3>1. Sd!Empty \in Card
      BY DEF Sd!Empty, Card, Sd!NoRca, Sd!CardAssumption
    <3>2. card' \in Card
      BY <2>1, <3>1 DEF Sd!MoveCard, Sd!Inserted, Card
    <3>3. UNCHANGED <<script, at, attempt, timeout, rca, resp, width, lost>>
      BY <2>1 DEF Sd!MoveCard, Sd!host
    <3> QED BY <1>1, <3>2, <3>3 DEF CardInv, Sd!TypeOK, Card, Sd!Attempts, Sd!Entries
  <2>2. CASE Sd!HostRestart
    <3>1. /\ at' = 0 /\ attempt' = 0 /\ timeout' = 0 /\ rca' = Sd!NoRca /\ width' = 1
          /\ UNCHANGED <<card, script, resp, lost>>
      BY <2>2 DEF Sd!HostRestart
    <3>2. at' \in 0..Len(Sd!Entries(script'))
      BY <3>1, ScriptTypes DEF CardInv, Sd!TypeOK
    <3>3. attempt' \in 0..2 /\ timeout' \in 0..Polls
      BY <3>1 DEF Sd!CardAssumption
    <3> QED BY <1>1, <3>1, <3>2, <3>3 DEF CardInv, Sd!TypeOK, Sd!Attempts, Sd!Entries
  <2> QED BY <2>1, <2>2
<1> QED BY <1>1, <1>2 DEF CardInv, InSlotUnlessSpoilt, Progress, Clean

-----------------------------------------------------------------------------
(* The console *)

\* Con!Holds(n) of a line and of what was typed
HoldsOf(line, sent, n) ==
  \E place \in [1..n -> 1..Len(line)] :
    /\ \A j, k \in 1..n : j < k => place[j] < place[k]
    /\ \A k \in 1..n : line[place[k]] = sent[k]
    /\ \A i \in 1..Len(line) : (\E k \in 1..n : place[k] = i) \/ line[i] = Con!Eot

LEMMA HoldsNone ==
  ASSUME NEW sent
  PROVE  HoldsOf(<<>>, sent, 0)
<1> DEFINE place == [k \in 1..0 |-> k]
<1>1. place \in [1..0 -> 1..Len(<<>>)]
  OBVIOUS
<1>2. \A i : i \notin 1..0
  OBVIOUS
<1>3. Len(<<>>) = 0
  OBVIOUS
<1> QED BY <1>1, <1>2, <1>3 DEF HoldsOf

LEMMA HoldsOneMore ==
  ASSUME NEW S, NEW line \in Seq(S), NEW sent, NEW n \in Nat, HoldsOf(line, sent, n),
         NEW c \in S, sent[n + 1] = c
  PROVE  HoldsOf(Append(line, c), sent, n + 1)
<1>1. PICK place \in [1..n -> 1..Len(line)] :
        /\ \A j, k \in 1..n : j < k => place[j] < place[k]
        /\ \A k \in 1..n : line[place[k]] = sent[k]
        /\ \A i \in 1..Len(line) : (\E k \in 1..n : place[k] = i) \/ line[i] = Con!Eot
  BY DEF HoldsOf
<1> DEFINE after == [k \in 1..(n + 1) |-> IF k = n + 1 THEN Len(line) + 1 ELSE place[k]]
           more == Append(line, c)
<1>2. Len(line) \in Nat /\ Len(more) = Len(line) + 1 /\ more[Len(line) + 1] = c
      /\ \A i \in 1..Len(line) : more[i] = line[i]
  OBVIOUS
<1>3. \A k \in 1..n : place[k] \in 1..Len(line) /\ after[k] = place[k]
  OBVIOUS
<1>4. after[n + 1] = Len(line) + 1
  OBVIOUS
<1>5. \A k \in 1..(n + 1) : k \in 1..n \/ k = n + 1
  OBVIOUS
<1>6. after \in [1..(n + 1) -> 1..Len(more)]
  BY <1>2, <1>3
<1> HIDE DEF after, more
<1>7. \A j, k \in 1..(n + 1) : j < k => after[j] < after[k]
  <2> SUFFICES ASSUME NEW j \in 1..(n + 1), NEW k \in 1..(n + 1), j < k
               PROVE  after[j] < after[k]
    OBVIOUS
  <2>1. j \in 1..n
    OBVIOUS
  <2>2. CASE k = n + 1
    BY <1>2, <1>3, <1>4, <2>1, <2>2
  <2>3. CASE k \in 1..n
    BY <1>1, <1>3, <2>1, <2>3
  <2> QED BY <1>5, <2>2, <2>3
<1>8. \A k \in 1..(n + 1) : more[after[k]] = sent[k]
  BY <1>1, <1>2, <1>3, <1>4, <1>5
<1>9. ASSUME NEW i \in 1..Len(more)
      PROVE  (\E k \in 1..(n + 1) : after[k] = i) \/ more[i] = Con!Eot
  <2>1. CASE i = Len(line) + 1
    <3>1. n + 1 \in 1..(n + 1)
      OBVIOUS
    <3> QED BY <1>4, <2>1, <3>1
  <2>2. CASE i \in 1..Len(line)
    <3>1. CASE line[i] = Con!Eot
      BY <1>2, <2>2, <3>1
    <3>2. CASE \E k \in 1..n : place[k] = i
      <4>1. PICK k \in 1..n : place[k] = i
        BY <3>2
      <4>2. k \in 1..(n + 1) /\ after[k] = i
        BY <1>3, <4>1
      <4> QED BY <4>2
    <3> QED BY <1>1, <2>2, <3>1, <3>2
  <2> QED BY <1>2, <2>1, <2>2
<1> QED BY <1>6, <1>7, <1>8, <1>9 DEF HoldsOf, more

LEMMA HoldsAndEot ==
  ASSUME NEW S, NEW line \in Seq(S), NEW sent, NEW n \in Nat, HoldsOf(line, sent, n),
         Con!Eot \in S
  PROVE  HoldsOf(Append(line, Con!Eot), sent, n)
<1>1. PICK place \in [1..n -> 1..Len(line)] :
        /\ \A j, k \in 1..n : j < k => place[j] < place[k]
        /\ \A k \in 1..n : line[place[k]] = sent[k]
        /\ \A i \in 1..Len(line) : (\E k \in 1..n : place[k] = i) \/ line[i] = Con!Eot
  BY DEF HoldsOf
<1> DEFINE more == Append(line, Con!Eot)
<1>2. Len(line) \in Nat /\ Len(more) = Len(line) + 1 /\ more[Len(line) + 1] = Con!Eot
      /\ \A i \in 1..Len(line) : more[i] = line[i]
  OBVIOUS
<1>3. place \in [1..n -> 1..Len(more)] /\ \A k \in 1..n : place[k] \in 1..Len(line)
  BY <1>2
<1> HIDE DEF more
<1>4. \A k \in 1..n : more[place[k]] = sent[k]
  BY <1>1, <1>2, <1>3
<1>5. \A i \in 1..Len(more) : (\E k \in 1..n : place[k] = i) \/ more[i] = Con!Eot
  <2> SUFFICES ASSUME NEW i \in 1..Len(more)
               PROVE  (\E k \in 1..n : place[k] = i) \/ more[i] = Con!Eot
    OBVIOUS
  <2>1. i \in 1..Len(line) \/ i = Len(line) + 1
    BY <1>2
  <2> QED BY <1>1, <1>2, <2>1
<1> QED BY <1>1, <1>3, <1>4, <1>5 DEF HoldsOf, more

LEMMA HoldsOfLonger ==
  ASSUME NEW line, NEW S, NEW sent \in Seq(S), NEW n \in Nat, n <= Len(sent), NEW c \in S,
         HoldsOf(line, sent, n)
  PROVE  HoldsOf(line, Append(sent, c), n)
<1>1. \A k \in 1..n : Append(sent, c)[k] = sent[k]
  OBVIOUS
<1>2. PICK place \in [1..n -> 1..Len(line)] :
        /\ \A j, k \in 1..n : j < k => place[j] < place[k]
        /\ \A k \in 1..n : line[place[k]] = sent[k]
        /\ \A i \in 1..Len(line) : (\E k \in 1..n : place[k] = i) \/ line[i] = Con!Eot
  BY DEF HoldsOf
<1>3. \A k \in 1..n : line[place[k]] = Append(sent, c)[k]
  BY <1>1, <1>2
<1> QED BY ONLY <1>2, <1>3 DEF HoldsOf

\* What is not read is the end of what was typed, and the line the rest of it.
NumRead == Len(typed) - Len(tty)

LineInv ==
  /\ Len(tty) <= Len(typed)
  /\ \A i \in 1..Len(tty) : tty[i] = typed[NumRead + i]
  /\ cpc \in {"Test", "Wait"} => HoldsOf(linbuf, typed, NumRead)
  /\ cpc = "Line" => /\ NumRead > 0 /\ typed[NumRead] \in {Con!CR, Con!LF}
                     /\ HoldsOf(linbuf, typed, NumRead - 1)

\* A line feed ends the line, and does not get into it.
ConInv == Con!TypeOK /\ linbuf \in Seq(Chars \cup {Con!Eot}) /\ LineInv

LEMMA LineRead ==
  ASSUME ConInv
  PROVE  Con!LineIsWhatTerminalSent
<1>1. /\ tty \in Seq(Chars) /\ typed \in Seq(Chars) /\ Len(tty) \in Nat /\ Len(typed) \in Nat
      /\ cpc \in {"Test", "Wait", "Line", "Aborted"}
  BY DEF ConInv, Con!TypeOK
<1>2. NumRead \in Nat /\ NumRead + Len(tty) = Len(typed)
  BY <1>1 DEF ConInv, LineInv, NumRead
<1>3. tty = SubSeq(typed, NumRead + 1, Len(typed))
  <2> DEFINE rest == SubSeq(typed, NumRead + 1, Len(typed))
  <2>1. rest \in Seq(Chars) /\ Len(rest) = Len(tty)
        /\ \A i \in 1..Len(tty) : rest[i] = typed[NumRead + i]
    BY <1>1, <1>2
  <2>2. \A i \in 1..Len(tty) : rest[i] = tty[i]
    BY <2>1 DEF ConInv, LineInv
  <2> HIDE DEF rest
  <2>3. tty = rest
    BY <1>1, <2>1, <2>2
  <2> QED BY <2>3 DEF rest
<1>4. \A n : Con!Holds(n) <=> HoldsOf(linbuf, typed, n)
  BY DEF Con!Holds, HoldsOf
<1>5. LineInv
  BY DEF ConInv
<1>6. cpc # "Aborted" =>
        IF cpc = "Line" THEN NumRead > 0 /\ typed[NumRead] \in {Con!CR, Con!LF} /\ Con!Holds(NumRead - 1)
                        ELSE Con!Holds(NumRead)
  BY ONLY <1>1, <1>4, <1>5 DEF LineInv
<1> QED BY ONLY <1>3, <1>6 DEF Con!LineIsWhatTerminalSent, NumRead

LEMMA ConFreshOK ==
  ASSUME tty' = <<>>, linbuf' = <<>>, cpc' = "Test", typed' = <<>>, keys' \in 0..MaxKeys,
         Con!ConsoleAssumption
  PROVE  ConInv'
<1>1. NumRead' = 0 /\ Len(tty') = 0 /\ Len(typed') = 0
  BY DEF NumRead
<1>2. HoldsOf(linbuf', typed', NumRead')
  BY <1>1, HoldsNone
<1>3. LineInv'
  <2>1. Len(tty') <= Len(typed')
    BY <1>1
  <2>2. \A i \in 1..Len(tty') : tty'[i] = typed'[NumRead' + i]
    BY <1>1
  <2> QED BY ONLY <1>2, <2>1, <2>2, cpc' = "Test" DEF LineInv
<1>4. /\ tty' \in Seq(Chars) /\ typed' \in Seq(Chars) /\ linbuf' \in Seq(Chars \cup {Con!Eot})
      /\ linbuf' \in Seq(Chars \cup {Con!Eot, Con!LF})
  OBVIOUS
<1>5. Len(typed') <= MaxTyped /\ Len(linbuf') <= LineMax
  BY DEF Con!ConsoleAssumption
<1> QED BY ONLY <1>3, <1>4, <1>5, keys' \in 0..MaxKeys, cpc' = "Test" DEF ConInv, Con!TypeOK

LEMMA ConInitOK ==
  ASSUME Con!ConsoleAssumption, Con!Init
  PROVE  ConInv
<1>1. /\ tty = <<>> /\ linbuf = <<>> /\ cpc = "Test" /\ typed = <<>> /\ keys \in 0..MaxKeys
  BY DEF Con!Init, Con!ConsoleAssumption
<1>2. NumRead = 0 /\ Len(tty) = 0 /\ Len(typed) = 0
  BY <1>1 DEF NumRead
<1>3. HoldsOf(linbuf, typed, NumRead)
  BY <1>1, <1>2, HoldsNone
<1>4. LineInv
  <2>1. Len(tty) <= Len(typed) /\ \A i \in 1..Len(tty) : tty[i] = typed[NumRead + i]
    BY <1>2
  <2> QED BY ONLY <1>1, <1>3, <2>1 DEF LineInv
<1>5. /\ tty \in Seq(Chars) /\ typed \in Seq(Chars) /\ linbuf \in Seq(Chars \cup {Con!Eot})
      /\ linbuf \in Seq(Chars \cup {Con!Eot, Con!LF})
  BY <1>1
<1>6. Len(typed) <= MaxTyped /\ Len(linbuf) <= LineMax
  BY <1>1 DEF Con!ConsoleAssumption
<1> QED BY ONLY <1>1, <1>4, <1>5, <1>6 DEF ConInv, Con!TypeOK

LEMMA ConSameOK ==
  ASSUME ConInv, UNCHANGED <<tty, linbuf, typed>>, keys' \in 0..MaxKeys,
         cpc' = cpc \/ (cpc \in {"Test", "Wait"} /\ cpc' \in {"Test", "Wait"}) \/ cpc' = "Aborted"
  PROVE  ConInv'
<1>1. tty' = tty /\ linbuf' = linbuf /\ typed' = typed /\ NumRead' = NumRead
  BY DEF NumRead
<1>2. LineInv'
  BY ONLY <1>1, LineInv,
     cpc' = cpc \/ (cpc \in {"Test", "Wait"} /\ cpc' \in {"Test", "Wait"}) \/ cpc' = "Aborted",
     ConInv DEF ConInv, LineInv
<1>3. cpc' \in {"Test", "Wait", "Line", "Aborted"}
  BY DEF ConInv, Con!TypeOK
<1> QED BY ONLY <1>1, <1>2, <1>3, keys' \in 0..MaxKeys, ConInv DEF ConInv, Con!TypeOK

LEMMA TypeKeyOK ==
  ASSUME Con!ConsoleAssumption, ConInv, Con!Type
  PROVE  ConInv'
<1>1. PICK c \in Chars : tty' = Append(tty, c) /\ typed' = Append(typed, c)
  BY DEF Con!Type
<1>2. Len(typed) < MaxTyped /\ keys' = keys /\ linbuf' = linbuf /\ cpc' = cpc
  BY DEF Con!Type
<1>3. /\ tty \in Seq(Chars) /\ typed \in Seq(Chars) /\ Len(tty) \in Nat /\ Len(typed) \in Nat
      /\ MaxTyped \in Nat
  BY DEF ConInv, Con!TypeOK, Con!ConsoleAssumption
<1>4. /\ tty' \in Seq(Chars) /\ typed' \in Seq(Chars)
      /\ Len(tty') = Len(tty) + 1 /\ Len(typed') = Len(typed) + 1
      /\ tty'[Len(tty) + 1] = c /\ \A i \in 1..Len(tty) : tty'[i] = tty[i]
      /\ typed'[Len(typed) + 1] = c /\ \A i \in 1..Len(typed) : typed'[i] = typed[i]
  BY <1>1, <1>3
<1>5. /\ NumRead' = NumRead /\ NumRead \in Nat /\ NumRead + Len(tty) = Len(typed)
      /\ NumRead <= Len(typed)
  BY <1>3, <1>4 DEF NumRead, ConInv, LineInv
<1>6. \A i \in 1..Len(tty') : tty'[i] = typed'[NumRead' + i]
  <2> SUFFICES ASSUME NEW i \in 1..Len(tty')
               PROVE  tty'[i] = typed'[NumRead + i]
    BY <1>5
  <2>1. CASE i = Len(tty) + 1
    <3>1. NumRead + i = Len(typed) + 1
      BY <1>3, <1>5, <2>1
    <3> QED BY ONLY <1>4, <2>1, <3>1
  <2>2. CASE i \in 1..Len(tty)
    <3>1. NumRead + i \in 1..Len(typed)
      BY <1>3, <1>5, <2>2
    <3>2. tty[i] = typed[NumRead + i]
      BY <2>2 DEF ConInv, LineInv
    <3> QED BY ONLY <1>4, <2>2, <3>1, <3>2
  <2> QED BY <1>3, <1>4, <2>1, <2>2
<1>7. cpc \in {"Test", "Wait"} => HoldsOf(linbuf, typed', NumRead)
  BY <1>1, <1>3, <1>5, HoldsOfLonger DEF ConInv, LineInv
<1>8. cpc = "Line" =>
        /\ NumRead > 0 /\ typed'[NumRead] \in {Con!CR, Con!LF}
        /\ HoldsOf(linbuf, typed', NumRead - 1)
  <2> SUFFICES ASSUME cpc = "Line"
               PROVE  /\ NumRead > 0 /\ typed'[NumRead] \in {Con!CR, Con!LF}
                      /\ HoldsOf(linbuf, typed', NumRead - 1)
    OBVIOUS
  <2>1. /\ NumRead > 0 /\ typed[NumRead] \in {Con!CR, Con!LF}
        /\ HoldsOf(linbuf, typed, NumRead - 1)
    BY DEF ConInv, LineInv
  <2>2. NumRead \in 1..Len(typed) /\ NumRead - 1 \in Nat /\ NumRead - 1 <= Len(typed)
    BY <1>3, <1>5, <2>1
  <2>3. HoldsOf(linbuf, Append(typed, c), NumRead - 1)
    BY <1>3, <2>1, <2>2, HoldsOfLonger
  <2> QED BY <1>1, <1>4, <2>1, <2>2, <2>3
<1>9. LineInv'
  <2>1. Len(tty') <= Len(typed')
    BY <1>3, <1>4, <1>5
  <2> QED BY ONLY <1>2, <1>5, <1>6, <1>7, <1>8, <2>1 DEF LineInv
<1>10. Len(typed') <= MaxTyped
  BY <1>2, <1>3, <1>4
<1> QED BY ONLY <1>2, <1>4, <1>9, <1>10, ConInv DEF ConInv, Con!TypeOK

\* mygets, given a character that the line is then to hold
LEMMA GotOK ==
  ASSUME Con!ConsoleAssumption, ConInv, NEW c \in Chars \cup {Con!Eot}, Con!Got(c), c # Con!LF
  PROVE  /\ \/ cpc' = "Aborted" /\ linbuf' = linbuf
            \/ cpc' = "Test" /\ linbuf' = Append(linbuf, c)
         /\ linbuf' \in Seq(Chars \cup {Con!Eot}) /\ Len(linbuf') <= LineMax
<1>1. linbuf \in Seq(Chars \cup {Con!Eot}) /\ Len(linbuf) <= LineMax
  BY DEF ConInv, Con!TypeOK
<1>2. CASE Len(linbuf) < LineMax
  <2>1. cpc' = "Test" /\ linbuf' = Append(linbuf, c)
    BY <1>2 DEF Con!Got, Con!HasRoom
  <2>2. Append(linbuf, c) \in Seq(Chars \cup {Con!Eot}) /\ Len(Append(linbuf, c)) = Len(linbuf) + 1
        /\ Len(linbuf) \in Nat
    BY <1>1
  <2>3. Len(linbuf') <= LineMax
    BY <1>2, <2>1, <2>2 DEF Con!ConsoleAssumption
  <2> QED BY <2>1, <2>2, <2>3
<1>3. CASE ~(Len(linbuf) < LineMax)
  <2>1. cpc' = "Aborted" /\ linbuf' = linbuf
    BY <1>3 DEF Con!Got, Con!HasRoom
  <2> QED BY <1>1, <2>1
<1> QED BY <1>2, <1>3

LEMMA ReadCharOK ==
  ASSUME Con!ConsoleAssumption, ConInv, NEW junk \in BOOLEAN, Con!ReadChar(junk)
  PROVE  ConInv'
<1> DEFINE c == Con!Translated(Head(tty), junk)
<1>1. /\ cpc \in {"Test", "Wait"} /\ tty # <<>> /\ Con!Got(c) /\ tty' = Tail(tty)
      /\ keys' = keys /\ typed' = typed
  BY DEF Con!ReadChar, Con!AtTerminal, Con!Unread
<1>2. /\ tty \in Seq(Chars) /\ typed \in Seq(Chars) /\ Len(tty) \in Nat /\ Len(typed) \in Nat
      /\ linbuf \in Seq(Chars \cup {Con!Eot}) /\ Len(linbuf) <= LineMax
  BY DEF ConInv, Con!TypeOK
<1>3. /\ Len(tty) > 0 /\ Head(tty) = tty[1] /\ Head(tty) \in Chars
      /\ tty' \in Seq(Chars) /\ Len(tty') = Len(tty) - 1
      /\ \A i \in 1..(Len(tty) - 1) : tty'[i] = tty[i + 1]
  BY <1>1, <1>2
<1>4. /\ NumRead \in Nat /\ NumRead' = NumRead + 1 /\ NumRead + Len(tty) = Len(typed)
      /\ Len(tty') <= Len(typed')
  BY <1>1, <1>2, <1>3 DEF NumRead, ConInv, LineInv
<1>5. typed[NumRead + 1] = Head(tty)
  <2>1. 1 \in 1..Len(tty)
    BY <1>2, <1>3
  <2> QED BY <1>3, <2>1 DEF ConInv, LineInv
<1>6. \A i \in 1..Len(tty') : tty'[i] = typed'[NumRead' + i]
  <2> SUFFICES ASSUME NEW i \in 1..Len(tty')
               PROVE  tty'[i] = typed[NumRead' + i]
    BY <1>1
  <2>1. i + 1 \in 1..Len(tty) /\ i \in 1..(Len(tty) - 1) /\ NumRead + (i + 1) = NumRead' + i
    BY <1>2, <1>3, <1>4
  <2>2. tty[i + 1] = typed[NumRead + (i + 1)]
    BY <2>1 DEF ConInv, LineInv
  <2> QED BY <1>3, <2>1, <2>2
<1>7. HoldsOf(linbuf, typed, NumRead)
  BY <1>1 DEF ConInv, LineInv
<1>8. c = Head(tty) \/ (c = Con!LF /\ Head(tty) = Con!CR)
  BY DEF Con!Translated
<1>9. /\ LineInv' /\ linbuf' \in Seq(Chars \cup {Con!Eot}) /\ Len(linbuf') <= LineMax
      /\ cpc' \in {"Test", "Line", "Aborted"}
  <2>1. CASE c = Con!LF
    <3>1. (cpc' = "Line" \/ cpc' = "Aborted") /\ linbuf' = linbuf
      BY <1>1, <2>1 DEF Con!Got
    <3>2. /\ NumRead' > 0 /\ typed'[NumRead'] \in {Con!CR, Con!LF}
          /\ HoldsOf(linbuf', typed', NumRead' - 1)
      <4>1. NumRead' > 0 /\ NumRead' - 1 = NumRead
        BY ONLY <1>4
      <4>2. typed'[NumRead'] = Head(tty)
        BY ONLY <1>1, <1>4, <1>5
      <4> QED BY ONLY <1>1, <1>7, <1>8, <2>1, <3>1, <4>1, <4>2
    <3> QED BY ONLY <1>2, <1>4, <1>6, <3>1, <3>2 DEF LineInv
  <2>2. CASE c # Con!LF
    <3>1. c = Head(tty) /\ c \in Chars
      BY <1>3, <1>8, <2>2
    <3> HIDE DEF c
    <3>2. /\ \/ cpc' = "Aborted" /\ linbuf' = linbuf
             \/ cpc' = "Test" /\ linbuf' = Append(linbuf, c)
          /\ linbuf' \in Seq(Chars \cup {Con!Eot}) /\ Len(linbuf') <= LineMax
      BY <1>1, <2>2, <3>1, GotOK
    <3>3. HoldsOf(Append(linbuf, c), typed, NumRead + 1)
      BY <1>2, <1>4, <1>5, <1>7, <3>1, HoldsOneMore
    <3> QED BY ONLY <1>1, <1>4, <1>6, <3>2, <3>3 DEF LineInv
  <2> QED BY <2>1, <2>2
<1>10. linbuf' \in Seq(Chars \cup {Con!Eot, Con!LF})
  <2>1. linbuf' \in Seq(Chars \cup {Con!Eot})
    BY <1>9
  <2> QED BY ONLY <2>1
<1> QED BY ONLY <1>1, <1>3, <1>9, <1>10, ConInv DEF ConInv, Con!TypeOK

LEMMA ReadFailsOK ==
  ASSUME Con!ConsoleAssumption, ConInv, Con!ReadFails
  PROVE  ConInv'
<1>1. /\ cpc \in {"Test", "Wait"} /\ Con!Got(Con!Eot) /\ tty' = tty
      /\ keys' = keys /\ typed' = typed
  BY DEF Con!ReadFails, Con!AtTerminal
<1>2. Con!Eot # Con!LF
  BY DEF Con!Eot, Con!LF
<1>3. /\ \/ cpc' = "Aborted" /\ linbuf' = linbuf
         \/ cpc' = "Test" /\ linbuf' = Append(linbuf, Con!Eot)
      /\ linbuf' \in Seq(Chars \cup {Con!Eot}) /\ Len(linbuf') <= LineMax
  BY <1>1, <1>2, GotOK
<1>4. /\ NumRead \in Nat /\ NumRead' = NumRead /\ linbuf \in Seq(Chars \cup {Con!Eot})
      /\ HoldsOf(linbuf, typed, NumRead)
  BY <1>1 DEF NumRead, ConInv, Con!TypeOK, LineInv
<1>5. HoldsOf(Append(linbuf, Con!Eot), typed, NumRead)
  BY <1>4, HoldsAndEot
<1>6. LineInv'
  BY ONLY <1>1, <1>3, <1>4, <1>5, ConInv DEF ConInv, LineInv
<1>7. linbuf' \in Seq(Chars \cup {Con!Eot, Con!LF})
  <2>1. linbuf' \in Seq(Chars \cup {Con!Eot})
    BY <1>3
  <2> QED BY ONLY <2>1
<1> QED BY ONLY <1>1, <1>3, <1>6, <1>7, ConInv DEF ConInv, Con!TypeOK

LEMMA MyGetsOK ==
  ASSUME Con!ConsoleAssumption, ConInv, Con!MyGets
  PROVE  ConInv'
<1>1. /\ cpc' = "Test" /\ linbuf' = <<>> /\ typed' = tty /\ tty' = tty /\ keys' = keys
  BY DEF Con!MyGets
<1>2. /\ tty \in Seq(Chars) /\ Len(tty) \in Nat /\ Len(typed) \in Nat /\ Len(tty) <= Len(typed)
      /\ Len(typed) <= MaxTyped /\ MaxTyped \in Nat /\ keys \in 0..MaxKeys
  BY DEF ConInv, Con!TypeOK, LineInv, Con!ConsoleAssumption
<1>3. NumRead' = 0
  BY <1>1, <1>2 DEF NumRead
<1>4. HoldsOf(linbuf', typed', NumRead')
  BY <1>1, <1>3, HoldsNone
<1>5. LineInv'
  <2>1. Len(tty') <= Len(typed') /\ \A i \in 1..Len(tty') : tty'[i] = typed'[NumRead' + i]
    BY <1>1, <1>2, <1>3
  <2> QED BY ONLY <1>1, <1>4, <2>1 DEF LineInv
<1>6. /\ linbuf' \in Seq(Chars \cup {Con!Eot}) /\ linbuf' \in Seq(Chars \cup {Con!Eot, Con!LF})
      /\ Len(linbuf') <= LineMax /\ Len(typed') <= MaxTyped
  BY <1>1, <1>2 DEF Con!ConsoleAssumption
<1> QED BY ONLY <1>1, <1>2, <1>5, <1>6 DEF ConInv, Con!TypeOK

LEMMA ConsoleOK ==
  ASSUME Con!ConsoleAssumption, ConInv, Con!Type \/ Con!PressKey \/ Con!Receive
  PROVE  ConInv'
<1>1. keys \in 0..MaxKeys /\ MaxKeys \in Nat
  BY DEF ConInv, Con!TypeOK, Con!ConsoleAssumption
<1>2. CASE Con!Type
  BY <1>2, TypeKeyOK
<1>3. CASE Con!PressKey
  <2>1. UNCHANGED <<tty, linbuf, typed>> /\ keys' \in 0..MaxKeys /\ cpc' = cpc
    BY <1>1, <1>3 DEF Con!PressKey
  <2> QED BY <2>1, ConSameOK
<1>4. CASE \E junk \in BOOLEAN : Con!ReadChar(junk)
  BY <1>4, ReadCharOK
<1>5. CASE Con!ReadFails
  BY <1>5, ReadFailsOK
<1>6. CASE Con!NoChar
  <2>1. UNCHANGED <<tty, linbuf, typed>> /\ keys' \in 0..MaxKeys
        /\ cpc \in {"Test", "Wait"} /\ cpc' \in {"Test", "Wait"}
    BY <1>1, <1>6 DEF Con!NoChar, Con!AtTerminal
  <2> QED BY <2>1, ConSameOK
<1>7. CASE Con!DropKey
  <2>1. UNCHANGED <<tty, linbuf, typed>> /\ keys' \in 0..MaxKeys /\ cpc' = cpc
    BY <1>1, <1>7 DEF Con!DropKey
  <2> QED BY <2>1, ConSameOK
<1> QED BY <1>2, <1>3, <1>4, <1>5, <1>6, <1>7 DEF Con!Receive

-----------------------------------------------------------------------------
(* The disk layer *)

DiskInv == DP!IInv

LEMMA DiskAssumed ==
  ASSUME D!DiskAssumption
  PROVE  DP!DiskAssumption
BY DEF D!DiskAssumption, DP!DiskAssumption

LEMMA DiskInitOK ==
  ASSUME D!DiskAssumption, D!Init
  PROVE  DiskInv
<1>1. DP!Init
  BY DEF D!Init, DP!Init, D!Untouched, DP!Untouched
<1> QED BY <1>1, DiskAssumed, DP!InitOK DEF DP!InitOK, DiskInv

LEMMA DiskSameOK ==
  ASSUME DiskInv, UNCHANGED disk, card'.in \in BOOLEAN
  PROVE  DiskInv'
<1>1. UNCHANGED <<noinit, CardType, call, dpc, asked, sector, count, buff, missed, res>>
  BY DEF disk
<1> QED
  BY ONLY <1>1, DiskInv, card'.in \in BOOLEAN
  DEF DiskInv, DP!IInv, DP!TypeOK, DP!ByBlocks, DP!InStep, DP!Placed, DP!Done, DP!Untouched,
      DP!Results

LEMMA DiskInitializeOK ==
  ASSUME D!DiskAssumption, DiskInv, D!DiskInitialize
  PROVE  DiskInv' /\ noinit' = FALSE /\ dpc' = "Idle" /\ dpc = "Idle"
<1>1. DP!DiskInitialize
  BY DEF D!DiskInitialize, DP!DiskInitialize, D!KnownType, DP!KnownType, D!Return, DP!Return,
         D!read, DP!read
<1>2. DP!IInv'
  BY <1>1, DiskAssumed, DP!InitializeOK DEF DP!InitializeOK, DiskInv
<1> QED BY <1>2 DEF DiskInv, D!DiskInitialize, D!Return

LEMMA DiskReadOK ==
  ASSUME D!DiskAssumption, DiskInv, NEW s \in 1..LastSector, NEW n \in 1..MaxCount,
         D!DiskRead(0, s, n), ~noinit
  PROVE  DiskInv' /\ noinit' = noinit /\ dpc' = "Read" /\ count' = n
<1>1. DP!DiskRead(0, s, n)
  BY DEF D!DiskRead, DP!DiskRead, D!Refused, DP!Refused, D!Untouched, DP!Untouched,
         D!read, DP!read
<1>2. n \in 0..MaxCount /\ 0 \in {0, 1}
  BY DEF D!DiskAssumption
<1>3. DP!IInv'
  BY <1>1, <1>2, DiskAssumed, DP!ReadOK DEF DP!ReadOK, DiskInv
<1> QED BY <1>3 DEF DiskInv, D!DiskRead, D!Refused

LEMMA DiskSectorOK ==
  ASSUME D!DiskAssumption, DiskInv, NEW ok \in BOOLEAN, D!ReadSector(ok)
  PROVE  /\ DiskInv' /\ noinit' = noinit /\ (ok => card.in)
         /\ (~ok => buff' = buff)
         /\ IF count > 1 THEN dpc' = "Read" ELSE dpc' = "Idle"
<1>1. DP!ReadSector(ok)
  BY DEF D!ReadSector, DP!ReadSector, D!MoreSectors, DP!MoreSectors, D!Return, DP!Return,
         D!read, DP!read
<1>2. DP!IInv'
  BY <1>1, DiskAssumed, DP!ReadSectorOK DEF DP!ReadSectorOK, DiskInv
<1>3. count \in 0..MaxCount
  BY DEF DiskInv, DP!IInv, DP!TypeOK
<1>4. noinit' = noinit /\ (ok => card.in) /\ (~ok => buff' = buff) /\ dpc = "Read"
  BY DEF D!ReadSector
<1>5. IF count - 1 > 0 THEN dpc' = dpc ELSE dpc' = "Idle"
  BY DEF D!ReadSector, D!MoreSectors, D!Return
<1>6. IF count > 1 THEN dpc' = "Read" ELSE dpc' = "Idle"
  BY ONLY <1>3, <1>4, <1>5, D!DiskAssumption DEF D!DiskAssumption
<1> QED BY <1>2, <1>4, <1>6 DEF DiskInv

\* A drive whose buffer is gone is as one that has not read yet.
LEMMA NoBufferOK ==
  ASSUME D!DiskAssumption, DiskInv, NoBuffer, dpc' = "Idle", card'.in \in BOOLEAN,
         \/ UNCHANGED <<noinit, CardType, call, res>>
         \/ noinit' = TRUE /\ CardType' = {} /\ call' = "other" /\ res' = "OK"
  PROVE  DiskInv'
<1>1. /\ asked' = [sector |-> 1, count |-> 0] /\ sector' = 1 /\ count' = 0
      /\ buff' = [k \in 1..MaxCount |-> DP!Untouched] /\ missed' = FALSE
  BY DEF NoBuffer, D!Untouched, DP!Untouched
<1>2. LastSector \in Nat \ {0} /\ MaxCount \in Nat \ {0}
  BY DEF D!DiskAssumption
<1>3. /\ asked' \in [sector : 1..LastSector, count : 0..MaxCount]
      /\ asked'.count = 0 /\ asked'.sector = 1
      /\ sector' \in 1..(LastSector + MaxCount) /\ count' \in 0..MaxCount
  BY <1>1, <1>2
<1>4. /\ buff' \in [1..MaxCount -> 0..(LastSector + MaxCount)]
      /\ \A k \in 1..MaxCount : buff'[k] = DP!Untouched
  BY <1>1, <1>2 DEF DP!Untouched
<1>5. /\ noinit' \in BOOLEAN /\ CardType' \subseteq {"SD2", "BLOCK"}
      /\ call' \in {"init", "read", "other"} /\ res' \in DP!Results
      /\ (~noinit' => "BLOCK" \in CardType')
  <2>1. CASE UNCHANGED <<noinit, CardType, call, res>>
    BY <2>1 DEF DiskInv, DP!IInv, DP!TypeOK, DP!ByBlocks
  <2>2. CASE noinit' = TRUE /\ CardType' = {} /\ call' = "other" /\ res' = "OK"
    BY <2>2 DEF DP!Results
  <2> QED BY <2>1, <2>2
<1>6. missed' \in BOOLEAN /\ dpc' = "Idle" /\ card'.in \in BOOLEAN
  BY <1>1
<1>7. DP!TypeOK' /\ DP!ByBlocks'
  BY ONLY <1>3, <1>4, <1>5, <1>6 DEF DP!TypeOK, DP!ByBlocks, DP!Results
<1>8. DP!InStep'
  BY ONLY <1>1, <1>3, <1>6 DEF DP!InStep, DP!Done
<1>9. DP!Placed'
  BY ONLY <1>1, <1>2, <1>3, <1>4 DEF DP!Placed, DP!Done
<1> QED BY ONLY <1>7, <1>8, <1>9 DEF DiskInv, DP!IInv

LEMMA DiskPlaces ==
  ASSUME D!DiskAssumption, DiskInv
  PROVE  D!TypeOK /\ D!SectorsInPlace
<1>1. D!TypeOK
  BY DEF DiskInv, DP!IInv, DP!TypeOK, D!TypeOK, DP!Results, D!Results
<1>2. D!SectorsInPlace
  BY DEF DiskInv, DP!IInv, DP!TypeOK, DP!InStep, DP!Placed, DP!Done, D!SectorsInPlace,
         DP!Untouched, D!Untouched, D!DiskAssumption
<1> QED BY <1>1, <1>2

-----------------------------------------------------------------------------
(* The shell *)

\* the variables of this module have their types
Kinds ==
  /\ spc \in {"Prompt", "Init", "Mount", "Boot", "BootWait", "File", "FileWait", "Done"}
  /\ cmd \in Chars \cup {"", Con!Eot}
  /\ mounted \in BOOLEAN /\ excused \in BOOLEAN
  /\ fs_type \in Cards \cup {NoCard} /\ win \in Cards \cup {NoCard} /\ which \in Cards

\* what the parts are doing is what the shell waits for
Where ==
  /\ at # 0 => spc \in {"Init", "Mount"}
  /\ spc = "Init" => excused
  /\ spc \in {"Boot", "BootWait", "File", "FileWait"} => ~noinit
  /\ dpc = "Read" <=> spc \in {"BootWait", "FileWait"}
  /\ spc = "BootWait" => count = 1
  /\ spc \in {"Mount", "Boot", "BootWait"} /\ ~spoilt => script = "init_sd"
  /\ spc \in {"File", "FileWait"} => fs_type # NoCard

\* A card put in is idle, and only a find_volume, I or i wakes it: unless the
\* user ran those, the card that is awake is the one find_volume found.
Owner ==
  spc \notin {"Mount", "Boot", "BootWait"} /\ ~excused /\ fs_type # NoCard
    /\ card.in /\ card.state # "idle" => fs_type = which

ShellInv == CardInv /\ ConInv /\ DiskInv /\ Kinds /\ Where /\ Owner

Steady == Busy <= Polls /\ Progress => Progress'

LEMMA Assumed ==
  /\ Sd!CardAssumption /\ Con!ConsoleAssumption /\ D!DiskAssumption /\ NoCard \notin Cards
BY ShellAssumption

LEMMA ConsoleSame ==
  ASSUME ConInv, UNCHANGED console
  PROVE  ConInv'
<1>1. UNCHANGED <<tty, linbuf, typed>> /\ keys' = keys /\ cpc' = cpc
  BY DEF console
<1>2. keys \in 0..MaxKeys
  BY DEF ConInv, Con!TypeOK
<1> QED BY <1>1, <1>2, ConSameOK

LEMMA SlotType ==
  ASSUME CardInv'
  PROVE  card'.in \in BOOLEAN
BY DEF CardInv, Sd!TypeOK

LEMMA WhereSame ==
  ASSUME Kinds, Where, Owner,
         UNCHANGED <<card, script, at, spoilt, noinit, dpc, count, spc, cmd, mounted, fs_type,
                     win, which, excused>>
  PROVE  Kinds' /\ Where' /\ Owner'
<1>1. Kinds'
  BY DEF Kinds
<1>2. Where'
  BY DEF Where
<1>3. Owner'
  BY DEF Owner
<1> QED BY <1>1, <1>2, <1>3

LEMMA ShellInitOK ==
  ASSUME Init
  PROVE  ShellInv /\ Progress
<1>1. CardInv /\ Progress
  BY Assumed, CardInitOK DEF Init
<1>2. ConInv
  BY Assumed, ConInitOK DEF Init
<1>3. DiskInv
  BY Assumed, DiskInitOK DEF Init
<1>4. at = 0 /\ dpc = "Idle"
  BY DEF Init, Sd!Init, D!Init
<1>5. Kinds /\ Where /\ Owner
  BY <1>4 DEF Init, Kinds, Where, Owner
<1> QED BY <1>1, <1>2, <1>3, <1>5 DEF ShellInv

\* The user at the console, at the slot, and ending the program.
LEMMA AtConsoleOK ==
  ASSUME ShellInv, AtConsole
  PROVE  ShellInv' /\ Steady
<1>1. /\ UNCHANGED <<card, host, lost, spoilt>> /\ UNCHANGED disk /\ UNCHANGED shell
      /\ Con!Type \/ Con!PressKey \/ Con!Receive
  BY DEF AtConsole, SdSame, DiskSame
<1>2. CardInv' /\ (Progress => Progress')
  BY <1>1, CardSameOK DEF ShellInv
<1>3. ConInv'
  BY <1>1, Assumed, ConsoleOK DEF ShellInv
<1>4. DiskInv'
  BY <1>1, <1>2, DiskSameOK, SlotType DEF ShellInv
<1>5. UNCHANGED <<card, script, at, spoilt, noinit, dpc, count, spc, cmd, mounted, fs_type,
                   win, which, excused>>
  BY <1>1 DEF shell, host, disk
<1>6. Kinds' /\ Where' /\ Owner'
  BY <1>5, WhereSame DEF ShellInv
<1> QED BY <1>2, <1>3, <1>4, <1>6 DEF ShellInv, Steady

LEMMA MoveCardOK ==
  ASSUME ShellInv, MoveCard
  PROVE  ShellInv' /\ Steady
<1>1. /\ Sd!MoveCard /\ UNCHANGED disk /\ UNCHANGED console
      /\ UNCHANGED <<spc, cmd, mounted, fs_type, win, excused>> /\ which' \in Cards
  BY DEF MoveCard, DiskSame, ConSame, ShellInv, Kinds
<1>2. CardInv' /\ Progress'
  BY <1>1, Assumed, UserOK DEF ShellInv
<1>3. ConInv' /\ DiskInv'
  BY <1>1, <1>2, ConsoleSame, DiskSameOK, SlotType DEF ShellInv
<1>4. /\ UNCHANGED <<script, at>> /\ spoilt' = TRUE /\ UNCHANGED <<noinit, dpc, count>>
      /\ card' = Sd!Empty \/ card' = Sd!Inserted
  BY <1>1 DEF Sd!MoveCard, Sd!host, disk
<1>5. card'.state = "idle"
  BY <1>4 DEF Sd!Empty, Sd!Inserted
<1>6. Kinds' /\ Where' /\ Owner'
  BY <1>1, <1>4, <1>5 DEF ShellInv, Kinds, Where, Owner
<1> QED BY <1>2, <1>3, <1>6 DEF ShellInv, Steady

LEMMA RestartOK ==
  ASSUME ShellInv, Restart
  PROVE  ShellInv' /\ Steady
<1>1. CardInv' /\ Progress'
  BY Assumed, UserOK DEF Restart, ShellInv
<1>2. ConInv'
  <2>1. tty' = <<>> /\ linbuf' = <<>> /\ cpc' = "Test" /\ typed' = <<>> /\ keys' \in 0..MaxKeys
    BY DEF Restart, ShellInv, ConInv, Con!TypeOK
  <2> QED BY <2>1, Assumed, ConFreshOK
<1>3. DiskInv'
  <2>1. NoBuffer /\ dpc' = "Idle" /\ noinit' = TRUE /\ CardType' = {} /\ call' = "other"
        /\ res' = "OK"
    BY DEF Restart
  <2> QED BY <1>1, <2>1, Assumed, NoBufferOK, SlotType DEF ShellInv
<1>4. at' = 0 /\ dpc' = "Idle"
  BY DEF Restart, Sd!HostRestart
<1>5. Kinds' /\ Where' /\ Owner'
  BY <1>4 DEF Restart, ShellInv, Kinds, Where, Owner
<1> QED BY <1>1, <1>2, <1>3, <1>5 DEF ShellInv, Steady

-----------------------------------------------------------------------------
(* The commands *)

LEMMA DispatchOK ==
  ASSUME ShellInv, NEW names, Dispatch(names)
  PROVE  /\ spc = "Prompt" /\ cmd' \in Chars \cup {"", Con!Eot} /\ cmd' \in names
         /\ ConInv' /\ UNCHANGED disk /\ UNCHANGED <<win, which>> /\ at = 0 /\ dpc # "Read"
<1>1. spc = "Prompt" /\ cmd' = Command /\ Command \in names /\ UNCHANGED disk
      /\ UNCHANGED console /\ UNCHANGED <<win, which>>
  BY DEF Dispatch, DiskSame, ConSame
<1>2. ConInv'
  BY <1>1, ConsoleSame DEF ShellInv
<1>3. Command \in Chars \cup {"", Con!Eot}
  <2>1. linbuf \in Seq(Chars \cup {Con!Eot})
    BY DEF ShellInv, ConInv
  <2>2. CASE linbuf = <<>>
    BY <2>2 DEF Command
  <2>3. CASE linbuf # <<>>
    <3>1. Head(linbuf) \in Chars \cup {Con!Eot}
      BY <2>1, <2>3
    <3> QED BY <2>3, <3>1 DEF Command
  <2> QED BY <2>2, <2>3
<1>4. at = 0 /\ dpc # "Read"
  BY <1>1 DEF ShellInv, Where
<1> QED BY <1>1, <1>2, <1>3, <1>4

LEMMA LeaveOK ==
  ASSUME ShellInv, NEW names, Dispatch(names), NEW s \in {"Done", "File"}, Leave(s),
         s = "File" => fs_type # NoCard /\ ~noinit
  PROVE  ShellInv' /\ Steady
<1>1. /\ spc = "Prompt" /\ cmd' \in Chars \cup {"", Con!Eot} /\ ConInv' /\ UNCHANGED disk
      /\ UNCHANGED <<win, which>> /\ at = 0 /\ dpc # "Read"
  BY DispatchOK
<1>2. /\ spc' = s /\ UNCHANGED <<card, host, lost, spoilt>>
      /\ UNCHANGED <<mounted, fs_type, excused>>
  BY DEF Leave, SdSame
<1>3. CardInv' /\ (Progress => Progress')
  BY <1>2, CardSameOK DEF ShellInv
<1>4. DiskInv'
  BY <1>1, <1>3, DiskSameOK, SlotType DEF ShellInv
<1>5. UNCHANGED <<card, script, at, spoilt, noinit, dpc, count>>
  BY <1>1, <1>2 DEF host, disk
<1>6. Kinds' /\ Where' /\ Owner'
  BY <1>1, <1>2, <1>5 DEF ShellInv, Kinds, Where, Owner
<1> QED BY <1>1, <1>3, <1>4, <1>6 DEF ShellInv, Steady

LEMMA MountingOK ==
  ASSUME ShellInv, NEW names, Dispatch(names), Mounting
  PROVE  ShellInv' /\ Steady
<1>1. /\ spc = "Prompt" /\ cmd' \in Chars \cup {"", Con!Eot} /\ ConInv' /\ UNCHANGED disk
      /\ UNCHANGED <<win, which>> /\ at = 0 /\ dpc # "Read"
  BY DispatchOK
<1>2. /\ Sd!Start("init_sd") /\ spc' = "Mount" /\ fs_type' = NoCard /\ excused' = FALSE
      /\ mounted' = mounted
  BY DEF Mounting
<1>3. CardInv' /\ (Progress => Progress')
  BY <1>2, Assumed, StartOK DEF ShellInv
<1>4. DiskInv'
  BY <1>1, <1>3, DiskSameOK, SlotType DEF ShellInv
<1>5. ~spoilt' => script' = "init_sd"
  BY <1>2 DEF Sd!Start, Sd!InSlot, ShellInv, CardInv, InSlotUnlessSpoilt
<1>6. UNCHANGED <<noinit, dpc, count>>
  BY <1>1 DEF disk
<1>7. Kinds' /\ Where' /\ Owner'
  BY <1>1, <1>2, <1>5, <1>6 DEF ShellInv, Kinds, Where, Owner
<1> QED BY <1>1, <1>3, <1>4, <1>7 DEF ShellInv, Steady

LEMMA UnmountOK ==
  ASSUME ShellInv, UnmountCommand
  PROVE  ShellInv' /\ Steady
<1>1. /\ spc = "Prompt" /\ cmd' \in Chars \cup {"", Con!Eot} /\ ConInv' /\ UNCHANGED disk
      /\ UNCHANGED <<win, which>> /\ at = 0 /\ dpc # "Read"
  BY DispatchOK DEF UnmountCommand
<1>2. /\ spc' = "Done" /\ mounted' = FALSE /\ fs_type' \in {fs_type, NoCard}
      /\ UNCHANGED <<card, host, lost, spoilt>> /\ excused' = excused
  BY DEF UnmountCommand, SdSame
<1>3. CardInv' /\ (Progress => Progress')
  BY <1>2, CardSameOK DEF ShellInv
<1>4. DiskInv'
  BY <1>1, <1>3, DiskSameOK, SlotType DEF ShellInv
<1>5. UNCHANGED <<card, script, at, spoilt, noinit, dpc, count>>
  BY <1>1, <1>2 DEF host, disk
<1>6. Kinds' /\ Where' /\ Owner'
  BY <1>1, <1>2, <1>5 DEF ShellInv, Kinds, Where, Owner
<1> QED BY <1>1, <1>3, <1>4, <1>6 DEF ShellInv, Steady

LEMMA InitCommandOK ==
  ASSUME ShellInv, InitCommand
  PROVE  ShellInv' /\ Steady
<1>1. /\ spc = "Prompt" /\ cmd' \in Chars \cup {"", Con!Eot} /\ ConInv' /\ UNCHANGED disk
      /\ UNCHANGED <<win, which>> /\ at = 0 /\ dpc # "Read"
  BY DispatchOK DEF InitCommand
<1>2. /\ spc' = "Init" /\ excused' = TRUE /\ UNCHANGED <<mounted, fs_type>>
      /\ \E name \in {"init_sd", "old_init2"} : Sd!Start(name)
  BY DEF InitCommand
<1>3. CardInv' /\ (Progress => Progress')
  BY <1>2, Assumed, StartOK DEF ShellInv
<1>4. DiskInv'
  BY <1>1, <1>3, DiskSameOK, SlotType DEF ShellInv
<1>5. UNCHANGED <<noinit, dpc, count>>
  BY <1>1 DEF disk
<1>6. Kinds' /\ Where' /\ Owner'
  BY <1>1, <1>2, <1>5 DEF ShellInv, Kinds, Where, Owner
<1> QED BY <1>1, <1>3, <1>4, <1>6 DEF ShellInv, Steady

LEMMA CommandOK ==
  ASSUME ShellInv,
         MountCommand \/ FileCommand \/ UnmountCommand \/ InitCommand \/ Other
  PROVE  ShellInv' /\ Steady
<1>1. CASE MountCommand
  <2>1. Dispatch({"m", "l"}) /\ (Leave("Done") \/ Mounting)
    BY <1>1 DEF MountCommand
  <2> QED BY <2>1, LeaveOK, MountingOK
<1>2. CASE FileCommand
  <2>1. Dispatch({"f", "D"}) /\ ((KnownVolume /\ Leave("File")) \/ Mounting)
    BY <1>2 DEF FileCommand
  <2>2. KnownVolume => fs_type # NoCard /\ ~noinit
    BY DEF KnownVolume
  <2> QED BY <2>1, <2>2, LeaveOK, MountingOK
<1>3. CASE Other
  <2>1. Dispatch({Command} \ {"m", "l", "f", "D", "P", "u", "I", "i"}) /\ Leave("Done")
    BY <1>3 DEF Other
  <2> QED BY <2>1, LeaveOK
<1> QED BY <1>1, <1>2, <1>3, UnmountOK, InitCommandOK

-----------------------------------------------------------------------------
(* What they do *)

LEMMA ScriptStepOK ==
  ASSUME ShellInv, ScriptStep
  PROVE  ShellInv' /\ Steady
<1>1. Sd!Step /\ UNCHANGED disk /\ UNCHANGED console /\ UNCHANGED shell
  BY DEF ScriptStep, DiskSame, ConSame
<1>2. CardInv' /\ Steady
  BY <1>1, Assumed, StepOK DEF ShellInv, Steady
<1>3. ConInv' /\ DiskInv'
  BY <1>1, <1>2, ConsoleSame, DiskSameOK, SlotType DEF ShellInv
<1>4. at # 0 /\ script' = script /\ (spoilt => spoilt')
  <2>1. CASE Sd!SetWidth
    BY <2>1 DEF Sd!SetWidth
  <2>2. CASE \E heard, answered \in BOOLEAN : Sd!Command(heard, answered)
    <3>1. PICK heard \in BOOLEAN, answered \in BOOLEAN : Sd!Command(heard, answered)
      BY <2>2
    <3> QED BY <3>1 DEF Sd!Command
  <2> QED BY <1>1, <2>1, <2>2 DEF Sd!Step
<1>5. spc \in {"Init", "Mount"} /\ (spc = "Init" => excused)
  BY <1>4 DEF ShellInv, Where
<1>6. Kinds' /\ Where' /\ Owner'
  BY <1>1, <1>4, <1>5 DEF ShellInv, Kinds, Where, Owner, shell, disk
<1> QED BY <1>2, <1>3, <1>6 DEF ShellInv

LEMMA InitEndOK ==
  ASSUME ShellInv, InitEnd
  PROVE  ShellInv' /\ Steady
<1>1. /\ UNCHANGED <<card, host, lost, spoilt>> /\ UNCHANGED disk /\ UNCHANGED console
      /\ spc = "Init" /\ at = 0 /\ spc' = "Done" /\ UNCHANGED <<cmd, win, which, excused>>
      /\ mounted' \in {TRUE, mounted} /\ fs_type' \in {NoCard, fs_type}
  BY DEF InitEnd, SdSame, DiskSame, ConSame
<1>2. CardInv' /\ (Progress => Progress')
  BY <1>1, CardSameOK DEF ShellInv
<1>3. ConInv' /\ DiskInv'
  BY <1>1, <1>2, ConsoleSame, DiskSameOK, SlotType DEF ShellInv
<1>4. excused' /\ UNCHANGED <<at, noinit, dpc>>
  BY <1>1 DEF ShellInv, Where, host, disk
<1>5. Kinds' /\ Where' /\ Owner'
  BY <1>1, <1>4 DEF ShellInv, Kinds, Where, Owner
<1> QED BY <1>2, <1>3, <1>5 DEF ShellInv, Steady

LEMMA MountInitOK ==
  ASSUME ShellInv, MountInit
  PROVE  ShellInv' /\ Steady
<1>1. /\ UNCHANGED <<card, host, lost, spoilt>> /\ D!DiskInitialize /\ UNCHANGED console
      /\ spc = "Mount" /\ at = 0 /\ spc' = "Boot"
      /\ UNCHANGED <<cmd, mounted, fs_type, win, which, excused>>
  BY DEF MountInit, SdSame, ConSame
<1>2. CardInv' /\ (Progress => Progress')
  BY <1>1, CardSameOK DEF ShellInv
<1>3. ConInv'
  BY <1>1, ConsoleSame DEF ShellInv
<1>4. DiskInv' /\ noinit' = FALSE /\ dpc' = "Idle"
  BY <1>1, Assumed, DiskInitializeOK DEF ShellInv
<1>5. UNCHANGED <<script, at>> /\ spoilt' = spoilt
  BY <1>1 DEF host
<1>6. Kinds' /\ Owner'
  BY <1>1 DEF ShellInv, Kinds, Owner
<1>7. ~spoilt' => script' = "init_sd"
  BY <1>1, <1>5 DEF ShellInv, Where
<1>8. Where'
  BY ONLY <1>1, <1>4, <1>5, <1>7 DEF Where
<1> QED BY <1>2, <1>3, <1>4, <1>6, <1>8 DEF ShellInv, Steady

LEMMA BootReadOK ==
  ASSUME ShellInv, BootRead
  PROVE  ShellInv' /\ Steady
<1>1. /\ UNCHANGED <<card, host, lost, spoilt>> /\ D!DiskRead(0, 1, 1) /\ UNCHANGED console
      /\ spc = "Boot" /\ spc' = "BootWait"
      /\ UNCHANGED <<cmd, mounted, fs_type, win, which, excused>>
  BY DEF BootRead, SdSame, ConSame
<1>2. CardInv' /\ (Progress => Progress')
  BY <1>1, CardSameOK DEF ShellInv
<1>3. ConInv'
  BY <1>1, ConsoleSame DEF ShellInv
<1>4. ~noinit /\ at = 0
  BY <1>1 DEF ShellInv, Where
<1>5. 1 \in 1..LastSector /\ 1 \in 1..MaxCount
  BY Assumed DEF D!DiskAssumption
<1>6. DiskInv' /\ noinit' = noinit /\ dpc' = "Read" /\ count' = 1
  BY <1>1, <1>4, <1>5, Assumed, DiskReadOK DEF ShellInv
<1>7. UNCHANGED <<script, at>> /\ spoilt' = spoilt
  BY <1>1 DEF host
<1>8. Kinds' /\ Owner'
  BY <1>1 DEF ShellInv, Kinds, Owner
<1>9. ~spoilt' => script' = "init_sd"
  BY <1>1, <1>7 DEF ShellInv, Where
<1>10. Where'
  BY ONLY <1>1, <1>4, <1>6, <1>7, <1>9 DEF Where
<1> QED BY <1>2, <1>3, <1>6, <1>8, <1>10 DEF ShellInv, Steady

\* A sector read spoils the run of init_sd only when the read fails.
LEMMA SectorOK ==
  ASSUME ShellInv, NEW ok \in BOOLEAN, Sector(ok)
  PROVE  CardInv' /\ (Progress => Progress')
<1>1. /\ UNCHANGED <<card, host, lost>> /\ spoilt' = (spoilt \/ (Sd!Selected /\ ~ok))
  BY DEF Sector
<1>2. UNCHANGED <<card, script, at, attempt, timeout, rca, resp, width, lost>>
  BY <1>1 DEF host
<1>3. spoilt' \in BOOLEAN /\ (spoilt => spoilt')
  BY <1>1
<1>4. CardInv'
  BY ONLY <1>2, <1>3, ShellInv
  DEF ShellInv, CardInv, Sd!TypeOK, InSlotUnlessSpoilt, Sd!Entries, Sd!Attempts
<1>5. Clean' => Clean
  BY ONLY <1>2, <1>3 DEF Clean, Sd!Attempts
<1>6. Sd!Selected' = Sd!Selected
  BY ONLY <1>2 DEF Sd!Selected
<1>7. (Identification => Identification') /\ (Selection => Selection')
  BY ONLY <1>2 DEF Identification, Selection, Addressed, Unaddressed, Rounds
<1> QED BY ONLY <1>2, <1>4, <1>5, <1>6, <1>7 DEF Progress

LEMMA BootSectorOK ==
  ASSUME ShellInv, NEW ok \in BOOLEAN, BootSector(ok)
  PROVE  ShellInv' /\ Steady
<1>1. /\ spc = "BootWait" /\ Sector(ok) /\ UNCHANGED console /\ UNCHANGED <<cmd, which>>
      /\ win' = (IF ok THEN which ELSE win) /\ fs_type' = win'
      /\ mounted' = (mounted \/ win' # NoCard)
      /\ spc' = (IF win' # NoCard /\ cmd \in {"f", "D"} THEN "File" ELSE "Done")
      /\ excused' = (excused \/ ~ok)
  BY DEF BootSector, Window, ConSame
<1>2. CardInv' /\ (Progress => Progress')
  BY <1>1, SectorOK
<1>3. ConInv'
  BY <1>1, ConsoleSame DEF ShellInv
<1>4. count = 1 /\ ~noinit /\ at = 0
  BY <1>1 DEF ShellInv, Where
<1>5. /\ DiskInv' /\ noinit' = noinit
      /\ IF count > 1 THEN dpc' = "Read" ELSE dpc' = "Idle"
  BY <1>1, Assumed, DiskSectorOK DEF ShellInv, Sector
<1>6. dpc' = "Idle"
  BY ONLY <1>4, <1>5
<1>7. at' = at
  BY <1>1 DEF Sector, host
<1>8. Kinds'
  BY <1>1 DEF ShellInv, Kinds
<1>9. Where'
  BY ONLY <1>1, <1>4, <1>5, <1>6, <1>7 DEF Where
<1>10. Owner'
  BY <1>1 DEF Owner
<1> QED BY <1>2, <1>3, <1>5, <1>8, <1>9, <1>10 DEF ShellInv, Steady

LEMMA FileReadOK ==
  ASSUME ShellInv, FileRead
  PROVE  ShellInv' /\ Steady
<1>1. PICK s \in 1..LastSector, n \in 1..MaxCount : D!DiskRead(0, s, n)
  BY DEF FileRead
<1>2. /\ UNCHANGED <<card, host, lost, spoilt>> /\ UNCHANGED console
      /\ spc = "File" /\ spc' = "FileWait"
      /\ UNCHANGED <<cmd, mounted, fs_type, win, which, excused>>
  BY DEF FileRead, SdSame, ConSame
<1>3. CardInv' /\ (Progress => Progress')
  BY <1>2, CardSameOK DEF ShellInv
<1>4. ConInv'
  BY <1>2, ConsoleSame DEF ShellInv
<1>5. ~noinit /\ at = 0 /\ fs_type # NoCard
  BY <1>2 DEF ShellInv, Where
<1>6. DiskInv' /\ noinit' = noinit /\ dpc' = "Read"
  BY <1>1, <1>5, Assumed, DiskReadOK DEF ShellInv
<1>7. at' = at
  BY <1>2 DEF host
<1>8. Kinds' /\ Where' /\ Owner'
  BY <1>2, <1>5, <1>6, <1>7 DEF ShellInv, Kinds, Where, Owner
<1> QED BY <1>3, <1>4, <1>6, <1>8 DEF ShellInv, Steady

LEMMA FileSectorOK ==
  ASSUME ShellInv, NEW ok \in BOOLEAN, FileSector(ok)
  PROVE  ShellInv' /\ Steady
<1>1. /\ spc = "FileWait" /\ Sector(ok) /\ UNCHANGED console
      /\ spc' = (IF dpc' = "Idle" THEN "Done" ELSE spc)
      /\ UNCHANGED <<cmd, mounted, fs_type, win, which, excused>>
  BY DEF FileSector, ConSame
<1>2. CardInv' /\ (Progress => Progress')
  BY <1>1, SectorOK
<1>3. ConInv'
  BY <1>1, ConsoleSame DEF ShellInv
<1>4. ~noinit /\ at = 0 /\ fs_type # NoCard
  BY <1>1 DEF ShellInv, Where
<1>5. /\ DiskInv' /\ noinit' = noinit /\ dpc' \in {"Read", "Idle"}
  BY <1>1, Assumed, DiskSectorOK DEF ShellInv, Sector
<1>6. at' = at /\ card' = card
  BY <1>1 DEF Sector, host
<1>7. Kinds' /\ Where' /\ Owner'
  BY <1>1, <1>4, <1>5, <1>6 DEF ShellInv, Kinds, Where, Owner
<1> QED BY <1>2, <1>3, <1>5, <1>7 DEF ShellInv, Steady

LEMMA NextLineOK ==
  ASSUME ShellInv, NextLine
  PROVE  ShellInv' /\ Steady
<1>1. /\ UNCHANGED <<card, host, lost, spoilt>> /\ Con!MyGets /\ NoBuffer
      /\ spc = "Done" /\ spc' = "Prompt" /\ cmd' = ""
      /\ UNCHANGED <<noinit, CardType, call, res>> /\ dpc' = dpc
      /\ UNCHANGED <<mounted, fs_type, win, which, excused>>
  BY DEF NextLine, SdSame
<1>2. CardInv' /\ (Progress => Progress')
  BY <1>1, CardSameOK DEF ShellInv
<1>3. ConInv'
  BY <1>1, Assumed, MyGetsOK DEF ShellInv
<1>4. at = 0 /\ dpc = "Idle"
  <2>1. at = 0 /\ dpc # "Read"
    BY <1>1 DEF ShellInv, Where
  <2> QED BY <2>1 DEF ShellInv, DiskInv, DP!IInv, DP!TypeOK
<1>5. DiskInv'
  BY <1>1, <1>2, <1>4, Assumed, NoBufferOK, SlotType DEF ShellInv
<1>6. UNCHANGED <<at, spoilt, script, card>>
  BY <1>1 DEF host
<1>7. Kinds' /\ Where' /\ Owner'
  BY <1>1, <1>4, <1>6 DEF ShellInv, Kinds, Where, Owner
<1> QED BY <1>2, <1>3, <1>5, <1>7 DEF ShellInv, Steady

LEMMA ShellSameOK ==
  ASSUME ShellInv, UNCHANGED vars
  PROVE  ShellInv' /\ Steady
<1>1. /\ UNCHANGED <<card, host, lost, spoilt>> /\ UNCHANGED disk /\ UNCHANGED console
      /\ UNCHANGED shell
  BY DEF vars
<1>2. CardInv' /\ (Progress => Progress')
  BY <1>1, CardSameOK DEF ShellInv
<1>3. ConInv' /\ DiskInv'
  BY <1>1, <1>2, ConsoleSame, DiskSameOK, SlotType DEF ShellInv
<1>4. UNCHANGED <<card, script, at, spoilt, noinit, dpc, count, spc, cmd, mounted, fs_type,
                   win, which, excused>>
  BY <1>1 DEF shell, host, disk
<1>5. Kinds' /\ Where' /\ Owner'
  BY <1>4, WhereSame DEF ShellInv
<1> QED BY <1>2, <1>3, <1>5 DEF ShellInv, Steady

LEMMA ShellNextOK ==
  ASSUME ShellInv, [Next]_vars
  PROVE  ShellInv' /\ Steady
<1>1. CASE UNCHANGED vars
  BY <1>1, ShellSameOK
<1>2. CASE AtConsole \/ MoveCard \/ Restart
  BY <1>2, AtConsoleOK, MoveCardOK, RestartOK
<1>3. CASE Run
  BY <1>3, CommandOK, ScriptStepOK, InitEndOK, MountInitOK, BootReadOK, FileReadOK, NextLineOK,
     BootSectorOK, FileSectorOK DEF Run
<1> QED BY <1>1, <1>2, <1>3 DEF Next

-----------------------------------------------------------------------------
(* The theorems *)

LEMMA Invariance == Spec => []ShellInv
<1>1. Init => ShellInv
  BY ShellInitOK
<1>2. ShellInv /\ [Next]_vars => ShellInv'
  BY ShellNextOK
<1> QED BY <1>1, <1>2, PTL DEF Spec

LEMMA CardKept == ASSUME Busy <= Polls PROVE Spec => [](ShellInv /\ Progress)
<1>1. Init => ShellInv /\ Progress
  BY ShellInitOK
<1>2. (ShellInv /\ Progress) /\ [Next]_vars => (ShellInv /\ Progress)'
  BY ShellNextOK DEF Steady
<1> QED BY <1>1, <1>2, PTL DEF Spec

\* The variables of the shell, of the console, of the scripts and of the disk
\* layer keep their types: no line overruns linbuf, no script its end and no
\* read its buffer.
THEOREM ShellTypeOK == Spec => []TypeOK
<1>1. ShellInv => TypeOK
  BY Assumed, DiskPlaces DEF ShellInv, CardInv, ConInv, Kinds, TypeOK
<1> QED BY <1>1, Invariance, PTL

\* The line that a command is taken from is what was typed, whatever is typed,
\* pressed or fails to be read between two of its characters.
THEOREM LineIsTyped == Spec => []LineIsWhatTerminalSent
<1>1. ShellInv => LineIsWhatTerminalSent
  BY LineRead DEF ShellInv, LineIsWhatTerminalSent
<1> QED BY <1>1, Invariance, PTL

\* Every sector the shell reads is where it belongs in the caller's buffer.
THEOREM SectorsArePlaced == Spec => []SectorsInPlace
<1>1. ShellInv => SectorsInPlace
  BY Assumed, DiskPlaces DEF ShellInv, SectorsInPlace
<1> QED BY <1>1, Invariance, PTL

\* init_sd selects the card although it looks at no result, if the card is not
\* busy for longer than the loop around ACMD41 goes on.
THEOREM CardIsSelected == ASSUME Busy <= Polls PROVE Spec => []InitSelects
<1>1. ShellInv /\ Progress => InitSelects
  BY DEF Progress, Clean, InitSelects, Sd!InitSelects
<1> QED BY <1>1, CardKept, PTL

\* Under the same condition find_volume ends with the volume of the card in the
\* slot, whatever was done before.
THEOREM MountIsRight == ASSUME Busy <= Polls PROVE Spec => MountFindsCard
<1>1. ASSUME ShellInv, Progress, [Next]_vars
      PROVE  [spc = "BootWait" /\ spc' # "BootWait" /\ spc' # "Prompt"
                /\ ~spoilt' /\ lost' < Sd!Attempts
              => mounted' /\ fs_type' = which']_vars
  <2> SUFFICES ASSUME spc = "BootWait", spc' # "BootWait", spc' # "Prompt",
                      ~spoilt', lost' < Sd!Attempts
               PROVE  mounted' /\ fs_type' = which'
    OBVIOUS
  <2>1. at = 0 /\ (~spoilt => script = "init_sd")
    BY <1>1 DEF ShellInv, Where
  <2>2. PICK ok \in BOOLEAN : BootSector(ok)
    <3>1. ~AtConsole /\ ~Restart /\ ~MoveCard /\ ~UNCHANGED vars
      BY DEF AtConsole, Restart, MoveCard, vars, shell
    <3>2. /\ ~MountCommand /\ ~FileCommand /\ ~UnmountCommand /\ ~InitCommand /\ ~Other
      BY DEF MountCommand, FileCommand, UnmountCommand, InitCommand, Other, Dispatch
    <3>3. /\ ~ScriptStep /\ ~InitEnd /\ ~MountInit /\ ~BootRead /\ ~FileRead /\ ~NextLine
          /\ \A ok \in BOOLEAN : ~FileSector(ok)
      BY DEF ScriptStep, shell, InitEnd, MountInit, BootRead, FileRead, NextLine, FileSector
    <3> QED BY <1>1, <3>1, <3>2, <3>3 DEF Next, Run
  <2>3. /\ which' = which /\ win' = (IF ok THEN which ELSE win) /\ fs_type' = win'
        /\ mounted' = (mounted \/ win' # NoCard)
        /\ lost' = lost /\ spoilt' = (spoilt \/ (Sd!Selected /\ ~ok))
    BY <2>2 DEF BootSector, Window, Sector
  <2>4. ok
    <3>1. Clean
      BY <2>1, <2>3 DEF Clean
    <3>2. Sd!Selected
      BY <1>1, <2>1, <3>1 DEF Progress
    <3> QED BY <2>3, <3>2
  <2>5. which # NoCard
    BY <1>1, Assumed DEF ShellInv, Kinds
  <2> QED BY <2>3, <2>4, <2>5
<1>2. ShellInv /\ Progress /\ [Next]_vars =>
        [spc = "BootWait" /\ spc' # "BootWait" /\ spc' # "Prompt"
           /\ ~spoilt' /\ lost' < Sd!Attempts
         => mounted' /\ fs_type' = which']_vars
  BY <1>1
<1> QED BY <1>2, CardKept, PTL DEF Spec, MountFindsCard

\* A file is read from the card its volume was found on, or not at all.
THEOREM VolumeIsOwn == Spec => ReadsOwnVolume
<1>1. ASSUME ShellInv, [Next]_vars
      PROVE  [\A k \in 1..MaxCount :
                spc = "FileWait" /\ spc' # "Prompt" /\ ~excused
                  /\ buff[k] = D!Untouched /\ buff'[k] # D!Untouched
                => fs_type = which]_vars
  <2> SUFFICES ASSUME NEW k \in 1..MaxCount, spc = "FileWait", spc' # "Prompt", ~excused,
                      buff[k] = D!Untouched, buff'[k] # D!Untouched
               PROVE  fs_type = which
    OBVIOUS
  <2>1. at = 0 /\ fs_type # NoCard
    BY <1>1 DEF ShellInv, Where
  <2>2. PICK ok \in BOOLEAN : FileSector(ok)
    <3>1. ~AtConsole /\ ~Restart /\ ~MoveCard /\ ~UNCHANGED vars
      BY DEF AtConsole, Restart, MoveCard, vars, DiskSame, disk
    <3>2. /\ ~MountCommand /\ ~FileCommand /\ ~UnmountCommand /\ ~InitCommand /\ ~Other
      BY DEF MountCommand, FileCommand, UnmountCommand, InitCommand, Other, Dispatch
    <3>3. /\ ~ScriptStep /\ ~InitEnd /\ ~MountInit /\ ~BootRead /\ ~FileRead /\ ~NextLine
          /\ \A ok \in BOOLEAN : ~BootSector(ok)
      BY DEF ScriptStep, DiskSame, disk, InitEnd, MountInit, BootRead, FileRead, NextLine,
             BootSector
    <3> QED BY <1>1, <3>1, <3>2, <3>3 DEF Next, Run
  <2>3. (ok => Sd!Selected) /\ (~ok => buff' = buff)
    BY <2>2, <1>1, Assumed, DiskSectorOK DEF FileSector, Sector, ShellInv
  <2>4. Sd!Selected
    BY <2>3
  <2>5. card.in /\ card.state = "tran"
    BY <2>4 DEF Sd!Selected
  <2> QED BY <1>1, <2>1, <2>5 DEF ShellInv, Owner
<1>2. ShellInv /\ [Next]_vars =>
        [\A k \in 1..MaxCount :
           spc = "FileWait" /\ spc' # "Prompt" /\ ~excused
             /\ buff[k] = D!Untouched /\ buff'[k] # D!Untouched
           => fs_type = which]_vars
  BY <1>1
<1> QED BY <1>2, Invariance, PTL DEF Spec, ReadsOwnVolume

=============================================================================
