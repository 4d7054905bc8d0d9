------------------------------ MODULE RepairProofs ------------------------------
(* Proofs about RepairHistory for any entities and places and any bounds: the  *)
(* types, that queue and members agree, that the subscription follows the      *)
(* queue, and that repairs are patient and bounded.                            *)
EXTENDS RepairHistory, FiniteSetTheorems, WellFoundedInduction, TLAPS

(* Induction over the naturals, for a set: the form of it whose proof and uses *)
(* need no operator as a parameter.                                            *)
LEMMA NatSetInduction ==
    ASSUME NEW S, 0 \in S, \A n \in Nat : n \in S => n + 1 \in S
    PROVE  \A n \in Nat : n \in S
<1>. SUFFICES ASSUME NEW m \in Nat, m \notin S PROVE FALSE
  OBVIOUS
<1>. DEFINE T == {n \in Nat : n \notin S}
            Below == {ss \in Nat \X Nat : ss[1] < ss[2]}
<1>1. IsWellFoundedOn(Below, Nat)
  <2>1. OpToRel(<, Nat) = Below
    BY Zenon DEF OpToRel
  <2>. QED
    BY <2>1, NatLessThanWellFounded, Zenon
<1>2. T \subseteq Nat /\ T # {}
  OBVIOUS
<1>3. PICK x \in T : \A y \in T : ~ (<<y, x>> \in Below)
  <2>. HIDE DEF Below, T
  <2>. QED
    BY <1>1, <1>2, WFMin, Zenon
<1>4. x # 0 /\ x - 1 \in Nat /\ x - 1 \in S
  <2>1. x # 0 /\ x - 1 \in Nat
    OBVIOUS
  <2>2. x - 1 \in T => <<x - 1, x>> \in Below
    BY <2>1
  <2>. QED
    BY <2>1, <2>2, <1>3
<1>. QED
  BY <1>4
-----------------------------------------------------------------------------
(* Queues without repetition: taking the head, moving it to the end, appending *)
(* a newcomer and removing an element.                                         *)

LEMMA TailTakes ==
    ASSUME NEW q \in Seq(Ids), q # <<>>, IsInjective(q)
    PROVE  /\ Tail(q) \in Seq(Ids) /\ IsInjective(Tail(q))
           /\ ToSet(Tail(q)) = ToSet(q) \ {Head(q)}
           /\ Len(Tail(q)) = Len(q) - 1
<1>1. Len(q) \in Nat \ {0} /\ Tail(q) \in Seq(Ids) /\ Len(Tail(q)) = Len(q) - 1 /\ Head(q) = q[1]
  OBVIOUS
<1>2. \A n \in 1 .. Len(q) - 1 : Tail(q)[n] = q[n + 1]
  OBVIOUS
<1>3. DOMAIN Tail(q) = 1 .. Len(q) - 1 /\ DOMAIN q = 1 .. Len(q)
  BY <1>1
<1>4. IsInjective(Tail(q))
  BY <1>1, <1>2, <1>3 DEF IsInjective
<1>5. ASSUME NEW x PROVE x \in ToSet(Tail(q)) <=> x \in ToSet(q) \ {Head(q)}
  <2>1. ASSUME x \in ToSet(Tail(q)) PROVE x \in ToSet(q) \ {Head(q)}
    BY <2>1, <1>1, <1>2, <1>3 DEF ToSet, IsInjective
  <2>2. ASSUME x \in ToSet(q) \ {Head(q)} PROVE x \in ToSet(Tail(q))
    <3>1. PICK n \in 1 .. Len(q) : x = q[n]
      BY <2>2, <1>3 DEF ToSet
    <3>2. n - 1 \in 1 .. Len(q) - 1 /\ Tail(q)[n - 1] = x
      BY <3>1, <2>2, <1>1, <1>2
    <3>. QED
      BY <3>2, <1>3 DEF ToSet
  <2>. QED
    BY <2>1, <2>2
<1>. QED
  BY <1>1, <1>4, <1>5

LEMMA AppendAdds ==
    ASSUME NEW q \in Seq(Ids), IsInjective(q), NEW i \in Ids, i \notin ToSet(q)
    PROVE  /\ Append(q, i) \in Seq(Ids) /\ IsInjective(Append(q, i))
           /\ ToSet(Append(q, i)) = ToSet(q) \cup {i}
           /\ Len(Append(q, i)) = Len(q) + 1
<1>. DEFINE a == Append(q, i)
<1>1. Len(q) \in Nat /\ a \in Seq(Ids) /\ Len(a) = Len(q) + 1 /\ a[Len(q) + 1] = i
  OBVIOUS
<1>2. \A n \in 1 .. Len(q) : a[n] = q[n]
  OBVIOUS
<1>3. DOMAIN a = 1 .. Len(q) + 1 /\ DOMAIN q = 1 .. Len(q)
  BY <1>1
<1>. HIDE DEF a
<1>4. IsInjective(a)
  BY <1>1, <1>2, <1>3 DEF IsInjective, ToSet
<1>5. ASSUME NEW x PROVE x \in ToSet(a) <=> x \in ToSet(q) \cup {i}
  <2>1. ASSUME x \in ToSet(a) PROVE x \in ToSet(q) \cup {i}
    BY <2>1, <1>1, <1>2, <1>3 DEF ToSet
  <2>2. ASSUME x \in ToSet(q) PROVE x \in ToSet(a)
    <3>1. PICK n \in 1 .. Len(q) : x = q[n]
      BY <2>2, <1>3 DEF ToSet
    <3>2. n \in DOMAIN a /\ a[n] = x
      BY <3>1, <1>1, <1>2, <1>3
    <3>. QED
      BY <3>2 DEF ToSet
  <2>3. i \in ToSet(a)
    <3>1. Len(q) + 1 \in DOMAIN a
      BY <1>1, <1>3
    <3>. QED
      BY <3>1, <1>1 DEF ToSet
  <2>. QED
    BY <2>1, <2>2, <2>3
<1>. QED
  BY <1>1, <1>4, <1>5 DEF a

LEMMA RequeueRotates ==
    ASSUME NEW q \in Seq(Ids), q # <<>>, IsInjective(q)
    PROVE  /\ Requeued(q, Head(q)) \in Seq(Ids) /\ IsInjective(Requeued(q, Head(q)))
           /\ ToSet(Requeued(q, Head(q))) = ToSet(q)
           /\ Len(Requeued(q, Head(q))) = Len(q)
<1>1. Head(q) \in Ids /\ Head(q) \in ToSet(q)
  BY DEF ToSet
<1>2. Tail(q) \in Seq(Ids) /\ IsInjective(Tail(q)) /\ Len(Tail(q)) = Len(q) - 1
      /\ ToSet(Tail(q)) = ToSet(q) \ {Head(q)}
  BY TailTakes
<1>3. Head(q) \notin ToSet(Tail(q))
  BY <1>2
<1>4. /\ Append(Tail(q), Head(q)) \in Seq(Ids) /\ IsInjective(Append(Tail(q), Head(q)))
      /\ ToSet(Append(Tail(q), Head(q))) = ToSet(Tail(q)) \cup {Head(q)}
      /\ Len(Append(Tail(q), Head(q))) = Len(Tail(q)) + 1
  BY <1>1, <1>2, <1>3, AppendAdds
<1>5. Len(q) - 1 + 1 = Len(q)
  OBVIOUS
<1>. QED
  BY <1>1, <1>2, <1>4, <1>5 DEF Requeued

LEMMA RemoveTakes ==
    ASSUME NEW q \in Seq(Ids), IsInjective(q), NEW i \in ToSet(q)
    PROVE  /\ RemoveFirst(q, i) \in Seq(Ids) /\ IsInjective(RemoveFirst(q, i))
           /\ ToSet(RemoveFirst(q, i)) = ToSet(q) \ {i}
           /\ Len(RemoveFirst(q, i)) <= Len(q)
           /\ \A k \in DOMAIN q : q[k] # i => \E m \in 1 .. k : RemoveFirst(q, i)[m] = q[k]
<1>1. PICK n \in 1 .. Len(q) : q[n] = i
  BY DEF ToSet
<1>2. {m \in 1 .. Len(q) : q[m] = i} = {n}
  BY <1>1 DEF IsInjective
<1>3. Min({n}) = n
  BY DEF Min
<1>4. RemoveFirst(q, i) = SubSeq(q, 1, n - 1) \o SubSeq(q, n + 1, Len(q))
  <2>1. SelectInSeq(q, LAMBDA v : v = i) = n
    BY <1>2, <1>3 DEF SelectInSeq
  <2>2. RemoveFirst(q, i) = RemoveAt(q, SelectInSeq(q, LAMBDA v : v = i))
    BY <1>1 DEF RemoveFirst
  <2>. QED
    BY <2>1, <2>2 DEF RemoveAt
<1>. DEFINE a == SubSeq(q, 1, n - 1)
            b == SubSeq(q, n + 1, Len(q))
            r == a \o b
<1>5. /\ a \in Seq(Ids) /\ Len(a) = n - 1 /\ (\A m \in 1 .. n - 1 : a[m] = q[m])
      /\ b \in Seq(Ids) /\ Len(b) = Len(q) - n /\ (\A m \in 1 .. Len(q) - n : b[m] = q[n + m])
  BY <1>1
<1>. HIDE DEF a, b
<1>6. /\ r \in Seq(Ids) /\ Len(r) = Len(q) - 1
      /\ \A m \in 1 .. n - 1 : r[m] = a[m]
      /\ \A m \in n .. Len(q) - 1 : r[m] = b[m - (n - 1)]
  <2>1. /\ r \in Seq(Ids) /\ Len(r) = Len(a) + Len(b)
        /\ \A m \in 1 .. Len(a) : r[m] = a[m]
        /\ \A m \in Len(a) + 1 .. Len(a) + Len(b) : r[m] = b[m - Len(a)]
    <3>1. a \in Seq(Ids) /\ b \in Seq(Ids)
      BY <1>5
    <3>. QED
      BY <3>1
  <2>2. n \in 1 .. Len(q) /\ Len(q) \in Nat
    BY <1>1
  <2>. HIDE DEF r
  <2>. QED
    BY <1>5, <2>1, <2>2
<1>7. \A m \in 1 .. Len(q) - 1 : r[m] = IF m < n THEN q[m] ELSE q[m + 1]
  BY <1>1, <1>5, <1>6
<1>8. DOMAIN r = 1 .. Len(q) - 1 /\ DOMAIN q = 1 .. Len(q)
  BY <1>6
<1>. HIDE DEF r
<1>9. IsInjective(r)
  <2>1. SUFFICES ASSUME NEW l \in 1 .. Len(q) - 1, NEW m \in 1 .. Len(q) - 1, r[l] = r[m]
                 PROVE  l = m
    BY <1>8 DEF IsInjective
  <2>. DEFINE old(k) == IF k < n THEN k ELSE k + 1
  <2>2. old(l) \in DOMAIN q /\ old(m) \in DOMAIN q /\ q[old(l)] = q[old(m)]
    BY <2>1, <1>1, <1>7, <1>8
  <2>3. old(l) = old(m)
    BY <2>2 DEF IsInjective
  <2>. QED
    BY <2>3, <1>1
<1>10. ASSUME NEW x PROVE x \in ToSet(r) <=> x \in ToSet(q) \ {i}
  <2>1. ASSUME x \in ToSet(r) PROVE x \in ToSet(q) \ {i}
    BY <2>1, <1>1, <1>7, <1>8 DEF ToSet, IsInjective
  <2>2. ASSUME x \in ToSet(q) \ {i} PROVE x \in ToSet(r)
    <3>1. PICK m \in 1 .. Len(q) : x = q[m]
      BY <2>2, <1>8 DEF ToSet
    <3>2. CASE m < n
      BY <3>1, <3>2, <1>1, <1>7, <1>8 DEF ToSet
    <3>3. CASE ~(m < n)
      <4>1. m - 1 \in 1 .. Len(q) - 1 /\ r[m - 1] = x
        BY <3>1, <3>3, <2>2, <1>1, <1>7
      <4>. QED
        BY <4>1, <1>8 DEF ToSet
    <3>. QED
      BY <3>2, <3>3
  <2>. QED
    BY <2>1, <2>2
<1>11. RemoveFirst(q, i) = r
  BY <1>4 DEF r, a, b
<1>12. Len(r) <= Len(q)
  BY <1>6
<1>13. ASSUME NEW k \in DOMAIN q, q[k] # i
       PROVE  \E m \in 1 .. k : r[m] = q[k]
  <2>1. CASE k < n
    BY <1>1, <1>7, <1>8, <2>1
  <2>2. CASE k > n
    <3>1. k - 1 \in 1 .. Len(q) - 1 /\ ~(k - 1 < n) /\ (k - 1) + 1 = k /\ k - 1 \in 1 .. k
      BY <1>1, <1>8, <2>2
    <3>2. r[k - 1] = q[k]
      BY <1>7, <3>1
    <3>. QED
      BY <3>1, <3>2
  <2>3. k # n
    BY <1>1, <1>13
  <2>. QED
    BY <1>1, <1>8, <2>1, <2>2, <2>3
<1>. QED
  BY <1>6, <1>9, <1>10, <1>11, <1>12, <1>13
-----------------------------------------------------------------------------
(* What one visit does to the queue, the members and the entities.             *)

Stages == [queue : Seq(Ids), members : [Ids -> Members \cup {Nil}], entity : [Ids -> Entities]]

(* The queue of a stage or a bucket holds its members, each once.              *)
Paired(s) ==
    /\ IsInjective(s.queue)
    /\ ToSet(s.queue) = {i \in Ids : s.members[i] # Nil}

LEMMA Bounds ==
    /\ Quiet \in Nat /\ Interval \in Nat \ {0} /\ Pending \in Nat /\ Budget \in Nat \ {0}
    /\ MaxHealth \in Nat \ {0}
    /\ Nil \notin Ids /\ Nil \notin Members /\ Nil \notin Buckets
    /\ 0 \in Countdown /\ Quiet \in Countdown /\ Interval \in Countdown
    /\ \A n \in Countdown : n \in Nat /\ Less(n) \in Countdown
  BY BoundsAssumption, NilAssumption DEF Countdown, Less

LEMMA VisitHead ==
    ASSUME NEW s \in Stages, s.queue # <<>>, Paired(s), NEW broken,
           NEW i, i = Head(s.queue), NEW t, t = Visit(s, broken)
    PROVE  /\ i \in Ids /\ s.members[i] \in Members
           /\ t \in Stages /\ Paired(t)
           /\ Len(t.queue) \in {Len(s.queue), Len(s.queue) - 1}
           /\ \A j \in Ids \ {i} : t.members[j] = s.members[j] /\ t.entity[j] = s.entity[j]
           /\ t.entity[i].place = s.entity[i].place
           /\ t.members[i] # Nil => /\ t.members[i].place = s.members[i].place
                                    /\ t.members[i].quiet = s.members[i].quiet
           /\ \/ /\ t.entity[i] = s.entity[i]
                 /\ t.members[i] # Nil => t.members[i] = s.members[i]
              \/ /\ t.entity[i].health = s.entity[i].health + 1
                 /\ s.entity[i].place \in allied
                 /\ s.members[i].quiet = 0 /\ s.members[i].next = 0
                 /\ t.members[i] # Nil => t.members[i].next = Interval
<1>. DEFINE row   == s.members[i]
            ready == Mine(s, i) /\ row.quiet = 0 /\ row.next = 0
            fix   == ready /\ i \notin broken
            back  == Mine(s, i) /\ (ready => fix /\ s.entity[i].health + 1 < MaxHealth)
            queue == IF back THEN Requeued(s.queue, i) ELSE Tail(s.queue)
            kept  == IF ~back THEN Nil ELSE IF fix THEN [row EXCEPT !.next = Interval] ELSE row
            wall  == [s.entity[i] EXCEPT !.health = IF fix THEN @ + 1 ELSE @]
            v     == [queue |-> queue, members |-> [s.members EXCEPT ![i] = kept],
                      entity |-> [s.entity EXCEPT ![i] = wall]]
<1>1. /\ s.queue \in Seq(Ids) /\ s.members \in [Ids -> Members \cup {Nil}]
      /\ s.entity \in [Ids -> Entities]
  BY DEF Stages
<1>2. i \in Ids /\ i \in ToSet(s.queue)
  BY <1>1 DEF ToSet
<1>3. row \in Members
  BY <1>1, <1>2 DEF Paired
<1>4. s.entity[i] \in Entities /\ s.entity[i].health \in 0 .. MaxHealth
  BY <1>1, <1>2 DEF Entities
<1>5. t = v
  BY DEF Visit
<1>6. wall \in Entities /\ wall.place = s.entity[i].place
      /\ wall.health = IF fix THEN s.entity[i].health + 1 ELSE s.entity[i].health
  BY <1>4, Bounds, SMTT(30) DEF Entities, Mine, Damaged
<1>7. ~fix => wall = s.entity[i]
  BY <1>4 DEF Entities
<1>8. /\ kept \in Members \cup {Nil}
      /\ kept # Nil => /\ kept.place = row.place /\ kept.quiet = row.quiet
                       /\ (fix => kept.next = Interval) /\ (~fix => kept = row)
  BY <1>3, Bounds, SMTT(30) DEF Members
<1>9. kept # Nil <=> back
  BY <1>3, <1>8, Bounds DEF Members
<1>10. /\ queue \in Seq(Ids) /\ IsInjective(queue)
       /\ ToSet(queue) = IF back THEN ToSet(s.queue) ELSE ToSet(s.queue) \ {i}
       /\ Len(queue) \in {Len(s.queue), Len(s.queue) - 1}
  BY <1>1, TailTakes, RequeueRotates DEF Paired
<1>. HIDE DEF queue, kept, wall, fix, back
<1>11. /\ t.queue = queue
       /\ t.members[i] = kept /\ (\A j \in Ids \ {i} : t.members[j] = s.members[j])
       /\ t.entity[i] = wall /\ (\A j \in Ids \ {i} : t.entity[j] = s.entity[j])
       /\ t.members \in [Ids -> Members \cup {Nil}] /\ t.entity \in [Ids -> Entities]
  <2>1. /\ t.queue = queue /\ t.members = [s.members EXCEPT ![i] = kept]
        /\ t.entity = [s.entity EXCEPT ![i] = wall]
    BY <1>5
  <2>2. t.members[i] = kept /\ (\A j \in Ids \ {i} : t.members[j] = s.members[j])
        /\ t.members \in [Ids -> Members \cup {Nil}]
    <3>. DEFINE Rows == Members \cup {Nil}
    <3>1. kept \in Rows /\ s.members \in [Ids -> Rows]
      BY <1>1, <1>8
    <3>. HIDE DEF Rows
    <3>2. [s.members EXCEPT ![i] = kept] \in [Ids -> Rows]
      BY <3>1
    <3>3. [s.members EXCEPT ![i] = kept][i] = kept
      BY <3>1, <1>2
    <3>. QED
      BY <2>1, <3>1, <3>2, <3>3 DEF Rows
  <2>3. t.entity[i] = wall /\ (\A j \in Ids \ {i} : t.entity[j] = s.entity[j])
        /\ t.entity \in [Ids -> Entities]
    BY <2>1, <1>1, <1>2, <1>6
  <2>. QED
    BY <2>1, <2>2, <2>3
<1>12. t \in Stages
  BY <1>5, <1>10, <1>11 DEF Stages
<1>13. Paired(t)
  <2>1. ToSet(t.queue) = {j \in Ids : t.members[j] # Nil}
    BY <1>1, <1>2, <1>3, <1>9, <1>10, <1>11, Bounds, SMTT(30) DEF Paired
  <2>. QED
    BY <2>1, <1>10, <1>11 DEF Paired
<1>14. CASE fix
  BY <1>14, <1>2, <1>3, <1>5, <1>6, <1>8, <1>10, <1>11, <1>12, <1>13 DEF fix, Mine
<1>15. CASE ~fix
  BY <1>15, <1>2, <1>3, <1>5, <1>6, <1>7, <1>8, <1>10, <1>11, <1>12, <1>13
<1>. QED
  BY <1>14, <1>15
-----------------------------------------------------------------------------
(* What the visits of a tick do, one after another.                            *)

Fixed(s) == {i \in Ids : s.entity[i] # entity[i]}

(* After k visits of a tick.                                                   *)
Toured(s, k) ==
    /\ s \in Stages /\ Paired(s)
    /\ Len(s.queue) <= Len(bucket.queue) /\ Len(bucket.queue) <= Len(s.queue) + k
    /\ IsFiniteSet(Fixed(s)) /\ Cardinality(Fixed(s)) <= k
    /\ \A i \in Ids :
         /\ s.members[i] # Nil => /\ bucket.members[i] # Nil
                                  /\ s.members[i].place = bucket.members[i].place
                                  /\ s.members[i].quiet = bucket.members[i].quiet
         /\ s.entity[i] # entity[i] =>
              /\ s.entity[i].health = entity[i].health + 1
              /\ entity[i].place \in allied
              /\ bucket.members[i] # Nil /\ bucket.members[i].quiet = 0
              /\ s.members[i] # Nil => s.members[i].next = Interval
         /\ s.entity[i].place = entity[i].place

LEMMA FirstStage ==
    ASSUME bucket \in Buckets, Paired(bucket), entity \in [Ids -> Entities]
    PROVE  Toured(Unvisited, 0)
<1>1. /\ Unvisited.queue = bucket.queue /\ Unvisited.members = bucket.members
      /\ Unvisited.entity = entity
  BY DEF Unvisited
<1>2. Unvisited \in Stages
  BY DEF Unvisited, Stages, Buckets
<1>3. Fixed(Unvisited) = {}
  BY <1>1 DEF Fixed
<1>4. Len(bucket.queue) \in Nat
  BY DEF Buckets
<1>. QED
  BY <1>1, <1>2, <1>3, <1>4, FS_EmptySet DEF Toured, Paired

LEMMA NextStage ==
    ASSUME bucket \in Buckets, entity \in [Ids -> Entities],
           NEW s, NEW k \in Nat, Toured(s, k), k < Len(bucket.queue), NEW broken
    PROVE  Toured(Visit(s, broken), k + 1)
<1>. DEFINE i == Head(s.queue)
            t == Visit(s, broken)
<1>0. i = Head(s.queue) /\ t = Visit(s, broken)
  OBVIOUS
<1>. HIDE DEF i, t
<1>1. s \in Stages /\ Paired(s) /\ s.queue \in Seq(Ids) /\ bucket.queue \in Seq(Ids)
  BY DEF Toured, Stages, Buckets
<1>2. Len(s.queue) \in Nat /\ Len(bucket.queue) \in Nat /\ s.queue # <<>>
  BY <1>1 DEF Toured
<1>3. /\ i \in Ids /\ s.members[i] \in Members
      /\ t \in Stages /\ Paired(t)
      /\ Len(t.queue) \in {Len(s.queue), Len(s.queue) - 1}
      /\ \A j \in Ids \ {i} : t.members[j] = s.members[j] /\ t.entity[j] = s.entity[j]
      /\ t.entity[i].place = s.entity[i].place
      /\ t.members[i] # Nil => /\ t.members[i].place = s.members[i].place
                               /\ t.members[i].quiet = s.members[i].quiet
      /\ \/ /\ t.entity[i] = s.entity[i]
            /\ t.members[i] # Nil => t.members[i] = s.members[i]
         \/ /\ t.entity[i].health = s.entity[i].health + 1
            /\ s.entity[i].place \in allied
            /\ s.members[i].quiet = 0 /\ s.members[i].next = 0
            /\ t.members[i] # Nil => t.members[i].next = Interval
  BY <1>0, <1>1, <1>2, VisitHead
<1>4. /\ Len(t.queue) <= Len(bucket.queue) /\ Len(bucket.queue) <= Len(t.queue) + (k + 1)
  <2>. DEFINE x == Len(s.queue)
              y == Len(t.queue)
              z == Len(bucket.queue)
  <2>1. x \in Nat /\ z \in Nat
    BY <1>0, <1>2 DEF Toured, Stages, Buckets
  <2>2. y \in {x, x - 1} /\ x <= z /\ z <= x + k
    BY <1>2, <1>3 DEF Toured
  <2>. HIDE DEF x, y, z
  <2>3. y <= z /\ z <= y + (k + 1)
    BY <2>1, <2>2
  <2>. QED
    BY <2>3 DEF x, y, z
<1>5. s.members[i] # Nil /\ bucket.members[i] # Nil
      /\ s.members[i].place = bucket.members[i].place
      /\ s.members[i].quiet = bucket.members[i].quiet
  BY <1>3, Bounds DEF Toured
<1>6. Fixed(t) \subseteq Fixed(s) \cup {i}
  BY <1>3 DEF Fixed
<1>7. IsFiniteSet(Fixed(t)) /\ Cardinality(Fixed(t)) <= k + 1
  <2>1. IsFiniteSet(Fixed(s)) /\ Cardinality(Fixed(s)) <= k
    BY DEF Toured
  <2>2. Cardinality(Fixed(s)) \in Nat
    BY <2>1, FS_CardinalityType
  <2>3. IsFiniteSet(Fixed(s) \cup {i}) /\ Cardinality(Fixed(s) \cup {i}) <= k + 1
    <3>1. /\ IsFiniteSet(Fixed(s) \cup {i})
          /\ Cardinality(Fixed(s) \cup {i})
               = IF i \in Fixed(s) THEN Cardinality(Fixed(s)) ELSE Cardinality(Fixed(s)) + 1
      BY <2>1, FS_AddElement
    <3>. QED
      BY <2>1, <2>2, <3>1
  <2>4. IsFiniteSet(Fixed(t)) /\ Cardinality(Fixed(t)) <= Cardinality(Fixed(s) \cup {i})
    BY <2>3, <1>6, FS_Subset
  <2>5. Cardinality(Fixed(t)) \in Nat /\ Cardinality(Fixed(s) \cup {i}) \in Nat
    BY <2>3, <2>4, FS_CardinalityType
  <2>. QED
    BY <2>3, <2>4, <2>5
<1>8. ASSUME NEW j \in Ids
      PROVE  /\ t.members[j] # Nil => /\ bucket.members[j] # Nil
                                      /\ t.members[j].place = bucket.members[j].place
                                      /\ t.members[j].quiet = bucket.members[j].quiet
             /\ t.entity[j] # entity[j] =>
                  /\ t.entity[j].health = entity[j].health + 1
                  /\ entity[j].place \in allied
                  /\ bucket.members[j] # Nil /\ bucket.members[j].quiet = 0
                  /\ t.members[j] # Nil => t.members[j].next = Interval
             /\ t.entity[j].place = entity[j].place
  <2>1. CASE j # i
    BY <2>1, <1>3 DEF Toured
  <2>2. CASE j = i /\ t.entity[i] = s.entity[i] /\ (t.members[i] # Nil => t.members[i] = s.members[i])
    BY <2>2, <1>3, <1>5 DEF Toured
  <2>3. CASE /\ j = i
             /\ t.entity[i].health = s.entity[i].health + 1
             /\ s.entity[i].place \in allied
             /\ s.members[i].quiet = 0 /\ s.members[i].next = 0
             /\ t.members[i] # Nil => t.members[i].next = Interval
    <3>1. s.entity[i] = entity[i]
      BY <2>3, <1>3, <1>5, Bounds DEF Toured
    <3>. QED
      BY <2>3, <3>1, <1>3, <1>5 DEF Toured
  <2>. QED
    BY <2>1, <2>2, <2>3, <1>3
<1>9. Toured(t, k + 1)
  BY <1>3, <1>4, <1>7, <1>8 DEF Toured
<1>. QED
  BY <1>9 DEF t

(* After k visits of a tick, those not visited have moved k places forward,    *)
(* and each visited one has left, was repaired, or has to wait on.             *)
InOrder(s, k) ==
    /\ \A n \in 1 .. Len(bucket.queue) - k : n <= Len(s.queue) /\ s.queue[n] = bucket.queue[n + k]
    /\ \A n \in k + 1 .. Len(bucket.queue) :
         LET i == bucket.queue[n]
         IN  s.members[i] = bucket.members[i] /\ s.entity[i] = entity[i]
    /\ \A n \in 1 .. k :
         LET i   == bucket.queue[n]
             row == bucket.members[i]
         IN  IF s.members[i] = Nil THEN Mine(Unvisited, i) => Ripe(row)
             ELSE \/ s.entity[i].health = entity[i].health + 1
                  \/ s.members[i] = row /\ ~Ripe(row)

LEMMA FirstInOrder ==
    ASSUME bucket \in Buckets
    PROVE  InOrder(Unvisited, 0)
<1>1. /\ Unvisited.queue = bucket.queue /\ Unvisited.members = bucket.members
      /\ Unvisited.entity = entity
  BY DEF Unvisited
<1>2. Len(bucket.queue) \in Nat
  BY DEF Buckets
<1>3. \A n \in 1 .. Len(bucket.queue) - 0 : n + 0 = n /\ n <= Len(bucket.queue)
  BY <1>2
<1>. QED
  BY <1>1, <1>3 DEF InOrder

LEMMA NextInOrder ==
    ASSUME bucket \in Buckets, Paired(bucket), entity \in [Ids -> Entities],
           NEW s, NEW k \in Nat, Toured(s, k), InOrder(s, k), k < Len(bucket.queue), NEW broken
    PROVE  InOrder(Visit(s, broken), k + 1)
<1>. DEFINE q == bucket.queue
            i == Head(s.queue)
            t == Visit(s, broken)
            row   == s.members[i]
            ready == Mine(s, i) /\ row.quiet = 0 /\ row.next = 0
            fix   == ready /\ i \notin broken
            back  == Mine(s, i) /\ (ready => fix /\ s.entity[i].health + 1 < MaxHealth)
            kept  == IF ~back THEN Nil ELSE IF fix THEN [row EXCEPT !.next = Interval] ELSE row
            wall  == [s.entity[i] EXCEPT !.health = IF fix THEN @ + 1 ELSE @]
<1>1. /\ s \in Stages /\ Paired(s) /\ s.queue \in Seq(Ids) /\ q \in Seq(Ids)
      /\ s.members \in [Ids -> Members \cup {Nil}] /\ s.entity \in [Ids -> Entities]
  BY DEF Toured, Stages, Buckets
<1>2. Len(s.queue) \in Nat /\ Len(q) \in Nat /\ s.queue # <<>>
  <2>1. Len(s.queue) \in Nat /\ Len(q) \in Nat
    BY <1>1
  <2>2. Len(q) <= Len(s.queue) + k
    BY DEF Toured
  <2>. QED
    BY <2>1, <2>2
<1>3. i = q[k + 1] /\ k + 1 \in 1 .. Len(q) /\ i \in Ids
  <2>1. s.queue[1] = q[1 + k] /\ 1 + k = k + 1
    BY <1>2 DEF InOrder
  <2>2. i = s.queue[1] /\ i \in Ids
    BY <1>1, <1>2
  <2>. QED
    BY <1>2, <2>1, <2>2
<1>4. s.members[i] = bucket.members[i] /\ s.entity[i] = entity[i] /\ row \in Members /\ row # Nil
  <2>1. s.members[i] = bucket.members[i] /\ s.entity[i] = entity[i]
    <3>1. k + 1 \in k + 1 .. Len(q)
      BY <1>3
    <3>. QED
      BY <1>3, <3>1 DEF InOrder
  <2>2. row \in Members
    <3>1. i \in ToSet(s.queue)
      BY <1>1, <1>2 DEF ToSet
    <3>. QED
      BY <1>1, <1>3, <3>1 DEF Paired
  <2>. QED
    BY <2>1, <2>2, Bounds
<1>5. /\ t.queue = IF back THEN Append(Tail(s.queue), i) ELSE Tail(s.queue)
      /\ t.members = [s.members EXCEPT ![i] = kept]
      /\ t.entity = [s.entity EXCEPT ![i] = wall]
  BY DEF Visit, Requeued
<1>6. /\ t.members[i] = kept /\ t.entity[i] = wall
      /\ \A j \in Ids \ {i} : t.members[j] = s.members[j] /\ t.entity[j] = s.entity[j]
  <2>. HIDE DEF kept, wall, t, i
  <2>. QED
    BY <1>1, <1>3, <1>5
<1>7. wall.health = IF fix THEN entity[i].health + 1 ELSE entity[i].health
  BY <1>1, <1>3, <1>4 DEF Entities
<1>8. Mine(s, i) <=> Mine(Unvisited, i)
  <2>1. Unvisited.members = bucket.members /\ Unvisited.entity = entity
    BY DEF Unvisited
  <2>. HIDE DEF i
  <2>. QED
    BY <1>4, <2>1 DEF Mine
<1>9. ready <=> Mine(Unvisited, i) /\ Ripe(row)
  BY <1>8 DEF Ripe
<1>10. IF t.members[i] = Nil THEN Mine(Unvisited, i) => Ripe(row)
       ELSE t.entity[i].health = entity[i].health + 1 \/ (t.members[i] = row /\ ~Ripe(row))
  <2>. HIDE DEF wall, t, i, row
  <2>1. CASE ~back
    BY <2>1, <1>6, <1>8, <1>9
  <2>2. CASE back /\ fix
    <3>1. kept # Nil
      BY <2>2, <1>4, Bounds DEF Members
    <3>. QED
      BY <2>2, <3>1, <1>6, <1>7
  <2>3. CASE back /\ ~fix
    BY <2>3, <1>4, <1>6, <1>8, <1>9
  <2>. QED
    BY <2>1, <2>2, <2>3
<1>11. ASSUME NEW n \in 1 .. Len(q) - (k + 1)
       PROVE  n <= Len(t.queue) /\ t.queue[n] = q[n + (k + 1)]
  <2>1. n + 1 \in 1 .. Len(q) - k /\ (n + 1) + k = n + (k + 1)
    BY <1>2
  <2>2. n + 1 <= Len(s.queue) /\ s.queue[n + 1] = q[n + (k + 1)]
    BY <2>1 DEF InOrder
  <2>3. /\ Tail(s.queue) \in Seq(Ids) /\ Len(Tail(s.queue)) = Len(s.queue) - 1
        /\ n \in 1 .. Len(Tail(s.queue)) /\ Tail(s.queue)[n] = s.queue[n + 1]
    BY <1>1, <1>2, <2>2
  <2>4. /\ Append(Tail(s.queue), i)[n] = Tail(s.queue)[n]
        /\ n <= Len(Append(Tail(s.queue), i))
    <3>. HIDE DEF i
    <3>. QED
      BY <1>2, <2>3
  <2>. QED
    BY <1>5, <2>2, <2>3, <2>4
<1>12. \A n \in 1 .. Len(q) : n # k + 1 => q[n] \in Ids \ {i}
  BY <1>1, <1>2, <1>3 DEF Paired, IsInjective
<1>. HIDE DEF t, i, row, fix, back, ready, kept, wall
<1>13. ASSUME NEW n \in (k + 1) + 1 .. Len(q)
       PROVE  t.members[q[n]] = bucket.members[q[n]] /\ t.entity[q[n]] = entity[q[n]]
  <2>1. n \in k + 1 .. Len(q) /\ n \in 1 .. Len(q) /\ n # k + 1
    BY <1>2
  <2>. QED
    BY <1>6, <1>12, <2>1 DEF InOrder
<1>14. ASSUME NEW n \in 1 .. k + 1
       PROVE  IF t.members[q[n]] = Nil THEN Mine(Unvisited, q[n]) => Ripe(bucket.members[q[n]])
              ELSE \/ t.entity[q[n]].health = entity[q[n]].health + 1
                   \/ t.members[q[n]] = bucket.members[q[n]] /\ ~Ripe(bucket.members[q[n]])
  <2>1. CASE n = k + 1
    BY <2>1, <1>3, <1>4, <1>10 DEF row
  <2>2. CASE n # k + 1
    <3>1. n \in 1 .. k /\ n \in 1 .. Len(q)
      BY <2>2, <1>3
    <3>. QED
      BY <2>2, <3>1, <1>6, <1>12 DEF InOrder
  <2>. QED
    BY <2>1, <2>2
<1>. QED
  BY <1>11, <1>13, <1>14 DEF InOrder, t

(* The recursive function of a tick exists.                                    *)
LEMMA TourExists ==
    ASSUME NEW n \in Nat, NEW broken
    PROVE  \E after : after = [k \in 0 .. n |->
             IF k = 0 THEN Unvisited ELSE Visit(after[k - 1], broken)]
<1>. DEFINE S == {m \in Nat : \E after : after = [k \in 0 .. m |->
                      IF k = 0 THEN Unvisited ELSE Visit(after[k - 1], broken)]}
<1>1. 0 \in S
  <2>. DEFINE f == [k \in 0 .. 0 |-> Unvisited]
  <2>1. f = [k \in 0 .. 0 |-> IF k = 0 THEN Unvisited ELSE Visit(f[k - 1], broken)]
    OBVIOUS
  <2>. QED
    BY <2>1
<1>2. ASSUME NEW m \in Nat, m \in S PROVE m + 1 \in S
  <2>1. PICK f : f = [k \in 0 .. m |->
                      IF k = 0 THEN Unvisited ELSE Visit(f[k - 1], broken)]
    BY <1>2
  <2>. DEFINE g == [k \in 0 .. m + 1 |-> IF k <= m THEN f[k] ELSE Visit(f[m], broken)]
  <2>2. \A k \in 0 .. m : f[k] = IF k = 0 THEN Unvisited ELSE Visit(f[k - 1], broken)
    BY <2>1
  <2>3. \A k \in 0 .. m + 1 : g[k] = IF k = 0 THEN Unvisited ELSE Visit(g[k - 1], broken)
    BY <2>2
  <2>4. g = [k \in 0 .. m + 1 |-> IF k = 0 THEN Unvisited ELSE Visit(g[k - 1], broken)]
    BY <2>3
  <2>. HIDE DEF g
  <2>5. \E after : after = [k \in 0 .. m + 1 |->
                    IF k = 0 THEN Unvisited ELSE Visit(after[k - 1], broken)]
    BY <2>4
  <2>. QED
    BY <2>5
<1>. HIDE DEF S
<1>3. n \in S
  BY <1>1, <1>2, NatSetInduction
<1>. QED
  BY <1>3 DEF S

LEMMA VisitedToured ==
    ASSUME bucket \in Buckets, Paired(bucket), entity \in [Ids -> Entities], NEW broken
    PROVE  Toured(Visited(broken), Visits) /\ InOrder(Visited(broken), Visits)
<1>1. Visits \in Nat /\ Visits <= Len(bucket.queue) /\ Visits <= Budget
  <2>1. Queue = bucket.queue /\ Len(bucket.queue) \in Nat
    BY Bounds DEF Queue, Buckets
  <2>. QED
    BY <2>1, Bounds DEF Visits
<1>. DEFINE after == CHOOSE f : f = [k \in 0 .. Visits |->
                        IF k = 0 THEN Unvisited ELSE Visit(f[k - 1], broken)]
<1>2. Visited(broken) = after[Visits]
  BY DEF Visited
<1>3. after = [k \in 0 .. Visits |-> IF k = 0 THEN Unvisited ELSE Visit(after[k - 1], broken)]
  BY <1>1, TourExists
<1>. HIDE DEF after
<1>4. \A k \in 0 .. Visits : after[k] = IF k = 0 THEN Unvisited ELSE Visit(after[k - 1], broken)
  BY <1>3
<1>. DEFINE S == {k \in Nat : k <= Visits => Toured(after[k], k) /\ InOrder(after[k], k)}
<1>5. 0 \in S
  BY <1>1, <1>4, FirstStage, FirstInOrder
<1>6. ASSUME NEW k \in Nat, k \in S PROVE k + 1 \in S
  <2>1. SUFFICES ASSUME k + 1 <= Visits
                 PROVE  Toured(after[k + 1], k + 1) /\ InOrder(after[k + 1], k + 1)
    OBVIOUS
  <2>2. Toured(after[k], k) /\ InOrder(after[k], k) /\ k < Len(bucket.queue)
    <3>. Len(bucket.queue) \in Nat
      BY DEF Buckets
    <3>. QED
      BY <1>1, <1>6, <2>1
  <2>3. after[k + 1] = Visit(after[k], broken)
    BY <1>1, <1>4, <2>1
  <2>. QED
    BY <2>2, <2>3, NextStage, NextInOrder
<1>. HIDE DEF S
<1>7. Visits \in S
  BY <1>1, <1>5, <1>6, NatSetInduction
<1>. QED
  BY <1>1, <1>2, <1>7 DEF S
-----------------------------------------------------------------------------
(* The inductive invariant.                                                    *)

HistTypeOK == calm \in [Ids -> 0 .. Quiet] /\ fair \in [Ids -> BOOLEAN]

(* The subscription follows the queue at every moment, and a disabled feature  *)
(* has an empty one.                                                           *)
Follows == bound = (Queue # <<>>) /\ (~enabled => Queue = <<>>)

(* The time a queued entity has been calm and the time it still has to wait    *)
(* make up the quiet time, while its last hit was accepted and is handled.     *)
Patient ==
    bucket # Nil =>
      \A i \in Ids :
        (bucket.members[i] # Nil /\ fair[i] /\ hit # i)
          => calm[i] + bucket.members[i].quiet >= Quiet

IInv == RepairTypeOK /\ HistTypeOK /\ QueueIsMembers /\ Follows /\ Patient

LEMMA QueueForms ==
    /\ bucket = Nil => Queue = <<>>
    /\ bucket # Nil => Queue = bucket.queue
    /\ RepairTypeOK => bucket = Nil \/ bucket \in Buckets
    /\ QueueIsMembers /\ bucket # Nil => Paired(bucket) /\ Len(bucket.queue) <= Pending
  BY DEF Queue, RepairTypeOK, QueueIsMembers, Paired

LEMMA InitInv == HInit => IInv
<1>. SUFFICES ASSUME HInit PROVE IInv
  OBVIOUS
<1>1. RepairTypeOK
  <2>1. entity \in [Ids -> Entities]
    BY Bounds DEF HInit, Init, Entities
  <2>2. phase \in 0 .. Interval - 1
    BY Bounds DEF HInit, Init
  <2>. QED
    BY <2>1, <2>2 DEF HInit, Init, RepairTypeOK
<1>2. HistTypeOK
  BY Bounds DEF HInit, HistTypeOK
<1>. QED
  BY <1>1, <1>2 DEF HInit, Init, IInv, QueueIsMembers, Follows, Patient, Queue

LEMMA EmptyIsPaired ==
    EmptyBucket \in Buckets /\ Paired(EmptyBucket) /\ EmptyBucket.queue = <<>>
    /\ \A i \in Ids : EmptyBucket.members[i] = Nil
  BY DEF EmptyBucket, Buckets, Paired, IsInjective, ToSet

(* An emptied bucket, and no bucket, satisfy everything.                       *)
LEMMA EmptiedKeeps ==
    ASSUME IInv, bucket' = (IF bucket = Nil THEN Nil ELSE EmptyBucket), bound' = FALSE
    PROVE  /\ bucket' \in Buckets \cup {Nil}
           /\ QueueIsMembers' /\ Follows' /\ Patient'
<1>1. Nil # EmptyBucket
  BY EmptyIsPaired, Bounds
<1>2. Queue' = <<>>
  BY <1>1, EmptyIsPaired DEF Queue
<1>3. QueueIsMembers'
  <2>1. Len(EmptyBucket.queue) <= Pending
    BY EmptyIsPaired, Bounds
  <2>. QED
    BY <2>1, EmptyIsPaired DEF QueueIsMembers, Paired
<1>. QED
  BY <1>1, <1>2, <1>3, EmptyIsPaired DEF Follows, Patient
-----------------------------------------------------------------------------
(* The damage handler.                                                         *)

LEMMA AdmittedKeeps ==
    ASSUME entity \in [Ids -> Entities], NEW i \in Ids,
           NEW b \in Buckets, Paired(b), Len(b.queue) <= Pending, NEW a, a = Admitted(b, i)
    PROVE  /\ a \in Buckets /\ Paired(a) /\ Len(a.queue) <= Pending
           /\ \A j \in Ids \ {i} : a.members[j] = b.members[j]
           /\ a.members[i] # Nil => a.members[i].quiet = Quiet
<1>1. /\ b.queue \in Seq(Ids) /\ b.members \in [Ids -> Members \cup {Nil}] /\ b.scheduled \in BOOLEAN
      /\ Len(b.queue) \in Nat
  BY DEF Buckets
<1>2. Row(i) \in Members /\ Row(i) # Nil /\ Row(i).quiet = Quiet
  BY Bounds DEF Row, Members, Entities
<1>. DEFINE Rows == Members \cup {Nil}
<1>3. b.members \in [Ids -> Rows] /\ Nil \in Rows /\ Row(i) \in Rows
  BY <1>1, <1>2
<1>. HIDE DEF Rows
<1>4. CASE b.members[i] # Nil /\ b.members[i].place # entity[i].place
  <2>. DEFINE q == RemoveFirst(b.queue, i)
              m == [b.members EXCEPT ![i] = Nil]
  <2>1. i \in ToSet(b.queue)
    BY <1>4 DEF Paired
  <2>2. q \in Seq(Ids) /\ IsInjective(q) /\ ToSet(q) = ToSet(b.queue) \ {i} /\ Len(q) <= Len(b.queue)
    BY <1>1, <2>1, RemoveTakes DEF Paired
  <2>3. Len(q) \in Nat
    BY <2>2
  <2>4. m \in [Ids -> Rows] /\ m[i] = Nil /\ \A j \in Ids \ {i} : m[j] = b.members[j]
    BY <1>3
  <2>5. a = [b EXCEPT !.members = m, !.queue = q]
    BY <1>4 DEF Admitted
  <2>. HIDE DEF q, m
  <2>6. a.queue = q /\ a.members = m /\ a \in Buckets
    BY <2>2, <2>4, <2>5 DEF Buckets, Rows
  <2>. QED
    BY <1>1, <2>2, <2>3, <2>4, <2>6, Bounds DEF Paired
<1>5. CASE b.members[i] # Nil /\ b.members[i].place = entity[i].place
  <2>. DEFINE m == [b.members EXCEPT ![i] = Row(i)]
  <2>1. m \in [Ids -> Rows] /\ m[i] = Row(i) /\ \A j \in Ids \ {i} : m[j] = b.members[j]
    BY <1>3
  <2>2. a = [b EXCEPT !.members = m]
    BY <1>5 DEF Admitted
  <2>. HIDE DEF m
  <2>3. a.queue = b.queue /\ a.members = m /\ a \in Buckets
    BY <1>1, <2>1, <2>2 DEF Buckets, Rows
  <2>. QED
    BY <1>2, <1>5, <2>1, <2>3 DEF Paired
<1>6. CASE b.members[i] = Nil /\ Len(b.queue) >= Pending
  BY <1>6 DEF Admitted
<1>7. CASE b.members[i] = Nil /\ ~(Len(b.queue) >= Pending)
  <2>. DEFINE q == Append(b.queue, i)
              m == [b.members EXCEPT ![i] = Row(i)]
  <2>1. i \notin ToSet(b.queue)
    BY <1>7 DEF Paired
  <2>2. q \in Seq(Ids) /\ IsInjective(q) /\ ToSet(q) = ToSet(b.queue) \cup {i} /\ Len(q) = Len(b.queue) + 1
    BY <1>1, <2>1, AppendAdds DEF Paired
  <2>3. Len(q) <= Pending
    BY <1>1, <1>7, <2>2, Bounds
  <2>4. m \in [Ids -> Rows] /\ m[i] = Row(i) /\ \A j \in Ids \ {i} : m[j] = b.members[j]
    BY <1>3
  <2>5. a = [b EXCEPT !.queue = q, !.members = m]
    BY <1>7 DEF Admitted
  <2>. HIDE DEF q, m
  <2>6. a.queue = q /\ a.members = m /\ a \in Buckets
    BY <2>2, <2>4, <2>5 DEF Buckets, Rows
  <2>. QED
    BY <1>2, <2>2, <2>3, <2>4, <2>6 DEF Paired
<1>. QED
  BY <1>4, <1>5, <1>6, <1>7

(* Saving a bucket and following its queue.                                    *)
LEMMA ScheduledKeeps ==
    ASSUME NEW b \in Buckets, Scheduled(b), Paired(b), Len(b.queue) <= Pending, enabled' = TRUE
    PROVE  /\ bucket' \in Buckets /\ bucket' # Nil
           /\ bucket'.members = b.members
           /\ QueueIsMembers' /\ Follows'
<1>1. bucket' \in Buckets /\ bucket'.queue = b.queue /\ bucket'.members = b.members
  BY DEF Scheduled, Buckets
<1>2. bucket' # Nil
  BY <1>1, Bounds
<1>3. QueueIsMembers'
  BY <1>1 DEF QueueIsMembers, Paired
<1>4. Queue' = b.queue
  BY <1>1, <1>2 DEF Queue
<1>5. Follows'
  BY <1>4 DEF Follows, Scheduled
<1>. QED
  BY <1>1, <1>2, <1>3, <1>5

LEMMA DamagedStep ==
    ASSUME IInv, OnEntityDamaged, UNCHANGED calm,
           fair' = [fair EXCEPT ![hit] = Eligible(hit) /\ Damaged(entity[hit])]
    PROVE  IInv'
<1>. DEFINE i == hit
<1>1. i \in Ids /\ hit' = Nil /\ UNCHANGED <<enabled, entity, allied, phase, due>>
  BY DEF OnEntityDamaged, IInv, RepairTypeOK
<1>2. /\ enabled \in BOOLEAN /\ bound \in BOOLEAN /\ due \in BOOLEAN
      /\ entity \in [Ids -> Entities] /\ allied \subseteq Places
      /\ bucket \in Buckets \cup {Nil} /\ phase \in 0 .. Interval - 1
  BY DEF IInv, RepairTypeOK
<1>3. HistTypeOK'
  <2>1. (Eligible(i) /\ Damaged(entity[i])) \in BOOLEAN
    BY DEF Eligible, Damaged
  <2>. QED
    BY <2>1, <1>1 DEF IInv, HistTypeOK
<1>4. \A j \in Ids \ {i} : fair'[j] = fair[j]
  BY DEF IInv, HistTypeOK
<1>5. fair'[i] = (Eligible(i) /\ Damaged(entity[i]))
  BY <1>1 DEF IInv, HistTypeOK
<1>6. calm' = calm
  OBVIOUS
<1>. HIDE DEF i
<1>7. CASE ~enabled
  <2>1. bucket' = (IF bucket = Nil THEN Nil ELSE EmptyBucket) /\ bound' = FALSE
    BY <1>7 DEF OnEntityDamaged, Disabled
  <2>2. /\ bucket' \in Buckets \cup {Nil}
        /\ QueueIsMembers' /\ Follows' /\ Patient'
    BY <2>1, EmptiedKeeps
  <2>3. RepairTypeOK'
    BY <1>1, <1>2, <2>1, <2>2 DEF RepairTypeOK
  <2>. QED
    BY <1>3, <2>2, <2>3 DEF IInv
<1>8. CASE enabled /\ Eligible(i) /\ Damaged(entity[i])
  <2>. DEFINE a == Admitted(Ensured, i)
  <2>1. Scheduled(a)
    BY <1>8 DEF OnEntityDamaged, i
  <2>2. Ensured \in Buckets /\ Paired(Ensured) /\ Len(Ensured.queue) <= Pending
    BY <1>2, EmptyIsPaired, QueueForms, Bounds DEF Ensured, IInv
  <2>3. /\ a \in Buckets /\ Paired(a) /\ Len(a.queue) <= Pending
        /\ \A j \in Ids \ {i} : a.members[j] = Ensured.members[j]
        /\ a.members[i] # Nil => a.members[i].quiet = Quiet
    BY <1>1, <1>2, <2>2, AdmittedKeeps
  <2>. HIDE DEF a
  <2>4. /\ bucket' \in Buckets /\ bucket' # Nil
        /\ bucket'.members = a.members
        /\ QueueIsMembers' /\ Follows'
    BY <1>1, <1>8, <2>1, <2>3, ScheduledKeeps
  <2>5. Patient'
    <3>1. SUFFICES ASSUME NEW j \in Ids, bucket'.members[j] # Nil, fair'[j]
                   PROVE  calm'[j] + bucket'.members[j].quiet >= Quiet
      BY DEF Patient
    <3>2. calm[j] \in Nat /\ Quiet \in Nat
      BY Bounds DEF IInv, HistTypeOK
    <3>3. CASE j = i
      BY <3>1, <3>2, <3>3, <1>6, <2>3, <2>4
    <3>4. CASE j # i
      <4>1. Ensured.members[j] # Nil /\ Ensured.members[j] = bucket'.members[j]
        BY <3>1, <3>4, <2>3, <2>4
      <4>2. bucket # Nil /\ Ensured = bucket
        BY <4>1, EmptyIsPaired DEF Ensured
      <4>. QED
        BY <4>1, <4>2, <3>1, <3>4, <1>4, <1>6 DEF IInv, Patient, i
    <3>. QED
      BY <3>3, <3>4
  <2>6. RepairTypeOK'
    BY <1>1, <1>2, <2>1, <2>4 DEF RepairTypeOK, Scheduled
  <2>. QED
    BY <1>3, <2>4, <2>5, <2>6 DEF IInv
<1>9. CASE enabled /\ ~(Eligible(i) /\ Damaged(entity[i]))
  <2>1. bound' = (Queue # <<>>) /\ bucket' = bucket
    BY <1>9 DEF OnEntityDamaged, i
  <2>2. Queue' = Queue
    BY <2>1 DEF Queue
  <2>3. QueueIsMembers' /\ Follows'
    BY <1>1, <1>9, <2>1, <2>2 DEF IInv, QueueIsMembers, Follows
  <2>4. Patient'
    <3>1. SUFFICES ASSUME bucket # Nil, NEW j \in Ids, bucket.members[j] # Nil, fair'[j]
                   PROVE  calm[j] + bucket.members[j].quiet >= Quiet
      BY <2>1, <1>6 DEF Patient
    <3>2. j # i
      BY <3>1, <1>5, <1>9
    <3>. QED
      BY <3>1, <3>2, <1>4 DEF IInv, Patient, i
  <2>5. RepairTypeOK'
    BY <1>1, <1>2, <2>1 DEF RepairTypeOK
  <2>. QED
    BY <1>3, <2>3, <2>4, <2>5 DEF IInv
<1>. QED
  BY <1>7, <1>8, <1>9
-----------------------------------------------------------------------------
(* The tick handler.                                                           *)

(* A tick that finds a bucket leaves what its visits leave.                    *)
LEMMA TickTours ==
    ASSUME IInv, OnNthTick, enabled, bucket # Nil
    PROVE  \E s : /\ Toured(s, Visits) /\ InOrder(s, Visits) /\ entity' = s.entity
                  /\ Scheduled([bucket EXCEPT !.queue = s.queue, !.members = s.members])
<1>1. PICK broken \in SUBSET Ids :
         /\ entity' = Visited(broken).entity
         /\ Scheduled([bucket EXCEPT !.queue = Visited(broken).queue,
                                     !.members = Visited(broken).members])
  BY Zenon DEF OnNthTick
<1>2. bucket \in Buckets /\ Paired(bucket) /\ entity \in [Ids -> Entities]
  BY QueueForms DEF IInv, RepairTypeOK
<1>. QED
  BY <1>1, <1>2, VisitedToured, Zenon

LEMMA TickStep ==
    ASSUME IInv, OnNthTick, UNCHANGED <<calm, fair>>
    PROVE  IInv'
<1>1. due' = FALSE /\ hit = Nil /\ UNCHANGED <<enabled, allied, phase, hit>>
  BY Zenon DEF OnNthTick
<1>2. /\ enabled \in BOOLEAN /\ entity \in [Ids -> Entities] /\ allied \subseteq Places
      /\ bucket \in Buckets \cup {Nil} /\ phase \in 0 .. Interval - 1
  BY DEF IInv, RepairTypeOK
<1>3. HistTypeOK'
  BY DEF IInv, HistTypeOK
<1>4. CASE ~enabled
  <2>1. bucket' = (IF bucket = Nil THEN Nil ELSE EmptyBucket) /\ bound' = FALSE /\ entity' = entity
    BY <1>4 DEF OnNthTick, Disabled
  <2>2. /\ bucket' \in Buckets \cup {Nil}
        /\ QueueIsMembers' /\ Follows' /\ Patient'
    BY <2>1, EmptiedKeeps
  <2>3. RepairTypeOK'
    BY <1>1, <1>2, <2>1, <2>2 DEF RepairTypeOK
  <2>. QED
    BY <1>3, <2>2, <2>3 DEF IInv
<1>5. CASE enabled /\ bucket = Nil
  <2>1. bucket' = Nil /\ bound' = FALSE /\ entity' = entity
    BY <1>5 DEF OnNthTick
  <2>2. RepairTypeOK'
    BY <1>1, <1>2, <2>1 DEF RepairTypeOK
  <2>. QED
    BY <1>1, <1>3, <1>5, <2>1, <2>2, Zenon DEF IInv, QueueIsMembers, Follows, Patient, Queue
<1>6. CASE enabled /\ bucket # Nil
  <2>1. PICK s : /\ Toured(s, Visits) /\ entity' = s.entity
                 /\ Scheduled([bucket EXCEPT !.queue = s.queue, !.members = s.members])
    BY <1>6, TickTours, Zenon
  <2>. DEFINE b == [bucket EXCEPT !.queue = s.queue, !.members = s.members]
  <2>2. s \in Stages /\ Paired(s) /\ Len(s.queue) <= Len(bucket.queue)
    BY <2>1 DEF Toured
  <2>3. b.queue = s.queue /\ b.members = s.members /\ b \in Buckets
    BY <1>2, <1>6, <2>2 DEF Buckets, Stages
  <2>4. Scheduled(b)
    BY <2>1
  <2>. HIDE DEF b
  <2>5. Paired(b) /\ Len(b.queue) <= Pending
    <3>1. Len(bucket.queue) <= Pending
      BY <1>6 DEF IInv, QueueIsMembers
    <3>2. Len(bucket.queue) \in Nat /\ Len(s.queue) \in Nat
      BY <1>2, <1>6, <2>2 DEF Buckets, Stages
    <3>. QED
      BY <2>2, <2>3, <3>1, <3>2, Bounds DEF Paired
  <2>6. /\ bucket' \in Buckets /\ bucket' # Nil
        /\ bucket'.members = s.members
        /\ QueueIsMembers' /\ Follows'
    BY <1>1, <1>6, <2>3, <2>4, <2>5, ScheduledKeeps
  <2>7. Patient'
    BY <1>1, <1>6, <2>1, <2>6 DEF Patient, Toured, IInv
  <2>8. RepairTypeOK'
    BY <1>1, <1>2, <2>1, <2>2, <2>4, <2>6 DEF RepairTypeOK, Stages, Scheduled, IInv
  <2>. QED
    BY <1>3, <2>6, <2>7, <2>8 DEF IInv
<1>. QED
  BY <1>4, <1>5, <1>6
-----------------------------------------------------------------------------
(* The game.                                                                   *)

LEMMA AgedRow ==
    ASSUME NEW row \in Members \cup {Nil}
    PROVE  /\ Aged(row) \in Members \cup {Nil}
           /\ Aged(row) = Nil <=> row = Nil
           /\ row # Nil => row.quiet \in Nat /\ Aged(row).quiet = Less(row.quiet)
  BY Bounds DEF Aged, Members

LEMMA AdvanceStep ==
    ASSUME IInv, Advance, calm' = [i \in Ids |-> IF calm[i] < Quiet THEN calm[i] + 1 ELSE Quiet],
           UNCHANGED fair
    PROVE  IInv'
<1>1. UNCHANGED <<enabled, entity, allied, bound, hit, fair>> /\ hit = Nil
  BY DEF Advance, Idle
<1>2. calm \in [Ids -> 0 .. Quiet] /\ Quiet \in Nat
  BY Bounds DEF IInv, HistTypeOK
<1>3. HistTypeOK'
  BY <1>1, <1>2 DEF IInv, HistTypeOK
<1>4. phase' \in 0 .. Interval - 1 /\ due' \in BOOLEAN
  BY Bounds DEF Advance, IInv, RepairTypeOK
<1>5. CASE bucket = Nil
  <2>1. bucket' = Nil
    BY <1>5 DEF Advance
  <2>. QED
    BY <2>1, <1>1, <1>3, <1>4, <1>5
       DEF IInv, RepairTypeOK, QueueIsMembers, Follows, Patient, Queue
<1>6. CASE bucket # Nil
  <2>. DEFINE m == [i \in Ids |-> Aged(bucket.members[i])]
  <2>1. bucket \in Buckets
    BY <1>6 DEF IInv, RepairTypeOK
  <2>2. bucket.members \in [Ids -> Members \cup {Nil}]
    BY <2>1 DEF Buckets
  <2>3. \A i \in Ids : m[i] \in Members \cup {Nil} /\ (m[i] = Nil <=> bucket.members[i] = Nil)
    BY <2>2, AgedRow
  <2>4. bucket' = [bucket EXCEPT !.members = m]
    BY <1>6 DEF Advance
  <2>5. \A i \in Ids : m[i] # Nil => /\ bucket.members[i].quiet \in Nat
                                      /\ m[i].quiet = Less(bucket.members[i].quiet)
    BY <2>2, AgedRow
  <2>6. m \in [Ids -> Members \cup {Nil}]
    BY <2>3
  <2>. HIDE DEF m
  <2>7. bucket' \in Buckets /\ bucket'.members = m /\ bucket'.queue = bucket.queue
    BY <2>1, <2>4, <2>6 DEF Buckets
  <2>8. bucket' # Nil /\ Queue' = Queue
    BY <2>7, <1>6, Bounds DEF Queue
  <2>9. QueueIsMembers' /\ Follows'
    BY <1>1, <1>6, <2>3, <2>7, <2>8 DEF IInv, QueueIsMembers, Follows
  <2>10. Patient'
    <3>1. SUFFICES ASSUME NEW i \in Ids, m[i] # Nil, fair[i]
                   PROVE  calm'[i] + m[i].quiet >= Quiet
      BY <1>1, <2>7 DEF Patient
    <3>2. hit # i /\ bucket.members[i] # Nil
      BY <1>1, <2>3, <3>1, Bounds
    <3>3. calm[i] + bucket.members[i].quiet >= Quiet
      BY <1>6, <3>1, <3>2 DEF IInv, Patient
    <3>4. calm[i] \in 0 .. Quiet /\ calm'[i] = IF calm[i] < Quiet THEN calm[i] + 1 ELSE Quiet
      BY <1>2
    <3>. QED
      BY <2>5, <3>1, <3>3, <3>4, <1>2 DEF Less
  <2>11. RepairTypeOK'
    BY <1>1, <1>4, <2>7 DEF RepairTypeOK, IInv
  <2>. QED
    BY <1>3, <2>9, <2>10, <2>11 DEF IInv
<1>. QED
  BY <1>5, <1>6

LEMMA HurtStep ==
    ASSUME IInv, NEW i \in Ids, Damage(i), calm' = [calm EXCEPT ![i] = 0], UNCHANGED fair
    PROVE  IInv'
<1>1. /\ UNCHANGED <<enabled, allied, bucket, bound, phase, due, fair>> /\ hit = Nil
      /\ entity' = [entity EXCEPT ![i].health = @ - 1] /\ entity[i].health > 0
      /\ hit' = IF enabled THEN i ELSE Nil
  BY DEF Damage, Idle
<1>2. entity' \in [Ids -> Entities]
  BY <1>1, Bounds DEF IInv, RepairTypeOK, Entities
<1>3. RepairTypeOK'
  BY <1>1, <1>2 DEF IInv, RepairTypeOK
<1>4. HistTypeOK'
  BY <1>1, Bounds DEF IInv, HistTypeOK
<1>5. QueueIsMembers' /\ Follows'
  BY <1>1 DEF IInv, QueueIsMembers, Follows, Queue
<1>6. Patient'
  <2>1. SUFFICES ASSUME bucket # Nil, NEW j \in Ids, bucket.members[j] # Nil, fair[j], hit' # j
                 PROVE  calm'[j] + bucket.members[j].quiet >= Quiet
    BY <1>1 DEF Patient
  <2>2. CASE enabled
    <3>1. j # i /\ hit # j
      BY <1>1, <2>1, <2>2, Bounds
    <3>2. calm'[j] = calm[j]
      BY <3>1 DEF IInv, HistTypeOK
    <3>. QED
      BY <2>1, <3>1, <3>2 DEF IInv, Patient
  <2>3. CASE ~enabled
    <3>1. bucket.queue = <<>>
      BY <2>1, <2>3, QueueForms DEF IInv, Follows
    <3>2. ToSet(bucket.queue) = {}
      BY <3>1 DEF ToSet
    <3>. QED
      BY <2>1, <3>2 DEF IInv, QueueIsMembers
  <2>. QED
    BY <2>2, <2>3
<1>. QED
  BY <1>3, <1>4, <1>5, <1>6 DEF IInv

(* Entities healed, destroyed or handed over, and alliances.                   *)
LEMMA OthersStep ==
    ASSUME IInv, UNCHANGED <<calm, fair>>,
           \/ \E i \in Ids : Heal(i) \/ Destroy(i) \/ \E p \in Places : Transfer(i, p)
           \/ \E p \in Places : Ally(p)
    PROVE  IInv'
<1>1. UNCHANGED <<enabled, bucket, bound, phase, due, hit, calm, fair>>
  BY DEF Heal, Destroy, Transfer, Ally
<1>2. entity' \in [Ids -> Entities] /\ allied' \subseteq Places
  <2>1. entity \in [Ids -> Entities] /\ allied \subseteq Places
    BY DEF IInv, RepairTypeOK
  <2>2. ASSUME NEW i \in Ids, Heal(i) \/ Destroy(i) PROVE entity' \in [Ids -> Entities] /\ allied' = allied
    BY <2>1, <2>2, Bounds DEF Heal, Destroy, Entities
  <2>3. ASSUME NEW i \in Ids, NEW p \in Places, Transfer(i, p)
        PROVE  entity' \in [Ids -> Entities] /\ allied' = allied
    BY <2>1, <2>3 DEF Transfer, Entities
  <2>4. ASSUME NEW p \in Places, Ally(p) PROVE allied' \subseteq Places /\ entity' = entity
    BY <2>1, <2>4 DEF Ally
  <2>. QED
    BY <2>1, <2>2, <2>3, <2>4
<1>. QED
  BY <1>1, <1>2 DEF IInv, RepairTypeOK, HistTypeOK, QueueIsMembers, Follows, Patient, Queue

LEMMA LoadStep ==
    ASSUME IInv, NEW on \in BOOLEAN, Load(on), UNCHANGED <<calm, fair>>
    PROVE  IInv'
<1>1. /\ UNCHANGED <<entity, allied, phase, due, hit, calm, fair>>
      /\ enabled' = on /\ bound' = (on /\ Queue # <<>>)
      /\ bucket' = IF on \/ bucket = Nil THEN bucket ELSE EmptyBucket
  BY DEF Load
<1>2. HistTypeOK'
  BY <1>1 DEF IInv, HistTypeOK
<1>3. CASE on
  <2>1. bucket' = bucket /\ Queue' = Queue /\ bound' = (Queue # <<>>)
    BY <1>1, <1>3 DEF Queue
  <2>2. RepairTypeOK'
    BY <1>1, <2>1 DEF IInv, RepairTypeOK
  <2>. QED
    BY <1>1, <1>2, <1>3, <2>1, <2>2 DEF IInv, QueueIsMembers, Follows, Patient
<1>4. CASE ~on
  <2>1. bucket' = (IF bucket = Nil THEN Nil ELSE EmptyBucket) /\ bound' = FALSE
    BY <1>1, <1>4
  <2>2. /\ bucket' \in Buckets \cup {Nil}
        /\ QueueIsMembers' /\ Follows' /\ Patient'
    BY <2>1, EmptiedKeeps
  <2>3. RepairTypeOK'
    BY <1>1, <2>1, <2>2 DEF IInv, RepairTypeOK
  <2>. QED
    BY <1>2, <2>2, <2>3 DEF IInv
<1>. QED
  BY <1>3, <1>4
-----------------------------------------------------------------------------
LEMMA NextInv == IInv /\ [HStep]_rhvars => IInv'
<1>. SUFFICES ASSUME IInv, [HStep]_rhvars PROVE IInv'
  OBVIOUS
<1>1. CASE UNCHANGED rhvars
  BY <1>1 DEF rhvars, pvars, IInv, RepairTypeOK, HistTypeOK, QueueIsMembers, Follows, Patient, Queue
<1>2. CASE HStep
  <2>1. CASE /\ OnEntityDamaged /\ UNCHANGED calm
             /\ fair' = [fair EXCEPT ![hit] = Eligible(hit) /\ Damaged(entity[hit])]
    BY <2>1, DamagedStep
  <2>2. CASE OnNthTick /\ UNCHANGED <<calm, fair>>
    BY <2>2, TickStep
  <2>3. CASE /\ Advance /\ UNCHANGED fair
             /\ calm' = [i \in Ids |-> IF calm[i] < Quiet THEN calm[i] + 1 ELSE Quiet]
    BY <2>3, AdvanceStep
  <2>4. ASSUME NEW i \in Ids, Damage(i), calm' = [calm EXCEPT ![i] = 0], UNCHANGED fair
        PROVE  IInv'
    BY <2>4, HurtStep
  <2>5. CASE /\ UNCHANGED <<calm, fair>>
             /\ \/ \E i \in Ids : Heal(i) \/ Destroy(i) \/ \E p \in Places : Transfer(i, p)
                \/ \E p \in Places : Ally(p)
    BY <2>5, OthersStep
  <2>6. ASSUME NEW on \in BOOLEAN, Load(on), UNCHANGED <<calm, fair>>
        PROVE  IInv'
    BY <2>6, LoadStep
  <2>. QED
    BY <1>2, <2>1, <2>2, <2>3, <2>4, <2>5, <2>6 DEF HStep
<1>. QED
  BY <1>1, <1>2

LEMMA InvHolds == HSpec => []IInv
<1>. QED
  BY InitInv, NextInv, PTL DEF HSpec
-----------------------------------------------------------------------------
(* Every variable has its type; timers and healths stay within their bounds.   *)
THEOREM RepairTypeCorrect == HSpec => []RepairTypeOK
<1>1. IInv => RepairTypeOK
  BY DEF IInv
<1>. QED
  BY InvHolds, <1>1, PTL

(* The queue holds every member once and never more than Pending (queue and    *)
(* members of the saved bucket).                                               *)
THEOREM QueueMatchesMembers == HSpec => []QueueIsMembers
<1>1. IInv => QueueIsMembers
  BY DEF IInv
<1>. QED
  BY InvHolds, <1>1, PTL

(* The tick handler is subscribed exactly while there is work, and a disabled  *)
(* feature keeps none (repair_scheduled, on_load, reconcile_repair).           *)
THEOREM BoundFollowsQueue == HSpec => []BoundWhileQueued
<1>1. IInv => BoundWhileQueued
  BY DEF IInv, Follows, BoundWhileQueued
<1>. QED
  BY InvHolds, <1>1, PTL

LEMMA TickIsPatient ==
    ASSUME IInv, OnNthTick
    PROVE  /\ Cardinality({i \in Ids : Repaired(i)}) <= Budget
           /\ \A i \in Ids : Repaired(i) =>
                /\ entity'[i].health = entity[i].health + 1
                /\ entity[i].place \in allied
                /\ fair[i] => calm[i] >= Quiet
<1>1. CASE entity' = entity
  <2>1. entity \in [Ids -> Entities]
    BY DEF IInv, RepairTypeOK
  <2>2. {i \in Ids : Repaired(i)} = {}
    BY <1>1, <2>1 DEF Repaired, Entities
  <2>. QED
    BY <2>2, FS_EmptySet, Bounds
<1>2. CASE entity' # entity
  <2>1. enabled /\ bucket # Nil
    BY <1>2, Zenon DEF OnNthTick
  <2>2. PICK s : Toured(s, Visits) /\ entity' = s.entity
    BY <2>1, TickTours, Zenon
  <2>3. \A i \in Ids : Repaired(i) => i \in Fixed(s)
    <3>1. entity \in [Ids -> Entities]
      BY DEF IInv, RepairTypeOK
    <3>. QED
      BY <3>1, <2>2 DEF Repaired, Fixed, Entities
  <2>4. Cardinality({i \in Ids : Repaired(i)}) <= Budget
    <3>1. IsFiniteSet(Fixed(s)) /\ Cardinality(Fixed(s)) <= Visits
      BY <2>2 DEF Toured
    <3>2. {i \in Ids : Repaired(i)} \subseteq Fixed(s)
      BY <2>3
    <3>3. /\ IsFiniteSet({i \in Ids : Repaired(i)})
          /\ Cardinality({i \in Ids : Repaired(i)}) <= Cardinality(Fixed(s))
      BY <3>1, <3>2, FS_Subset
    <3>4. Cardinality(Fixed(s)) \in Nat /\ Cardinality({i \in Ids : Repaired(i)}) \in Nat
      BY <3>1, <3>3, FS_CardinalityType
    <3>5. Visits \in Nat /\ Visits <= Budget
      <4>1. Len(Queue) \in Nat
        BY <2>1, QueueForms DEF IInv, Buckets
      <4>. QED
        BY <4>1, Bounds DEF Visits
    <3>. QED
      BY <3>1, <3>3, <3>4, <3>5, Bounds
  <2>5. ASSUME NEW i \in Ids, Repaired(i)
        PROVE  /\ entity'[i].health = entity[i].health + 1
               /\ entity[i].place \in allied
               /\ fair[i] => calm[i] >= Quiet
    <3>1. /\ s.entity[i].health = entity[i].health + 1
          /\ entity[i].place \in allied
          /\ bucket.members[i] # Nil /\ bucket.members[i].quiet = 0
      BY <2>2, <2>3, <2>5 DEF Toured, Fixed
    <3>2. hit # i
      BY Bounds, Zenon DEF OnNthTick
    <3>3. fair[i] => calm[i] + 0 >= Quiet
      BY <2>1, <3>1, <3>2 DEF IInv, Patient
    <3>4. calm[i] \in Nat
      BY Bounds DEF IInv, HistTypeOK
    <3>. QED
      BY <2>2, <3>1, <3>3, <3>4
  <2>. QED
    BY <2>4, <2>5
<1>. QED
  BY <1>1, <1>2

(* A tick repairs one health of each of at most Budget entities, each allied   *)
(* and quiet since a hit MIR accepted (on_nth_tick).                           *)
THEOREM RepairsArePatient == HSpec => RepairsPatiently
<1>1. IInv => [OnNthTick =>
         /\ Cardinality({i \in Ids : Repaired(i)}) <= Budget
         /\ \A i \in Ids : Repaired(i) =>
              /\ entity'[i].health = entity[i].health + 1
              /\ entity[i].place \in allied
              /\ fair[i] => calm[i] >= Quiet]_rhvars
  BY TickIsPatient
<1>. QED
  BY InvHolds, <1>1, PTL DEF RepairsPatiently

(* A tick takes the queue's members in turn.                                   *)
LEMMA TickInTurn ==
    ASSUME IInv, OnNthTick, enabled, NEW k \in DOMAIN Queue
    PROVE  LET i   == Queue[k]
               row == bucket.members[i]
               new == bucket'.members[i]
           IN  IF k > Visits
               THEN Queue'[k - Visits] = i /\ new = row /\ entity'[i] = entity[i]
               ELSE IF new = Nil
               THEN Mine(Unvisited, i) => Ripe(row)
               ELSE Repaired(i) \/ (new = row /\ ~Ripe(row))
<1>1. bucket # Nil /\ bucket \in Buckets /\ Queue = bucket.queue
      /\ entity \in [Ids -> Entities] /\ IsInjective(bucket.queue)
  <2>1. bucket # Nil
    BY DEF Queue
  <2>. QED
    BY <2>1, QueueForms DEF IInv, RepairTypeOK, QueueIsMembers
<1>2. PICK s : /\ Toured(s, Visits) /\ InOrder(s, Visits) /\ entity' = s.entity
               /\ Scheduled([bucket EXCEPT !.queue = s.queue, !.members = s.members])
  BY <1>1, TickTours, Zenon
<1>3. bucket'.queue = s.queue /\ bucket'.members = s.members /\ Queue' = s.queue
  <2>. DEFINE b == [bucket EXCEPT !.queue = s.queue, !.members = s.members]
  <2>1. s \in Stages
    BY <1>2 DEF Toured
  <2>2. b \in Buckets /\ b.queue = s.queue /\ b.members = s.members
    BY <1>1, <2>1 DEF Buckets, Stages
  <2>. HIDE DEF b
  <2>3. bucket' = [b EXCEPT !.scheduled = b.queue # <<>>]
    BY <1>2 DEF Scheduled, b
  <2>4. bucket' \in Buckets /\ bucket'.queue = b.queue /\ bucket'.members = b.members
    BY <2>2, <2>3 DEF Buckets
  <2>5. bucket' # Nil
    BY <2>4, Bounds
  <2>. QED
    BY <2>2, <2>4, <2>5 DEF Queue
<1>. DEFINE i == Queue[k]
<1>4. /\ Visits \in Nat /\ Len(bucket.queue) \in Nat /\ Visits <= Len(bucket.queue)
      /\ k \in 1 .. Len(bucket.queue) /\ i \in Ids
  <2>1. Len(bucket.queue) \in Nat /\ k \in 1 .. Len(bucket.queue) /\ i \in Ids
    BY <1>1 DEF Buckets
  <2>. QED
    BY <1>1, <2>1, Bounds DEF Visits
<1>5. CASE k > Visits
  <2>1. k - Visits \in 1 .. Len(bucket.queue) - Visits /\ (k - Visits) + Visits = k
        /\ k \in Visits + 1 .. Len(bucket.queue)
    BY <1>4, <1>5
  <2>2. s.queue[k - Visits] = bucket.queue[(k - Visits) + Visits]
    BY <1>2, <2>1 DEF InOrder
  <2>3. s.members[bucket.queue[k]] = bucket.members[bucket.queue[k]]
        /\ s.entity[bucket.queue[k]] = entity[bucket.queue[k]]
    BY <1>2, <2>1 DEF InOrder
  <2>. QED
    BY <1>1, <1>2, <1>3, <1>5, <2>1, <2>2, <2>3
<1>6. CASE ~(k > Visits)
  <2>1. k \in 1 .. Visits
    BY <1>4, <1>6
  <2>2. IF s.members[i] = Nil THEN Mine(Unvisited, i) => Ripe(bucket.members[i])
        ELSE \/ s.entity[i].health = entity[i].health + 1
             \/ s.members[i] = bucket.members[i] /\ ~Ripe(bucket.members[i])
    BY <1>1, <1>2, <2>1 DEF InOrder
  <2>3. entity[i].health \in Nat
    BY <1>1, <1>4, Bounds DEF Entities
  <2>. HIDE DEF i
  <2>4. s.entity[i].health = entity[i].health + 1 => Repaired(i)
    BY <1>2, <2>3 DEF Repaired
  <2>. QED
    BY <1>3, <1>6, <2>2, <2>4 DEF i
<1>. QED
  BY <1>5, <1>6

(* An admitted hit moves nobody back and touches no other member.              *)
LEMMA AdmittedInTurn ==
    ASSUME IInv, OnEntityDamaged, enabled, Eligible(hit), Damaged(entity[hit]),
           NEW k \in DOMAIN Queue
    PROVE  LET i   == Queue[k]
               new == bucket'.members[i]
           IN  new # Nil => /\ \E m \in 1 .. k : Queue'[m] = i
                            /\ new = bucket.members[i] \/ (hit = i /\ new = Row(i))
<1>. DEFINE b == bucket
            a == Admitted(b, hit)
            i == Queue[k]
<1>1. /\ b # Nil /\ b \in Buckets /\ Queue = b.queue /\ Ensured = b
      /\ entity \in [Ids -> Entities] /\ Paired(b) /\ Len(b.queue) <= Pending
  <2>1. bucket # Nil
    BY DEF Queue
  <2>. QED
    BY <2>1, QueueForms DEF IInv, RepairTypeOK, Ensured
<1>2. /\ b.queue \in Seq(Ids) /\ b.members \in [Ids -> Members \cup {Nil}]
      /\ Len(b.queue) \in Nat /\ k \in 1 .. Len(b.queue) /\ i = b.queue[k] /\ i \in Ids
      /\ hit \in Ids
  <2>1. hit \in Ids
    BY DEF IInv, RepairTypeOK, OnEntityDamaged
  <2>. QED
    BY <1>1, <2>1 DEF Buckets
<1>3. bucket'.queue = a.queue /\ bucket'.members = a.members /\ Queue' = a.queue
  <2>1. a \in Buckets
    BY <1>1, <1>2, AdmittedKeeps
  <2>2. bucket' = [a EXCEPT !.scheduled = a.queue # <<>>]
    BY <1>1 DEF OnEntityDamaged, Scheduled
  <2>. HIDE DEF a
  <2>3. bucket' \in Buckets /\ bucket'.queue = a.queue /\ bucket'.members = a.members
    BY <2>1, <2>2 DEF Buckets
  <2>4. bucket' # Nil
    BY <2>3, Bounds
  <2>. QED
    BY <2>3, <2>4 DEF Queue
<1>. HIDE DEF i
<1>4. CASE b.members[hit] # Nil /\ b.members[hit].place # entity[hit].place
  <2>1. a = [b EXCEPT !.members[hit] = Nil, !.queue = RemoveFirst(@, hit)]
    BY <1>4 DEF Admitted
  <2>2. a.queue = RemoveFirst(b.queue, hit) /\ a.members = [b.members EXCEPT ![hit] = Nil]
    BY <1>1, <2>1 DEF Buckets
  <2>3. CASE i = hit
    BY <1>2, <1>3, <2>2, <2>3 DEF i
  <2>4. CASE i # hit
    <3>1. a.members[i] = b.members[i]
      BY <1>2, <2>2, <2>4
    <3>2. hit \in ToSet(b.queue)
      BY <1>1, <1>2, <1>4 DEF Paired
    <3>3. \E m \in 1 .. k : RemoveFirst(b.queue, hit)[m] = i
      BY <1>1, <1>2, <2>4, <3>2, RemoveTakes DEF Paired
    <3>. QED
      BY <1>3, <2>2, <3>1, <3>3 DEF i
  <2>. QED
    BY <2>3, <2>4
<1>5. CASE b.members[hit] # Nil /\ b.members[hit].place = entity[hit].place
  <2>1. a = [b EXCEPT !.members[hit] = Row(hit)]
    BY <1>5 DEF Admitted
  <2>2. a.queue = b.queue /\ a.members = [b.members EXCEPT ![hit] = Row(hit)]
    BY <1>1, <2>1 DEF Buckets
  <2>3. a.members[i] = IF i = hit THEN Row(i) ELSE b.members[i]
    BY <1>2, <2>2
  <2>. QED
    BY <1>2, <1>3, <2>2, <2>3 DEF i
<1>6. CASE b.members[hit] = Nil /\ Len(b.queue) >= Pending
  <2>1. a = b
    BY <1>6 DEF Admitted
  <2>. QED
    BY <1>2, <1>3, <2>1 DEF i
<1>7. CASE b.members[hit] = Nil /\ ~(Len(b.queue) >= Pending)
  <2>1. a = [b EXCEPT !.queue = Append(@, hit), !.members[hit] = Row(hit)]
    BY <1>7 DEF Admitted
  <2>2. a.queue = Append(b.queue, hit) /\ a.members = [b.members EXCEPT ![hit] = Row(hit)]
    BY <1>1, <2>1 DEF Buckets
  <2>3. a.members[i] = IF i = hit THEN Row(i) ELSE b.members[i]
    BY <1>2, <2>2
  <2>4. Append(b.queue, hit)[k] = b.queue[k]
    BY <1>2
  <2>. QED
    BY <1>2, <1>3, <2>2, <2>3, <2>4 DEF i
<1>. QED
  BY <1>4, <1>5, <1>6, <1>7

(* However a queue rotates, whoever comes and goes and whenever it is hit, the *)
(* members are served in the order of the queue, each when its time has come.  *)
THEOREM RepairsInTurn == HSpec => ServedInTurn
<1>. DEFINE Turn(k) ==
         LET i   == Queue[k]
             row == bucket.members[i]
             new == bucket'.members[i]
         IN  IF OnNthTick /\ enabled
             THEN IF k > Visits
                  THEN Queue'[k - Visits] = i /\ new = row /\ entity'[i] = entity[i]
                  ELSE IF new = Nil
                  THEN Mine(Unvisited, i) => Ripe(row)
                  ELSE Repaired(i) \/ (new = row /\ ~Ripe(row))
             ELSE new # Nil =>
                    /\ \E m \in 1 .. k : Queue'[m] = i
                    /\ new \in {row, Aged(row)} \/ (hit = i /\ new = Row(i))
<1>1. ASSUME IInv, [HStep]_rhvars PROVE [\A k \in DOMAIN Queue : Turn(k)]_pvars
  <2>. SUFFICES ASSUME HStep, NEW k \in DOMAIN Queue PROVE Turn(k)
    BY <1>1 DEF rhvars
  <2>. DEFINE i == Queue[k]
  <2>0. /\ bucket # Nil /\ bucket \in Buckets /\ Queue = bucket.queue
        /\ k \in 1 .. Len(bucket.queue) /\ i \in Ids
        /\ bucket.members \in [Ids -> Members \cup {Nil}]
    <3>1. bucket # Nil
      BY DEF Queue
    <3>2. bucket \in Buckets /\ Queue = bucket.queue
      BY <1>1, <3>1, QueueForms DEF IInv
    <3>. QED
      BY <3>1, <3>2 DEF Buckets
  <2>1. CASE OnNthTick /\ enabled
    BY <1>1, <2>1, TickInTurn, Zenon
  <2>. SUFFICES ASSUME ~(OnNthTick /\ enabled), bucket'.members[i] # Nil
                PROVE  /\ \E m \in 1 .. k : Queue'[m] = i
                       /\ \/ bucket'.members[i] \in {bucket.members[i], Aged(bucket.members[i])}
                          \/ hit = i /\ bucket'.members[i] = Row(i)
    BY <2>1
  <2>2. CASE bucket' = bucket
    <3>1. Queue' = Queue
      BY <2>2 DEF Queue
    <3>. QED
      BY <2>0, <2>2, <3>1
  <2>3. bucket' # EmptyBucket
    BY <2>0, EmptyIsPaired
  <2>4. CASE OnEntityDamaged
    <3>1. CASE ~enabled
      BY <2>0, <2>3, <2>4, <3>1 DEF OnEntityDamaged, Disabled
    <3>2. CASE enabled /\ Eligible(hit) /\ Damaged(entity[hit])
      BY <1>1, <2>4, <3>2, AdmittedInTurn
    <3>3. CASE enabled /\ ~(Eligible(hit) /\ Damaged(entity[hit]))
      BY <2>2, <2>4, <3>3 DEF OnEntityDamaged
    <3>. QED
      BY <3>1, <3>2, <3>3
  <2>5. CASE OnNthTick
    BY <2>0, <2>3, <2>5, Zenon DEF OnNthTick, Disabled
  <2>6. CASE Advance
    <3>. DEFINE aged == [j \in Ids |-> Aged(bucket.members[j])]
    <3>1. bucket' = [bucket EXCEPT !.members = aged]
      BY <2>0, <2>6 DEF Advance
    <3>2. bucket'.queue = bucket.queue /\ bucket'.members = aged
      BY <2>0, <3>1 DEF Buckets
    <3>3. bucket' # Nil
      <4>1. aged \in [Ids -> Members \cup {Nil}]
        BY <2>0, AgedRow
      <4>. HIDE DEF aged
      <4>2. bucket' \in Buckets
        BY <2>0, <3>1, <4>1 DEF Buckets
      <4>. QED
        BY <4>2, Bounds
    <3>4. Queue' = bucket.queue
      BY <3>2, <3>3 DEF Queue
    <3>. QED
      BY <2>0, <3>2, <3>4
  <2>7. CASE \E j \in Ids : \/ Damage(j) \/ Heal(j) \/ Destroy(j)
                            \/ \E p \in Places : Transfer(j, p)
    BY <2>2, <2>7 DEF Damage, Heal, Destroy, Transfer
  <2>8. CASE \E p \in Places : Ally(p)
    BY <2>2, <2>8 DEF Ally
  <2>9. CASE \E on \in BOOLEAN : Load(on)
    BY <2>0, <2>2, <2>3, <2>9 DEF Load
  <2>. QED
    BY <2>4, <2>5, <2>6, <2>7, <2>8, <2>9, Zenon DEF HStep
<1>2. IInv /\ [HStep]_rhvars => [\A k \in DOMAIN Queue : Turn(k)]_pvars
  BY <1>1
<1>. QED
  BY InvHolds, <1>2, PTL DEF HSpec, ServedInTurn
=============================================================================
