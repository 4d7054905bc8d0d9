----------------------------- MODULE ReleaseProofs -----------------------------
(* Proofs about Releases for every plan of targets, every record and version   *)
(* of the tool, any number of runs, commits and damages: the types, that an    *)
(* intact output always verifies, and that freezing and verifying implement    *)
(* the custody of their output; and about Packaging, for every source tree:    *)
(* that a package is whole, and so that what is sealed can be played.          *)
EXTENDS Releases, FiniteSetTheorems, WellFoundedInduction, TLAPS

(* Induction over the naturals, for a set: the form of it whose proof and uses *)
(* need no operator as a parameter.                                            *)
LEMMA NatSetInduction ==
    ASSUME NEW S, 0 \in S, \A n \in Nat : n \in S => n + 1 \in S
    PROVE  \A n \in Nat : n \in S
<1>. SUFFICES ASSUME NEW m \in Nat, m \notin S PROVE FALSE
  OBVIOUS
<1>. DEFINE T == {n \in Nat : n \notin S}
            Below == {ss \in Nat \X Nat : ss[1] < ss[2]}
<1>1. IsWellFoundedOn(Below, Nat)
  <2>1. OpToRel(<, Nat) = Below
    BY Zenon DEF OpToRel
  <2>. QED
    BY <2>1, NatLessThanWellFounded, Zenon
<1>2. T \subseteq Nat /\ T # {}
  OBVIOUS
<1>3. PICK x \in T : \A y \in T : ~ (<<y, x>> \in Below)
  <2>. HIDE DEF Below, T
  <2>. QED
    BY <1>1, <1>2, WFMin, Zenon
<1>4. x # 0 /\ x - 1 \in Nat /\ x - 1 \in S
  <2>1. x # 0 /\ x - 1 \in Nat
    OBVIOUS
  <2>2. x - 1 \in T => <<x - 1, x>> \in Below
    BY <2>1
  <2>. QED
    BY <2>1, <2>2, <1>3
<1>. QED
  BY <1>4
-----------------------------------------------------------------------------
(* The plan: what freeze writes and verify compares, in which order.           *)

R == Len(RetainedOrder)
E == Len(EarlyOrder)
LEMMA OrderFacts ==
    /\ R \in Nat /\ E \in Nat
    /\ DOMAIN RetainedOrder = 1..R /\ DOMAIN EarlyOrder = 1..E
    /\ \A i \in 1..R : RetainedOrder[i] \in Retained
    /\ \A i \in 1..E : EarlyOrder[i] \in Early
    /\ \A i, j \in 1..R : RetainedOrder[i] = RetainedOrder[j] => i = j
    /\ \A i, j \in 1..E : EarlyOrder[i] = EarlyOrder[j] => i = j
    /\ \A i \in 1..R, j \in 1..E : RetainedOrder[i] # EarlyOrder[j]
    /\ \A t \in Retained : \E i \in 1..R : RetainedOrder[i] = t
    /\ \A t \in Early : \E i \in 1..E : EarlyOrder[i] = t
  BY OrdersAssumption DEF R, E, IsInjective, ToSet

LEMMA FilesDiffer ==
    /\ \A t, u : Archive(t) = Archive(u) => t = u
    /\ \A t : Archive(t) \notin {Sums, EarlySums, Inventory, Extra}
    /\ Sums \notin {EarlySums, Inventory, Extra}
    /\ EarlySums \notin {Inventory, Extra} /\ Inventory # Extra
  BY DEF Archive, Sums, EarlySums, Inventory, Extra

LEMMA ContentsDiffer ==
    /\ NoFile \notin {Partial, Junk} /\ Partial # Junk
    /\ \A f, c, tool : Bytes(f, c, tool) \notin {NoFile, Partial, Junk}
    /\ \A c, e, k, tool : InventoryOf(c, e, k, tool) \notin {NoFile, Partial, Junk}
    /\ \A c, e, k, tool : LET v == InventoryOf(c, e, k, tool)
                          IN  v[2] = c /\ v[3] = e /\ v[4] = k /\ v[5] = tool
  BY DEF NoFile, Partial, Junk, Bytes, InventoryOf

LEMMA Segments ==
    /\ Archives(RetainedOrder) \in Seq(Names) /\ Len(Archives(RetainedOrder)) = R
    /\ \A i \in 1..R : Archives(RetainedOrder)[i] = Archive(RetainedOrder[i])
    /\ Archives(EarlyOrder) \in Seq(Names) /\ Len(Archives(EarlyOrder)) = E
    /\ \A i \in 1..E : Archives(EarlyOrder)[i] = Archive(EarlyOrder[i])
    /\ <<Sums>> \in Seq(Names) /\ <<EarlySums>> \in Seq(Names) /\ <<Inventory>> \in Seq(Names)
<1>1. /\ Archives(RetainedOrder) = [i \in 1..R |-> Archive(RetainedOrder[i])]
      /\ Archives(EarlyOrder) = [i \in 1..E |-> Archive(EarlyOrder[i])]
  BY OrderFacts DEF Archives
<1>2. /\ \A i \in 1..R : Archive(RetainedOrder[i]) \in Names
      /\ \A i \in 1..E : Archive(EarlyOrder[i]) \in Names
      /\ Sums \in Names /\ EarlySums \in Names /\ Inventory \in Names
  BY OrderFacts DEF Names
<1> HIDE DEF R, E, Archives, Names
<1>3. QED  BY <1>1, <1>2, OrderFacts

(* The pieces of the two orders, and the orders put together of them.           *)
LEMMA Concatenated ==
    ASSUME NEW S, NEW s \in Seq(S), NEW t \in Seq(S)
    PROVE  /\ s \o t \in Seq(S) /\ Len(s \o t) = Len(s) + Len(t)
           /\ \A i \in 1..Len(s) : (s \o t)[i] = s[i]
           /\ \A i \in 1..Len(t) : (s \o t)[Len(s) + i] = t[i]
  OBVIOUS

LEMMA PlanLong ==
    LET W == WriteOrder(TRUE) IN
      /\ W \in Seq(Names) /\ Len(W) = R + E + 3
      /\ \A i \in 1..R : W[i] = Archive(RetainedOrder[i])
      /\ W[R + 1] = Sums
      /\ \A j \in 1..E : W[R + 1 + j] = Archive(EarlyOrder[j])
      /\ W[R + E + 2] = EarlySums /\ W[R + E + 3] = Inventory
<1> DEFINE A == Archives(RetainedOrder)
           B == Archives(EarlyOrder)
           P == A \o <<Sums>>
           Q == B \o <<EarlySums>>
           PQ == P \o Q
           V == PQ \o <<Inventory>>
<1>1. A \in Seq(Names) /\ B \in Seq(Names) /\ Len(A) = R /\ Len(B) = E /\ R \in Nat /\ E \in Nat
      /\ <<Sums>> \in Seq(Names) /\ <<EarlySums>> \in Seq(Names) /\ <<Inventory>> \in Seq(Names)
      /\ (\A i \in 1..R : A[i] = Archive(RetainedOrder[i]))
      /\ (\A i \in 1..E : B[i] = Archive(EarlyOrder[i]))
  BY Segments, OrderFacts
<1>2. \A x : Len(<<x>>) = 1 /\ <<x>>[1] = x
  OBVIOUS
<1>3. WriteOrder(TRUE) = V
  BY DEF WriteOrder
<1> HIDE DEF A, B, R, E, Names
<1>4. /\ P \in Seq(Names) /\ Len(P) = R + 1 /\ P[R + 1] = Sums
      /\ \A i \in 1..R : P[i] = Archive(RetainedOrder[i])
  BY <1>1, <1>2, Concatenated
<1>5. /\ Q \in Seq(Names) /\ Len(Q) = E + 1 /\ Q[E + 1] = EarlySums
      /\ \A i \in 1..E : Q[i] = Archive(EarlyOrder[i])
  BY <1>1, <1>2, Concatenated
<1> HIDE DEF P, Q
<1>6. /\ PQ \in Seq(Names) /\ Len(PQ) = R + E + 2
      /\ \A i \in 1..(R + 1) : PQ[i] = P[i]
      /\ \A j \in 1..(E + 1) : PQ[R + 1 + j] = Q[j]
  <2>1. /\ PQ \in Seq(Names) /\ Len(PQ) = Len(P) + Len(Q)
        /\ \A i \in 1..Len(P) : PQ[i] = P[i]
        /\ \A j \in 1..Len(Q) : PQ[Len(P) + j] = Q[j]
    <3>1. P \in Seq(Names) /\ Q \in Seq(Names)
      BY <1>4, <1>5
    <3> QED  BY <3>1, Concatenated
  <2> QED  BY <2>1, <1>1, <1>4, <1>5
<1> HIDE DEF PQ
<1>7. /\ V \in Seq(Names) /\ Len(V) = R + E + 3
      /\ \A i \in 1..(R + E + 2) : V[i] = PQ[i]
      /\ V[R + E + 3] = Inventory
  <2>1. /\ V \in Seq(Names)
        /\ Len(V) = Len(PQ) + Len(<<Inventory>>)
        /\ \A i \in 1..Len(PQ) : V[i] = PQ[i]
        /\ \A j \in 1..Len(<<Inventory>>) : V[Len(PQ) + j] = <<Inventory>>[j]
    BY <1>1, <1>6, Concatenated
  <2> QED  BY <2>1, <1>1, <1>2, <1>6
<1> HIDE DEF V
<1>8. /\ \A i \in 1..R : V[i] = Archive(RetainedOrder[i])
      /\ V[R + 1] = Sums
  BY <1>1, <1>4, <1>6, <1>7
<1>9. /\ \A j \in 1..E : V[R + 1 + j] = Archive(EarlyOrder[j])
      /\ V[R + E + 2] = EarlySums
  <2>1. R + E + 2 = R + 1 + (E + 1) /\ E + 1 \in 1..(E + 1) /\ (R + E + 2) \in 1..(R + E + 2)
        /\ \A j \in 1..E : j \in 1..(E + 1) /\ R + 1 + j \in 1..(R + E + 2)
    BY <1>1
  <2> QED  BY <2>1, <1>5, <1>6, <1>7
<1> QED  BY <1>3, <1>7, <1>8, <1>9

LEMMA PlanShort ==
    LET W == WriteOrder(FALSE) IN
      /\ W \in Seq(Names) /\ Len(W) = R + 2
      /\ \A i \in 1..R : W[i] = Archive(RetainedOrder[i])
      /\ W[R + 1] = Sums /\ W[R + 2] = Inventory
<1> DEFINE A == Archives(RetainedOrder)
           P == A \o <<Sums>>
           V == P \o <<Inventory>>
<1>1. A \in Seq(Names) /\ Len(A) = R /\ R \in Nat
      /\ <<Sums>> \in Seq(Names) /\ <<Inventory>> \in Seq(Names)
      /\ (\A i \in 1..R : A[i] = Archive(RetainedOrder[i]))
  BY Segments, OrderFacts
<1>2. \A x : Len(<<x>>) = 1 /\ <<x>>[1] = x
  OBVIOUS
<1>3. WriteOrder(FALSE) = V
  <2>1. WriteOrder(FALSE) = P \o <<>> \o <<Inventory>>
    BY DEF WriteOrder
  <2>2. P \o <<>> = P
    <3>1. P \in Seq(Names)
      BY <1>1, Concatenated
    <3> HIDE DEF P
    <3> QED  BY <3>1
  <2> QED  BY <2>1, <2>2
<1> HIDE DEF A, R, Names
<1>4. /\ P \in Seq(Names) /\ Len(P) = R + 1 /\ P[R + 1] = Sums
      /\ \A i \in 1..R : P[i] = Archive(RetainedOrder[i])
  BY <1>1, <1>2, Concatenated
<1> HIDE DEF P
<1>5. /\ V \in Seq(Names) /\ Len(V) = R + 2 /\ V[R + 2] = Inventory
      /\ \A i \in 1..(R + 1) : V[i] = P[i]
  <2>1. /\ V \in Seq(Names) /\ Len(V) = Len(P) + Len(<<Inventory>>)
        /\ \A i \in 1..Len(P) : V[i] = P[i]
        /\ \A j \in 1..Len(<<Inventory>>) : V[Len(P) + j] = <<Inventory>>[j]
    BY <1>1, <1>4, Concatenated
  <2> QED  BY <2>1, <1>1, <1>2, <1>4
<1> HIDE DEF V
<1>6. V[R + 1] = Sums /\ \A i \in 1..R : V[i] = Archive(RetainedOrder[i])
  BY <1>1, <1>4, <1>5
<1> QED  BY <1>3, <1>5, <1>6

LEMMA ChecksLong ==
    LET C == CheckOrder(TRUE) IN
      /\ C \in Seq(Names) /\ Len(C) = R + E + 2
      /\ \A i \in 1..R : C[i] = Archive(RetainedOrder[i])
      /\ \A j \in 1..E : C[R + j] = Archive(EarlyOrder[j])
      /\ C[R + E + 1] = EarlySums /\ C[R + E + 2] = Sums
<1> DEFINE A == Archives(RetainedOrder)
           B == Archives(EarlyOrder)
           Q == B \o <<EarlySums>>
           AQ == A \o Q
           V == AQ \o <<Sums>>
<1>1. A \in Seq(Names) /\ B \in Seq(Names) /\ Len(A) = R /\ Len(B) = E /\ R \in Nat /\ E \in Nat
      /\ <<Sums>> \in Seq(Names) /\ <<EarlySums>> \in Seq(Names)
      /\ (\A i \in 1..R : A[i] = Archive(RetainedOrder[i]))
      /\ (\A i \in 1..E : B[i] = Archive(EarlyOrder[i]))
  BY Segments, OrderFacts
<1>2. \A x : Len(<<x>>) = 1 /\ <<x>>[1] = x
  OBVIOUS
<1>3. CheckOrder(TRUE) = V
  BY DEF CheckOrder
<1> HIDE DEF A, B, R, E, Names
<1>4. /\ Q \in Seq(Names) /\ Len(Q) = E + 1 /\ Q[E + 1] = EarlySums
      /\ \A i \in 1..E : Q[i] = Archive(EarlyOrder[i])
  BY <1>1, <1>2, Concatenated
<1> HIDE DEF Q
<1>5. /\ AQ \in Seq(Names) /\ Len(AQ) = R + E + 1
      /\ \A i \in 1..R : AQ[i] = A[i]
      /\ \A j \in 1..(E + 1) : AQ[R + j] = Q[j]
  <2>1. /\ AQ \in Seq(Names) /\ Len(AQ) = Len(A) + Len(Q)
        /\ \A i \in 1..Len(A) : AQ[i] = A[i]
        /\ \A j \in 1..Len(Q) : AQ[Len(A) + j] = Q[j]
    <3>1. A \in Seq(Names) /\ Q \in Seq(Names)
      BY <1>1, <1>4
    <3> QED  BY <3>1, Concatenated
  <2> QED  BY <2>1, <1>1, <1>4
<1> HIDE DEF AQ
<1>6. /\ V \in Seq(Names) /\ Len(V) = R + E + 2 /\ V[R + E + 2] = Sums
      /\ \A i \in 1..(R + E + 1) : V[i] = AQ[i]
  <2>1. /\ V \in Seq(Names) /\ Len(V) = Len(AQ) + Len(<<Sums>>)
        /\ \A i \in 1..Len(AQ) : V[i] = AQ[i]
        /\ \A j \in 1..Len(<<Sums>>) : V[Len(AQ) + j] = <<Sums>>[j]
    <3>1. AQ \in Seq(Names) /\ <<Sums>> \in Seq(Names)
      BY <1>1, <1>5
    <3> QED  BY <3>1, Concatenated
  <2> QED  BY <2>1, <1>1, <1>2, <1>5
<1> HIDE DEF V
<1>7. \A i \in 1..R : V[i] = Archive(RetainedOrder[i])
  BY <1>1, <1>5, <1>6
<1>8. /\ \A j \in 1..E : V[R + j] = Archive(EarlyOrder[j])
      /\ V[R + E + 1] = EarlySums
  <2>1. R + E + 1 = R + (E + 1) /\ E + 1 \in 1..(E + 1) /\ (R + E + 1) \in 1..(R + E + 1)
        /\ \A j \in 1..E : j \in 1..(E + 1) /\ R + j \in 1..(R + E + 1)
    BY <1>1
  <2> QED  BY <2>1, <1>4, <1>5, <1>6
<1> QED  BY <1>3, <1>6, <1>7, <1>8

LEMMA ChecksShort ==
    LET C == CheckOrder(FALSE) IN
      /\ C \in Seq(Names) /\ Len(C) = R + 1
      /\ \A i \in 1..R : C[i] = Archive(RetainedOrder[i])
      /\ C[R + 1] = Sums
<1> DEFINE A == Archives(RetainedOrder)
           V == A \o <<Sums>>
<1>1. A \in Seq(Names) /\ Len(A) = R /\ R \in Nat /\ <<Sums>> \in Seq(Names)
      /\ (\A i \in 1..R : A[i] = Archive(RetainedOrder[i]))
  BY Segments, OrderFacts
<1>2. \A x : Len(<<x>>) = 1 /\ <<x>>[1] = x
  OBVIOUS
<1>3. CheckOrder(FALSE) = V
  <2>1. CheckOrder(FALSE) = A \o <<>> \o <<Sums>>
    BY DEF CheckOrder
  <2>2. A \o <<>> = A
    <3> HIDE DEF A
    <3> QED  BY <1>1
  <2> QED  BY <2>1, <2>2
<1> HIDE DEF A, R, Names
<1>4. /\ V \in Seq(Names) /\ Len(V) = R + 1 /\ V[R + 1] = Sums
      /\ \A i \in 1..R : V[i] = Archive(RetainedOrder[i])
  BY <1>1, <1>2, Concatenated
<1> HIDE DEF V
<1> QED  BY <1>3, <1>4

(* What the two orders have to do with each other: the inventory comes last    *)
(* and only once, nothing is written twice, and everything but the inventory   *)
(* is compared, the checksums last.                                            *)
Planned(W, C) ==
    /\ Len(W) \in Nat \ {0} /\ DOMAIN W = 1..Len(W)
    /\ Len(C) \in Nat \ {0} /\ DOMAIN C = 1..Len(C)
    /\ \A i \in 1..Len(W) : W[i] \in Names /\ W[i] # Extra
    /\ \A i, j \in 1..Len(W) : W[i] = W[j] => i = j
    /\ \A i \in 1..Len(W) : W[i] = Inventory <=> i = Len(W)
    /\ \A i \in 1..Len(C) : C[i] = Sums <=> i = Len(C)
    /\ \A i \in 1..Len(C) : C[i] # Inventory /\ \E j \in 1..Len(W) : W[j] = C[i]
    /\ \A j \in 1..Len(W) : j # Len(W) => \E i \in 1..Len(C) : C[i] = W[j]

LEMMA LongPlanned == Planned(WriteOrder(TRUE), CheckOrder(TRUE))
<1> DEFINE W == WriteOrder(TRUE)
           C == CheckOrder(TRUE)
           Kinds == {Sums, EarlySums, Inventory, Extra}
<1>1. /\ W \in Seq(Names) /\ Len(W) = R + E + 3
      /\ (\A i \in 1..R : W[i] = Archive(RetainedOrder[i]))
      /\ W[R + 1] = Sums
      /\ (\A j \in 1..E : W[R + 1 + j] = Archive(EarlyOrder[j]))
      /\ W[R + E + 2] = EarlySums /\ W[R + E + 3] = Inventory
  BY PlanLong
<1>2. /\ C \in Seq(Names) /\ Len(C) = R + E + 2
      /\ (\A i \in 1..R : C[i] = Archive(RetainedOrder[i]))
      /\ (\A j \in 1..E : C[R + j] = Archive(EarlyOrder[j]))
      /\ C[R + E + 1] = EarlySums /\ C[R + E + 2] = Sums
  BY ChecksLong
<1>3. R \in Nat /\ E \in Nat
  BY OrderFacts
<1>4. /\ \A i \in 1..R : Archive(RetainedOrder[i]) \notin Kinds
      /\ \A i \in 1..E : Archive(EarlyOrder[i]) \notin Kinds
      /\ \A i, j \in 1..R : Archive(RetainedOrder[i]) = Archive(RetainedOrder[j]) => i = j
      /\ \A i, j \in 1..E : Archive(EarlyOrder[i]) = Archive(EarlyOrder[j]) => i = j
      /\ \A i \in 1..R, j \in 1..E : Archive(RetainedOrder[i]) # Archive(EarlyOrder[j])
  BY OrderFacts, FilesDiffer
<1> HIDE DEF W, C, R, E, Names
<1>5. ASSUME NEW i \in 1..Len(W)
      PROVE  \/ i \in 1..R /\ W[i] = Archive(RetainedOrder[i])
             \/ i = R + 1 /\ W[i] = Sums
             \/ \E j \in 1..E : i = R + 1 + j /\ W[i] = Archive(EarlyOrder[j])
             \/ i = R + E + 2 /\ W[i] = EarlySums
             \/ i = R + E + 3 /\ W[i] = Inventory
  <2>1. CASE i \in (R + 2)..(R + E + 1)
    <3>1. i - R - 1 \in 1..E /\ i = R + 1 + (i - R - 1)
      BY <2>1, <1>3
    <3> QED  BY <3>1, <1>1
  <2> QED  BY <2>1, <1>1, <1>3
<1>6. ASSUME NEW i \in 1..Len(C)
      PROVE  \/ i \in 1..R /\ C[i] = Archive(RetainedOrder[i])
             \/ \E j \in 1..E : i = R + j /\ C[i] = Archive(EarlyOrder[j])
             \/ i = R + E + 1 /\ C[i] = EarlySums
             \/ i = R + E + 2 /\ C[i] = Sums
  <2>1. CASE i \in (R + 1)..(R + E)
    <3>1. i - R \in 1..E /\ i = R + (i - R)
      BY <2>1, <1>3
    <3> QED  BY <3>1, <1>2
  <2> QED  BY <2>1, <1>2, <1>3
<1>7. /\ Len(W) \in Nat \ {0} /\ DOMAIN W = 1..Len(W) /\ (\A i \in 1..Len(W) : W[i] \in Names)
      /\ Len(C) \in Nat \ {0} /\ DOMAIN C = 1..Len(C)
  BY <1>1, <1>2, <1>3
<1>8. \A i \in 1..Len(W) : W[i] # Extra /\ (W[i] = Inventory <=> i = Len(W))
  BY <1>1, <1>3, <1>4, <1>5, FilesDiffer
<1>9. \A i, j \in 1..Len(W) : W[i] = W[j] => i = j
  <2> SUFFICES ASSUME NEW i \in 1..Len(W), NEW j \in 1..Len(W), W[i] = W[j] PROVE i = j
    OBVIOUS
  <2>1. CASE W[i] \in Kinds
    BY <2>1, <1>4, <1>5, FilesDiffer
  <2>2. CASE W[i] \notin Kinds
    <3>1. /\ \/ i \in 1..R /\ W[i] = Archive(RetainedOrder[i])
             \/ \E k \in 1..E : i = R + 1 + k /\ W[i] = Archive(EarlyOrder[k])
          /\ \/ j \in 1..R /\ W[j] = Archive(RetainedOrder[j])
             \/ \E k \in 1..E : j = R + 1 + k /\ W[j] = Archive(EarlyOrder[k])
      BY <2>2, <1>5
    <3> QED  BY <3>1, <1>4
  <2> QED  BY <2>1, <2>2
<1>10. \A i \in 1..Len(C) : C[i] # Inventory /\ (C[i] = Sums <=> i = Len(C))
  BY <1>2, <1>3, <1>4, <1>6, FilesDiffer
<1>11. ASSUME NEW i \in 1..Len(C) PROVE \E j \in 1..Len(W) : W[j] = C[i]
  <2>1. CASE i \in 1..R /\ C[i] = Archive(RetainedOrder[i])
    <3>1. i \in 1..Len(W) /\ W[i] = C[i]
      BY <2>1, <1>1, <1>3
    <3> QED  BY <3>1
  <2>2. ASSUME NEW j \in 1..E, C[i] = Archive(EarlyOrder[j]) PROVE \E k \in 1..Len(W) : W[k] = C[i]
    <3>1. R + 1 + j \in 1..Len(W) /\ W[R + 1 + j] = C[i]
      BY <2>2, <1>1, <1>3
    <3> QED  BY <3>1
  <2>3. /\ R + E + 2 \in 1..Len(W) /\ W[R + E + 2] = EarlySums
        /\ R + 1 \in 1..Len(W) /\ W[R + 1] = Sums
    BY <1>1, <1>3
  <2> QED  BY <2>1, <2>2, <2>3, <1>6
<1>12. ASSUME NEW j \in 1..Len(W), j # Len(W) PROVE \E i \in 1..Len(C) : C[i] = W[j]
  <2>1. CASE j \in 1..R /\ W[j] = Archive(RetainedOrder[j])
    <3>1. j \in 1..Len(C) /\ C[j] = W[j]
      BY <2>1, <1>2, <1>3, SMTT(30)
    <3> QED  BY <3>1
  <2>2. ASSUME NEW k \in 1..E, W[j] = Archive(EarlyOrder[k]) PROVE \E i \in 1..Len(C) : C[i] = W[j]
    <3>1. R + k \in 1..Len(C) /\ C[R + k] = W[j]
      BY <2>2, <1>2, <1>3
    <3> QED  BY <3>1
  <2>3. /\ R + E + 1 \in 1..Len(C) /\ C[R + E + 1] = EarlySums
        /\ R + E + 2 \in 1..Len(C) /\ C[R + E + 2] = Sums
    BY <1>2, <1>3
  <2>4. j # R + E + 3
    BY <1>12, <1>1
  <2> QED  BY <2>1, <2>2, <2>3, <2>4, <1>5
<1>13. Planned(W, C)
  BY <1>7, <1>8, <1>9, <1>10, <1>11, <1>12, Zenon DEF Planned
<1> QED  BY <1>13, Zenon DEF W, C

LEMMA ShortPlanned == Planned(WriteOrder(FALSE), CheckOrder(FALSE))
<1> DEFINE W == WriteOrder(FALSE)
           C == CheckOrder(FALSE)
           Kinds == {Sums, Inventory, Extra}
<1>1. /\ W \in Seq(Names) /\ Len(W) = R + 2
      /\ (\A i \in 1..R : W[i] = Archive(RetainedOrder[i]))
      /\ W[R + 1] = Sums /\ W[R + 2] = Inventory
  BY PlanShort
<1>2. /\ C \in Seq(Names) /\ Len(C) = R + 1
      /\ (\A i \in 1..R : C[i] = Archive(RetainedOrder[i]))
      /\ C[R + 1] = Sums
  BY ChecksShort
<1>3. R \in Nat
  BY OrderFacts
<1>4. /\ \A i \in 1..R : Archive(RetainedOrder[i]) \notin Kinds
      /\ \A i, j \in 1..R : Archive(RetainedOrder[i]) = Archive(RetainedOrder[j]) => i = j
  BY OrderFacts, FilesDiffer
<1> HIDE DEF W, C, R, Names
<1>5. \A i \in 1..Len(W) : \/ i \in 1..R /\ W[i] = Archive(RetainedOrder[i])
                           \/ i = R + 1 /\ W[i] = Sums
                           \/ i = R + 2 /\ W[i] = Inventory
  BY <1>1, <1>3
<1>6. \A i \in 1..Len(C) : \/ i \in 1..R /\ C[i] = Archive(RetainedOrder[i])
                           \/ i = R + 1 /\ C[i] = Sums
  BY <1>2, <1>3
<1>7. /\ Len(W) \in Nat \ {0} /\ DOMAIN W = 1..Len(W) /\ (\A i \in 1..Len(W) : W[i] \in Names)
      /\ Len(C) \in Nat \ {0} /\ DOMAIN C = 1..Len(C)
  BY <1>1, <1>2, <1>3
<1>8. \A i \in 1..Len(W) : W[i] # Extra /\ (W[i] = Inventory <=> i = Len(W))
  BY <1>1, <1>3, <1>4, <1>5, FilesDiffer
<1>9. \A i, j \in 1..Len(W) : W[i] = W[j] => i = j
  BY <1>4, <1>5, FilesDiffer
<1>10. \A i \in 1..Len(C) : C[i] # Inventory /\ (C[i] = Sums <=> i = Len(C))
  BY <1>2, <1>3, <1>4, <1>6, FilesDiffer
<1>11. ASSUME NEW i \in 1..Len(C) PROVE \E j \in 1..Len(W) : W[j] = C[i]
  <2>1. i \in 1..Len(W) /\ W[i] = C[i]
    BY <1>1, <1>2, <1>3
  <2> QED  BY <2>1
<1>12. ASSUME NEW j \in 1..Len(W), j # Len(W) PROVE \E i \in 1..Len(C) : C[i] = W[j]
  <2>1. j \in 1..Len(C) /\ C[j] = W[j]
    BY <1>12, <1>1, <1>2, <1>3, SMTT(30)
  <2> QED  BY <2>1
<1>13. Planned(W, C)
  BY <1>7, <1>8, <1>9, <1>10, <1>11, <1>12 DEF Planned
<1> QED  BY <1>13, Zenon DEF W, C

LEMMA PlannedSet ==
    ASSUME NEW W, NEW C, Planned(W, C)
    PROVE  \A f : f \in ToSet(W) <=> \E i \in 1..Len(W) : f = W[i]
  BY Zenon DEF ToSet, Planned

LEMMA AllPlanned == \A e \in BOOLEAN : Planned(WriteOrder(e), CheckOrder(e))
<1> SUFFICES ASSUME NEW e \in BOOLEAN PROVE Planned(WriteOrder(e), CheckOrder(e))
  OBVIOUS
<1>1. CASE e = TRUE
  BY <1>1, LongPlanned, Zenon
<1>2. CASE e = FALSE
  BY <1>2, ShortPlanned, Zenon
<1> QED  BY <1>1, <1>2
-----------------------------------------------------------------------------
(* The inductive invariant.                                                    *)

Inventories ==
    {InventoryOf(c, e, k, tool) : c \in 1..MaxCommits, e \in BOOLEAN, k \in Tools, tool \in Tools}

(* What a file of the output can hold.                                         *)
Values ==
    {NoFile, Partial, Junk} \cup Inventories
        \cup (Names \X Sources \X (Records \cup EarlyRecords \cup {Nil}) \X Tools)

Jobs == [pc : Freezing \cup Verifying \cup Ended, tool : Tools \cup {Nil}, commit : Nat,
         early : BOOLEAN, controller : Tools \cup {Nil}, n : Nat, inv : {NoFile} \cup Inventories]

WorldOK ==
    /\ commits \in Seq([source: Sources, record: Records \cup {Nil}, early: EarlyRecords \cup {Nil}])
    /\ Len(commits) \in 1..MaxCommits
    /\ work \in [record: Records \cup {Nil}, early: EarlyRecords \cup {Nil}]
    /\ disk \in Tools /\ made \in BOOLEAN /\ tampers \in Nat
    /\ since \in [Processes -> Nat] /\ out \in [Names -> Values] /\ job \in [Processes -> Jobs]

(* A run that writes to the output, one that has read an inventory, and an     *)
(* output nobody writes to any more.                                           *)
Filler(p) == job[p].pc \in {"open", "write"}
Filled == made /\ \A p \in Processes : ~Filler(p)
Settled(p) == job[p].pc \in {"resolve", "list", "check", "compare"}
Inventoried == out[Inventory] \notin {NoFile, Partial, Junk}
Lost(f) == out[f] \in {NoFile, Junk}

(* Damage a verification is bound to come across.                              *)
Spoilt(early) ==
    LET W == WriteOrder(early)
    IN  out[Extra] # NoFile \/ \E i \in 1..Len(W) : i # Len(W) /\ Lost(W[i])

(* The identities of a commit.                                                 *)
Sourced(c) == SourceValid(commits[c].source)
Targeted(c) == /\ RecordValid(commits[c].record)
               /\ Player[commits[c].source].info.base = Editions[commits[c].record][210].base
Earlied(c, early) == early => EarlyRecordValid(commits[c].early)

Valid(c, early) == Sourced(c) /\ Targeted(c) /\ Earlied(c, early)

(* Before the directory is made there is nothing in it; then one run fills it. *)
Unclaimed == ~made => /\ tampers = 0 /\ \A p \in Processes : ~Filler(p)
                      /\ \A f \in Names : out[f] = NoFile

OneFiller == \A p, r \in Processes : Filler(p) /\ Filler(r) => p = r

(* A whole inventory is the seal: it is written last, of a commit whose        *)
(* identities hold, and what it lists is exact, or was damaged since.          *)
SealOK ==
    Inventoried =>
        LET inv == out[Inventory]
            W == WriteOrder(inv[3])
        IN  /\ Filled /\ inv \in Inventories /\ inv[2] \in 1..Len(commits)
            /\ Valid(inv[2], inv[3])
            /\ \A i \in 1..Len(W) : Builds(W[i], inv[2])
            /\ tampers = 0 => \A f \in Names : out[f] = Expected(f, inv)
            /\ tampers > 0 => Spoilt(inv[3])

(* A run works on a commit there is, with the identities it has taken.         *)
JobOK(p) ==
    LET j == job[p]
    IN  /\ j.pc \notin Ended => j.tool \in Tools
        /\ j.pc \in (Freezing \cup Verifying) \ {"read"} => j.commit \in 1..Len(commits)
        /\ j.pc \in {"targets", "early", "output"} => Sourced(j.commit)
        /\ j.pc \in {"early", "output"} => Targeted(j.commit)
        /\ j.pc = "output" => Earlied(j.commit, j.early) /\ j.controller \in Tools

(* Up to its place a filling run has written exactly, and behind it nothing;   *)
(* what was damaged meanwhile it does not write again.                         *)
FillOK(p) ==
    LET j == job[p]
        W == WriteOrder(j.early)
    IN  Filler(p) =>
          /\ j.n \in 1..Len(W) /\ Valid(j.commit, j.early) /\ j.controller \in Tools
          /\ out[Inventory] \in {NoFile, Partial}
          /\ \A i \in 1..j.n : (i = j.n => j.pc = "write") => Builds(W[i], j.commit)
          /\ tampers = 0 =>
               /\ \A i \in 1..Len(W) : i < j.n => out[W[i]] = Bytes(W[i], j.commit, j.tool)
               /\ \A f \in Names : (\A i \in 1..j.n : f # W[i]) => out[f] = NoFile
               /\ out[W[j.n]] = IF j.pc = "open" THEN NoFile ELSE Partial
          /\ tampers > 0 => out[Extra] # NoFile \/ \E i \in 1..Len(W) : i < j.n /\ Lost(W[i])

(* A verification that set out from a damaged output still has the damage      *)
(* before it, and one of an undamaged output holds its very inventory.         *)
VerifyOK(p) ==
    LET j == job[p]
        C == CheckOrder(j.early)
    IN  Settled(p) =>
          /\ Filled /\ j.inv \in Inventories /\ j.commit = j.inv[2] /\ j.early = j.inv[3]
          /\ j.pc = "check" => j.n \in 1..Len(C)
          /\ since[p] <= tampers
          /\ tampers = 0 => Inventoried /\ j.inv = out[Inventory]
          /\ since[p] > 0 => /\ j.pc \in {"resolve", "list"} => Spoilt(j.early)
                             /\ j.pc = "check" => \E i \in j.n..Len(C) : Lost(C[i])
                             /\ j.pc # "compare"

IInv ==
    /\ WorldOK /\ Unclaimed /\ OneFiller /\ SealOK
    /\ \A p \in Processes : JobOK(p) /\ FillOK(p) /\ VerifyOK(p)
-----------------------------------------------------------------------------
(* What is said of a commit stays said of it.                                  *)
OlderSame ==
    \A c \in 1..Len(commits) :
        /\ Sourced(c)' <=> Sourced(c)
        /\ Targeted(c)' <=> Targeted(c)
        /\ \A e : Earlied(c, e)' <=> Earlied(c, e)
        /\ \A e : Valid(c, e)' <=> Valid(c, e)
        /\ \A f : Builds(f, c)' <=> Builds(f, c)
        /\ \A f, tool : Bytes(f, c, tool)' = Bytes(f, c, tool)

LEMMA OlderStay ==
    ASSUME \A c \in 1..Len(commits) : commits'[c] = commits[c]
    PROVE  OlderSame
<1> SUFFICES ASSUME NEW c \in 1..Len(commits)
             PROVE  /\ Sourced(c)' <=> Sourced(c)
                    /\ Targeted(c)' <=> Targeted(c)
                    /\ \A e : Earlied(c, e)' <=> Earlied(c, e)
                    /\ \A e : Valid(c, e)' <=> Valid(c, e)
                    /\ \A f : Builds(f, c)' <=> Builds(f, c)
                    /\ \A f, tool : Bytes(f, c, tool)' = Bytes(f, c, tool)
  BY DEF OlderSame
<1>1. commits'[c] = commits[c]
  OBVIOUS
<1>2. Sourced(c)' <=> Sourced(c)
  BY <1>1 DEF Sourced
<1>3. Targeted(c)' <=> Targeted(c)
  BY <1>1 DEF Targeted
<1>4. \A e : Earlied(c, e)' <=> Earlied(c, e)
  BY <1>1 DEF Earlied
<1>5. \A e : Valid(c, e)' <=> Valid(c, e)
  BY <1>2, <1>3, <1>4 DEF Valid
<1>6. \A f : Builds(f, c)' <=> Builds(f, c)
  BY <1>1 DEF Builds, RecordOf
<1>7. \A f, tool : Bytes(f, c, tool)' = Bytes(f, c, tool)
  BY <1>1 DEF Bytes, RecordOf
<1> QED  BY <1>2, <1>3, <1>4, <1>5, <1>6, <1>7

(* A step that changes one run only, and does not make it a filling one.       *)
LEMMA AsideKeeps ==
    ASSUME IInv, NEW p \in Processes,
           UNCHANGED <<commits, work, disk, made, out, tampers, since>>,
           job' \in [Processes -> Jobs],
           \A r \in Processes : r # p => job'[r] = job[r],
           ~Filler(p)', JobOK(p)', VerifyOK(p)'
    PROVE  IInv'
<1>1. \A r \in Processes : Filler(r)' => Filler(r)
  BY DEF Filler
<1>2. Filled => Filled'
  BY <1>1 DEF Filled
<1>3. /\ Inventoried' <=> Inventoried
      /\ \A e : Spoilt(e)' <=> Spoilt(e)
      /\ \A f, v : Expected(f, v)' = Expected(f, v)
      /\ \A f : Lost(f)' <=> Lost(f)
  BY DEF Inventoried, Spoilt, Lost, Expected, Bytes, RecordOf
<1>4. OlderSame
  BY OlderStay
<1>5. WorldOK'
  BY DEF IInv, WorldOK
<1>6. Unclaimed' /\ OneFiller'
  BY <1>1 DEF IInv, Unclaimed, OneFiller
<1>7. SealOK'
  BY <1>2, <1>3, <1>4 DEF IInv, SealOK, OlderSame
<1>8. ASSUME NEW r \in Processes PROVE JobOK(r)' /\ FillOK(r)' /\ VerifyOK(r)'
  <2>1. CASE r = p
    BY <2>1 DEF FillOK
  <2>2. CASE r # p
    <3>1. job'[r] = job[r] /\ JobOK(r) /\ FillOK(r) /\ VerifyOK(r)
      BY <2>2 DEF IInv
    <3>2. (Filler(r)' <=> Filler(r)) /\ (Settled(r)' <=> Settled(r))
      BY <3>1 DEF Filler, Settled
    <3>3. job[r].pc \in (Freezing \cup Verifying) \ {"read"} => job[r].commit \in 1..Len(commits)
      BY <3>1 DEF JobOK
    <3>4. JobOK(r)'
      BY <3>1, <3>3, <1>4 DEF JobOK, Freezing, Verifying, OlderSame
    <3>5. FillOK(r)'
      BY <3>1, <3>2, <3>3, <1>3, <1>4, SMTT(30) DEF FillOK, Filler, Freezing, Verifying, OlderSame
    <3>6. VerifyOK(r)'
      BY <3>1, <3>2, <1>2, <1>3 DEF VerifyOK
    <3> QED  BY <3>4, <3>5, <3>6
  <2> QED  BY <2>1, <2>2
<1> QED  BY <1>5, <1>6, <1>7, <1>8 DEF IInv

(* The steps that only move the run they belong to.                            *)
LEMMA StartKeeps ==
    ASSUME IInv, NEW p \in Processes,
           \/ \E c \in DOMAIN commits, early \in BOOLEAN : StartFreeze(p, c, early)
           \/ \E early \in BOOLEAN : StartVerify(p, early)
    PROVE  IInv'
<1>1. /\ job \in [Processes -> Jobs] /\ disk \in Tools
      /\ commits \in Seq([source: Sources, record: Records \cup {Nil}, early: EarlyRecords \cup {Nil}])
  BY DEF IInv, WorldOK
<1>2. ASSUME NEW c \in DOMAIN commits, NEW early \in BOOLEAN, StartFreeze(p, c, early)
      PROVE  IInv'
  <2> DEFINE r == [Idle EXCEPT !.pc = "source", !.tool = disk, !.commit = c, !.early = early]
  <2>1. c \in 1..Len(commits) /\ c \in Nat
    BY <1>1
  <2>2. /\ r \in Jobs /\ r.pc = "source" /\ r.tool = disk /\ r.commit = c
    BY <1>1, <2>1 DEF Idle, Jobs, Freezing
  <2>3. job' = [job EXCEPT ![p] = r] /\ UNCHANGED <<commits, work, disk, made, out, tampers, since>>
    BY <1>2, Zenon DEF StartFreeze
  <2> HIDE DEF r
  <2>4. job'[p] = r /\ job' \in [Processes -> Jobs] /\ \A q \in Processes : q # p => job'[q] = job[q]
    BY <1>1, <2>2, <2>3
  <2>5. ~Filler(p)' /\ JobOK(p)' /\ VerifyOK(p)'
    BY <1>1, <2>1, <2>2, <2>3, <2>4 DEF Filler, JobOK, VerifyOK, Settled
  <2> QED  BY <2>3, <2>4, <2>5, AsideKeeps
<1>3. ASSUME NEW early \in BOOLEAN, StartVerify(p, early) PROVE IInv'
  <2> DEFINE r == [Idle EXCEPT !.pc = "read", !.tool = disk, !.early = early]
  <2>2. r \in Jobs /\ r.pc = "read" /\ r.tool = disk
    BY <1>1 DEF Idle, Jobs, Verifying
  <2>3. job' = [job EXCEPT ![p] = r] /\ UNCHANGED <<commits, work, disk, made, out, tampers, since>>
    BY <1>3, Zenon DEF StartVerify
  <2> HIDE DEF r
  <2>4. job'[p] = r /\ job' \in [Processes -> Jobs] /\ \A q \in Processes : q # p => job'[q] = job[q]
    BY <1>1, <2>2, <2>3
  <2>5. ~Filler(p)' /\ JobOK(p)' /\ VerifyOK(p)'
    BY <1>1, <2>2, <2>3, <2>4 DEF Filler, JobOK, VerifyOK, Settled
  <2> QED  BY <2>3, <2>4, <2>5, AsideKeeps
<1> QED  BY <1>2, <1>3

LEMMA EndKeeps ==
    ASSUME IInv, NEW p \in Processes, Refuse(p) \/ Crash(p) \/ Accept(p)
    PROVE  IInv'
<1>1. job \in [Processes -> Jobs]
  BY DEF IInv, WorldOK
<1>2. PICK r \in Jobs : r.pc \in Ended /\ job' = [job EXCEPT ![p] = r]
  <2>1. ASSUME NEW pc \in Ended
        PROVE  [Idle EXCEPT !.pc = pc] \in Jobs /\ [Idle EXCEPT !.pc = pc].pc \in Ended
    BY DEF Idle, Jobs
  <2>2. ASSUME NEW c \in Nat
        PROVE  LET r == [Idle EXCEPT !.pc = "accepted", !.commit = c]
               IN  r \in Jobs /\ r.pc \in Ended
    BY DEF Idle, Jobs, Ended
  <2>3. CASE Refuse(p) \/ Crash(p)
    <3>1. PICK pc \in {"failed", "crashed"} : job' = [job EXCEPT ![p] = [Idle EXCEPT !.pc = pc]]
      BY <2>3 DEF Refuse, Crash, End
    <3>2. pc \in Ended
      BY DEF Ended
    <3> QED  BY <3>1, <3>2, <2>1
  <2>4. CASE Accept(p)
    <3>1. job' = [job EXCEPT ![p] = [Idle EXCEPT !.pc = "accepted", !.commit = job[p].commit]]
      BY <2>4 DEF Accept
    <3>2. job[p].commit \in Nat
      BY <1>1 DEF Jobs
    <3> QED  BY <3>1, <3>2, <2>2, Zenon
  <2> QED  BY <2>3, <2>4
<1>3. UNCHANGED <<commits, work, disk, made, out, tampers, since>>
  BY DEF Refuse, Crash, Accept
<1>4. job'[p] = r /\ job' \in [Processes -> Jobs] /\ \A q \in Processes : q # p => job'[q] = job[q]
  BY <1>1, <1>2
<1>5. ~Filler(p)' /\ JobOK(p)' /\ VerifyOK(p)'
  BY <1>2, <1>4 DEF Filler, JobOK, VerifyOK, Settled, Ended, Freezing, Verifying
<1> QED  BY <1>3, <1>4, <1>5, AsideKeeps

LEMMA IdentifyKeeps ==
    ASSUME IInv, NEW p \in Processes,
           IdentifySource(p) \/ IdentifyTargets(p) \/ IdentifyEarly(p)
    PROVE  IInv'
<1> DEFINE j == job[p]
<1>1. /\ job \in [Processes -> Jobs] /\ disk \in Tools /\ j \in Jobs /\ JobOK(p)
      /\ UNCHANGED <<commits, work, disk, made, out, tampers, since>>
  BY DEF IInv, WorldOK, IdentifySource, IdentifyTargets, IdentifyEarly
<1>2. j.pc \in {"source", "targets", "early"} /\ Allowed(p)
  BY DEF IdentifySource, IdentifyTargets, IdentifyEarly
<1>3. j.tool \in Tools /\ j.commit \in 1..Len(commits)
  BY <1>1, <1>2 DEF JobOK, Freezing, Verifying, Ended
<1>4. ASSUME NEW r \in Jobs, job' = [job EXCEPT ![p] = r],
             r.tool = j.tool /\ r.commit = j.commit /\ r.early = j.early,
             \/ j.pc = "source" /\ r.pc = "targets"
             \/ j.pc = "targets" /\ r.pc = "early"
             \/ j.pc = "early" /\ r.pc = "output" /\ r.controller = disk
      PROVE  IInv'
  <2>1. job'[p] = r /\ job' \in [Processes -> Jobs] /\ \A q \in Processes : q # p => job'[q] = job[q]
    BY <1>1, <1>4
  <2>2. ~Filler(p)' /\ VerifyOK(p)'
    BY <2>1, <1>4 DEF Filler, VerifyOK, Settled
  <2>3. \A c \in 1..Len(commits) :
          /\ Sourced(c)' <=> Sourced(c)
          /\ Targeted(c)' <=> Targeted(c)
          /\ \A e : Earlied(c, e)' <=> Earlied(c, e)
    BY <1>1, OlderStay DEF OlderSame
  <2>4. /\ Sourced(j.commit)
        /\ j.pc \in {"targets", "early"} => Targeted(j.commit)
        /\ j.pc = "early" => Earlied(j.commit, j.early)
    BY <1>1, <1>2 DEF JobOK, Allowed, IdentifiesTargets, IdentifiesEarly, Sourced, Targeted, Earlied
  <2>5. JobOK(p)'
    BY <1>1, <1>3, <1>4, <2>1, <2>3, <2>4 DEF JobOK, Ended, Freezing, Verifying
  <2> QED  BY <1>1, <2>1, <2>2, <2>5, AsideKeeps
<1>5. CASE IdentifySource(p)
  <2> DEFINE r == [j EXCEPT !.pc = "targets"]
  <2>1. /\ r \in Jobs /\ r.tool = j.tool /\ r.commit = j.commit /\ r.early = j.early
        /\ r.pc = "targets" /\ j.pc = "source"
    BY <1>1, <1>5 DEF Jobs, Freezing, IdentifySource
  <2>2. job' = [job EXCEPT ![p] = r]
    BY <1>5 DEF IdentifySource, Step
  <2> HIDE DEF r
  <2> QED  BY <2>1, <2>2, <1>4
<1>6. CASE IdentifyTargets(p)
  <2> DEFINE r == [j EXCEPT !.pc = "early"]
  <2>1. /\ r \in Jobs /\ r.tool = j.tool /\ r.commit = j.commit /\ r.early = j.early
        /\ r.pc = "early" /\ j.pc = "targets"
    BY <1>1, <1>6 DEF Jobs, Freezing, IdentifyTargets
  <2>2. job' = [job EXCEPT ![p] = r]
    BY <1>6 DEF IdentifyTargets, Step
  <2> HIDE DEF r
  <2> QED  BY <2>1, <2>2, <1>4
<1>7. CASE IdentifyEarly(p)
  <2> DEFINE r == [j EXCEPT !.pc = "output", !.controller = disk]
  <2>1. /\ r \in Jobs /\ r.tool = j.tool /\ r.commit = j.commit /\ r.early = j.early
        /\ r.pc = "output" /\ r.controller = disk /\ j.pc = "early"
    BY <1>1, <1>7 DEF Jobs, Freezing, IdentifyEarly
  <2>2. job' = [job EXCEPT ![p] = r]
    BY <1>7 DEF IdentifyEarly
  <2> HIDE DEF r
  <2> QED  BY <2>1, <2>2, <1>4
<1> QED  BY <1>5, <1>6, <1>7

LEMMA CheckKeeps ==
    ASSUME IInv, NEW p \in Processes, ResolveFrozen(p) \/ ListFiles(p) \/ Compare(p)
    PROVE  IInv'
<1> DEFINE j == job[p]
           W == WriteOrder(j.early)
           C == CheckOrder(j.early)
<1>1. /\ job \in [Processes -> Jobs] /\ j \in Jobs /\ JobOK(p) /\ VerifyOK(p)
      /\ out \in [Names -> Values]
      /\ UNCHANGED <<commits, work, disk, made, out, tampers, since>>
  BY DEF IInv, WorldOK, ResolveFrozen, ListFiles, Compare
<1>2. j.pc \in {"resolve", "list", "check"} /\ Allowed(p)
  BY DEF ResolveFrozen, ListFiles, Compare
<1>3. j.tool \in Tools /\ j.commit \in 1..Len(commits) /\ Settled(p)
  BY <1>1, <1>2 DEF JobOK, Freezing, Verifying, Ended, Settled
<1>4. Planned(W, C)
  BY <1>1, AllPlanned DEF Jobs
<1>5. ASSUME NEW r \in Jobs, job' = [job EXCEPT ![p] = r],
             r.tool = j.tool, r.commit = j.commit, r.early = j.early, r.inv = j.inv,
             r.pc \in {"list", "check", "compare"},
             r.pc = "check" => r.n \in 1..Len(C),
             since[p] > 0 => /\ r.pc = "list" => Spoilt(j.early)
                             /\ r.pc = "check" => \E i \in r.n..Len(C) : Lost(C[i])
                             /\ r.pc # "compare"
      PROVE  IInv'
  <2>1. job'[p] = r /\ job' \in [Processes -> Jobs] /\ \A q \in Processes : q # p => job'[q] = job[q]
    BY <1>1, <1>5
  <2>2. ~Filler(p)' /\ JobOK(p)'
    BY <2>1, <1>1, <1>3, <1>5 DEF Filler, JobOK, Ended, Freezing, Verifying
  <2>3. \A q \in Processes : Filler(q)' <=> Filler(q)
    BY <2>1, <2>2, <1>2 DEF Filler
  <2>4. /\ Filled' <=> Filled
        /\ Inventoried' <=> Inventoried
        /\ \A e : Spoilt(e)' <=> Spoilt(e)
        /\ \A f : Lost(f)' <=> Lost(f)
    BY <1>1, <2>3 DEF Filled, Inventoried, Spoilt, Lost
  <2>5. VerifyOK(p)'
    BY <2>1, <2>4, <1>1, <1>3, <1>5 DEF VerifyOK
  <2> QED  BY <1>1, <2>1, <2>2, <2>5, AsideKeeps
<1>6. CASE ResolveFrozen(p)
  <2> DEFINE r == [j EXCEPT !.pc = "list"]
  <2>1. /\ r \in Jobs /\ r.tool = j.tool /\ r.commit = j.commit /\ r.early = j.early
        /\ r.inv = j.inv /\ r.pc = "list" /\ j.pc = "resolve"
    BY <1>1, <1>6 DEF Jobs, Verifying, ResolveFrozen
  <2>2. job' = [job EXCEPT ![p] = r]
    BY <1>6 DEF ResolveFrozen, Step
  <2>3. since[p] > 0 => Spoilt(j.early)
    BY <2>1, <1>1, <1>3 DEF VerifyOK
  <2> HIDE DEF r
  <2> QED  BY <2>1, <2>2, <2>3, <1>5
<1>7. CASE ListFiles(p)
  <2> DEFINE r == [j EXCEPT !.pc = "check", !.n = 1]
  <2>1. /\ r \in Jobs /\ r.tool = j.tool /\ r.commit = j.commit /\ r.early = j.early
        /\ r.inv = j.inv /\ r.pc = "check" /\ r.n = 1 /\ j.pc = "list"
    BY <1>1, <1>7 DEF Jobs, Verifying, ListFiles
  <2>2. job' = [job EXCEPT ![p] = r]
    BY <1>7 DEF ListFiles
  <2>3. {f \in Names : out[f] # NoFile} = ToSet(W)
    BY <2>1, <1>2 DEF Allowed
  <2>4. ASSUME since[p] > 0 PROVE \E i \in 1..Len(C) : Lost(C[i])
    <3>1. Spoilt(j.early)
      BY <2>1, <2>4, <1>1, <1>3 DEF VerifyOK
    <3>2. Extra \in Names
      BY DEF Names
    <3>3. out[Extra] = NoFile
      BY <2>3, <3>2, <1>4 DEF ToSet, Planned
    <3>4. PICK i \in 1..Len(W) : i # Len(W) /\ Lost(W[i])
      BY <3>1, <3>3 DEF Spoilt
    <3> QED  BY <3>4, <1>4 DEF Planned
  <2>5. 1 \in 1..Len(C)
    BY <1>4 DEF Planned
  <2> HIDE DEF r
  <2> QED  BY <2>1, <2>2, <2>4, <2>5, <1>5
<1>8. CASE Compare(p)
  <2> DEFINE pc == IF C[j.n] = Sums THEN "compare" ELSE "check"
             r == [j EXCEPT !.n = j.n + 1, !.pc = pc]
  <2>0. pc \in {"compare", "check"} /\ (pc = "compare" <=> C[j.n] = Sums)
    OBVIOUS
  <2>1. /\ r \in Jobs /\ r.tool = j.tool /\ r.commit = j.commit /\ r.early = j.early
        /\ r.inv = j.inv /\ r.n = j.n + 1 /\ j.pc = "check"
        /\ r.pc = pc
    <3>1. j.pc = "check"
      BY <1>8 DEF Compare
    <3>2. pc \in Verifying
      BY DEF Verifying
    <3>3. \A x \in Verifying, m \in Nat : [j EXCEPT !.n = m, !.pc = x] \in Jobs
      BY <1>1 DEF Jobs
    <3>4. j.n + 1 \in Nat
      BY <1>1 DEF Jobs
    <3> HIDE DEF pc
    <3>5. /\ r.tool = j.tool /\ r.commit = j.commit /\ r.early = j.early
          /\ r.inv = j.inv /\ r.n = j.n + 1 /\ r.pc = pc
      BY <1>1 DEF Jobs
    <3> QED  BY <3>1, <3>2, <3>3, <3>4, <3>5, Zenon
  <2>2. job' = [job EXCEPT ![p] = r]
    BY <1>8 DEF Compare, Due
  <2>3. j.n \in 1..Len(C)
    BY <2>1, <1>1, <1>3 DEF VerifyOK
  <2>4. C[j.n] = Sums <=> j.n = Len(C)
    BY <2>3, <1>4 DEF Planned
  <2>5. out[C[j.n]] = Bytes(C[j.n], j.commit, j.tool)
    BY <2>1, <1>2 DEF Allowed, Due
  <2>6. ~Lost(C[j.n])
    BY <2>5, ContentsDiffer DEF Lost
  <2>7. ASSUME since[p] > 0 PROVE \E i \in (j.n + 1)..Len(C) : Lost(C[i])
    <3>1. PICK i \in j.n..Len(C) : Lost(C[i])
      BY <2>1, <2>7, <1>1, <1>3 DEF VerifyOK
    <3>2. i # j.n
      BY <3>1, <2>6
    <3> QED  BY <3>1, <3>2, <2>3
  <2>8. Len(C) \in Nat
    BY <1>4 DEF Planned
  <2> HIDE DEF r, C, pc
  <2>9. r.pc = "check" => r.n \in 1..Len(C)
    BY <2>0, <2>1, <2>3, <2>4, <2>8
  <2>10. since[p] > 0 => (r.pc = "check" => \E i \in r.n..Len(C) : Lost(C[i])) /\ r.pc # "compare"
    BY <2>0, <2>1, <2>3, <2>4, <2>7, <2>8
  <2> QED  BY <2>0, <2>1, <2>2, <2>9, <2>10, <1>5
<1> QED  BY <1>6, <1>7, <1>8

LEMMA NamesHold == {Inventory, Extra} \subseteq Names /\ Inventory # Extra
  BY FilesDiffer DEF Names

LEMMA NewOutputKeeps ==
    ASSUME IInv, NEW p \in Processes, NewOutput(p)
    PROVE  IInv'
<1> DEFINE j == job[p]
           W == WriteOrder(j.early)
<1>1. /\ job \in [Processes -> Jobs] /\ j \in Jobs /\ JobOK(p) /\ WorldOK /\ Unclaimed
      /\ j.pc = "output" /\ Allowed(p) /\ ~made /\ made'
      /\ UNCHANGED <<commits, work, disk, out, tampers, since>>
  BY DEF IInv, WorldOK, NewOutput, Allowed
<1>2. /\ job'[p] = [j EXCEPT !.pc = "open", !.n = 1] /\ job' \in [Processes -> Jobs]
      /\ \A q \in Processes : q # p => job'[q] = job[q]
  <2>1. [j EXCEPT !.pc = "open", !.n = 1] \in Jobs
    BY <1>1 DEF Jobs, Freezing
  <2> QED  BY <2>1, <1>1 DEF NewOutput
<1>3. /\ job'[p].pc = "open" /\ job'[p].n = 1 /\ job'[p].tool = j.tool
      /\ job'[p].commit = j.commit /\ job'[p].early = j.early /\ job'[p].controller = j.controller
  BY <1>1, <1>2 DEF Jobs
<1>4. /\ tampers = 0 /\ (\A q \in Processes : ~Filler(q)) /\ (\A f \in Names : out[f] = NoFile)
  BY <1>1 DEF Unclaimed
<1>5. /\ \A c \in 1..Len(commits) : Valid(c, j.early) <=> Sourced(c) /\ Targeted(c) /\ Earlied(c, j.early)
      /\ j.commit \in 1..Len(commits)
      /\ j.tool \in Tools /\ j.controller \in Tools
      /\ Valid(j.commit, j.early)
  BY <1>1 DEF Valid, JobOK, Freezing, Verifying, Ended
<1>6. \A c \in 1..Len(commits) : \A e : Valid(c, e)' <=> Valid(c, e)
  BY <1>1, OlderStay DEF OlderSame
<1>7. Planned(W, CheckOrder(j.early))
  BY <1>1, AllPlanned DEF Jobs
<1>8. WorldOK'
  BY <1>1, <1>2 DEF WorldOK
<1>9. Unclaimed' /\ OneFiller'
  BY <1>1, <1>2, <1>4 DEF Unclaimed, OneFiller, Filler
<1>10. SealOK'
  BY <1>1, <1>4, NamesHold DEF SealOK, Inventoried
<1>11. ASSUME NEW q \in Processes PROVE JobOK(q)' /\ FillOK(q)' /\ VerifyOK(q)'
  <2>1. CASE q = p
    <3>1. JobOK(p)' /\ VerifyOK(p)'
      BY <1>1, <1>3, <1>5 DEF JobOK, VerifyOK, Settled
    <3>2. Len(W) \in Nat \ {0} /\ 1 \in 1..Len(W) /\ W[1] \in Names
      BY <1>7 DEF Planned
    <3>3. FillOK(p)'
      BY <1>1, <1>3, <1>4, <1>5, <1>6, <3>2, NamesHold DEF FillOK
    <3> QED  BY <2>1, <3>1, <3>3
  <2>2. CASE q # p
    <3>1. job'[q] = job[q] /\ ~Filler(q) /\ JobOK(q) /\ VerifyOK(q)
      BY <2>2, <1>2, <1>4 DEF IInv
    <3>2. ~Filler(q)' /\ ~Settled(q)'
      BY <3>1, <1>1 DEF Filler, Settled, VerifyOK, Filled
    <3>3. JobOK(q)'
      <4>1. \A c \in 1..Len(commits) :
              /\ Sourced(c)' <=> Sourced(c)
              /\ Targeted(c)' <=> Targeted(c)
              /\ \A e : Earlied(c, e)' <=> Earlied(c, e)
        BY <1>1, OlderStay DEF OlderSame
      <4> QED  BY <4>1, <3>1, <1>1 DEF JobOK, Freezing, Verifying
    <3> QED  BY <3>2, <3>3 DEF FillOK, VerifyOK
  <2> QED  BY <2>1, <2>2
<1> QED  BY <1>8, <1>9, <1>10, <1>11 DEF IInv

(* While one run fills the output no other run is past the inventory.          *)
LEMMA AloneFilling ==
    ASSUME IInv, NEW p \in Processes, Filler(p)
    PROVE  /\ made /\ ~Inventoried
           /\ \A q \in Processes : q # p => ~Filler(q)
           /\ \A q \in Processes : ~Settled(q)
  BY DEF IInv, Unclaimed, OneFiller, FillOK, VerifyOK, Filled, Inventoried

LEMMA OpenFileKeeps ==
    ASSUME IInv, NEW p \in Processes, OpenFile(p)
    PROVE  IInv'
<1> DEFINE j == job[p]
           W == WriteOrder(j.early)
<1>1. /\ job \in [Processes -> Jobs] /\ j \in Jobs /\ JobOK(p) /\ FillOK(p) /\ WorldOK
      /\ out \in [Names -> Values] /\ tampers \in Nat
      /\ j.pc = "open" /\ Allowed(p) /\ Filler(p)
      /\ out' = [out EXCEPT ![W[j.n]] = Partial]
      /\ job' = [job EXCEPT ![p].pc = "write"]
      /\ UNCHANGED <<commits, work, disk, made, tampers, since>>
  BY DEF IInv, WorldOK, OpenFile, Filler, Step, Place
<1>2. /\ job'[p] = [j EXCEPT !.pc = "write"] /\ job' \in [Processes -> Jobs]
      /\ \A q \in Processes : q # p => job'[q] = job[q]
  <2>1. [j EXCEPT !.pc = "write"] \in Jobs
    BY <1>1 DEF Jobs, Freezing
  <2> QED  BY <2>1, <1>1
<1>3. /\ job'[p].pc = "write" /\ job'[p].n = j.n /\ job'[p].tool = j.tool
      /\ job'[p].commit = j.commit /\ job'[p].early = j.early /\ job'[p].controller = j.controller
  BY <1>1, <1>2 DEF Jobs
<1>4. /\ made /\ ~Inventoried /\ (\A q \in Processes : q # p => ~Filler(q))
      /\ \A q \in Processes : ~Settled(q)
  BY <1>1, AloneFilling
<1>5. Planned(W, CheckOrder(j.early))
  BY <1>1, AllPlanned DEF Jobs
<1>6. /\ j.n \in 1..Len(W) /\ W[j.n] \in Names /\ W[j.n] # Extra /\ Len(W) \in Nat
      /\ \A i \in 1..Len(W) : i < j.n => W[i] # W[j.n] /\ W[i] \in Names
  BY <1>1, <1>5 DEF FillOK, Planned
<1>7. /\ out' \in [Names -> Values] /\ out'[W[j.n]] = Partial
      /\ \A f \in Names : f # W[j.n] => out'[f] = out[f]
  <2>1. Partial \in Values
    BY DEF Values
  <2> QED  BY <2>1, <1>1, <1>6
<1>8. out'[Inventory] \in {NoFile, Partial}
  BY <1>1, <1>7, NamesHold DEF FillOK
<1>9. WorldOK'
  BY <1>1, <1>2, <1>7 DEF WorldOK
<1>10. Unclaimed' /\ OneFiller'
  BY <1>1, <1>2, <1>4 DEF Unclaimed, OneFiller, Filler
<1>11. SealOK'
  BY <1>8 DEF SealOK, Inventoried
<1>12. OlderSame
  BY <1>1, OlderStay
<1>13. j.commit \in 1..Len(commits) /\ j.tool \in Tools
  BY <1>1 DEF JobOK, Freezing, Ended
<1>14. Builds(W[j.n], j.commit)
  BY <1>1 DEF Allowed, Place
<1>15. ASSUME NEW q \in Processes PROVE JobOK(q)' /\ FillOK(q)' /\ VerifyOK(q)'
  <2>1. CASE q = p
    <3>1. JobOK(p)' /\ VerifyOK(p)'
      BY <1>1, <1>3, <1>13 DEF JobOK, VerifyOK, Settled
    <3>2. /\ Valid(j.commit, j.early) /\ j.controller \in Tools
          /\ \A i \in 1..j.n : Builds(W[i], j.commit)
      BY <1>1, <1>14 DEF FillOK
    <3>3. ASSUME tampers = 0
          PROVE  /\ \A i \in 1..Len(W) : i < j.n => out'[W[i]] = Bytes(W[i], j.commit, j.tool)
                 /\ \A f \in Names : (\A i \in 1..j.n : f # W[i]) => out'[f] = NoFile
      BY <3>3, <1>1, <1>6, <1>7 DEF FillOK
    <3>4. ASSUME tampers > 0
          PROVE  out'[Extra] # NoFile \/ \E i \in 1..Len(W) : i < j.n /\ out'[W[i]] \in {NoFile, Junk}
      BY <3>4, <1>1, <1>6, <1>7, NamesHold DEF FillOK, Lost
    <3>5. FillOK(p)'
      BY <3>2, <3>3, <3>4, <1>1, <1>3, <1>6, <1>7, <1>8, <1>12, <1>13 DEF FillOK, Lost, OlderSame
    <3> QED  BY <2>1, <3>1, <3>5
  <2>2. CASE q # p
    <3>1. job'[q] = job[q] /\ ~Filler(q) /\ JobOK(q) /\ ~Settled(q)
      BY <2>2, <1>2, <1>4 DEF IInv
    <3>2. ~Filler(q)' /\ ~Settled(q)'
      BY <3>1 DEF Filler, Settled
    <3>3. JobOK(q)'
      BY <3>1, <1>1, <1>12 DEF JobOK, Freezing, Verifying, OlderSame
    <3> QED  BY <3>2, <3>3 DEF FillOK, VerifyOK
  <2> QED  BY <2>1, <2>2
<1> QED  BY <1>9, <1>10, <1>11, <1>15 DEF IInv

LEMMA CloseFileKeeps ==
    ASSUME IInv, NEW p \in Processes, CloseFile(p)
    PROVE  IInv'
<1> DEFINE j == job[p]
           W == WriteOrder(j.early)
           last == W[j.n] = Inventory
           pc == IF last THEN "read" ELSE "open"
           inv == InventoryOf(j.commit, j.early, j.controller, j.tool)
           new == IF last THEN inv ELSE Bytes(W[j.n], j.commit, j.tool)
<1>1. /\ job \in [Processes -> Jobs] /\ j \in Jobs /\ JobOK(p) /\ FillOK(p) /\ WorldOK
      /\ out \in [Names -> Values] /\ tampers \in Nat
      /\ j.pc = "write" /\ Filler(p)
      /\ UNCHANGED <<commits, work, disk, made, tampers, since>>
  BY DEF IInv, WorldOK, CloseFile, Filler
<1>2. /\ job'[p] = [j EXCEPT !.n = j.n + 1, !.pc = pc] /\ job' \in [Processes -> Jobs]
      /\ \A q \in Processes : q # p => job'[q] = job[q]
  <2>1. \A x \in Freezing \cup Verifying, m \in Nat : [j EXCEPT !.n = m, !.pc = x] \in Jobs
    BY <1>1 DEF Jobs
  <2>2. j.n + 1 \in Nat /\ pc \in Freezing \cup Verifying
    BY <1>1 DEF Jobs, Freezing, Verifying
  <2>3. job' = [job EXCEPT ![p] = [j EXCEPT !.n = j.n + 1, !.pc = pc]]
    BY <1>1 DEF CloseFile, Place
  <2> HIDE DEF pc
  <2> QED  BY <2>1, <2>2, <2>3, <1>1, Zenon
<1>3. /\ job'[p].pc = pc /\ job'[p].n = j.n + 1 /\ job'[p].tool = j.tool
      /\ job'[p].commit = j.commit /\ job'[p].early = j.early /\ job'[p].controller = j.controller
  <2> HIDE DEF pc
  <2> QED  BY <1>1, <1>2 DEF Jobs
<1>4. /\ made /\ ~Inventoried /\ (\A q \in Processes : q # p => ~Filler(q))
      /\ \A q \in Processes : ~Settled(q)
  BY <1>1, AloneFilling
<1>5. Planned(W, CheckOrder(j.early))
  BY <1>1, AllPlanned DEF Jobs
<1>6. /\ j.n \in 1..Len(W) /\ W[j.n] \in Names /\ W[j.n] # Extra /\ Len(W) \in Nat
      /\ (\A i \in 1..Len(W) : W[i] = Inventory <=> i = Len(W))
      /\ \A i \in 1..Len(W) : W[i] \in Names /\ (i # j.n => W[i] # W[j.n])
  BY <1>1, <1>5 DEF FillOK, Planned
<1>7. /\ j.commit \in 1..Len(commits) /\ j.tool \in Tools /\ j.controller \in Tools
      /\ Valid(j.commit, j.early) /\ j.early \in BOOLEAN
      /\ \A i \in 1..j.n : Builds(W[i], j.commit)
  BY <1>1 DEF JobOK, FillOK, Freezing, Ended, Jobs
<1>8. inv \in Inventories
  <2>1. j.commit \in 1..MaxCommits
    BY <1>1, <1>7, MaxCommitsAssumption DEF WorldOK
  <2> QED  BY <2>1, <1>7 DEF Inventories
<1>9. /\ out' \in [Names -> Values] /\ out'[W[j.n]] = new
      /\ \A f \in Names : f # W[j.n] => out'[f] = out[f]
  <2>1. Bytes(W[j.n], j.commit, j.tool) \in Values
    <3>1. /\ commits[j.commit].source \in Sources
          /\ RecordOf(W[j.n], j.commit) \in Records \cup EarlyRecords \cup {Nil}
      <4> DEFINE Kept == [source: Sources, record: Records \cup {Nil}, early: EarlyRecords \cup {Nil}]
      <4>1. commits[j.commit] \in Kept
        <5>1. commits \in Seq(Kept)
          BY <1>1 DEF WorldOK
        <5> HIDE DEF Kept
        <5> QED  BY <5>1, <1>7
      <4> QED  BY <4>1 DEF RecordOf
    <3> QED  BY <3>1, <1>6, <1>7 DEF Values, Bytes
  <2>2. new \in Values
    BY <2>1, <1>8 DEF Values
  <2>3. out' = [out EXCEPT ![W[j.n]] = new]
    BY DEF CloseFile, Place, Contents
  <2> HIDE DEF new
  <2> QED  BY <2>2, <2>3, <1>1, <1>6
<1>10. OlderSame
  BY <1>1, OlderStay
<1>11. WorldOK'
  BY <1>1, <1>2, <1>9 DEF WorldOK
<1>12. ASSUME NEW q \in Processes, q # p PROVE ~Filler(q)' /\ JobOK(q)' /\ FillOK(q)' /\ VerifyOK(q)'
  <2>1. job'[q] = job[q] /\ ~Filler(q) /\ JobOK(q) /\ ~Settled(q)
    BY <1>12, <1>2, <1>4 DEF IInv
  <2>2. ~Filler(q)' /\ ~Settled(q)'
    BY <2>1 DEF Filler, Settled
  <2>3. JobOK(q)'
    BY <2>1, <1>1, <1>10 DEF JobOK, Freezing, Verifying, OlderSame
  <2> QED  BY <2>2, <2>3 DEF FillOK, VerifyOK
<1>13. Unclaimed' /\ OneFiller'
  BY <1>1, <1>4, <1>12 DEF Unclaimed, OneFiller
<1>14. JobOK(p)' /\ VerifyOK(p)'
  BY <1>1, <1>3, <1>7 DEF JobOK, VerifyOK, Settled
<1>15. CASE ~last
  <2>1. j.n # Len(W) /\ j.n + 1 \in 1..Len(W) /\ pc = "open" /\ new = Bytes(W[j.n], j.commit, j.tool)
    BY <1>6, <1>15
  <2>2. out'[Inventory] = out[Inventory] /\ out'[Extra] = out[Extra]
    BY <1>6, <1>9, <1>15, NamesHold
  <2>3. SealOK'
    BY <2>2, <1>4 DEF SealOK, Inventoried
  <2>4. ASSUME tampers = 0
        PROVE  /\ \A i \in 1..Len(W) : i < j.n + 1 => out'[W[i]] = Bytes(W[i], j.commit, j.tool)
               /\ \A f \in Names : (\A i \in 1..(j.n + 1) : f # W[i]) => out'[f] = NoFile
               /\ out'[W[j.n + 1]] = NoFile
    <3>1. /\ \A i \in 1..Len(W) : i < j.n => out[W[i]] = Bytes(W[i], j.commit, j.tool)
          /\ \A f \in Names : (\A i \in 1..j.n : f # W[i]) => out[f] = NoFile
      BY <2>4, <1>1 DEF FillOK
    <3>2. \A i \in 1..Len(W) : i < j.n + 1 => out'[W[i]] = Bytes(W[i], j.commit, j.tool)
      BY <3>1, <2>1, <1>6, <1>9
    <3>3. \A f \in Names : (\A i \in 1..(j.n + 1) : f # W[i]) => out'[f] = NoFile
      BY <3>1, <1>6, <1>9
    <3>4. \A i \in 1..j.n : W[j.n + 1] # W[i]
      BY <2>1, <1>5, <1>6 DEF Planned
    <3>5. out'[W[j.n + 1]] = NoFile
      BY <3>1, <3>4, <2>1, <1>6, <1>9
    <3> QED  BY <3>2, <3>3, <3>5
  <2>5. ASSUME tampers > 0
        PROVE  out'[Extra] # NoFile \/ \E i \in 1..Len(W) : i < j.n + 1 /\ out'[W[i]] \in {NoFile, Junk}
    BY <2>5, <2>2, <1>1, <1>6, <1>9 DEF FillOK, Lost
  <2>6. out'[Inventory] \in {NoFile, Partial}
    BY <2>2, <1>1 DEF FillOK
  <2>7. \A i \in 1..(j.n + 1) : (i = j.n + 1 => pc = "write") => Builds(W[i], j.commit)
    BY <2>1, <1>6, <1>7
  <2>8. FillOK(p)'
    <3>1. PICK c \in 1..Len(commits), e \in BOOLEAN, t \in Tools :
            c = j.commit /\ e = j.early /\ t = j.tool
      BY <1>7
    <3> DEFINE V == WriteOrder(e)
    <3>2. /\ job'[p].n = j.n + 1 /\ job'[p].pc = "open" /\ job'[p].tool = t
          /\ job'[p].commit = c /\ job'[p].early = e /\ job'[p].controller \in Tools
          /\ j.n + 1 \in 1..Len(V) /\ pc = "open" /\ V = W /\ tampers' = tampers
      BY <2>1, <3>1, <1>1, <1>3, <1>7
    <3>3. /\ Valid(c, e)'
          /\ \A f : Builds(f, c)' <=> Builds(f, c)
          /\ \A f : Bytes(f, c, t)' = Bytes(f, c, t)
      BY <3>1, <1>7, <1>10 DEF OlderSame
    <3>4. \A i \in 1..(j.n + 1) : (i = j.n + 1 => pc = "write") => Builds(V[i], c)
      BY <2>7, <3>1
    <3>5. tampers = 0 =>
            /\ \A i \in 1..Len(V) : i < j.n + 1 => out'[V[i]] = Bytes(V[i], c, t)
            /\ \A f \in Names : (\A i \in 1..(j.n + 1) : f # V[i]) => out'[f] = NoFile
            /\ out'[V[j.n + 1]] = NoFile
      BY <2>4, <3>1
    <3>6. tampers > 0 => out'[Extra] # NoFile \/ \E i \in 1..Len(V) : i < j.n + 1 /\ out'[V[i]] \in {NoFile, Junk}
      BY <2>5, <3>1
    <3> HIDE DEF pc, new, V, W, inv
    <3> DEFINE n == j.n + 1
    <3>7. /\ n \in 1..Len(V) /\ Valid(c, e)' /\ job'[p].controller \in Tools
          /\ out'[Inventory] \in {NoFile, Partial}
          /\ \A i \in 1..n : (i = n => job'[p].pc = "write") => Builds(V[i], c)'
          /\ tampers' = 0 =>
               /\ \A i \in 1..Len(V) : i < n => out'[V[i]] = Bytes(V[i], c, t)'
               /\ \A f \in Names : (\A i \in 1..n : f # V[i]) => out'[f] = NoFile
               /\ out'[V[n]] = NoFile
          /\ tampers' > 0 => out'[Extra] # NoFile \/ \E i \in 1..Len(V) : i < n /\ out'[V[i]] \in {NoFile, Junk}
      BY <2>6, <3>2, <3>3, <3>4, <3>5, <3>6
    <3>8. job'[p].n = n
      BY <3>2
    <3> HIDE DEF n
    <3> QED  BY <3>2, <3>7, <3>8 DEF FillOK, Lost, V
  <2> HIDE DEF pc, new
  <2> QED  BY <2>3, <2>8, <1>11, <1>12, <1>13, <1>14 DEF IInv
<1>16. CASE last
  <2>1. PICK c \in 1..Len(commits), e \in BOOLEAN, k \in Tools, t \in Tools :
          c = j.commit /\ e = j.early /\ k = j.controller /\ t = j.tool
    BY <1>7
  <2> DEFINE V == WriteOrder(e)
             v == InventoryOf(c, e, k, t)
  <2>2. j.n = Len(V) /\ pc = "read" /\ new = v /\ V[Len(V)] = Inventory /\ V = W
    BY <1>6, <1>16, <2>1
  <2>3. out'[Inventory] = v /\ v \in Inventories
    BY <2>1, <2>2, <1>8, <1>9
  <2>4. v[2] = c /\ v[3] = e /\ v[5] = t
    BY ContentsDiffer
  <2> HIDE DEF pc, new, v
  <2>5. ~Filler(p)' /\ FillOK(p)'
    BY <2>2, <1>3 DEF Filler, FillOK
  <2>6. Filled'
    BY <2>5, <1>1, <1>4, <1>12 DEF Filled
  <2>7. /\ Valid(c, e)'
        /\ \A i \in 1..Len(V) : Builds(V[i], c)'
    BY <2>1, <2>2, <1>7, <1>10 DEF OlderSame
  <2>8. \A f \in Names : f # Inventory => out'[f] = out[f]
    BY <2>2, <1>9
  <2>9. ASSUME tampers = 0 PROVE \A f \in Names : out'[f] = Expected(f, v)'
    <3>1. /\ \A i \in 1..Len(V) : i < Len(V) => out[V[i]] = Bytes(V[i], c, t)'
          /\ \A f \in Names : (\A i \in 1..Len(V) : f # V[i]) => out[f] = NoFile
      BY <2>1, <2>2, <2>9, <1>1, <1>10 DEF FillOK, OlderSame
    <3>2. /\ \A i \in 1..Len(V) : i # Len(V) => i < Len(V)
          /\ \A f : f \in ToSet(V) <=> \E i \in 1..Len(V) : f = V[i]
      BY <1>5, <2>2 DEF Planned, ToSet
    <3> SUFFICES ASSUME NEW f \in Names PROVE out'[f] = Expected(f, v)'
      OBVIOUS
    <3>3. CASE f = Inventory
      BY <3>3, <2>3 DEF Expected
    <3>4. CASE f # Inventory /\ f \in ToSet(V)
      <4>1. PICK i \in 1..Len(V) : f = V[i] /\ i < Len(V)
        BY <3>2, <3>4, <2>2
      <4>2. out'[f] = Bytes(f, c, t)'
        BY <4>1, <3>1, <3>4, <2>8
      <4> QED  BY <4>2, <3>4, <2>4 DEF Expected
    <3>5. CASE f # Inventory /\ f \notin ToSet(V)
      <4>1. out'[f] = NoFile
        BY <3>1, <3>2, <3>5, <2>8
      <4> QED  BY <4>1, <3>5, <2>4 DEF Expected
    <3> QED  BY <3>3, <3>4, <3>5
  <2>10. ASSUME tampers > 0 PROVE Spoilt(e)'
    <3>1. out[Extra] # NoFile \/ \E i \in 1..Len(V) : i < Len(V) /\ out[V[i]] \in {NoFile, Junk}
      BY <2>1, <2>2, <2>10, <1>1 DEF FillOK, Lost
    <3>2. \A i \in 1..Len(V) : i < Len(V) => V[i] # Inventory /\ V[i] \in Names
      BY <1>6, <2>2
    <3> QED  BY <3>1, <3>2, <2>8, <1>6, <2>2, NamesHold DEF Spoilt, Lost
  <2>11. SealOK'
    BY <2>3, <2>4, <2>6, <2>7, <2>9, <2>10, <1>1 DEF SealOK
  <2> QED  BY <2>5, <2>11, <1>11, <1>12, <1>13, <1>14 DEF IInv
<1> QED  BY <1>15, <1>16

LEMMA ReadInventoryKeeps ==
    ASSUME IInv, NEW p \in Processes, ReadInventory(p)
    PROVE  IInv'
<1> DEFINE j == job[p]
<1>1. PICK inv : inv = out[Inventory]
  OBVIOUS
<1>2. /\ job \in [Processes -> Jobs] /\ since \in [Processes -> Nat] /\ tampers \in Nat
      /\ j \in Jobs /\ JobOK(p) /\ WorldOK /\ j.pc = "read" /\ Allowed(p)
      /\ UNCHANGED <<commits, work, disk, made, out, tampers>>
  BY DEF IInv, WorldOK, ReadInventory
<1>3. Inventoried /\ SealOK
  BY <1>2 DEF IInv, Allowed, Readable, Inventoried
<1>4. /\ Filled /\ inv \in Inventories /\ inv[2] \in 1..Len(commits) /\ inv[3] \in BOOLEAN
      /\ tampers > 0 => Spoilt(inv[3])
  <2>1. Filled /\ inv \in Inventories /\ inv[2] \in 1..Len(commits) /\ (tampers > 0 => Spoilt(inv[3]))
    BY <1>1, <1>3 DEF SealOK
  <2>2. inv[3] \in BOOLEAN
    BY <2>1 DEF Inventories, InventoryOf
  <2> QED  BY <2>1, <2>2
<1> DEFINE r == [Idle EXCEPT !.pc = "resolve", !.tool = j.tool, !.inv = inv,
                             !.commit = inv[2], !.early = inv[3]]
<1>5. j.tool \in Tools
  BY <1>2 DEF JobOK, Verifying, Ended
<1>6. /\ r \in Jobs /\ r.pc = "resolve" /\ r.tool = j.tool /\ r.inv = inv
      /\ r.commit = inv[2] /\ r.early = inv[3]
  <2>1. inv[2] \in Nat /\ inv[3] \in BOOLEAN /\ inv \in Inventories /\ j.tool \in Tools
    BY <1>4, <1>5
  <2>2. PICK c \in Nat, e \in BOOLEAN, t \in Tools : c = inv[2] /\ e = inv[3] /\ t = j.tool
    BY <2>1
  <2>3. r = [Idle EXCEPT !.pc = "resolve", !.tool = t, !.inv = inv, !.commit = c, !.early = e]
    BY <2>2
  <2> HIDE DEF r
  <2>4. r = [pc |-> "resolve", tool |-> t, commit |-> c, early |-> e,
             controller |-> Nil, n |-> 0, inv |-> inv]
    BY <2>3 DEF Idle
  <2>5. r \in Jobs
    BY <2>1, <2>4 DEF Jobs, Verifying
  <2>6. r.pc = "resolve" /\ r.tool = t /\ r.inv = inv /\ r.commit = c /\ r.early = e
    BY <2>4
  <2> QED  BY <2>2, <2>5, <2>6
<1>7. job' = [job EXCEPT ![p] = r] /\ since' = [since EXCEPT ![p] = tampers]
  BY <1>1 DEF ReadInventory
<1> HIDE DEF r
<1>8. /\ job'[p] = r /\ job' \in [Processes -> Jobs] /\ (\A q \in Processes : q # p => job'[q] = job[q])
      /\ since'[p] = tampers /\ since' \in [Processes -> Nat]
      /\ \A q \in Processes : q # p => since'[q] = since[q]
  BY <1>2, <1>6, <1>7
<1>9. \A q \in Processes : Filler(q)' <=> Filler(q)
  BY <1>2, <1>6, <1>8 DEF Filler
<1>10. /\ Filled' <=> Filled
       /\ Inventoried' <=> Inventoried
       /\ \A e : Spoilt(e)' <=> Spoilt(e)
       /\ \A f, v : Expected(f, v)' = Expected(f, v)
       /\ \A f : Lost(f)' <=> Lost(f)
  BY <1>2, <1>9 DEF Filled, Inventoried, Spoilt, Lost, Expected, Bytes, RecordOf
<1>11. OlderSame
  BY <1>2, OlderStay
<1>12. WorldOK'
  BY <1>2, <1>8 DEF WorldOK
<1>13. Unclaimed' /\ OneFiller'
  BY <1>2, <1>9 DEF IInv, Unclaimed, OneFiller
<1>14. SealOK'
  BY <1>2, <1>3, <1>10, <1>11 DEF SealOK, OlderSame
<1>15. ASSUME NEW q \in Processes PROVE JobOK(q)' /\ FillOK(q)' /\ VerifyOK(q)'
  <2>1. CASE q = p
    <3>1. JobOK(p)'
      BY <1>2, <1>4, <1>5, <1>6, <1>8 DEF JobOK
    <3>2. FillOK(p)'
      BY <1>6, <1>8 DEF FillOK, Filler
    <3>3. VerifyOK(p)'
      BY <1>1, <1>2, <1>3, <1>4, <1>6, <1>8, <1>10 DEF VerifyOK
    <3> QED  BY <2>1, <3>1, <3>2, <3>3
  <2>2. CASE q # p
    <3>1. job'[q] = job[q] /\ since'[q] = since[q] /\ JobOK(q) /\ VerifyOK(q) /\ ~Filler(q)
      BY <2>2, <1>4, <1>8 DEF IInv, Filled
    <3>2. (Settled(q)' <=> Settled(q)) /\ ~Filler(q)'
      BY <3>1, <1>9 DEF Settled
    <3>3. JobOK(q)'
      BY <3>1, <1>2, <1>11 DEF JobOK, Freezing, Verifying, OlderSame
    <3>4. VerifyOK(q)'
      BY <3>1, <3>2, <1>2, <1>10 DEF VerifyOK
    <3> QED  BY <3>2, <3>3, <3>4 DEF FillOK
  <2> QED  BY <2>1, <2>2
<1> QED  BY <1>12, <1>13, <1>14, <1>15 DEF IInv

(* What goes on around the runs.                                               *)
LEMMA CommitKeeps ==
    ASSUME IInv, NEW s \in Sources, Commit(s)
    PROVE  IInv'
<1> DEFINE CommitRows == [source: Sources, record: Records \cup {Nil}, early: EarlyRecords \cup {Nil}]
<1>1. /\ commits \in Seq(CommitRows) /\ Len(commits) \in 1..MaxCommits
      /\ work \in [record: Records \cup {Nil}, early: EarlyRecords \cup {Nil}]
      /\ Len(commits) < MaxCommits /\ MaxCommits \in Nat \ {0}
      /\ UNCHANGED <<work, disk, made, out, job, tampers, since>>
  BY MaxCommitsAssumption DEF IInv, WorldOK, Commit
<1>2. PICK row \in CommitRows : commits' = Append(commits, row)
  <2>1. commits[Len(commits)] \in CommitRows
    <3> HIDE DEF CommitRows
    <3> QED  BY <1>1
  <2>2. \A r \in {Tip.record, work.record}, e \in {Tip.early, work.early} :
          [source |-> s, record |-> r, early |-> e] \in CommitRows
    BY <2>1, <1>1 DEF Tip
  <2> QED  BY <2>2 DEF Commit
<1> HIDE DEF CommitRows
<1>3. /\ commits' \in Seq(CommitRows) /\ Len(commits') = Len(commits) + 1
      /\ \A c \in 1..Len(commits) : commits'[c] = commits[c]
  BY <1>1, <1>2
<1>4. Len(commits') \in 1..MaxCommits /\ \A c \in 1..Len(commits) : c \in 1..Len(commits')
  BY <1>1, <1>3
<1>5. OlderSame
  BY <1>3, OlderStay
<1>6. /\ \A q \in Processes : (Filler(q)' <=> Filler(q)) /\ (Settled(q)' <=> Settled(q))
      /\ Filled' <=> Filled
      /\ Inventoried' <=> Inventoried
      /\ \A e : Spoilt(e)' <=> Spoilt(e)
      /\ \A f : Lost(f)' <=> Lost(f)
  BY <1>1 DEF Filler, Settled, Filled, Inventoried, Spoilt, Lost
<1>7. WorldOK'
  BY <1>1, <1>3, <1>4 DEF IInv, WorldOK, CommitRows
<1>8. Unclaimed' /\ OneFiller'
  BY <1>1, <1>6 DEF IInv, Unclaimed, OneFiller
<1>9. SealOK'
  <2>1. \A f, v : v[2] \in 1..Len(commits) => Expected(f, v)' = Expected(f, v)
    BY <1>5 DEF Expected, OlderSame
  <2> QED  BY <2>1, <1>1, <1>4, <1>5, <1>6 DEF IInv, SealOK, OlderSame
<1>10. ASSUME NEW q \in Processes PROVE JobOK(q)' /\ FillOK(q)' /\ VerifyOK(q)'
  <2>1. JobOK(q) /\ FillOK(q) /\ VerifyOK(q) /\ job' = job /\ out' = out /\ tampers' = tampers /\ since' = since
    BY <1>1 DEF IInv
  <2>2. JobOK(q)'
    BY <2>1, <1>4, <1>5 DEF JobOK, Freezing, Verifying, OlderSame
  <2>3. job[q].pc \in (Freezing \cup Verifying) \ {"read"} => job[q].commit \in 1..Len(commits)
    BY <2>1 DEF JobOK
  <2>4. FillOK(q)'
    BY <2>1, <2>3, <1>5, <1>6 DEF FillOK, Filler, Freezing, Verifying, OlderSame
  <2>5. VerifyOK(q)'
    BY <2>1, <1>6 DEF VerifyOK
  <2> QED  BY <2>2, <2>4, <2>5
<1> QED  BY <1>7, <1>8, <1>9, <1>10 DEF IInv

LEMMA EditKeeps ==
    ASSUME IInv, UNCHANGED <<commits, made, out, job, tampers, since>>,
           work' \in [record: Records \cup {Nil}, early: EarlyRecords \cup {Nil}], disk' \in Tools
    PROVE  IInv'
<1>1. /\ \A q \in Processes : (Filler(q)' <=> Filler(q)) /\ (Settled(q)' <=> Settled(q))
      /\ Filled' <=> Filled
      /\ Inventoried' <=> Inventoried
      /\ \A e : Spoilt(e)' <=> Spoilt(e)
      /\ \A f : Lost(f)' <=> Lost(f)
      /\ \A f, v : Expected(f, v)' = Expected(f, v)
  BY DEF Filler, Settled, Filled, Inventoried, Spoilt, Lost, Expected, Bytes, RecordOf
<1>2. OlderSame
  BY OlderStay
<1>3. WorldOK' /\ Unclaimed' /\ OneFiller'
  BY <1>1 DEF IInv, WorldOK, Unclaimed, OneFiller
<1>4. SealOK'
  BY <1>1, <1>2 DEF IInv, SealOK, OlderSame
<1>5. ASSUME NEW q \in Processes PROVE JobOK(q)' /\ FillOK(q)' /\ VerifyOK(q)'
  <2>1. JobOK(q) /\ FillOK(q) /\ VerifyOK(q)
    BY DEF IInv
  <2>2. job[q].pc \in (Freezing \cup Verifying) \ {"read"} => job[q].commit \in 1..Len(commits)
    BY <2>1 DEF JobOK
  <2>3. JobOK(q)'
    BY <2>1, <2>2, <1>2 DEF JobOK, Freezing, Verifying, OlderSame
  <2>4. FillOK(q)'
    BY <2>1, <2>2, <1>1, <1>2 DEF FillOK, Filler, Freezing, Verifying, OlderSame
  <2>5. VerifyOK(q)'
    BY <2>1, <1>1 DEF VerifyOK
  <2> QED  BY <2>3, <2>4, <2>5
<1> QED  BY <1>3, <1>4, <1>5 DEF IInv

LEMMA TamperKeeps ==
    ASSUME IInv, Tamper
    PROVE  IInv'
<1>1. /\ out \in [Names -> Values] /\ tampers \in Nat /\ tampers' = tampers + 1 /\ made
      /\ UNCHANGED <<commits, work, disk, made, job, since>>
  BY DEF IInv, WorldOK, Tamper
<1>2. PICK f \in Names, x \in {NoFile, Junk} :
        /\ out' = [out EXCEPT ![f] = x]
        /\ (f # Extra /\ out[f] \notin {NoFile, Partial}) \/ (f = Extra /\ x = Junk)
  <2>1. CASE \E f \in Names \ {Extra} : out[f] \notin {NoFile, Partial}
                           /\ \E x \in {NoFile, Junk} : out' = [out EXCEPT ![f] = x]
    BY <2>1
  <2>2. CASE out' = [out EXCEPT ![Extra] = Junk]
    BY <2>2, NamesHold
  <2> QED  BY <2>1, <2>2 DEF Tamper
<1>3. /\ out' \in [Names -> Values] /\ out'[f] = x /\ \A g \in Names : g # f => out'[g] = out[g]
  <2>1. x \in Values
    BY DEF Values
  <2> QED  BY <2>1, <1>1, <1>2
<1>4. tampers' > 0 /\ tampers' \in Nat
  BY <1>1
<1>5. /\ \A g \in Names : Lost(g) => Lost(g)'
      /\ out[Extra] # NoFile => out'[Extra] # NoFile
      /\ Inventoried' => Inventoried /\ f # Inventory /\ out'[Inventory] = out[Inventory]
  BY <1>2, <1>3, ContentsDiffer, NamesHold DEF Lost, Inventoried
<1>6. /\ \A q \in Processes : (Filler(q)' <=> Filler(q)) /\ (Settled(q)' <=> Settled(q))
      /\ Filled' <=> Filled
  BY <1>1 DEF Filler, Settled, Filled
<1>7. ASSUME NEW e \in BOOLEAN, Spoilt(e) PROVE Spoilt(e)'
  <2>1. \A i \in 1..Len(WriteOrder(e)) : WriteOrder(e)[i] \in Names
    BY AllPlanned DEF Planned
  <2> QED  BY <2>1, <1>5, <1>7 DEF Spoilt
<1>8. OlderSame
  BY <1>1, OlderStay
<1>9. WorldOK' /\ Unclaimed' /\ OneFiller'
  BY <1>1, <1>3, <1>4, <1>6 DEF IInv, WorldOK, Unclaimed, OneFiller
<1>10. SealOK'
  <2> SUFFICES ASSUME Inventoried' PROVE SealOK'
    BY DEF SealOK
  <2>1. PICK inv : inv = out[Inventory] /\ inv = out'[Inventory] /\ f # Inventory
    BY <1>5
  <2> DEFINE W == WriteOrder(inv[3])
  <2>2. /\ Filled /\ inv \in Inventories /\ inv[2] \in 1..Len(commits)
        /\ Valid(inv[2], inv[3]) /\ (\A i \in 1..Len(W) : Builds(W[i], inv[2]))
        /\ tampers = 0 => \A g \in Names : out[g] = Expected(g, inv)
        /\ tampers > 0 => Spoilt(inv[3])
    BY <2>1, <1>5 DEF IInv, SealOK
  <2>3. inv[3] \in BOOLEAN
    BY <2>2 DEF Inventories, InventoryOf
  <2>4. Planned(W, CheckOrder(inv[3]))
    BY <2>3, AllPlanned
  <2>5. CASE tampers > 0
    BY <2>1, <2>2, <2>3, <2>5, <1>1, <1>4, <1>6, <1>7, <1>8, SMTT(30) DEF SealOK, OlderSame
  <2>6. CASE tampers = 0
    <3>1. Spoilt(inv[3])'
      <4>1. CASE f = Extra
        BY <4>1, <1>2, <1>3, ContentsDiffer DEF Spoilt
      <4>2. CASE f # Extra
        <5>1. out[f] # NoFile /\ out[f] = Expected(f, inv)
          BY <4>2, <1>2, <2>2, <2>6
        <5>2. f \in ToSet(W)
          BY <5>1, <2>1 DEF Expected
        <5>3. PICK i \in 1..Len(W) : f = W[i]
          BY <5>2, <2>4 DEF ToSet, Planned
        <5>4. i # Len(W)
          BY <5>3, <2>1, <2>4 DEF Planned
        <5>5. Lost(W[i])'
          BY <5>3, <1>3 DEF Lost
        <5> QED  BY <5>4, <5>5 DEF Spoilt
      <4> QED  BY <4>1, <4>2
    <3> QED  BY <3>1, <2>1, <2>2, <1>1, <1>4, <1>6, <1>8 DEF SealOK, OlderSame
  <2> QED  BY <2>5, <2>6, <1>1
<1>11. ASSUME NEW q \in Processes PROVE JobOK(q)' /\ FillOK(q)' /\ VerifyOK(q)'
  <2>1. JobOK(q) /\ FillOK(q) /\ VerifyOK(q) /\ job \in [Processes -> Jobs] /\ job[q].early \in BOOLEAN
        /\ since \in [Processes -> Nat]
    BY DEF IInv, WorldOK, Jobs
  <2>2. job[q].pc \in (Freezing \cup Verifying) \ {"read"} => job[q].commit \in 1..Len(commits)
    BY <2>1 DEF JobOK
  <2>3. JobOK(q)'
    BY <2>1, <2>2, <1>1, <1>8 DEF JobOK, Freezing, Verifying, OlderSame
  <2> DEFINE W == WriteOrder(job[q].early)
             C == CheckOrder(job[q].early)
  <2>4. Planned(W, C)
    BY <2>1, AllPlanned
  <2>5. FillOK(q)'
    <3> SUFFICES ASSUME Filler(q) PROVE FillOK(q)'
      BY <1>6 DEF FillOK
    <3>1. /\ job[q].n \in 1..Len(W) /\ Valid(job[q].commit, job[q].early) /\ job[q].controller \in Tools
          /\ out[Inventory] \in {NoFile, Partial}
          /\ \A i \in 1..job[q].n : (i = job[q].n => job[q].pc = "write") => Builds(W[i], job[q].commit)
          /\ job[q].commit \in 1..Len(commits)
      BY <2>1, <2>2 DEF FillOK, Filler, Freezing
    <3>2. out'[Inventory] \in {NoFile, Partial}
      BY <3>1, <1>2, <1>3, NamesHold
    <3>3. out'[Extra] # NoFile \/ \E i \in 1..Len(W) : i < job[q].n /\ out'[W[i]] \in {NoFile, Junk}
      <4>1. CASE tampers > 0
        <5>1. out[Extra] # NoFile \/ \E i \in 1..Len(W) : i < job[q].n /\ Lost(W[i])
          BY <4>1, <2>1 DEF FillOK
        <5>2. \A i \in 1..Len(W) : W[i] \in Names
          BY <2>4 DEF Planned
        <5>3. \A g \in Names : Lost(g) => out'[g] \in {NoFile, Junk}
          BY <1>5 DEF Lost
        <5> QED  BY <5>1, <5>2, <5>3, <1>5
      <4>2. CASE tampers = 0
        <5>1. CASE f = Extra
          BY <5>1, <1>2, <1>3, ContentsDiffer
        <5>2. CASE f # Extra
          <6>1. out[f] \notin {NoFile, Partial}
            BY <5>2, <1>2
          <6>2. /\ \A g \in Names : (\A i \in 1..job[q].n : g # W[i]) => out[g] = NoFile
                /\ out[W[job[q].n]] \in {NoFile, Partial}
            BY <4>2, <2>1 DEF FillOK
          <6>3. PICK i \in 1..job[q].n : f = W[i]
            BY <6>1, <6>2
          <6>4. i < job[q].n /\ i \in 1..Len(W)
            BY <6>1, <6>2, <6>3, <3>1, <2>4 DEF Planned
          <6> QED  BY <6>3, <6>4, <1>3
        <5> QED  BY <5>1, <5>2
      <4> QED  BY <4>1, <4>2, <1>1
    <3> QED  BY <3>1, <3>2, <3>3, <1>1, <1>4, <1>8 DEF FillOK, Lost, OlderSame
  <2>6. VerifyOK(q)'
    <3> SUFFICES ASSUME Settled(q) PROVE VerifyOK(q)'
      BY <1>6 DEF VerifyOK
    <3>1. /\ Filled /\ job[q].inv \in Inventories /\ job[q].commit = job[q].inv[2]
          /\ job[q].early = job[q].inv[3]
          /\ job[q].pc = "check" => job[q].n \in 1..Len(C)
          /\ since[q] <= tampers /\ since[q] \in Nat
          /\ since[q] > 0 => /\ job[q].pc \in {"resolve", "list"} => Spoilt(job[q].early)
                             /\ job[q].pc = "check" => \E i \in job[q].n..Len(C) : Lost(C[i])
                             /\ job[q].pc # "compare"
      BY <2>1 DEF VerifyOK
    <3>2. \A e \in BOOLEAN : Spoilt(e) => Spoilt(e)'
      BY <1>7
    <3>3. ASSUME since[q] > 0, job[q].pc = "check"
          PROVE  \E i \in job[q].n..Len(C) : out'[C[i]] \in {NoFile, Junk}
      <4>1. PICK i \in job[q].n..Len(C) : Lost(C[i])
        BY <3>1, <3>3
      <4>2. i \in 1..Len(C)
        BY <3>1, <3>3, <2>4 DEF Planned
      <4>3. C[i] \in Names
        BY <4>2, <2>4 DEF Planned
      <4>4. out'[C[i]] \in {NoFile, Junk}
        BY <4>1, <4>3, <1>5 DEF Lost
      <4> QED  BY <4>4
    <3> QED  BY <3>1, <3>2, <3>3, <2>1, <1>1, <1>4, <1>6 DEF VerifyOK, Lost
  <2> QED  BY <2>3, <2>5, <2>6
<1> QED  BY <1>9, <1>10, <1>11 DEF IInv

LEMMA InitKeeps == Init => IInv
<1> SUFFICES ASSUME Init PROVE IInv
  OBVIOUS
<1>1. PICK s \in Sources, r \in Records, e \in EarlyRecords \cup {Nil} :
        /\ commits = <<[source |-> s, record |-> r, early |-> e]>>
        /\ work = [record |-> r, early |-> e]
  BY DEF Init
<1>2. /\ disk \in Tools /\ made = FALSE /\ out = [f \in Names |-> NoFile]
      /\ job = [p \in Processes |-> Idle] /\ tampers = 0 /\ since = [p \in Processes |-> 0]
  BY DEF Init
<1>3. Idle \in Jobs /\ Idle.pc = "idle"
  BY DEF Idle, Jobs, Ended
<1>4. WorldOK
  <2>1. commits \in Seq([source: Sources, record: Records \cup {Nil}, early: EarlyRecords \cup {Nil}])
        /\ Len(commits) = 1
    BY <1>1
  <2>2. NoFile \in Values
    BY DEF Values
  <2>3. work \in [record: Records \cup {Nil}, early: EarlyRecords \cup {Nil}]
    BY <1>1
  <2>4. out \in [Names -> Values] /\ since \in [Processes -> Nat] /\ job \in [Processes -> Jobs]
    BY <2>2, <1>2, <1>3
  <2>5. Len(commits) \in 1..MaxCommits
    BY <2>1, MaxCommitsAssumption
  <2>6. made \in BOOLEAN /\ tampers \in Nat
    BY <1>2
  <2> QED  BY <2>1, <2>3, <2>4, <2>5, <2>6, <1>2 DEF WorldOK
<1>5. \A p \in Processes : job[p].pc = "idle"
  BY <1>2, <1>3
<1>6. Unclaimed /\ OneFiller
  BY <1>2, <1>5 DEF Unclaimed, OneFiller, Filler
<1>7. SealOK
  BY <1>2, NamesHold DEF SealOK, Inventoried
<1>8. \A p \in Processes : JobOK(p) /\ FillOK(p) /\ VerifyOK(p)
  BY <1>5 DEF JobOK, FillOK, VerifyOK, Filler, Settled, Ended, Freezing, Verifying
<1> QED  BY <1>4, <1>6, <1>7, <1>8 DEF IInv

LEMMA StepKeeps == IInv /\ [Next]_rvars => IInv'
<1> SUFFICES ASSUME IInv, [Next]_rvars PROVE IInv'
  OBVIOUS
<1>1. /\ work \in [record: Records \cup {Nil}, early: EarlyRecords \cup {Nil}] /\ disk \in Tools
  BY DEF IInv, WorldOK
<1>2. CASE UNCHANGED rvars
  BY <1>1, <1>2, EditKeeps DEF rvars
<1>3. ASSUME NEW p \in Processes, Run(p) PROVE IInv'
  <2>1. \/ \E c \in DOMAIN commits, early \in BOOLEAN : StartFreeze(p, c, early)
        \/ \E early \in BOOLEAN : StartVerify(p, early)
        \/ IdentifySource(p) \/ IdentifyTargets(p) \/ IdentifyEarly(p) \/ NewOutput(p)
        \/ OpenFile(p) \/ CloseFile(p)
        \/ ReadInventory(p) \/ ResolveFrozen(p) \/ ListFiles(p) \/ Compare(p) \/ Accept(p)
        \/ Refuse(p)
    BY <1>3 DEF Run
  <2>2. CASE \/ \E c \in DOMAIN commits, early \in BOOLEAN : StartFreeze(p, c, early)
             \/ \E early \in BOOLEAN : StartVerify(p, early)
    BY <2>2, StartKeeps
  <2>3. CASE IdentifySource(p) \/ IdentifyTargets(p) \/ IdentifyEarly(p)
    BY <2>3, IdentifyKeeps
  <2>4. CASE NewOutput(p)
    BY <2>4, NewOutputKeeps
  <2>5. CASE OpenFile(p)
    BY <2>5, OpenFileKeeps
  <2>6. CASE CloseFile(p)
    BY <2>6, CloseFileKeeps
  <2>7. CASE ReadInventory(p)
    BY <2>7, ReadInventoryKeeps
  <2>8. CASE ResolveFrozen(p) \/ ListFiles(p) \/ Compare(p)
    BY <2>8, CheckKeeps
  <2>9. CASE Accept(p) \/ Refuse(p)
    BY <2>9, EndKeeps
  <2> QED  BY <2>1, <2>2, <2>3, <2>4, <2>5, <2>6, <2>7, <2>8, <2>9
<1>4. CASE World
  <2>1. ASSUME NEW s \in Sources, Commit(s) PROVE IInv'
    BY <2>1, CommitKeeps
  <2>2. ASSUME NEW r \in Records \cup {Nil}, NEW e \in EarlyRecords \cup {Nil}, EditRecord(r, e) PROVE IInv'
    BY <2>2, <1>1, EditKeeps DEF EditRecord
  <2>3. ASSUME NEW tool \in Tools, EditTool(tool) PROVE IInv'
    BY <2>3, <1>1, EditKeeps DEF EditTool
  <2>4. CASE Tamper
    BY <2>4, TamperKeeps
  <2>5. ASSUME NEW p \in Processes, Crash(p) PROVE IInv'
    BY <2>5, EndKeeps
  <2> QED  BY <1>4, <2>1, <2>2, <2>3, <2>4, <2>5 DEF World
<1> QED  BY <1>2, <1>3, <1>4 DEF Next

LEMMA AlwaysIInv == Spec => []IInv
  BY InitKeeps, StepKeeps, PTL DEF Spec

(* What follows from the invariant.                                            *)
LEMMA TypesFollow == IInv => ReleasesTypeOK
<1> SUFFICES ASSUME IInv PROVE ReleasesTypeOK
  OBVIOUS
<1>1. /\ WorldOK /\ DOMAIN out = Names
      /\ DOMAIN commits = 1..Len(commits)
  BY DEF IInv, WorldOK
<1>2. ASSUME NEW p \in Processes
      PROVE  /\ job[p].pc \in Freezing \cup Verifying \cup Ended
             /\ job[p].pc \in {"open", "write"} => job[p].n \in DOMAIN WriteOrder(job[p].early)
             /\ job[p].pc = "check" => job[p].n \in DOMAIN CheckOrder(job[p].early)
             /\ job[p].pc \in (Freezing \cup Verifying) \ {"read"} => job[p].commit \in DOMAIN commits
  <2>1. JobOK(p) /\ FillOK(p) /\ VerifyOK(p) /\ job[p] \in Jobs
    BY <1>1 DEF IInv, WorldOK
  <2>2. job[p].pc \in Freezing \cup Verifying \cup Ended /\ job[p].early \in BOOLEAN
    BY <2>1 DEF Jobs
  <2>3. Planned(WriteOrder(job[p].early), CheckOrder(job[p].early))
    BY <2>2, AllPlanned
  <2>4. job[p].pc \in {"open", "write"} => job[p].n \in DOMAIN WriteOrder(job[p].early)
    BY <2>1, <2>3 DEF FillOK, Filler, Planned
  <2>5. job[p].pc = "check" => job[p].n \in DOMAIN CheckOrder(job[p].early)
    BY <2>1, <2>3 DEF VerifyOK, Settled, Planned
  <2>6. job[p].pc \in (Freezing \cup Verifying) \ {"read"} => job[p].commit \in DOMAIN commits
    BY <2>1, <1>1 DEF JobOK
  <2> QED  BY <2>2, <2>4, <2>5, <2>6
<1> QED  BY <1>1, <1>2 DEF ReleasesTypeOK, WorldOK

(* Types are kept, a run that fills or compares is at a place of its order, and *)
(* works on a commit there is.                                                 *)
THEOREM ReleasesTypeCorrect == Spec => []ReleasesTypeOK
  BY AlwaysIInv, TypesFollow, PTL
-----------------------------------------------------------------------------
(* What a verification finds in a sealed output.                               *)
LEMMA SealedHolds ==
    ASSUME IInv, Box[1] = "sealed"
    PROVE  /\ made /\ tampers = 0 /\ Inventoried /\ Exact
           /\ out[Inventory] \in Inventories
           /\ Valid(out[Inventory][2], out[Inventory][3])
           /\ \A i \in 1..Len(WriteOrder(out[Inventory][3])) :
                Builds(WriteOrder(out[Inventory][3])[i], out[Inventory][2])
<1>1. made /\ ~(tampers > 0) /\ Exact
  BY DEF Box
<1>2. Inventoried
  BY <1>1 DEF Exact, Inventoried
<1>3. tampers = 0
  BY <1>1 DEF IInv, WorldOK
<1> QED  BY <1>1, <1>2, <1>3 DEF IInv, SealOK

(* A plan without the early cohort has none of its archives.                   *)
LEMMA ShortHasNoEarly ==
    ASSUME NEW i \in 1..Len(WriteOrder(FALSE)), NEW t \in Early,
           WriteOrder(FALSE)[i] = Archive(t)
    PROVE  FALSE
<1>1. /\ Len(WriteOrder(FALSE)) = R + 2 /\ R \in Nat
      /\ \A k \in 1..R : WriteOrder(FALSE)[k] = Archive(RetainedOrder[k])
      /\ WriteOrder(FALSE)[R + 1] = Sums /\ WriteOrder(FALSE)[R + 2] = Inventory
  BY PlanShort, OrderFacts
<1>2. i \in 1..R \/ i = R + 1 \/ i = R + 2
  <2>1. i \in 1..(R + 2)
    BY <1>1, Zenon
  <2>2. R \in Nat
    BY <1>1
  <2> QED  BY <2>1, <2>2
<1>3. CASE i \in 1..R
  <2>1. RetainedOrder[i] = t
    BY <1>1, <1>3, FilesDiffer, Zenon
  <2> QED  BY <1>3, <2>1, OrderFacts, OrdersAssumption
<1>4. CASE i = R + 1 \/ i = R + 2
  BY <1>1, <1>4, FilesDiffer, Zenon
<1> QED  BY <1>2, <1>3, <1>4

LEMMA IntactFollows == IInv => IntactVerifies
<1> SUFFICES ASSUME IInv, NEW p \in Processes,
                    job[p].pc \in Verifying, Box[1] = "sealed",
                    Clean, out[Inventory][3] => CleanEarly,
                    \A i \in {4, 5} : out[Inventory][i] = disk,
                    job[p].tool = disk,
                    job[p].pc = "read" /\ job[p].early => out[Inventory][3]
             PROVE  Allowed(p)
  BY DEF IntactVerifies
<1> DEFINE j == job[p]
           inv == out[Inventory]
           W == WriteOrder(inv[3])
           C == CheckOrder(inv[3])
<1>1. /\ made /\ tampers = 0 /\ Inventoried /\ Exact /\ inv \in Inventories
      /\ Valid(inv[2], inv[3])
      /\ \A i \in 1..Len(W) : Builds(W[i], inv[2])
  BY SealedHolds
<1>2. inv[3] \in BOOLEAN /\ inv = InventoryOf(inv[2], inv[3], inv[4], inv[5])
  BY <1>1 DEF Inventories, InventoryOf
<1>3. Planned(W, C)
  BY <1>2, AllPlanned
<1>4. CASE j.pc = "read"
  BY <1>1, <1>4 DEF Allowed, Readable, Inventoried
<1>5. CASE j.pc # "read"
  <2>1. Settled(p)
    BY <1>5 DEF Settled, Verifying
  <2>2. /\ j.inv = inv /\ j.commit = inv[2] /\ j.early = inv[3]
        /\ j.pc = "check" => j.n \in 1..Len(C)
    BY <2>1, <1>1 DEF IInv, VerifyOK
  <2>3. SourceValid(commits[j.commit].source) /\ IdentifiesTargets(j.commit)
        /\ (j.early => IdentifiesEarly(j.commit))
    BY <2>2, <1>1 DEF Valid, Sourced, Targeted, Earlied, IdentifiesTargets, IdentifiesEarly
  <2>4. {f \in Names : out[f] # NoFile} = ToSet(W)
    <3>1. \A f : f \in ToSet(W) <=> \E i \in 1..Len(W) : f = W[i]
      BY <1>3, PlannedSet
    <3>2. \A f \in ToSet(W) : f \in Names
      BY <3>1, <1>3 DEF Planned
    <3>3. \A f \in Names : f = Inventory => f \in ToSet(W)
      <4>1. Len(W) \in 1..Len(W) /\ W[Len(W)] = Inventory
        BY <1>3 DEF Planned
      <4> QED  BY <4>1, <3>1
    <3>4. \A f \in Names : out[f] # NoFile <=> f \in ToSet(W)
      <4> SUFFICES ASSUME NEW f \in Names PROVE out[f] # NoFile <=> f \in ToSet(W)
        OBVIOUS
      <4>1. out[f] = Expected(f, inv)
        BY <1>1 DEF Exact
      <4>2. CASE f = Inventory
        BY <4>2, <3>3, <1>1 DEF Inventoried
      <4>3. CASE f # Inventory
        BY <4>1, <4>3, ContentsDiffer DEF Expected
      <4> QED  BY <4>2, <4>3
    <3> QED  BY <3>2, <3>4
  <2>5. ASSUME j.pc = "check"
        PROVE  /\ CleanFor(Due(p)) /\ Builds(Due(p), j.commit)
               /\ out[Due(p)] = Bytes(Due(p), j.commit, j.tool)
    <3>1. PICK f : f = Due(p)
      OBVIOUS
    <3>2. j.n \in 1..Len(C) /\ f = C[j.n]
      BY <2>2, <2>5, <3>1 DEF Due
    <3>3. PICK i \in 1..Len(W) : W[i] = f
      BY <3>2, <1>3 DEF Planned
    <3>4. f # Inventory /\ f \in ToSet(W) /\ f \in Names
      <4>1. f # Inventory /\ f \in Names
        BY <3>2, <3>3, <1>3 DEF Planned
      <4>2. f \in ToSet(W)
        BY <3>3, <1>3, PlannedSet
      <4> QED  BY <4>1, <4>2
    <3>5. out[f] = Bytes(f, inv[2], inv[5])
      BY <3>4, <1>1 DEF Exact, Expected
    <3>6. CleanFor(f)
      <4>1. ASSUME NEW t \in Early, f = Archive(t) PROVE CleanEarly
        BY <4>1, <1>2, <3>3, ShortHasNoEarly
      <4> QED  BY <4>1 DEF CleanFor
    <3>7. Builds(f, inv[2])
      BY <3>3, <1>1
    <3> QED  BY <3>1, <3>5, <3>6, <3>7, <2>2
  <2>6. ASSUME j.pc = "compare" PROVE j.inv = InventoryOf(j.commit, j.early, j.inv[4], j.tool)
    BY <2>2, <1>2
  <2> QED  BY <2>2, <2>3, <2>4, <2>5, <2>6, <1>5 DEF Allowed, Verifying
<1> QED  BY <1>4, <1>5

(* For every plan, record and version of the tool: a verification of an        *)
(* untouched output by the controller that made it cannot fail while the       *)
(* worktree has the records it was frozen by, as HEAD has them.                *)
THEOREM IntactAlwaysVerifies == Spec => []IntactVerifies
  BY AlwaysIInv, IntactFollows, PTL
-----------------------------------------------------------------------------
(* The refinement: what custody sees of a state, and of one step of a run.     *)
Lookings == [p \in Processes |-> IF Looking(p) THEN job[p].commit ELSE Nil]
Acceptances == [p \in Processes |-> IF job[p].pc = "accepted" THEN job[p].commit ELSE Nil]

BoxSeen ==
    IF ~made THEN <<"none", Nil>>
    ELSE IF tampers > 0 THEN <<"spoiled", Nil>>
    ELSE IF Inventoried THEN <<"sealed", out[Inventory][2]>>
    ELSE <<"filling", Nil>>

LEMMA BoxIs == IInv => Box = BoxSeen
<1> SUFFICES ASSUME IInv PROVE Box = BoxSeen
  OBVIOUS
<1>1. made /\ ~(tampers > 0) => (Exact <=> Inventoried)
  BY DEF IInv, WorldOK, SealOK, Exact, Inventoried
<1> QED  BY <1>1 DEF Box, BoxSeen

(* The box depends on the output and the commits alone.                        *)
LEMMA BoxStays ==
    ASSUME UNCHANGED <<commits, made, out, tampers>>
    PROVE  Box' = Box
  BY DEF Box, Exact, Expected, Bytes, RecordOf

LEMMA OnlyThat ==
    ASSUME NEW p \in Processes, NEW x, NEW y,
           \A q \in Processes : q # p => job'[q] = job[q] /\ since'[q] = since[q],
           x = IF Looking(p)' THEN job'[p].commit ELSE Nil,
           y = IF job'[p].pc = "accepted" THEN job'[p].commit ELSE Nil
    PROVE  /\ Lookings' = [Lookings EXCEPT ![p] = x]
           /\ Acceptances' = [Acceptances EXCEPT ![p] = y]
<1>1. \A q \in Processes : q # p => (Looking(q)' <=> Looking(q))
  BY DEF Looking
<1>2. Lookings' = [Lookings EXCEPT ![p] = x]
  BY <1>1 DEF Lookings
<1>3. Acceptances' = [Acceptances EXCEPT ![p] = y]
  BY DEF Acceptances
<1> QED  BY <1>2, <1>3

LEMMA CustodyStarts == Init => Custody!Init
<1> SUFFICES ASSUME Init PROVE Custody!Init
  OBVIOUS
<1>1. Box = <<"none", Nil>>
  BY DEF Init, Box
<1>2. \A p \in Processes : job[p].pc = "idle"
  BY DEF Init, Idle
<1>3. \A p \in Processes : ~Looking(p)
  BY <1>2 DEF Looking, Verifying
<1>4. Lookings = [p \in Processes |-> Nil] /\ Acceptances = [p \in Processes |-> Nil]
  BY <1>2, <1>3 DEF Lookings, Acceptances
<1> QED  BY <1>1, <1>4 DEF Custody!Init, Lookings, Acceptances

(* Custody's actions in terms of what it sees.                                 *)
LEMMA CustodyForms ==
    /\ Box' = Box /\ Lookings' = Lookings /\ Acceptances' = Acceptances
         => UNCHANGED Custody!cvars
    /\ Lookings' = Lookings /\ Acceptances' = Acceptances =>
         /\ Box = <<"none", Nil>> /\ Box' = <<"filling", Nil>> => Custody!Claim
         /\ Box = <<"filling", Nil>> /\ (\E c \in 1..MaxCommits : Box' = <<"sealed", c>>) => Custody!Seal
         /\ Box # <<"none", Nil>> /\ Box' = <<"spoiled", Nil>> => Custody!Spoil
    /\ Box' = Box =>
         \A p \in Processes :
           /\ Lookings' = [Lookings EXCEPT ![p] = Nil] /\ Acceptances' = [Acceptances EXCEPT ![p] = Nil]
                => Custody!Leave(p)
           /\ Box[1] = "sealed" /\ Lookings' = [Lookings EXCEPT ![p] = Box[2]]
                /\ Acceptances' = [Acceptances EXCEPT ![p] = Nil]
                => Custody!Look(p)
           /\ Lookings[p] # Nil /\ Acceptances' = [Acceptances EXCEPT ![p] = Lookings[p]]
                /\ Lookings' = [Lookings EXCEPT ![p] = Nil]
                => Custody!Accept(p)
<1>1. Box' = Box /\ Lookings' = Lookings /\ Acceptances' = Acceptances => UNCHANGED Custody!cvars
  BY DEF Custody!cvars, Lookings, Acceptances
<1>2. Lookings' = Lookings /\ Acceptances' = Acceptances /\ Box = <<"none", Nil>>
        /\ Box' = <<"filling", Nil>> => Custody!Claim
  BY DEF Custody!Claim, Lookings, Acceptances
<1>3. Lookings' = Lookings /\ Acceptances' = Acceptances /\ Box = <<"filling", Nil>>
        /\ (\E c \in 1..MaxCommits : Box' = <<"sealed", c>>) => Custody!Seal
  BY DEF Custody!Seal, Lookings, Acceptances
<1>4. Lookings' = Lookings /\ Acceptances' = Acceptances /\ Box # <<"none", Nil>>
        /\ Box' = <<"spoiled", Nil>> => Custody!Spoil
  BY DEF Custody!Spoil, Lookings, Acceptances
<1>5. ASSUME NEW p \in Processes, Box' = Box
      PROVE  /\ Lookings' = [Lookings EXCEPT ![p] = Nil] /\ Acceptances' = [Acceptances EXCEPT ![p] = Nil]
                  => Custody!Leave(p)
             /\ Box[1] = "sealed" /\ Lookings' = [Lookings EXCEPT ![p] = Box[2]]
                  /\ Acceptances' = [Acceptances EXCEPT ![p] = Nil]
                  => Custody!Look(p)
             /\ Lookings[p] # Nil /\ Acceptances' = [Acceptances EXCEPT ![p] = Lookings[p]]
                  /\ Lookings' = [Lookings EXCEPT ![p] = Nil]
                  => Custody!Accept(p)
  BY <1>5 DEF Custody!Leave, Custody!Look, Custody!Accept, Custody!Sealed, Lookings, Acceptances
<1> QED  BY <1>1, <1>2, <1>3, <1>4, <1>5

LEMMA LeaveSteps ==
    ASSUME IInv, IInv', NEW p \in Processes,
           \/ \E c \in DOMAIN commits, early \in BOOLEAN : StartFreeze(p, c, early)
           \/ \E early \in BOOLEAN : StartVerify(p, early)
           \/ Refuse(p) \/ Crash(p)
    PROVE  Custody!Leave(p)
<1>1. job \in [Processes -> Jobs] /\ UNCHANGED <<commits, made, out, tampers, since>>
  BY Zenon DEF IInv, WorldOK, StartFreeze, StartVerify, Refuse, Crash
<1>2. /\ job'[p].pc \in {"source", "read", "failed", "crashed"}
      /\ \A q \in Processes : q # p => job'[q] = job[q]
  <2>1. /\ \A c, early : [Idle EXCEPT !.pc = "source", !.tool = disk, !.commit = c, !.early = early].pc = "source"
        /\ \A early : [Idle EXCEPT !.pc = "read", !.tool = disk, !.early = early].pc = "read"
        /\ \A pc : [Idle EXCEPT !.pc = pc].pc = pc
    BY DEF Idle
  <2>2. CASE Refuse(p)
    BY <2>1, <2>2, <1>1 DEF Refuse, End
  <2>3. CASE Crash(p)
    BY <2>1, <2>3, <1>1 DEF Crash, End
  <2>4. CASE \E c \in DOMAIN commits, early \in BOOLEAN : StartFreeze(p, c, early)
    <3>1. PICK c, early : job' = [job EXCEPT ![p] = [Idle EXCEPT !.pc = "source", !.tool = disk,
                                                            !.commit = c, !.early = early]]
      BY <2>4, Zenon DEF StartFreeze
    <3> QED  BY <3>1, <2>1, <1>1
  <2>5. CASE \E early \in BOOLEAN : StartVerify(p, early)
    <3>1. PICK early : job' = [job EXCEPT ![p] = [Idle EXCEPT !.pc = "read", !.tool = disk,
                                                         !.early = early]]
      BY <2>5, Zenon DEF StartVerify
    <3> QED  BY <3>1, <2>1, <1>1
  <2> QED  BY <2>2, <2>3, <2>4, <2>5
<1>3. \A q \in Processes : q # p => job'[q] = job[q] /\ since'[q] = since[q]
  BY <1>1, <1>2
<1>4. ~Looking(p)' /\ job'[p].pc # "accepted"
  BY <1>2, <1>3 DEF Looking, Verifying
<1>5. Lookings' = [Lookings EXCEPT ![p] = Nil] /\ Acceptances' = [Acceptances EXCEPT ![p] = Nil]
  BY <1>3, <1>4, OnlyThat
<1> QED  BY <1>1, <1>5, BoxStays, CustodyForms

(* A step of a run that neither sets out nor ends.                             *)
LEMMA SilentRun ==
    ASSUME NEW p \in Processes, since' = since,
           \A q \in Processes : q # p => job'[q] = job[q],
           job[p].pc \notin Ended, job'[p].pc \notin Ended, job'[p].commit = job[p].commit,
           \/ {job[p].pc, job'[p].pc} \subseteq Freezing \cup {"read"}
           \/ {job[p].pc, job'[p].pc} \subseteq Verifying \ {"read"}
    PROVE  Lookings' = Lookings /\ Acceptances' = Acceptances
<1>1. /\ since'[p] = since[p]
      /\ \A q \in Processes : q # p => job'[q] = job[q] /\ since'[q] = since[q]
  OBVIOUS
<1>2. Looking(p)' <=> Looking(p)
  BY <1>1 DEF Looking, Freezing, Verifying
<1>3. \A q \in Processes : (Looking(q)' <=> Looking(q)) /\ (Looking(q) => job'[q].commit = job[q].commit)
  BY <1>1, <1>2 DEF Looking
<1>4. \A q \in Processes : q # p => job'[q] = job[q]
  BY <1>1
<1>5. job[p].pc # "accepted" /\ job'[p].pc # "accepted"
  BY <1>1 DEF Ended
<1>6. Lookings' = Lookings
  BY <1>3 DEF Lookings
<1>7. Acceptances' = Acceptances
  BY <1>4, <1>5 DEF Acceptances
<1> QED  BY <1>6, <1>7

LEMMA LookSteps ==
    ASSUME IInv, IInv', NEW p \in Processes, ReadInventory(p)
    PROVE  Custody!Look(p) \/ UNCHANGED Custody!cvars
<1>1. /\ job \in [Processes -> Jobs] /\ since \in [Processes -> Nat] /\ tampers \in Nat
      /\ job[p].pc = "read" /\ Allowed(p) /\ UNCHANGED <<commits, made, out, tampers>>
  BY DEF IInv, WorldOK, ReadInventory
<1>2. Box' = Box
  BY <1>1, BoxStays
<1>3. Inventoried /\ made
  BY <1>1 DEF IInv, Allowed, Readable, Inventoried, SealOK, Filled
<1> DEFINE r == [Idle EXCEPT !.pc = "resolve", !.tool = job[p].tool, !.inv = out[Inventory],
                             !.commit = out[Inventory][2], !.early = out[Inventory][3]]
<1>4. r.pc = "resolve" /\ r.commit = out[Inventory][2]
  BY DEF Idle
<1>5. job' = [job EXCEPT ![p] = r] /\ since' = [since EXCEPT ![p] = tampers]
  BY DEF ReadInventory
<1> HIDE DEF r
<1>6. /\ job'[p] = r /\ since'[p] = tampers
      /\ \A q \in Processes : q # p => job'[q] = job[q] /\ since'[q] = since[q]
  BY <1>1, <1>5
<1>7. ~Looking(p) /\ job[p].pc # "accepted" /\ job'[p].pc # "accepted"
  BY <1>1, <1>4, <1>6 DEF Looking
<1>8. Looking(p)' <=> tampers = 0
  BY <1>4, <1>6 DEF Looking, Verifying
<1>9. CASE tampers = 0
  <2>1. Box = <<"sealed", out[Inventory][2]>>
    BY <1>3, <1>9, BoxIs DEF BoxSeen
  <2>2. /\ Lookings' = [Lookings EXCEPT ![p] = out[Inventory][2]]
        /\ Acceptances' = [Acceptances EXCEPT ![p] = Nil]
    BY <1>4, <1>6, <1>7, <1>8, <1>9, OnlyThat
  <2> QED  BY <2>1, <2>2, <1>2, CustodyForms
<1>10. CASE tampers # 0
  <2>1. Lookings' = [Lookings EXCEPT ![p] = Nil] /\ Acceptances' = [Acceptances EXCEPT ![p] = Nil]
    BY <1>6, <1>7, <1>8, <1>10, OnlyThat
  <2>2. Lookings[p] = Nil /\ Acceptances[p] = Nil
    BY <1>7 DEF Lookings, Acceptances
  <2>3. Lookings' = Lookings /\ Acceptances' = Acceptances
    BY <2>1, <2>2 DEF Lookings, Acceptances
  <2> QED  BY <2>3, <1>2, CustodyForms
<1> QED  BY <1>9, <1>10

LEMMA AcceptSteps ==
    ASSUME IInv, IInv', NEW p \in Processes, Accept(p)
    PROVE  Custody!Accept(p)
<1>1. /\ job \in [Processes -> Jobs] /\ since \in [Processes -> Nat] /\ job[p].pc = "compare"
      /\ UNCHANGED <<commits, made, out, tampers, since>> /\ JobOK(p) /\ VerifyOK(p) /\ WorldOK
  BY DEF IInv, WorldOK, Accept
<1>2. since[p] = 0
  BY <1>1 DEF VerifyOK, Settled
<1>3. Looking(p)
  BY <1>1, <1>2 DEF Looking, Verifying
<1>4. job[p].commit # Nil
  <2>1. job[p].commit \in 1..MaxCommits
    BY <1>1, MaxCommitsAssumption DEF JobOK, WorldOK, Verifying
  <2> QED  BY <2>1, NilAssumption
<1> DEFINE r == [Idle EXCEPT !.pc = "accepted", !.commit = job[p].commit]
<1>5. r.pc = "accepted" /\ r.commit = job[p].commit
  BY DEF Idle
<1>6. job' = [job EXCEPT ![p] = r]
  BY DEF Accept
<1> HIDE DEF r
<1>7. job'[p] = r /\ \A q \in Processes : q # p => job'[q] = job[q] /\ since'[q] = since[q]
  BY <1>1, <1>6
<1>8. ~Looking(p)'
  BY <1>5, <1>7 DEF Looking, Verifying
<1>9. Lookings' = [Lookings EXCEPT ![p] = Nil] /\ Acceptances' = [Acceptances EXCEPT ![p] = job[p].commit]
  BY <1>5, <1>7, <1>8, OnlyThat
<1>10. Lookings[p] = job[p].commit
  BY <1>3 DEF Lookings
<1> QED  BY <1>1, <1>4, <1>9, <1>10, BoxStays, CustodyForms

LEMMA SilentSteps ==
    ASSUME IInv, IInv', NEW p \in Processes,
           \/ IdentifySource(p) \/ IdentifyTargets(p) \/ IdentifyEarly(p)
           \/ ResolveFrozen(p) \/ ListFiles(p) \/ Compare(p)
    PROVE  UNCHANGED Custody!cvars
<1>1. /\ job \in [Processes -> Jobs] /\ job' \in [Processes -> Jobs]
      /\ UNCHANGED <<commits, made, out, tampers, since>>
  BY DEF IInv, WorldOK, IdentifySource, IdentifyTargets, IdentifyEarly, ResolveFrozen, ListFiles, Compare
<1>2. /\ job'[p].commit = job[p].commit
      /\ \A q \in Processes : q # p => job'[q] = job[q]
      /\ \/ job[p].pc \in {"source", "targets", "early"} /\ job'[p].pc \in {"targets", "early", "output"}
         \/ job[p].pc \in {"resolve", "list", "check"} /\ job'[p].pc \in {"list", "check", "compare"}
  <2>1. job[p] \in Jobs
    BY <1>1
  <2>2. CASE IdentifySource(p)
    BY <1>1, <2>1, <2>2 DEF IdentifySource, Step, Jobs
  <2>3. CASE IdentifyTargets(p)
    BY <1>1, <2>1, <2>3 DEF IdentifyTargets, Step, Jobs
  <2>4. CASE IdentifyEarly(p)
    BY <1>1, <2>1, <2>4 DEF IdentifyEarly, Jobs
  <2>5. CASE ResolveFrozen(p)
    BY <1>1, <2>1, <2>5 DEF ResolveFrozen, Step, Jobs
  <2>6. CASE ListFiles(p)
    BY <1>1, <2>1, <2>6 DEF ListFiles, Jobs
  <2>7. CASE Compare(p)
    BY <1>1, <2>1, <2>7 DEF Compare, Jobs
  <2> QED  BY <2>2, <2>3, <2>4, <2>5, <2>6, <2>7
<1>3. Lookings' = Lookings /\ Acceptances' = Acceptances
  BY <1>1, <1>2, SilentRun DEF Ended, Freezing, Verifying
<1> QED  BY <1>1, <1>3, BoxStays, CustodyForms

LEMMA FillSteps ==
    ASSUME IInv, IInv', NEW p \in Processes, NewOutput(p) \/ OpenFile(p) \/ CloseFile(p)
    PROVE  Custody!Claim \/ Custody!Seal \/ UNCHANGED Custody!cvars
<1>1. /\ job \in [Processes -> Jobs] /\ job' \in [Processes -> Jobs] /\ job[p] \in Jobs
      /\ UNCHANGED <<commits, tampers, since>> /\ tampers \in Nat
  BY DEF IInv, WorldOK, NewOutput, OpenFile, CloseFile
<1>2. /\ job'[p].commit = job[p].commit
      /\ \A q \in Processes : q # p => job'[q] = job[q]
      /\ job[p].pc \in {"output", "open", "write"} /\ job'[p].pc \in {"open", "write", "read"}
  <2>1. CASE NewOutput(p)
    BY <1>1, <2>1 DEF NewOutput, Jobs
  <2>2. CASE OpenFile(p)
    BY <1>1, <2>2 DEF OpenFile, Step, Jobs
  <2>3. CASE CloseFile(p)
    BY <1>1, <2>3 DEF CloseFile, Jobs
  <2> QED  BY <2>1, <2>2, <2>3
<1>3. Lookings' = Lookings /\ Acceptances' = Acceptances
  BY <1>1, <1>2, SilentRun DEF Ended, Freezing, Verifying
<1>4. CASE NewOutput(p)
  <2>1. ~made /\ made' /\ out' = out /\ Unclaimed
    BY <1>4 DEF NewOutput, Allowed, IInv
  <2>2. tampers = 0 /\ ~Inventoried
    BY <2>1, NamesHold DEF Unclaimed, Inventoried
  <2>3. ~Inventoried' /\ tampers' = 0
    BY <2>1, <2>2, <1>1 DEF Inventoried
  <2>4. Box = <<"none", Nil>> /\ Box' = <<"filling", Nil>>
    <3>1. Box = <<"none", Nil>>
      BY <2>1, BoxIs DEF BoxSeen
    <3>2. (Box = BoxSeen)'
      BY BoxIs, PTL
    <3> QED  BY <3>1, <3>2, <2>1, <2>3 DEF BoxSeen
  <2> QED  BY <2>4, <1>3, CustodyForms
<1>5. CASE OpenFile(p) \/ CloseFile(p)
  <2>1. Filler(p) /\ made' = made
    BY <1>5 DEF OpenFile, CloseFile, Filler
  <2>2. made /\ ~Inventoried
    BY <2>1, AloneFilling
  <2>3. Box = IF tampers > 0 THEN <<"spoiled", Nil>> ELSE <<"filling", Nil>>
    BY <2>2, BoxIs DEF BoxSeen
  <2>4. Box' = IF tampers > 0 THEN <<"spoiled", Nil>>
               ELSE IF Inventoried' THEN <<"sealed", out'[Inventory][2]>>
               ELSE <<"filling", Nil>>
    <3>1. (Box = BoxSeen)'
      BY BoxIs, PTL
    <3> QED  BY <3>1, <2>1, <2>2, <1>1 DEF BoxSeen
  <2>5. Inventoried' => out'[Inventory][2] \in 1..MaxCommits
    <3>1. Inventoried' => out'[Inventory][2] \in 1..Len(commits')
      BY DEF IInv, SealOK
    <3>2. Len(commits') \in 1..MaxCommits
      BY DEF IInv, WorldOK
    <3> QED  BY <3>1, <3>2, MaxCommitsAssumption
  <2>6. CASE tampers > 0 \/ ~Inventoried'
    BY <2>3, <2>4, <2>6, <1>3, CustodyForms
  <2>7. CASE ~(tampers > 0) /\ Inventoried'
    BY <2>3, <2>4, <2>5, <2>7, <1>3, CustodyForms
  <2> QED  BY <2>6, <2>7
<1> QED  BY <1>4, <1>5

LEMMA WorldSteps ==
    ASSUME IInv, IInv',
           \/ \E s \in Sources : Commit(s)
           \/ \E r \in Records \cup {Nil}, e \in EarlyRecords \cup {Nil} : EditRecord(r, e)
           \/ \E tool \in Tools : EditTool(tool)
           \/ Tamper
    PROVE  Custody!Spoil \/ UNCHANGED Custody!cvars
<1>1. UNCHANGED <<job, since, made>>
  BY DEF Commit, EditRecord, EditTool, Tamper
<1>2. Lookings' = Lookings /\ Acceptances' = Acceptances
  <2>1. \A q \in Processes : Looking(q)' <=> Looking(q)
    BY <1>1 DEF Looking
  <2> QED  BY <2>1, <1>1 DEF Lookings, Acceptances
<1>3. (Box = BoxSeen)'
  BY BoxIs, PTL
<1>4. CASE Tamper
  <2>1. made /\ tampers' > 0
    BY <1>4 DEF Tamper, IInv, WorldOK
  <2>2. Box' = <<"spoiled", Nil>>
    BY <2>1, <1>1, <1>3 DEF BoxSeen
  <2>3. Box # <<"none", Nil>>
    BY <2>1, BoxIs DEF BoxSeen
  <2> QED  BY <2>2, <2>3, <1>2, CustodyForms
<1>5. CASE ~Tamper
  <2>1. UNCHANGED <<out, tampers>>
    BY <1>5 DEF Commit, EditRecord, EditTool
  <2>2. Box' = Box
    BY <2>1, <1>1, <1>3, BoxIs DEF BoxSeen, Inventoried
  <2> QED  BY <2>2, <1>2, CustodyForms
<1> QED  BY <1>4, <1>5

LEMMA CustodySteps == IInv /\ IInv' /\ [Next]_rvars => [Custody!Next]_Custody!cvars
<1> SUFFICES ASSUME IInv, IInv', [Next]_rvars PROVE Custody!Next \/ UNCHANGED Custody!cvars
  OBVIOUS
<1>1. CASE UNCHANGED rvars
  <2>1. UNCHANGED <<commits, made, out, tampers, job, since>>
    BY <1>1 DEF rvars
  <2>2. Lookings' = Lookings /\ Acceptances' = Acceptances
    BY <2>1 DEF Lookings, Acceptances, Looking
  <2> QED  BY <2>1, <2>2, BoxStays, CustodyForms
<1>2. ASSUME NEW p \in Processes, Run(p) PROVE Custody!Next \/ UNCHANGED Custody!cvars
  <2>1. CASE \/ \E c \in DOMAIN commits, early \in BOOLEAN : StartFreeze(p, c, early)
             \/ \E early \in BOOLEAN : StartVerify(p, early)
             \/ Refuse(p)
    BY <2>1, LeaveSteps DEF Custody!Next
  <2>2. CASE \/ IdentifySource(p) \/ IdentifyTargets(p) \/ IdentifyEarly(p)
             \/ ResolveFrozen(p) \/ ListFiles(p) \/ Compare(p)
    BY <2>2, SilentSteps
  <2>3. CASE NewOutput(p) \/ OpenFile(p) \/ CloseFile(p)
    BY <2>3, FillSteps DEF Custody!Next
  <2>4. CASE ReadInventory(p)
    BY <2>4, LookSteps DEF Custody!Next
  <2>5. CASE Accept(p)
    BY <2>5, AcceptSteps DEF Custody!Next
  <2> QED  BY <1>2, <2>1, <2>2, <2>3, <2>4, <2>5 DEF Run
<1>3. CASE World
  <2>1. ASSUME NEW p \in Processes, Crash(p) PROVE Custody!Next
    BY <2>1, LeaveSteps DEF Custody!Next
  <2> QED  BY <1>3, <2>1, WorldSteps DEF World, Custody!Next
<1> QED  BY <1>1, <1>2, <1>3 DEF Next

(* For every plan, record and version of the tool, any number of runs, commits *)
(* and damages: freezing and verifying implement the custody of their output.  *)
THEOREM CustodyAlwaysKept == Spec => CustodyKept
<1>1. IInv /\ [Next]_rvars => IInv'
  BY StepKeeps
<1>2. IInv /\ IInv' /\ [Next]_rvars => [Custody!Next]_Custody!cvars
  BY CustodySteps
<1>3. Init => Custody!Init
  BY CustodyStarts
<1> QED  BY AlwaysIInv, <1>1, <1>2, <1>3, PTL DEF Spec, CustodyKept, Custody!Spec
-----------------------------------------------------------------------------
(* The import closure: the recursive function of RequireClosure, and what its  *)
(* result is.                                                                  *)

Named(files, entries) ==
    (UNION {files[p].requires : p \in DOMAIN files}) \cup entries \cup DOMAIN files
Works(named) == [pending : SUBSET named, closure : SUBSET named]
Popping(w) == CHOOSE p \in w.pending : TRUE

(* One call of the recursive function, which asks f for the next.              *)
Follow(files, f, w) ==
    IF w.pending = {} THEN w.closure
    ELSE IF Stuck(files, w, Popping(w)) THEN Refused ELSE f[Popped(files, w, Popping(w))]

(* A call leaves fewer names outside the closure, or as many and fewer pending. *)
Measure(named, w) ==
    Cardinality(named \ w.closure) * (Cardinality(named) + 1) + Cardinality(w.pending)

LEMMA MeasureNat ==
    ASSUME NEW named, IsFiniteSet(named), NEW w \in Works(named)
    PROVE  /\ Measure(named, w) \in Nat
           /\ Cardinality(w.pending) \in Nat /\ Cardinality(w.pending) <= Cardinality(named)
           /\ IsFiniteSet(w.pending) /\ IsFiniteSet(named \ w.closure)
           /\ Cardinality(named) \in Nat /\ Cardinality(named \ w.closure) \in Nat
           /\ Cardinality(named \ w.closure) <= Cardinality(named)
<1>1. w.pending \in SUBSET named /\ (named \ w.closure) \in SUBSET named
  BY DEF Works
<1>2. /\ IsFiniteSet(w.pending) /\ Cardinality(w.pending) <= Cardinality(named)
      /\ IsFiniteSet(named \ w.closure) /\ Cardinality(named \ w.closure) <= Cardinality(named)
  BY <1>1, FS_Subset
<1>3. /\ Cardinality(named) \in Nat /\ Cardinality(w.pending) \in Nat
      /\ Cardinality(named \ w.closure) \in Nat
  BY <1>2, FS_CardinalityType
<1>4. Measure(named, w) \in Nat
  <2>. DEFINE a == Cardinality(named \ w.closure)
              b == Cardinality(named) + 1
              c == Cardinality(w.pending)
  <2>1. a \in Nat /\ b \in Nat /\ c \in Nat
    BY <1>3
  <2>. HIDE DEF a, b, c
  <2>2. a * b + c \in Nat
    BY <2>1
  <2>. QED
    BY <2>2 DEF Measure, a, b, c
<1>. QED
  BY <1>2, <1>3, <1>4

LEMMA PoppedLess ==
    ASSUME NEW files, NEW entries, IsFiniteSet(Named(files, entries)),
           NEW w \in Works(Named(files, entries)), w.pending # {},
           ~Stuck(files, w, Popping(w))
    PROVE  LET v == Popped(files, w, Popping(w))
               named == Named(files, entries)
           IN  /\ v \in Works(named) /\ Measure(named, v) < Measure(named, w)
<1>. DEFINE named == Named(files, entries)
            p == Popping(w)
            v == Popped(files, w, p)
            k == Cardinality(named)
<1>1. p \in w.pending /\ w.pending \subseteq named /\ w.closure \subseteq named
  BY DEF Popping, Works
<1>2. CASE p \in w.closure
  <2>1. v = Work(w.pending \ {p}, w.closure)
    BY <1>2 DEF Popped
  <2>2. v.pending = w.pending \ {p} /\ v.closure = w.closure /\ v \in Works(named)
    BY <2>1, <1>1 DEF Work, Works
  <2>. HIDE DEF named, v, p
  <2>3. Cardinality(v.pending) = Cardinality(w.pending) - 1
    BY <2>2, <1>1, MeasureNat, FS_RemoveElement DEF named
  <2>4. Measure(named, v) = Measure(named, w) - 1
    <3>. DEFINE a == Cardinality(named \ w.closure) * (k + 1)
                b == Cardinality(w.pending)
    <3>1. Measure(named, w) = a + b /\ Measure(named, v) = a + (b - 1)
      BY <2>2, <2>3 DEF Measure
    <3>2. b \in Nat /\ a + b \in Nat
      BY <3>1, MeasureNat DEF named
    <3>3. a \in Nat
      <4>. DEFINE x == Cardinality(named \ w.closure)
      <4>1. x \in Nat /\ k \in Nat
        BY MeasureNat DEF named
      <4>. HIDE DEF x, k
      <4>2. x * (k + 1) \in Nat
        BY <4>1
      <4>. QED
        BY <4>2 DEF x
    <3>. HIDE DEF a, b
    <3>. QED
      BY <3>1, <3>2, <3>3
  <2>5. Measure(named, w) \in Nat
    BY MeasureNat DEF named
  <2>. QED
    BY <2>2, <2>4, <2>5 DEF named, v, p
<1>3. CASE p \notin w.closure
  <2>1. p \in DOMAIN files
    BY <1>3 DEF Stuck
  <2>2. v = Work((w.pending \ {p}) \cup files[p].requires, w.closure \cup {p})
    BY <1>3 DEF Popped
  <2>3. files[p].requires \subseteq named
    BY <2>1 DEF Named
  <2>4. v \in Works(named) /\ v.closure = w.closure \cup {p}
    BY <2>2, <2>3, <1>1 DEF Work, Works
  <2>. HIDE DEF named, v, p
  <2>5. Cardinality(named \ v.closure) = Cardinality(named \ w.closure) - 1
    <3>1. named \ v.closure = (named \ w.closure) \ {p} /\ p \in named \ w.closure
      BY <2>4, <1>1, <1>3
    <3>2. IsFiniteSet(named \ w.closure)
      BY MeasureNat DEF named
    <3>. QED
      BY <3>1, <3>2, FS_RemoveElement
  <2>6. Measure(named, v) < Measure(named, w)
    <3>. DEFINE x == Cardinality(named \ w.closure)
                b == Cardinality(w.pending)
                c == Cardinality(v.pending)
    <3>1. Measure(named, w) = x * (k + 1) + b /\ Measure(named, v) = (x - 1) * (k + 1) + c
      BY <2>5 DEF Measure
    <3>2. x \in Nat /\ k \in Nat /\ b \in Nat
      BY MeasureNat DEF named
    <3>3. c \in Nat /\ c <= k
      BY <2>4, MeasureNat DEF named
    <3>. HIDE DEF x, b, c, k
    <3>4. (x - 1) * (k + 1) = x * (k + 1) - (k + 1) /\ x * (k + 1) \in Nat
      BY <3>2
    <3>. HIDE DEF named
    <3>. QED
      BY <3>1, <3>2, <3>3, <3>4
  <2>. QED
    BY <2>4, <2>6 DEF named, v, p
<1>. QED
  BY <1>2, <1>3

(* The works a measure bounds, and the function on them.                       *)
Small(named, n) == {w \in Works(named) : Measure(named, w) <= n}

LEMMA FollowExists ==
    ASSUME NEW files, NEW entries, IsFiniteSet(Named(files, entries))
    PROVE  \E f : f = [w \in Works(Named(files, entries)) |-> Follow(files, f, w)]
<1>. DEFINE named == Named(files, entries)
            S == {n \in Nat : \E f : f = [w \in Small(named, n) |-> Follow(files, f, w)]}
<1>1. 0 \in S
  <2>. DEFINE f == [w \in Small(named, 0) |-> Follow(files, <<>>, w)]
  <2>1. \A w \in Small(named, 0) : Follow(files, f, w) = Follow(files, <<>>, w)
    <3>1. SUFFICES ASSUME NEW w \in Small(named, 0)
                   PROVE  w.pending = {} \/ Stuck(files, w, Popping(w))
      BY DEF Follow
    <3>2. SUFFICES ASSUME w.pending # {}, ~Stuck(files, w, Popping(w)) PROVE FALSE
      OBVIOUS
    <3>3. w \in Works(named) /\ Measure(named, w) <= 0
      BY DEF Small
    <3>4. /\ Popped(files, w, Popping(w)) \in Works(named)
          /\ Measure(named, Popped(files, w, Popping(w))) < Measure(named, w)
      BY <3>2, <3>3, PoppedLess
    <3>5. Measure(named, Popped(files, w, Popping(w))) \in Nat /\ Measure(named, w) \in Nat
      BY <3>3, <3>4, MeasureNat
    <3>. QED
      BY <3>3, <3>4, <3>5
  <2>2. f = [w \in Small(named, 0) |-> Follow(files, f, w)]
    <3>. HIDE DEF named
    <3>. QED
      BY <2>1, Zenon
  <2>. HIDE DEF f
  <2>3. \E g : g = [w \in Small(named, 0) |-> Follow(files, g, w)]
    BY <2>2
  <2>. QED
    BY <2>3
<1>2. ASSUME NEW n \in Nat, n \in S PROVE n + 1 \in S
  <2>1. PICK f : f = [w \in Small(named, n) |-> Follow(files, f, w)]
    BY <1>2
  <2>. DEFINE g == [w \in Small(named, n + 1) |->
                     IF w \in Small(named, n) THEN f[w] ELSE Follow(files, f, w)]
  <2>2. \A w \in Small(named, n + 1) : g[w] = Follow(files, g, w)
    <3>1. SUFFICES ASSUME NEW w \in Small(named, n + 1) PROVE g[w] = Follow(files, g, w)
      OBVIOUS
    <3>2. g[w] = Follow(files, f, w)
      <4>. HIDE DEF named
      <4>1. w \in Small(named, n) => f[w] = Follow(files, f, w)
        BY <2>1
      <4>. QED
        BY <4>1
    <3>3. CASE w.pending = {} \/ Stuck(files, w, Popping(w))
      BY <3>2, <3>3 DEF Follow
    <3>4. CASE w.pending # {} /\ ~Stuck(files, w, Popping(w))
      <4>. DEFINE v == Popped(files, w, Popping(w))
      <4>1. w \in Works(named) /\ Measure(named, w) <= n + 1
        BY DEF Small
      <4>2. v \in Works(named) /\ Measure(named, v) < Measure(named, w)
        BY <3>4, <4>1, PoppedLess
      <4>3. Measure(named, v) \in Nat /\ Measure(named, w) \in Nat
        BY <4>1, <4>2, MeasureNat
      <4>. HIDE DEF named
      <4>4. v \in Small(named, n) /\ v \in Small(named, n + 1)
        BY <4>1, <4>2, <4>3 DEF Small
      <4>5. g[v] = f[v]
        BY <4>4
      <4>6. Follow(files, f, w) = f[v] /\ Follow(files, g, w) = g[v]
        BY <3>4 DEF Follow
      <4>. QED
        BY <3>2, <4>5, <4>6
    <3>. QED
      BY <3>3, <3>4
  <2>3. g = [w \in Small(named, n + 1) |-> Follow(files, g, w)]
    <3>. HIDE DEF named
    <3>. QED
      BY <2>2, Zenon
  <2>. HIDE DEF g
  <2>4. \E h : h = [w \in Small(named, n + 1) |-> Follow(files, h, w)]
    BY <2>3
  <2>. QED
    BY <2>4
<1>. DEFINE top == Cardinality(named) * (Cardinality(named) + 1) + Cardinality(named)
<1>3. top \in Nat /\ \A w \in Works(named) : Measure(named, w) <= top
  <2>. DEFINE k == Cardinality(named)
  <2>1. k \in Nat
    BY FS_CardinalityType
  <2>2. ASSUME NEW w \in Works(named) PROVE Measure(named, w) <= k * (k + 1) + k
    <3>. DEFINE a == Cardinality(named \ w.closure)
                b == Cardinality(w.pending)
    <3>1. a \in Nat /\ b \in Nat /\ a <= k /\ b <= k
      BY MeasureNat
    <3>2. Measure(named, w) = a * (k + 1) + b
      BY DEF Measure
    <3>. HIDE DEF a, b, k, named
    <3>3. a * (k + 1) <= k * (k + 1) /\ a * (k + 1) \in Nat /\ k * (k + 1) \in Nat
      BY <2>1, <3>1
    <3>. QED
      BY <2>1, <3>1, <3>2, <3>3
  <2>. HIDE DEF k
  <2>3. k * (k + 1) + k \in Nat
    BY <2>1
  <2>. QED
    BY <2>2, <2>3 DEF k
<1>. HIDE DEF top, S
<1>4. top \in S
  BY <1>1, <1>2, <1>3, NatSetInduction
<1>5. Small(named, top) = Works(named)
  BY <1>3 DEF Small
<1>. QED
  BY <1>4, <1>5 DEF S

(* All that is followed so far: the entries and what the closure imports are   *)
(* known, and no set that holds the entries and what its members import misses *)
(* any of it.                                                                  *)
Imports(files, S) == \A p \in S \cap DOMAIN files : files[p].requires \subseteq S
Sound(files, entries, w) ==
    LET known == w.pending \cup w.closure
    IN  /\ entries \subseteq known /\ w.closure \subseteq DOMAIN files
        /\ \A p \in w.closure : files[p].requires \subseteq known
        /\ \A S : entries \subseteq S /\ Imports(files, S) => known \subseteq S

LEMMA PoppedSound ==
    ASSUME NEW files, NEW entries, NEW w, Sound(files, entries, w),
           NEW p \in w.pending, ~Stuck(files, w, p)
    PROVE  Sound(files, entries, Popped(files, w, p))
<1>. DEFINE v == Popped(files, w, p)
            known == w.pending \cup w.closure
            then == v.pending \cup v.closure
<1>0. /\ entries \subseteq known /\ w.closure \subseteq DOMAIN files
      /\ \A x \in w.closure : files[x].requires \subseteq known
      /\ \A S : entries \subseteq S /\ Imports(files, S) => known \subseteq S
  BY DEF Sound
<1>1. CASE p \in w.closure
  <2>1. v.pending = w.pending \ {p} /\ v.closure = w.closure
    BY <1>1 DEF Popped, Work
  <2>2. then = known
    BY <2>1, <1>1
  <2>. HIDE DEF v, then, known
  <2>. QED
    BY <1>0, <2>1, <2>2 DEF Sound, v, then
<1>2. CASE p \notin w.closure
  <2>1. p \in DOMAIN files
    BY <1>2 DEF Stuck
  <2>2. v.pending = (w.pending \ {p}) \cup files[p].requires /\ v.closure = w.closure \cup {p}
    BY <1>2 DEF Popped, Work
  <2>3. known \subseteq then /\ then = known \cup files[p].requires /\ p \in known
    BY <2>2
  <2>. HIDE DEF v, then, known
  <2>4. entries \subseteq then /\ v.closure \subseteq DOMAIN files
    BY <1>0, <2>1, <2>2, <2>3
  <2>5. \A x \in v.closure : files[x].requires \subseteq then
    BY <1>0, <2>2, <2>3
  <2>6. \A S : entries \subseteq S /\ Imports(files, S) => then \subseteq S
    <3>. SUFFICES ASSUME NEW S, entries \subseteq S, Imports(files, S) PROVE then \subseteq S
      OBVIOUS
    <3>1. known \subseteq S
      BY <1>0
    <3>2. files[p].requires \subseteq S
      BY <2>1, <2>3, <3>1 DEF Imports
    <3>. QED
      BY <2>3, <3>1, <3>2
  <2>. QED
    BY <2>4, <2>5, <2>6 DEF Sound, v, then
<1>. QED
  BY <1>1, <1>2

(* Every import of what is reached can be resolved.                            *)
Closable(files, entries) ==
    \E S \in SUBSET (DOMAIN files) : entries \subseteq S /\ Closed(files, S)

(* C is the least set of files that holds the entries and all it imports.      *)
Least(files, entries, C) ==
    /\ entries \subseteq C /\ C \subseteq DOMAIN files /\ Closed(files, C)
    /\ \A S : entries \subseteq S /\ Imports(files, S) => C \subseteq S

(* The import closure, when it is not refused, is the least set of files that  *)
(* holds the entry points and everything its members import; and it is refused *)
(* only where an import cannot be resolved (require_closure).                  *)
LEMMA ClosureLeast ==
    ASSUME NEW files, NEW entries, IsFiniteSet(Named(files, entries)),
           RequireClosure(files, entries) # Refused \/ Closable(files, entries)
    PROVE  Least(files, entries, RequireClosure(files, entries))
<1>. DEFINE named == Named(files, entries)
            follow == CHOOSE f : f = [w \in Works(named) |-> Follow(files, f, w)]
            Ends(w) == follow[w] # Refused \/ Closable(files, entries)
            S == {n \in Nat : \A w \in Works(named) :
                    Measure(named, w) <= n /\ Sound(files, entries, w) /\ Ends(w)
                      => Least(files, entries, follow[w])}
<1>1. RequireClosure(files, entries) = follow[Work(entries, {})]
  BY DEF RequireClosure, Follow, Works, Popping, Named
<1>2. follow = [w \in Works(named) |-> Follow(files, follow, w)]
  BY FollowExists
<1>. HIDE DEF follow
<1>3. \A w \in Works(named) : follow[w] = Follow(files, follow, w)
  <2>. HIDE DEF named
  <2>. QED
    BY <1>2
<1>4. ASSUME NEW n \in Nat, \A m \in Nat : m < n => m \in S PROVE n \in S
  <2>. SUFFICES ASSUME NEW w \in Works(named), Measure(named, w) <= n,
                       Sound(files, entries, w), Ends(w)
                PROVE  Least(files, entries, follow[w])
    OBVIOUS
  <2>1. CASE w.pending = {}
    <3>1. follow[w] = w.closure
      BY <1>3, <2>1 DEF Follow
    <3>2. w.pending \cup w.closure = w.closure
      BY <2>1
    <3>. QED
      BY <3>1, <3>2 DEF Sound, Least, Closed
  <2>2. CASE w.pending # {}
    <3>. DEFINE p == Popping(w)
                v == Popped(files, w, p)
    <3>1. p \in w.pending
      BY <2>2 DEF Popping
    <3>2. ~Stuck(files, w, p)
      <4>. SUFFICES ASSUME Stuck(files, w, p) PROVE FALSE
        OBVIOUS
      <4>1. follow[w] = Refused
        BY <1>3, <2>2 DEF Follow
      <4>2. PICK F \in SUBSET (DOMAIN files) : entries \subseteq F /\ Closed(files, F)
        BY <4>1 DEF Closable
      <4>3. Imports(files, F)
        BY <4>2 DEF Imports, Closed
      <4>4. w.pending \cup w.closure \subseteq F
        BY <4>2, <4>3 DEF Sound
      <4>. QED
        BY <3>1, <4>2, <4>4 DEF Stuck
    <3>3. follow[w] = follow[v]
      BY <1>3, <2>2, <3>2 DEF Follow
    <3>4. v \in Works(named) /\ Measure(named, v) < Measure(named, w)
      BY <2>2, <3>2, PoppedLess
    <3>5. Sound(files, entries, v)
      BY <3>1, <3>2, PoppedSound
    <3>6. Measure(named, v) \in Nat /\ Measure(named, w) \in Nat
      BY <3>4, MeasureNat
    <3>7. Measure(named, v) < n
      <4>. HIDE DEF named, v
      <4>. QED
        BY <3>4, <3>6
    <3>8. Measure(named, v) \in S
      BY <3>6, <3>7, <1>4
    <3>. HIDE DEF named, v
    <3>9. Measure(named, v) <= Measure(named, v)
      BY <3>6
    <3>. QED
      BY <3>3, <3>4, <3>5, <3>8, <3>9
  <2>. QED
    BY <2>1, <2>2
<1>5. \A n \in Nat : n \in S
  <2>. DEFINE T == {n \in Nat : \A m \in Nat : m <= n => m \in S}
  <2>. HIDE DEF S
  <2>1. 0 \in T
    <3>1. 0 \in S
      BY <1>4
    <3>. QED
      BY <3>1
  <2>2. ASSUME NEW n \in Nat, n \in T PROVE n + 1 \in T
    <3>1. n + 1 \in S
      BY <1>4, <2>2
    <3>. QED
      BY <3>1, <2>2
  <2>3. \A n \in Nat : n \in T
    <3>. HIDE DEF T
    <3>. QED
      BY <2>1, <2>2, NatSetInduction
  <2>. QED
    BY <2>3
<1>. DEFINE w0 == Work(entries, {})
<1>6. w0 \in Works(named) /\ w0.pending = entries /\ w0.closure = {}
  <2>1. entries \subseteq named
    BY DEF Named
  <2>. HIDE DEF named
  <2>. QED
    BY <2>1 DEF Work, Works
<1>7. Sound(files, entries, w0)
  <2>. HIDE DEF w0
  <2>. QED
    BY <1>6 DEF Sound
<1>8. Measure(named, w0) \in Nat
  BY <1>6, MeasureNat
<1>9. Measure(named, w0) \in S /\ Measure(named, w0) <= Measure(named, w0)
  <2>. HIDE DEF S, w0, named
  <2>. QED
    BY <1>5, <1>8
<1>10. Ends(w0)
  BY <1>1
<1>. QED
  BY <1>1, <1>6, <1>7, <1>9, <1>10
-----------------------------------------------------------------------------
(* Packages                                                                    *)

LEMMA NamedFinite ==
    ASSUME NEW files, NEW entries, IsFiniteSet(DOMAIN files), IsFiniteSet(entries),
           \A p \in DOMAIN files : IsFiniteSet(files[p].requires)
    PROVE  IsFiniteSet(Named(files, entries))
<1>. DEFINE Imported == {files[p].requires : p \in DOMAIN files}
            f == [p \in DOMAIN files |-> files[p].requires]
<1>1. f \in Surjection(DOMAIN files, Imported)
  BY DEF Surjection
<1>2. IsFiniteSet(Imported)
  <2>. HIDE DEF f, Imported
  <2>. QED
    BY <1>1, FS_Surjection
<1>3. IsFiniteSet(UNION Imported)
  BY <1>2, FS_UNION
<1>4. IsFiniteSet((UNION Imported) \cup entries)
  BY <1>3, FS_Union
<1>5. IsFiniteSet(((UNION Imported) \cup entries) \cup DOMAIN files)
  BY <1>4, FS_Union
<1>. QED
  BY <1>5 DEF Named

(* The least closed set holds only Lua when the entries and all imports are.   *)
LEMMA LeastLua ==
    ASSUME NEW files, NEW entries, NEW C, Least(files, entries, C),
           \A p \in entries : Lua(p),
           \A p \in DOMAIN files : \A d \in files[p].requires : Lua(d)
    PROVE  \A p \in C : Lua(p)
<1>. DEFINE S == {p \in Named(files, entries) : Lua(p)}
<1>1. entries \subseteq S
  BY DEF Named
<1>2. Imports(files, S)
  BY DEF Imports, Named
<1>3. C \subseteq S
  <2>. HIDE DEF S
  <2>. QED
    BY <1>1, <1>2 DEF Least
<1>. QED
  BY <1>3

(* A package whose Lua is the closure of the entry points of its edition is    *)
(* whole.                                                                      *)
LEMMA LeastWhole ==
    ASSUME NEW files, NEW t, NEW C, Least(files, Entries(t), C),
           NEW package, C = {p \in DOMAIN package.files : Lua(p)},
           \A p \in C : package.files[p] = files[p]
    PROVE  Whole(package, t)
<1>1. Entries(t) \subseteq C /\ C \subseteq DOMAIN files
  BY DEF Least
<1>2. Closed(package.files, C)
  BY DEF Least, Closed
<1>3. ASSUME NEW S \in SUBSET (C \ Entries(t)), Closed(package.files, C \ S)
      PROVE  S = {}
  <2>1. Entries(t) \subseteq C \ S
    BY <1>1
  <2>2. Imports(files, C \ S)
    BY <1>3 DEF Closed, Imports
  <2>3. C \subseteq C \ S
    BY <2>1, <2>2 DEF Least
  <2>. QED
    BY <2>3
<1>. QED
  BY <1>1, <1>2, <1>3 DEF Whole

(* The paths the packager names.                                               *)
LEMMA Paths ==
    /\ \A p \in Entrypoints \cup PublicApi \cup {TargetLua} :
          Lua(p) /\ Admitted(p) /\ ~IsPrefix(<<"presentation", "changelog">>, p)
    /\ \A p \in Entrypoints : Lua(<<"adapters", "reduced">> \o p)
    /\ Lua(<<"adapters", "early", "data", "lua">>)
    /\ \A p \in {Info, License, Changelog, Thumbnail, EarlyLocale, EarlyLocaleOut} : ~Lua(p)
    /\ Admitted(Changelog) /\ ~IsPrefix(<<"presentation", "changelog">>, Changelog)
    /\ ~Lua(F210Only) /\ ~Lua(F110Plus) /\ Changelog \notin {F210Only, F110Plus}
    /\ TargetLua \notin Entrypoints /\ DataLua # TargetLua /\ DataLua \in Entrypoints
<1>1. \A a, b : <<a, b>>[1] = a /\ <<a, b>>[2] = b /\ Len(<<a, b>>) = 2
  OBVIOUS
<1>2. \A a, b : a # ".hidden" => ~Barred(<<a, b>>)
  BY DEF Barred
<1>3. \A a, b, c : a \notin Development /\ b # ".hidden" => ~Barred(<<a, b, c>>)
  BY DEF Barred
<1>4. \A a, b, c, d :
        a \notin Development /\ b \notin Development /\ c # ".hidden" => ~Barred(<<a, b, c, d>>)
  BY DEF Barred
<1>5. \A a, b : Last(<<a, b>>) = b
  BY DEF Last
<1>6. \A a, b, c : Last(<<a, b, c>>) = c
  BY DEF Last
<1>7. \A a, b, c, d : Last(<<a, b, c, d>>) = d
  BY DEF Last
<1>8. \A a, b, c, d, e, f : Last(<<a, b, c, d, e, f>>) = f
  BY DEF Last
<1>9. \A a, b, c : IsPrefix(<<"presentation", "changelog">>, <<a, b>>) => a = "presentation"
  BY DEF IsPrefix
<1>10. \A a, b, c, d : Last(<<a, b>> \o <<c, d>>) = d
  BY DEF Last
<1>11. {DataLua, TargetLua} \cup Entrypoints \cup PublicApi
          = {<<"data", "lua">>, <<"settings", "lua">>, <<"data-final-fixes", "lua">>,
             <<"control", "lua">>, <<"api", "v1", "data", "lua">>,
             <<"api", "v1", "runtime", "lua">>, <<"platform", "target", "lua">>}
  BY DEF DataLua, TargetLua, Entrypoints, PublicApi
<1>12. /\ Admitted(<<"data", "lua">>) /\ Admitted(<<"settings", "lua">>)
       /\ Admitted(<<"data-final-fixes", "lua">>) /\ Admitted(<<"control", "lua">>)
  BY <1>2, <1>5 DEF Admitted, Development, Lua
<1>13. Admitted(<<"platform", "target", "lua">>)
  BY <1>3, <1>6 DEF Admitted, Development, Lua
<1>14. Admitted(<<"api", "v1", "data", "lua">>) /\ Admitted(<<"api", "v1", "runtime", "lua">>)
  BY <1>4, <1>7 DEF Admitted, Development, Lua
<1>15. \A p \in Entrypoints \cup PublicApi \cup {TargetLua} : Admitted(p) /\ Lua(p)
  BY <1>5, <1>6, <1>7, <1>11, <1>12, <1>13, <1>14 DEF Lua
<1>16. \A p \in Entrypoints \cup PublicApi \cup {TargetLua} :
          ~IsPrefix(<<"presentation", "changelog">>, p)
  <2>1. \A p : IsPrefix(<<"presentation", "changelog">>, p) => p[1] = "presentation"
    BY DEF IsPrefix
  <2>. QED
    BY <2>1, <1>11
<1>17. \A p \in Entrypoints : Lua(<<"adapters", "reduced">> \o p)
  BY <1>10 DEF Entrypoints, DataLua, Lua
<1>18. Admitted(Changelog) /\ ~IsPrefix(<<"presentation", "changelog">>, Changelog)
  BY <1>2, <1>9 DEF Admitted, Changelog, Development
<1>19. \A p \in {Info, License, Changelog, Thumbnail, EarlyLocale, EarlyLocaleOut,
                F210Only, F110Plus} : ~Lua(p)
  <2>1. ~Lua(Info) /\ ~Lua(Changelog) /\ ~Lua(Thumbnail)
    BY <1>5 DEF Lua, Info, Changelog, Thumbnail
  <2>4. "" # "lua"
    OBVIOUS
  <2>5. ~Lua(License)
    BY <1>5, <2>4, Zenon DEF Lua, License
  <2>2. ~Lua(EarlyLocale) /\ ~Lua(EarlyLocaleOut)
    BY <1>7, <1>8 DEF Lua, EarlyLocale, EarlyLocaleOut
  <2>3. ~Lua(F210Only) /\ ~Lua(F110Plus)
    BY <1>6 DEF Lua, F210Only, F110Plus
  <2>. QED
    BY <2>1, <2>2, <2>3, <2>5
<1>20. Changelog \notin {F210Only, F110Plus}
  BY DEF Changelog, F210Only, F110Plus
<1>21. TargetLua \notin Entrypoints /\ DataLua # TargetLua /\ DataLua \in Entrypoints
  BY DEF Entrypoints, DataLua, TargetLua
<1>. QED
  BY <1>7, <1>15, <1>16, <1>17, <1>18, <1>19, <1>20, <1>21 DEF Lua

(* The codec: a release keeps its unified version in every target's code.      *)
LEMMA CodecKeeps ==
    ASSUME NEW v, v.encoded \in Nat, NEW t \in Nat
    PROVE  /\ CodeOf(Recoded(v, t)) = t /\ Unified(Recoded(v, t)) = Unified(v)
           /\ \A u : TargetText(t, u).text = <<"target", t, u>>
<1>. DEFINE m == v.encoded % 100
            n == t * 100 + m
<1>1. m \in 0 .. 99
  OBVIOUS
<1>2. n \div 100 = t /\ n % 100 = m
  <2>. HIDE DEF m
  <2>. QED
    BY <1>1
<1>3. Recoded(v, t).encoded = n /\ Recoded(v, t).major = v.major /\ Recoded(v, t).minor = v.minor
  BY DEF Recoded, Version
<1>. HIDE DEF n
<1>. QED
  BY <1>2, <1>3 DEF CodeOf, Unified, TargetText, Text, File

(* What the presentation leaves of a selection.                                *)
LEMMA PresentationKeeps ==
    ASSUME NEW files, NEW info, PlayerPresentation(files, info) # Refused
    PROVE  LET selected == PlayerPresentation(files, info)
           IN  /\ selected.info = info
               /\ DOMAIN selected.files =
                    {p \in DOMAIN files : ~IsPrefix(<<"presentation", "changelog">>, p)}
               /\ \A p \in DOMAIN selected.files : selected.files[p] = files[p]
               /\ Changelog \in DOMAIN selected.files
               /\ selected.files[Changelog].text = <<"heading", Unified(info.version)>>
<1>1. Presentable(files, info)
  BY DEF PlayerPresentation
<1>2. PlayerPresentation(files, info) =
        [info |-> info,
         files |-> Restrict(files, {p \in DOMAIN files :
                                      ~IsPrefix(<<"presentation", "changelog">>, p)})]
  BY <1>1 DEF PlayerPresentation
<1>3. Changelog \in DOMAIN files /\ files[Changelog].text = <<"heading", Unified(info.version)>>
  BY <1>1 DEF Presentable
<1>4. ~IsPrefix(<<"presentation", "changelog">>, Changelog)
  BY Paths
<1>. QED
  BY <1>2, <1>3, <1>4 DEF Restrict

(* The last filter of a package.                                               *)
LEMMA RowsKeep ==
    ASSUME NEW selected, selected # Refused, NEW i, NEW g, selected = [info |-> i, files |-> g]
    PROVE  /\ Rows(selected).info = i
           /\ DOMAIN Rows(selected).files = {p \in DOMAIN g : Admitted(p)}
           /\ \A p \in DOMAIN Rows(selected).files : Rows(selected).files[p] = g[p]
  BY DEF Rows, Restrict

LEMMA EntriesFinite == \A t : IsFiniteSet(Entries(t)) /\ IsFiniteSet(Entrypoints)
<1>1. \A S, a : IsFiniteSet(S) => IsFiniteSet(S \cup {a})
  BY FS_AddElement
<1>2. \A a, b : IsFiniteSet({a, b})
  <2>. TAKE a, b
  <2>1. IsFiniteSet(({} \cup {a}) \cup {b})
    BY <1>1, FS_EmptySet
  <2>2. {a, b} = ({} \cup {a}) \cup {b}
    OBVIOUS
  <2>. QED
    BY <2>1, <2>2
<1>3. \A a, b, c, d : IsFiniteSet({a, b, c, d})
  <2>. TAKE a, b, c, d
  <2>1. IsFiniteSet(({a, b} \cup {c}) \cup {d})
    BY <1>1, <1>2
  <2>2. {a, b, c, d} = ({a, b} \cup {c}) \cup {d}
    OBVIOUS
  <2>. QED
    BY <2>1, <2>2
<1>4. IsFiniteSet(Entrypoints) /\ IsFiniteSet(PublicApi)
  BY <1>2, <1>3 DEF Entrypoints, PublicApi
<1>5. IsFiniteSet(Entrypoints \cup PublicApi)
  BY <1>4, FS_Union
<1>6. IsFiniteSet((Entrypoints \cup PublicApi) \cup {TargetLua})
  BY <1>1, <1>5
<1>7. IsFiniteSet({DataLua, TargetLua})
  BY <1>2
<1>. QED
  BY <1>4, <1>6, <1>7 DEF Entries

(* What a selection starts from: an ordinary tree, whose Lua passes the filter *)
(* of members.                                                                 *)
Loadable(files) ==
    Ordinary(files) /\ \A p \in DOMAIN files : Lua(p) => Admitted(p)

LEMMA ReadKeeps ==
    ASSUME NEW tree, Ordinary(tree), NEW early \in BOOLEAN, Read(tree, early) # Refused
    PROVE  Loadable(Read(tree, early))
<1>. DEFINE taken == {p \in DOMAIN tree : Admitted(p) \/ (early /\ p = EarlyLocale)}
            files == Read(tree, early)
<1>1. files = [p \in taken |-> tree[p]]
  BY DEF Read, Restrict
<1>2. DOMAIN files = taken /\ \A p \in taken : files[p] = tree[p]
  BY <1>1
<1>3. taken \subseteq DOMAIN tree
  OBVIOUS
<1>4. IsFiniteSet(taken)
  BY <1>3, FS_Subset DEF Ordinary
<1>5. ~Lua(EarlyLocale)
  BY Paths
<1>. HIDE DEF files
<1>. QED
  BY <1>2, <1>4, <1>5 DEF Ordinary, Loadable, files

(* The closure of a selection is the Lua a package keeps of its files.         *)
LEMMA ClosureOfSelection ==
    ASSUME NEW files, Loadable(files), NEW t,
           NEW C, C = RequireClosure(files, Entries(t)), C # Refused
    PROVE  /\ Least(files, Entries(t), C) /\ TargetLua \in C
           /\ \A p \in C : /\ p \in DOMAIN files /\ Lua(p) /\ Admitted(p)
                           /\ ~IsPrefix(<<"presentation", "changelog">>, p)
<1>1. IsFiniteSet(Named(files, Entries(t)))
  BY NamedFinite, EntriesFinite DEF Loadable, Ordinary
<1>2. Least(files, Entries(t), C)
  BY <1>1, ClosureLeast
<1>3. \A p \in Entries(t) : Lua(p)
  BY Paths DEF Entries
<1>4. \A p \in C : Lua(p)
  BY <1>2, <1>3, LeastLua DEF Loadable, Ordinary
<1>5. TargetLua \in C
  BY <1>2 DEF Least, Entries
<1>. QED
  BY <1>2, <1>4, <1>5 DEF Least, Loadable, Ordinary

LEMMA EditionLoadable ==
    ASSUME NEW files, Loadable(files), NEW t, NEW edition, NEW version
    PROVE  Loadable(EditionFiles(files, t, edition, version))
<1>. DEFINE all == EditionFiles(files, t, edition, version)
            D == (DOMAIN files) \cup {TargetLua} \cup (IF edition.reduced THEN Entrypoints ELSE {})
<1>1. DOMAIN all = D
  BY DEF EditionFiles
<1>2. \A p \in D : all[p] = IF p = TargetLua THEN TargetText(t, version)
                            ELSE IF edition.reduced /\ p \in Entrypoints
                                 THEN File({<<"adapters", "reduced">> \o p}, <<"adapter">>)
                                 ELSE files[p]
  BY DEF EditionFiles
<1>3. IsFiniteSet(D)
  <2>1. IsFiniteSet((DOMAIN files) \cup {TargetLua})
    BY FS_AddElement DEF Loadable, Ordinary
  <2>2. IsFiniteSet(((DOMAIN files) \cup {TargetLua}) \cup Entrypoints)
    BY <2>1, EntriesFinite, FS_Union
  <2>. QED
    BY <2>1, <2>2
<1>4. TargetText(t, version).requires = {}
  BY DEF TargetText, Text, File
<1>5. \A x, y : File(x, y).requires = x
  BY DEF File
<1>. HIDE DEF all
<1>6. ASSUME NEW p \in D
      PROVE  IsFiniteSet(all[p].requires) /\ \A d \in all[p].requires : Lua(d)
  <2>1. CASE p = TargetLua
    BY <1>2, <1>4, <2>1, FS_EmptySet
  <2>2. CASE p # TargetLua /\ edition.reduced /\ p \in Entrypoints
    <3>1. all[p].requires = {<<"adapters", "reduced">> \o p}
      BY <1>2, <1>5, <2>2, Zenon
    <3>2. Lua(<<"adapters", "reduced">> \o p)
      BY <2>2, Paths
    <3>. HIDE DEF D
    <3>. QED
      BY <3>1, <3>2, FS_Singleton, Zenon
  <2>3. CASE p # TargetLua /\ ~(edition.reduced /\ p \in Entrypoints)
    BY <1>2, <2>3 DEF Loadable, Ordinary
  <2>. QED
    BY <2>1, <2>2, <2>3
<1>7. \A p \in D : Lua(p) => Admitted(p) /\ ~IsPrefix(<<"presentation", "changelog">>, p)
  BY Paths DEF Loadable, Ordinary
<1>. HIDE DEF D
<1>. QED
  BY <1>1, <1>3, <1>6, <1>7 DEF Loadable, Ordinary, all

(* What every package promises; its version is that of its source, in the      *)
(* code of its target.                                                         *)
Promised(package, info, t) ==
    /\ Whole(package, t) /\ SameRelease(package, t)
    /\ package.info.version = Recoded(info.version, t)
    /\ Unified(package.info.version) = Unified(info.version)

LEMMA EditionPromised ==
    ASSUME NEW files, Loadable(files), NEW info, "version" \in DOMAIN info,
           info.version.encoded \in Nat, NEW t \in Nat, t \notin Early, NEW editions,
           SelectEdition(files, info, t, editions) # Refused,
           NEW package,
           package = Rows(Unmigrated(SelectEdition(files, info, t, editions), t)),
           package # Refused
    PROVE  Promised(package, info, t)
<1>. DEFINE named == EditionInfo(info, t, editions[t])
            version == named.version
            all == EditionFiles(files, t, editions[t], version)
            C == RequireClosure(all, Entries(t))
            shipped == Reached(all, C)
            selected == PlayerPresentation(shipped, named)
            kept == Unmigrated(selected, t)
            D == DOMAIN package.files
<1>1. Entries(t) = Entrypoints \cup PublicApi \cup {TargetLua}
  BY DEF Entries
<1>2. C # Refused /\ SelectEdition(files, info, t, editions) = selected
  BY <1>1 DEF SelectEdition
<1>3. selected # Refused /\ package = Rows(kept)
  BY <1>2
<1>4. /\ Loadable(all) /\ Least(all, Entries(t), C) /\ TargetLua \in C
      /\ \A p \in C : /\ p \in DOMAIN all /\ Lua(p) /\ Admitted(p)
                      /\ ~IsPrefix(<<"presentation", "changelog">>, p)
  BY <1>2, EditionLoadable, ClosureOfSelection
<1>5. /\ DOMAIN shipped = {p \in DOMAIN all : Lua(p) => p \in C}
      /\ \A p \in DOMAIN shipped : shipped[p] = all[p]
  BY DEF Reached, Restrict
<1>6. all[TargetLua] = TargetText(t, version)
  BY DEF EditionFiles
<1>7. version = Recoded(info.version, t)
  BY DEF EditionInfo
<1>. HIDE DEF named, version, all, C, shipped
<1>8. /\ selected.info = named
      /\ DOMAIN selected.files =
           {p \in DOMAIN shipped : ~IsPrefix(<<"presentation", "changelog">>, p)}
      /\ \A p \in DOMAIN selected.files : selected.files[p] = shipped[p]
      /\ Changelog \in DOMAIN selected.files
      /\ selected.files[Changelog].text = <<"heading", Unified(named.version)>>
  BY <1>3, PresentationKeeps
<1>9. \E i, g : selected = [info |-> i, files |-> g]
  BY <1>3 DEF PlayerPresentation
<1>. HIDE DEF selected
<1>10. /\ kept = [info |-> named, files |-> kept.files]
       /\ DOMAIN kept.files \subseteq DOMAIN selected.files
       /\ \A p \in DOMAIN selected.files :
            p \notin {F210Only, F110Plus} => p \in DOMAIN kept.files
       /\ \A p \in DOMAIN kept.files : kept.files[p] = selected.files[p]
  BY <1>8, <1>9 DEF Unmigrated, Restrict
<1>11. kept # Refused
  BY <1>3 DEF Rows
<1>. HIDE DEF kept
<1>12. /\ package.info = named
       /\ D = {p \in DOMAIN kept.files : Admitted(p)}
       /\ \A p \in D : package.files[p] = kept.files[p]
  BY <1>3, <1>10, <1>11, RowsKeep
<1>. HIDE DEF D
<1>13. \A p \in D : p \in DOMAIN all /\ (Lua(p) => p \in C) /\ package.files[p] = all[p]
  BY <1>5, <1>8, <1>10, <1>12
<1>14. \A p \in C : p \in D
  <2>. SUFFICES ASSUME NEW p \in C PROVE p \in D
    OBVIOUS
  <2>1. p \in DOMAIN selected.files
    BY <1>4, <1>5, <1>8
  <2>2. p \notin {F210Only, F110Plus}
    BY <1>4, Paths
  <2>. QED
    BY <2>1, <2>2, <1>4, <1>10, <1>12
<1>15. C = {p \in D : Lua(p)}
  BY <1>4, <1>13, <1>14
<1>16. Whole(package, t)
  BY <1>4, <1>13, <1>15, LeastWhole DEF D
<1>17. Changelog \in D /\ package.files[Changelog].text = <<"heading", Unified(version)>>
  BY <1>8, <1>10, <1>12, Paths DEF version
<1>18. package.files[TargetLua].text = <<"target", t, version>>
  BY <1>4, <1>6, <1>13, <1>14, CodecKeeps
<1>19. package.info.version = version /\ CodeOf(version) = t
       /\ Unified(version) = Unified(info.version)
  BY <1>7, <1>12, CodecKeeps DEF version
<1>. QED
  BY <1>7, <1>16, <1>17, <1>18, <1>19 DEF Promised, SameRelease

LEMMA EarlyLoadable ==
    ASSUME NEW files, Loadable(files), NEW t
    PROVE  Loadable(EarlyFiles(files, t))
<1>. DEFINE all == EarlyFiles(files, t)
            D == (DOMAIN files) \cup {TargetLua, DataLua}
            adapter == <<"adapters", "early", "data", "lua">>
<1>1. DOMAIN all = D
  BY DEF EarlyFiles
<1>2. \A p \in D : all[p] = IF p = TargetLua THEN TargetText(t, <<>>)
                            ELSE IF p = DataLua THEN File({adapter, TargetLua}, <<"adapter">>)
                            ELSE files[p]
  BY DEF EarlyFiles
<1>3. IsFiniteSet(D)
  <2>1. IsFiniteSet(((DOMAIN files) \cup {TargetLua}) \cup {DataLua})
    BY FS_AddElement DEF Loadable, Ordinary
  <2>2. D = ((DOMAIN files) \cup {TargetLua}) \cup {DataLua}
    OBVIOUS
  <2>. QED
    BY <2>1, <2>2
<1>4. TargetText(t, <<>>).requires = {}
  BY DEF TargetText, Text, File
<1>5. \A x, y : File(x, y).requires = x
  BY DEF File
<1>. HIDE DEF all
<1>6. ASSUME NEW p \in D
      PROVE  IsFiniteSet(all[p].requires) /\ \A d \in all[p].requires : Lua(d)
  <2>1. CASE p = TargetLua
    BY <1>2, <1>4, <2>1, FS_EmptySet
  <2>2. CASE p = DataLua
    <3>1. DataLua # TargetLua
      BY Paths
    <3>2. all[p].requires = {adapter, TargetLua}
      BY <1>2, <1>5, <2>2, <3>1, ZenonT(40)
    <3>3. {adapter, TargetLua} = {adapter} \cup {TargetLua}
      OBVIOUS
    <3>4. IsFiniteSet({adapter} \cup {TargetLua})
      <4>. HIDE DEF adapter
      <4>1. IsFiniteSet({adapter})
        BY FS_Singleton
      <4>. QED
        BY <4>1, FS_AddElement
    <3>5. Lua(adapter) /\ Lua(TargetLua)
      BY Paths
    <3>. HIDE DEF D, adapter
    <3>. QED
      BY <3>2, <3>3, <3>4, <3>5, Zenon
  <2>3. CASE p # TargetLua /\ p # DataLua
    BY <1>2, <2>3 DEF Loadable, Ordinary
  <2>. QED
    BY <2>1, <2>2, <2>3
<1>7. \A p \in D : Lua(p) => Admitted(p) /\ ~IsPrefix(<<"presentation", "changelog">>, p)
  BY Paths DEF Loadable, Ordinary
<1>. HIDE DEF D
<1>. QED
  BY <1>1, <1>3, <1>6, <1>7 DEF Loadable, Ordinary, all

LEMMA EarlyPromised ==
    ASSUME NEW files, Loadable(files), NEW info, "version" \in DOMAIN info,
           info.version.encoded \in Nat, NEW t \in Nat, t \in Early, NEW editions,
           NEW package, package = Rows(SelectEarlyEdition(files, info, t, editions)),
           package # Refused
    PROVE  Promised(package, info, t)
<1>. DEFINE named == [info EXCEPT !.version = Recoded(@, t), !.base = editions[t].base,
                                  !.factorio = editions[t].factorio, !.extras = {}]
            version == named.version
            all == EarlyFiles(files, t)
            C == RequireClosure(all, Entries(t))
            shipped == EarlyShipped(all, C)
            selected == PlayerPresentation(shipped, named)
            D == DOMAIN package.files
<1>1. Entries(t) = {DataLua, TargetLua}
  BY DEF Entries
<1>2. SelectEarlyEdition(files, info, t, editions) # Refused
  BY DEF Rows
<1>3. /\ C # Refused /\ SelectEarlyEdition(files, info, t, editions) = selected
      /\ selected # Refused /\ package = Rows(selected)
  BY <1>1, <1>2 DEF SelectEarlyEdition
<1>4. /\ Loadable(all) /\ Least(all, Entries(t), C) /\ TargetLua \in C
      /\ \A p \in C : /\ p \in DOMAIN all /\ Lua(p) /\ Admitted(p)
                      /\ ~IsPrefix(<<"presentation", "changelog">>, p)
  BY <1>3, EarlyLoadable, ClosureOfSelection
<1>5. /\ DOMAIN shipped = C \cup (EarlyAssets \ {EarlyLocale}) \cup {EarlyLocaleOut}
      /\ \A p \in DOMAIN shipped : p # EarlyLocaleOut => shipped[p] = all[p]
  BY DEF EarlyShipped
<1>6. all[TargetLua] = TargetText(t, <<>>)
  BY DEF EarlyFiles
<1>7. version = Recoded(info.version, t)
  OBVIOUS
<1>. HIDE DEF named, version, all, C, shipped
<1>8. /\ selected.info = named
      /\ DOMAIN selected.files =
           {p \in DOMAIN shipped : ~IsPrefix(<<"presentation", "changelog">>, p)}
      /\ \A p \in DOMAIN selected.files : selected.files[p] = shipped[p]
      /\ Changelog \in DOMAIN selected.files
      /\ selected.files[Changelog].text = <<"heading", Unified(named.version)>>
  BY <1>3, PresentationKeeps
<1>9. selected = [info |-> named, files |-> selected.files]
  BY <1>3 DEF PlayerPresentation
<1>. HIDE DEF selected
<1>12. /\ package.info = named
       /\ D = {p \in DOMAIN selected.files : Admitted(p)}
       /\ \A p \in D : package.files[p] = selected.files[p]
  BY <1>3, <1>9, RowsKeep
<1>. HIDE DEF D
<1>13. \A p \in D : Lua(p) => p \in C /\ package.files[p] = all[p]
  <2>1. \A p \in EarlyAssets \cup {EarlyLocaleOut} : ~Lua(p)
    BY Paths DEF EarlyAssets
  <2>. QED
    BY <2>1, <1>5, <1>8, <1>12
<1>14. \A p \in C : p \in D
  BY <1>4, <1>5, <1>8, <1>12
<1>15. C = {p \in D : Lua(p)}
  BY <1>4, <1>13, <1>14
<1>16. Whole(package, t)
  BY <1>4, <1>13, <1>14, <1>15, LeastWhole DEF D
<1>17. Changelog \in D /\ package.files[Changelog].text = <<"heading", Unified(version)>>
  BY <1>8, <1>12, Paths DEF version
<1>18. package.files[TargetLua].text = <<"target", t, <<>>>>
  BY <1>4, <1>6, <1>13, <1>14, CodecKeeps
<1>19. package.info.version = version /\ CodeOf(version) = t
       /\ Unified(version) = Unified(info.version)
  BY <1>7, <1>12, CodecKeeps DEF version
<1>. QED
  BY <1>7, <1>16, <1>17, <1>18, <1>19 DEF Promised, SameRelease

(* Whatever an ordinary source tree holds and imports, and whatever it is      *)
(* edited to: a package that is not refused holds the entry points of its      *)
(* edition, everything they import and no other Lua, states one release in its *)
(* metadata, its target file and its changelog, and that is the release of its *)
(* source (members).                                                           *)
THEOREM PackagesArePromised ==
    ASSUME NEW tree, Ordinary(tree), NEW info, "version" \in DOMAIN info,
           info.version.encoded \in Nat, NEW t \in Nat, NEW editions,
           Members(tree, info, t, editions) # Refused
    PROVE  Promised(Members(tree, info, t, editions), info, t)
<1>. DEFINE files == Read(tree, t \in Early)
<1>1. files # Refused
  BY DEF Members
<1>2. Loadable(files)
  <2>. (t \in Early) \in BOOLEAN
    OBVIOUS
  <2>. QED
    BY <1>1, ReadKeeps
<1>. HIDE DEF files
<1>3. CASE t \in Early
  <2>1. Members(tree, info, t, editions) = Rows(SelectEarlyEdition(files, info, t, editions))
    BY <1>1, <1>3 DEF Members, files
  <2>. QED
    BY <1>2, <1>3, <2>1, EarlyPromised
<1>4. CASE t \notin Early
  <2>1. /\ SelectEdition(files, info, t, editions) # Refused
        /\ Members(tree, info, t, editions)
             = Rows(Unmigrated(SelectEdition(files, info, t, editions), t))
    BY <1>1, <1>4 DEF Members, files
  <2>. QED
    BY <1>2, <1>4, <2>1, EditionPromised
<1>. QED
  BY <1>3, <1>4

(* The value of a refused selection is none of what a selection returns.       *)
RefusedApart ==
    /\ \A i, f : [info |-> i, files |-> f] # Refused
    /\ \A f : Info \in DOMAIN f => f # Refused
    /\ \A S : DataLua \in S => S # Refused

(* An edition is presented as its source is: the version differs in its code   *)
(* alone.                                                                      *)
LEMMA PresentedAlike ==
    ASSUME NEW files, NEW g, NEW info, NEW named, NEW t \in Nat,
           info.version.encoded \in Nat, Codec(info.version),
           named.version = Recoded(info.version, t),
           \A p \in {License, Thumbnail, Changelog} :
              /\ p \in DOMAIN g <=> p \in DOMAIN files
              /\ p \in DOMAIN files => g[p] = files[p]
    PROVE  Presentable(g, named) <=> Presentable(files, info)
<1>1. Unified(named.version) = Unified(info.version)
  BY CodecKeeps
<1>2. Codec(named.version)
  BY DEF Codec, Recoded, Version
<1>. QED
  BY <1>1, <1>2 DEF Presentable

(* A closure is refused exactly where no set of files is closed.               *)
LEMMA ClosureMade ==
    ASSUME RefusedApart, NEW files, Loadable(files), NEW t
    PROVE  RequireClosure(files, Entries(t)) # Refused <=> Closable(files, Entries(t))
<1>. DEFINE C == RequireClosure(files, Entries(t))
<1>1. ASSUME C # Refused PROVE Closable(files, Entries(t))
  <2>1. Least(files, Entries(t), C)
    BY <1>1, ClosureOfSelection
  <2>. HIDE DEF C
  <2>. QED
    BY <2>1 DEF Least, Closable
<1>2. ASSUME Closable(files, Entries(t)) PROVE C # Refused
  <2>1. IsFiniteSet(Named(files, Entries(t)))
    BY NamedFinite, EntriesFinite DEF Loadable, Ordinary
  <2>2. Least(files, Entries(t), C)
    BY <1>2, <2>1, ClosureLeast
  <2>3. DataLua \in Entries(t)
    BY DEF Entries, Entrypoints
  <2>. HIDE DEF C
  <2>. QED
    BY <2>2, <2>3 DEF Least, RefusedApart
<1>. QED
  BY <1>1, <1>2

(* Assets are not Lua, so no adapter takes their place.                        *)
LEMMA AssetsApart ==
    /\ \A p \in {License, Thumbnail, Changelog} :
          ~Lua(p) /\ p \notin Entrypoints \cup {TargetLua, DataLua} /\ p # EarlyLocaleOut
    /\ {License, Thumbnail, Changelog} \subseteq EarlyAssets \ {EarlyLocale}
<1>1. \A p \in {License, Thumbnail, Changelog} : ~Lua(p)
  BY Paths
<1>2. \A p \in Entrypoints \cup {TargetLua, DataLua} : Lua(p)
  BY Paths
<1>3. \A p \in {License, Thumbnail, Changelog} : p # EarlyLocaleOut /\ p # EarlyLocale
  <2>1. \A a, b : <<a, b>>[1] = a
    OBVIOUS
  <2>2. /\ License[1] = "LICENSE" /\ Thumbnail[1] = "thumbnail" /\ Changelog[1] = "changelog"
    BY <2>1 DEF License, Thumbnail, Changelog
  <2>3. EarlyLocaleOut[1] = "locale" /\ EarlyLocale[1] = "adapters"
    BY DEF EarlyLocaleOut, EarlyLocale
  <2>. QED
    BY <2>2, <2>3
<1>. QED
  BY <1>1, <1>2, <1>3, Zenon DEF EarlyAssets

LEMMA EditionMade ==
    ASSUME RefusedApart, NEW files, Loadable(files), NEW info, "version" \in DOMAIN info,
           info.version.encoded \in Nat, NEW t \in Nat, t \notin Early, NEW editions
    PROVE  SelectEdition(files, info, t, editions) # Refused
             <=> /\ Offered(files, info, t, editions)
                 /\ Closable(Body(files, info, t, editions), Entries(t))
<1>. DEFINE named == EditionInfo(info, t, editions[t])
            all == EditionFiles(files, t, editions[t], named.version)
            C == RequireClosure(all, Entries(t))
            shipped == Reached(all, C)
<1>1. Entries(t) = Entrypoints \cup PublicApi \cup {TargetLua}
  BY DEF Entries
<1>2. named.version = Recoded(info.version, t)
  BY DEF EditionInfo
<1>3. Body(files, info, t, editions) = all
  BY <1>2 DEF Body
<1>4. C # Refused <=> Closable(all, Entries(t))
  BY EditionLoadable, ClosureMade
<1>5. \A p \in {License, Thumbnail, Changelog} :
         /\ p \in DOMAIN shipped <=> p \in DOMAIN files
         /\ p \in DOMAIN files => shipped[p] = files[p]
  <2>1. ASSUME NEW p \in {License, Thumbnail, Changelog}
        PROVE  (p \in DOMAIN all <=> p \in DOMAIN files) /\ (p \in DOMAIN all => all[p] = files[p])
    BY AssetsApart DEF EditionFiles
  <2>2. /\ DOMAIN shipped = {p \in DOMAIN all : Lua(p) => p \in C}
        /\ \A p \in DOMAIN shipped : shipped[p] = all[p]
    BY DEF Reached, Restrict
  <2>. HIDE DEF all, shipped, C
  <2>. QED
    BY <2>1, <2>2, AssetsApart
<1>6. SelectEdition(files, info, t, editions) =
        IF ~Selectable(info, t, editions) \/ C = Refused THEN Refused
        ELSE PlayerPresentation(shipped, named)
  BY <1>1 DEF SelectEdition
<1>. HIDE DEF named, all, C, shipped
<1>7. PlayerPresentation(shipped, named) # Refused <=> Presentable(shipped, named)
  BY DEF PlayerPresentation, RefusedApart
<1>8. Selectable(info, t, editions) => Codec(info.version)
  BY DEF Selectable
<1>9. Selectable(info, t, editions) => (Presentable(shipped, named) <=> Presentable(files, info))
  BY <1>2, <1>5, <1>8, PresentedAlike
<1>. QED
  BY <1>3, <1>4, <1>6, <1>7, <1>9 DEF Offered

LEMMA EarlyMade ==
    ASSUME RefusedApart, NEW files, Loadable(files), NEW info, "version" \in DOMAIN info,
           info.version.encoded \in Nat, NEW t \in Nat, t \in Early, NEW editions
    PROVE  SelectEarlyEdition(files, info, t, editions) # Refused
             <=> /\ Offered(files, info, t, editions)
                 /\ Closable(Body(files, info, t, editions), Entries(t))
<1>. DEFINE named == [info EXCEPT !.version = Recoded(@, t), !.base = editions[t].base,
                                  !.factorio = editions[t].factorio, !.extras = {}]
            all == EarlyFiles(files, t)
            C == RequireClosure(all, Entries(t))
            shipped == EarlyShipped(all, C)
<1>1. Entries(t) = {DataLua, TargetLua}
  BY DEF Entries
<1>2. named.version = Recoded(info.version, t)
  OBVIOUS
<1>3. Body(files, info, t, editions) = all
  BY DEF Body
<1>4. C # Refused <=> Closable(all, Entries(t))
  BY EarlyLoadable, ClosureMade
<1>5. ASSUME EarlyAssets \subseteq DOMAIN files
      PROVE  \A p \in {License, Thumbnail, Changelog} :
                /\ p \in DOMAIN shipped <=> p \in DOMAIN files
                /\ p \in DOMAIN files => shipped[p] = files[p]
  <2>1. ASSUME NEW p \in {License, Thumbnail, Changelog}
        PROVE  p \in DOMAIN files /\ all[p] = files[p]
    BY <1>5, AssetsApart DEF EarlyFiles
  <2>2. /\ DOMAIN shipped = C \cup (EarlyAssets \ {EarlyLocale}) \cup {EarlyLocaleOut}
        /\ \A p \in DOMAIN shipped : p # EarlyLocaleOut => shipped[p] = all[p]
    BY DEF EarlyShipped
  <2>. HIDE DEF all, shipped, C
  <2>. QED
    BY <2>1, <2>2, AssetsApart
<1>6. SelectEarlyEdition(files, info, t, editions) =
        IF \/ ~EarlySelectable(info, t, editions)
           \/ C = Refused \/ ~(EarlyAssets \subseteq DOMAIN files) THEN Refused
        ELSE PlayerPresentation(shipped, named)
  BY <1>1 DEF SelectEarlyEdition
<1>. HIDE DEF named, all, C, shipped
<1>7. PlayerPresentation(shipped, named) # Refused <=> Presentable(shipped, named)
  BY DEF PlayerPresentation, RefusedApart
<1>8. EarlySelectable(info, t, editions) => Codec(info.version)
  BY DEF EarlySelectable
<1>9. EarlySelectable(info, t, editions) /\ EarlyAssets \subseteq DOMAIN files
        => (Presentable(shipped, named) <=> Presentable(files, info))
  BY <1>2, <1>5, <1>8, PresentedAlike
<1>. QED
  BY <1>3, <1>4, <1>6, <1>7, <1>9 DEF Offered

(* A package is refused exactly where a link or no metadata is in the tree, an *)
(* asset is missing or under another heading, the edition is not offered, or   *)
(* an import of what its entry points reach cannot be resolved (members): a    *)
(* module that nothing reaches may import what it likes.                       *)
THEOREM PackagesAreMade ==
    ASSUME RefusedApart, NEW tree, Ordinary(tree), NEW info, "version" \in DOMAIN info,
           info.version.encoded \in Nat, NEW t \in Nat, NEW editions
    PROVE  LET files == Read(tree, t \in Early)
           IN  Members(tree, info, t, editions) # Refused
                 <=> /\ files # Refused /\ Offered(files, info, t, editions)
                     /\ Closable(Body(files, info, t, editions), Entries(t))
<1>. DEFINE files == Read(tree, t \in Early)
            Early_ == SelectEarlyEdition(files, info, t, editions)
            Edition == SelectEdition(files, info, t, editions)
<1>1. files = Refused => Members(tree, info, t, editions) = Refused
  BY DEF Members
<1>2. ASSUME NEW s, s = Refused \/ \E i, f : s = [info |-> i, files |-> f]
      PROVE  /\ Rows(s) # Refused <=> s # Refused
             /\ s # Refused => Rows(Unmigrated(s, t)) # Refused
  <2>1. ASSUME NEW i, NEW f, s = [info |-> i, files |-> f]
        PROVE  /\ s # Refused /\ Rows(s) # Refused
               /\ Unmigrated(s, t) # Refused /\ Rows(Unmigrated(s, t)) # Refused
    <3>1. ASSUME NEW g
          PROVE  Rows([info |-> i, files |-> g]) # Refused
      <4>1. [info |-> i, files |-> g] # Refused
        BY DEF RefusedApart
      <4>2. Rows([info |-> i, files |-> g])
              = [info |-> i, files |-> Restrict(g, {p \in DOMAIN g : Admitted(p)})]
        BY <4>1 DEF Rows
      <4>. QED
        BY <4>2 DEF RefusedApart
    <3>2. \E g : Unmigrated(s, t) = [info |-> i, files |-> g]
      <4>. DEFINE dropped == (IF t # 210 THEN {F210Only} ELSE {})
                               \cup (IF t \notin {110, 200, 210} THEN {F110Plus} ELSE {})
                  kept == Restrict(f, DOMAIN f \ dropped)
      <4>1. Unmigrated(s, t) = [s EXCEPT !.files = Restrict(@, DOMAIN @ \ dropped)]
        BY Zenon DEF Unmigrated
      <4>. HIDE DEF dropped
      <4>2. [s EXCEPT !.files = Restrict(@, DOMAIN @ \ dropped)] = [info |-> i, files |-> kept]
        BY <2>1
      <4>. QED
        BY <4>1, <4>2
    <3>. QED
      BY <2>1, <3>1, <3>2 DEF RefusedApart
  <2>2. Refused = s => Rows(s) = Refused
    BY DEF Rows
  <2>. QED
    BY <1>2, <2>1, <2>2
<1>3. ASSUME NEW g, NEW i
      PROVE  \/ PlayerPresentation(g, i) = Refused
             \/ \E j, f : PlayerPresentation(g, i) = [info |-> j, files |-> f]
  BY DEF PlayerPresentation
<1>4. Early_ = Refused \/ \E i, f : Early_ = [info |-> i, files |-> f]
  BY <1>3 DEF SelectEarlyEdition
<1>5. Edition = Refused \/ \E i, f : Edition = [info |-> i, files |-> f]
  BY <1>3 DEF SelectEdition
<1>6. files # Refused => Loadable(files)
  <2>. (t \in Early) \in BOOLEAN
    OBVIOUS
  <2>. QED
    BY ReadKeeps
<1>7. files # Refused =>
        Members(tree, info, t, editions) =
          IF t \in Early THEN Rows(Early_)
          ELSE IF Edition = Refused THEN Refused ELSE Rows(Unmigrated(Edition, t))
  BY DEF Members
<1>. HIDE DEF files, Early_, Edition
<1>8. CASE files # Refused /\ t \in Early
  <2>1. Members(tree, info, t, editions) # Refused <=> Early_ # Refused
    BY <1>2, <1>4, <1>7, <1>8
  <2>2. Early_ # Refused <=> /\ Offered(files, info, t, editions)
                             /\ Closable(Body(files, info, t, editions), Entries(t))
    BY <1>6, <1>8, EarlyMade DEF Early_
  <2>. QED
    BY <1>8, <2>1, <2>2 DEF files
<1>9. CASE files # Refused /\ t \notin Early
  <2>1. Members(tree, info, t, editions) # Refused <=> Edition # Refused
    BY <1>2, <1>5, <1>7, <1>9
  <2>2. Edition # Refused <=> /\ Offered(files, info, t, editions)
                              /\ Closable(Body(files, info, t, editions), Entries(t))
    BY <1>6, <1>9, EditionMade DEF Edition
  <2>. QED
    BY <1>9, <2>1, <2>2 DEF files
<1>. QED
  BY <1>1, <1>8, <1>9 DEF files

(* A local build that is asked for under another version of its edition has    *)
(* that version in its metadata, its target file and its changelog.            *)
LEMMA RenamedKept ==
    ASSUME RefusedApart, NEW s, "version" \in DOMAIN s.info, NEW version
    PROVE  Renamed(s, version)
<1>. DEFINE files == Read(s.tree, FALSE)
            local == RenamedMembers(s.tree, s.info, version)
            info == [s.info EXCEPT !.version = version]
            renamed == RenderLocalMirTargetVersion(files, s.info.version, version, "mir")
            selected == PlayerPresentation(renamed, info)
<1>. SUFFICES ASSUME files # Refused, s.info.name = "mir", Presentable(files, s.info),
                     Renderable(files, s.info.version, version)
              PROVE  local # Refused /\ SameRelease(local, CodeOf(version))
                     /\ local.info.version = version
  BY DEF Renamed
<1>1. TargetLua \in DOMAIN files /\ Changelog \in DOMAIN files /\ Codec(version)
  BY DEF Renderable, Presentable
<1>2. Info \in DOMAIN files
  <2>. DEFINE taken == {p \in DOMAIN s.tree : Admitted(p) \/ (FALSE /\ p = EarlyLocale)}
  <2>1. Info \in taken /\ files = Restrict(s.tree, taken)
    BY DEF Read
  <2>. HIDE DEF taken, files
  <2>. QED
    BY <2>1 DEF Restrict
<1>3. info.version = version
  OBVIOUS
<1>4. Changelog # TargetLua /\ License # TargetLua /\ Thumbnail # TargetLua
      /\ Changelog # License /\ Changelog # Thumbnail
  <2>1. Lua(TargetLua) /\ ~Lua(Changelog) /\ ~Lua(License) /\ ~Lua(Thumbnail)
    BY Paths
  <2>2. Changelog # License /\ Changelog # Thumbnail
    BY DEF Changelog, License, Thumbnail
  <2>. QED
    BY <2>1, <2>2
<1>. HIDE DEF files
<1>5. renamed = [p \in DOMAIN files |->
                    IF p = TargetLua THEN TargetText(CodeOf(version), version)
                    ELSE IF p = Changelog THEN Text(<<"heading", Unified(version)>>)
                    ELSE files[p]]
  BY <1>4 DEF RenderLocalMirTargetVersion
<1>. HIDE DEF renamed
<1>6. /\ DOMAIN renamed = DOMAIN files
      /\ renamed[TargetLua].text = <<"target", CodeOf(version), version>>
      /\ renamed[Changelog].text = <<"heading", Unified(version)>>
      /\ \A p \in {License, Thumbnail} : p \in DOMAIN files => renamed[p] = files[p]
  BY <1>1, <1>4, <1>5 DEF TargetText, Text, File
<1>7. renamed # Refused
  BY <1>2, <1>6 DEF RefusedApart
<1>. HIDE DEF info
<1>8. Presentable(renamed, info)
  <2>1. \A x : <<"heading", x>> # <<>>
    OBVIOUS
  <2>2. renamed[Changelog].text # <<>>
    BY <1>6, <2>1
  <2>3. \A p \in {License, Thumbnail, Changelog} : p \in DOMAIN files /\ files[p].text # <<>>
    BY DEF Presentable
  <2>. QED
    BY <1>1, <1>3, <1>6, <2>2, <2>3 DEF Presentable
<1>9. selected # Refused /\ \E f : selected = [info |-> info, files |-> f]
  BY <1>8 DEF PlayerPresentation, RefusedApart
<1>10. local = Rows(selected)
  BY <1>1, <1>6, <1>7 DEF RenamedMembers, Presented, files, renamed, info
<1>11. /\ DOMAIN selected.files =
            {p \in DOMAIN renamed : ~IsPrefix(<<"presentation", "changelog">>, p)}
       /\ \A p \in DOMAIN selected.files : selected.files[p] = renamed[p]
  <2>. DEFINE kept == {p \in DOMAIN renamed : ~IsPrefix(<<"presentation", "changelog">>, p)}
  <2>1. selected = [info |-> info, files |-> Restrict(renamed, kept)]
    BY <1>8 DEF PlayerPresentation
  <2>. HIDE DEF selected, kept
  <2>2. selected.files = Restrict(renamed, kept)
    BY <2>1
  <2>3. DOMAIN selected.files = kept /\ \A p \in kept : selected.files[p] = renamed[p]
    BY <2>2 DEF Restrict
  <2>. QED
    BY <2>3 DEF kept
<1>. HIDE DEF selected
<1>12. PICK f : selected = [info |-> info, files |-> f]
  BY <1>9
<1>13. /\ local.info = info
       /\ DOMAIN local.files = {p \in DOMAIN f : Admitted(p)}
       /\ \A p \in DOMAIN local.files : local.files[p] = f[p]
  BY <1>9, <1>10, <1>12, RowsKeep
<1>14. selected.files = f
  BY <1>12
<1>15. /\ Admitted(TargetLua) /\ ~IsPrefix(<<"presentation", "changelog">>, TargetLua)
       /\ Admitted(Changelog) /\ ~IsPrefix(<<"presentation", "changelog">>, Changelog)
  BY Paths
<1>16. local.files[TargetLua] = renamed[TargetLua] /\ local.files[Changelog] = renamed[Changelog]
  BY <1>1, <1>6, <1>11, <1>13, <1>14, <1>15
<1>17. local # Refused
  <2>. DEFINE kept == Restrict(f, {p \in DOMAIN f : Admitted(p)})
  <2>1. local = [info |-> info, files |-> kept]
    <3>1. Rows(selected) = [selected EXCEPT !.files = Restrict(@, {p \in DOMAIN @ : Admitted(p)})]
      BY <1>9, Zenon DEF Rows
    <3>. HIDE DEF info, local
    <3>. QED
      BY <1>10, <1>12, <3>1
  <2>. QED
    BY <2>1 DEF RefusedApart
<1>. HIDE DEF local
<1>. QED
  BY <1>3, <1>6, <1>13, <1>16, <1>17 DEF SameRelease

(* What a source may be edited to is packaged or refused as it should be.      *)
LEMMA MadeRight ==
    ASSUME RefusedApart, NEW s \in Edits, NEW editions
    PROVE  Made(s, editions)
<1>. SUFFICES ASSUME NEW t \in (Retained \cup Early) \cap DOMAIN editions
              PROVE  LET files   == Read(s.tree, t \in Early)
                         body    == Body(files, s.info, t, editions)
                         package == Members(s.tree, s.info, t, editions)
                     IN  /\ (/\ files # Refused /\ Offered(files, s.info, t, editions)
                             /\ Entries(t) \subseteq DOMAIN body /\ Closed(body, DOMAIN body))
                               => package # Refused
                         /\ package # Refused =>
                               /\ files # Refused /\ Offered(files, s.info, t, editions)
                               /\ Whole(package, t) /\ SameRelease(package, t)
                               /\ Canonical(s.info.version)
                                    => package.info.version = ReleaseVersion(t, s.info.version)
  BY DEF Made
<1>. DEFINE files   == Read(s.tree, t \in Early)
            body    == Body(files, s.info, t, editions)
            package == Members(s.tree, s.info, t, editions)
<1>1. /\ Ordinary(s.tree) /\ "version" \in DOMAIN s.info /\ s.info.version.encoded \in Nat
      /\ t \in Nat
  BY PlayerAssumption, TargetsAssumption
<1>2. package # Refused <=> /\ files # Refused /\ Offered(files, s.info, t, editions)
                            /\ Closable(body, Entries(t))
  BY <1>1, PackagesAreMade
<1>3. package # Refused => Promised(package, s.info, t)
  BY <1>1, PackagesArePromised
<1>4. Entries(t) \subseteq DOMAIN body /\ Closed(body, DOMAIN body) => Closable(body, Entries(t))
  BY DEF Closable
<1>5. Canonical(s.info.version) => Recoded(s.info.version, t) = ReleaseVersion(t, s.info.version)
  BY DEF Canonical, Recoded, ReleaseVersion
<1>. HIDE DEF files, body, package
<1>. QED
  BY <1>2, <1>3, <1>4, <1>5 DEF Promised, files, body, package

(* By every committed record, for every source and every edit of it: a         *)
(* package is refused only where something is missing, and otherwise is whole  *)
(* for its edition and states, in all its places, the version that its release *)
(* is frozen under; so does a local build under another version.               *)
THEOREM PackagesAreRight == RefusedApart => (Spec => []PackagesRight)
<1>. SUFFICES ASSUME RefusedApart PROVE Spec => []PackagesRight
  OBVIOUS
<1>1. ASSUME IInv PROVE PackagesRight
  <2>1. EditsRenamed
    <3>1. \A s \in Edits : "version" \in DOMAIN s.info
      BY PlayerAssumption
    <3>. QED
      BY <3>1, RenamedKept DEF EditsRenamed
  <2>2. \A r \in Records \cup EarlyRecords : EditsMade[r]
    BY MadeRight DEF EditsMade
  <2>3. ASSUME NEW c \in DOMAIN commits
        PROVE  {commits[c].record, commits[c].early} \ {Nil} \subseteq Records \cup EarlyRecords
    <3>. DEFINE X == [source: Sources, record: Records \cup {Nil}, early: EarlyRecords \cup {Nil}]
    <3>1. commits \in Seq(X)
      BY <1>1 DEF IInv, WorldOK
    <3>. HIDE DEF X
    <3>2. commits[c] \in X
      BY <3>1
    <3>. QED
      BY <3>2 DEF X
  <2>. QED
    BY <2>1, <2>2, <2>3 DEF PackagesRight
<1>2. IInv => PackagesRight
  BY <1>1
<1>. QED
  BY AlwaysIInv, <1>2, PTL

(* Every archive of the plan is in it.                                         *)
LEMMA ArchivesPlanned ==
    \A early \in BOOLEAN : \A t \in Retained \cup (IF early THEN Early ELSE {}) :
        \E i \in 1..Len(WriteOrder(early)) : WriteOrder(early)[i] = Archive(t)
<1>1. R \in Nat /\ E \in Nat
  BY OrderFacts
<1>2. /\ Len(WriteOrder(TRUE)) = R + E + 3 /\ Len(WriteOrder(FALSE)) = R + 2
      /\ \A i \in 1..R : WriteOrder(TRUE)[i] = Archive(RetainedOrder[i])
      /\ \A i \in 1..R : WriteOrder(FALSE)[i] = Archive(RetainedOrder[i])
      /\ \A j \in 1..E : WriteOrder(TRUE)[R + 1 + j] = Archive(EarlyOrder[j])
  BY PlanLong, PlanShort
<1>3. /\ \A i \in 1..R : i \in 1..(R + E + 3) /\ i \in 1..(R + 2)
      /\ \A j \in 1..E : R + 1 + j \in 1..(R + E + 3)
  BY <1>1
<1>4. ASSUME NEW early \in BOOLEAN, NEW t \in Retained
      PROVE  \E i \in 1..Len(WriteOrder(early)) : WriteOrder(early)[i] = Archive(t)
  <2>1. PICK i \in 1..R : RetainedOrder[i] = t
    BY OrderFacts
  <2>2. /\ i \in 1..Len(WriteOrder(TRUE)) /\ WriteOrder(TRUE)[i] = Archive(t)
        /\ i \in 1..Len(WriteOrder(FALSE)) /\ WriteOrder(FALSE)[i] = Archive(t)
    BY <1>2, <1>3, <2>1, Zenon
  <2>. QED
    BY <2>2
<1>5. ASSUME NEW t \in Early
      PROVE  \E i \in 1..Len(WriteOrder(TRUE)) : WriteOrder(TRUE)[i] = Archive(t)
  <2>1. PICK j \in 1..E : EarlyOrder[j] = t
    BY OrderFacts
  <2>2. R + 1 + j \in 1..Len(WriteOrder(TRUE)) /\ WriteOrder(TRUE)[R + 1 + j] = Archive(t)
    BY <1>2, <1>3, <2>1, Zenon
  <2>. QED
    BY <2>2
<1>. QED
  BY <1>4, <1>5

LEMMA PlayableFollows == IInv => SealedPlayable
<1>. SUFFICES ASSUME IInv, Box[1] = "sealed" PROVE SealedPlayable
  BY DEF SealedPlayable
<1>. DEFINE inv == out[Inventory]
            c == commits[inv[2]]
<1>1. Inventoried
  BY BoxIs DEF BoxSeen
<1>2. /\ inv[2] \in 1..Len(commits) /\ inv[3] \in BOOLEAN
      /\ Valid(inv[2], inv[3])
      /\ \A i \in 1..Len(WriteOrder(inv[3])) : Builds(WriteOrder(inv[3])[i], inv[2])
  <2>1. inv \in Inventories
    BY <1>1 DEF IInv, SealOK
  <2>2. inv[3] \in BOOLEAN
    BY <2>1, ContentsDiffer DEF Inventories
  <2>. QED
    BY <1>1, <2>2 DEF IInv, SealOK
<1>3. c.source \in Sources /\ c.record \in Records /\ (inv[3] => c.early \in EarlyRecords)
  <2>1. c \in [source: Sources, record: Records \cup {Nil}, early: EarlyRecords \cup {Nil}]
    <3>. DEFINE X == [source: Sources, record: Records \cup {Nil}, early: EarlyRecords \cup {Nil}]
    <3>1. commits \in Seq(X)
      BY DEF IInv, WorldOK
    <3>. HIDE DEF X
    <3>2. \A i \in 1..Len(commits) : commits[i] \in X
      BY <3>1
    <3>. HIDE DEF inv
    <3>3. c \in X
      BY <1>2, <3>2
    <3>. QED
      BY <3>3 DEF X
  <2>2. c.record # Nil /\ (inv[3] => c.early # Nil)
    BY <1>2 DEF Valid, Targeted, RecordValid, Earlied, EarlyRecordValid
  <2>. QED
    BY <2>1, <2>2
<1>4. ASSUME NEW t \in Retained \cup (IF inv[3] THEN Early ELSE {})
      PROVE  LET package == Built[c.source][RecordOf(Archive(t), inv[2])][t]
             IN  package # Refused /\ Promised(package, Player[c.source].info, t)
  <2>. DEFINE r == RecordOf(Archive(t), inv[2])
              package == Built[c.source][r][t]
  <2>1. t \in Retained \cup Early /\ t \in Nat
    BY <1>2, TargetsAssumption
  <2>2. r \in Records \cup EarlyRecords
    <3>1. CASE t \in Early
      <4>1. inv[3]
        BY <3>1, OrdersAssumption
      <4>2. r \in {c.early, c.record}
        BY DEF RecordOf
      <4>. QED
        BY <1>3, <4>1, <4>2
    <3>2. CASE t \notin Early
      <4>1. ~EarlyFile(Archive(t))
        BY <3>2, FilesDiffer, SMTT(30) DEF EarlyFile
      <4>. QED
        BY <1>3, <4>1 DEF RecordOf
    <3>. QED
      BY <3>1, <3>2
  <2>3. package = Members(Player[c.source].tree, Player[c.source].info, t, Editions[r])
    BY <1>3, <2>1, <2>2 DEF Built
  <2>4. package # Refused
    <3>1. Builds(Archive(t), inv[2])
      BY <1>2, ArchivesPlanned
    <3>. QED
      BY <2>1, <3>1 DEF Builds
  <2>5. /\ Ordinary(Player[c.source].tree) /\ "version" \in DOMAIN Player[c.source].info
        /\ Player[c.source].info.version.encoded \in Nat
    BY <1>3, PlayerAssumption
  <2>. HIDE DEF r, package, c, inv
  <2>6. Promised(package, Player[c.source].info, t)
    BY <2>1, <2>3, <2>4, <2>5, PackagesArePromised
  <2>. QED
    BY <2>4, <2>6 DEF package, r
<1>. QED
  BY <1>4 DEF SealedPlayable, Promised

(* What is sealed can be played, for every plan, source, record, number of     *)
(* runs, commits and damages: every archive of a sealed output is a whole      *)
(* package, and all of them state the one release of their source.             *)
THEOREM SealedIsPlayable == Spec => []SealedPlayable
<1>1. IInv => SealedPlayable
  BY PlayableFollows
<1>. QED
  BY AlwaysIInv, <1>1, PTL
=============================================================================
