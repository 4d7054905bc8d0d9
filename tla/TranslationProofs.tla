--------------------------- MODULE TranslationProofs ---------------------------
(* Proofs about Translations for any players, sites, keys, catalogues and      *)
(* limits: the window holds, labels are fresh, a joining client finds what the *)
(* others have, the tick is installed exactly while it is needed, and a pass   *)
(* of it leaves no expired request.                                            *)
EXTENDS Translations, FiniteSetTheorems, WellFoundedInduction, TLAPS

(* A set of naturals that is not empty has a least one.                        *)
LEMMA NatMin ==
    ASSUME NEW T, T \subseteq Nat, T # {}
    PROVE  \E x \in T : \A y \in T : x <= y
<1>. DEFINE Below == {ss \in Nat \X Nat : ss[1] < ss[2]}
<1>1. IsWellFoundedOn(Below, Nat)
  <2>1. OpToRel(<, Nat) = Below
    BY Zenon DEF OpToRel
  <2>. QED
    BY <2>1, NatLessThanWellFounded, Zenon
<1>2. PICK x \in T : \A y \in T : ~ (<<y, x>> \in Below)
  <2>. HIDE DEF Below
  <2>. QED
    BY <1>1, WFMin, Zenon
<1>3. ASSUME NEW y \in T, y < x PROVE <<y, x>> \in Below
  BY <1>3
<1>4. \A y \in T : ~ (y < x)
  <2>. HIDE DEF Below
  <2>. QED
    BY <1>2, <1>3
<1>. QED
  BY <1>4

(* Induction over the naturals, for a set: the form of it whose proof and uses *)
(* need no operator as a parameter.                                            *)
LEMMA NatSetInduction ==
    ASSUME NEW S, 0 \in S, \A n \in Nat : n \in S => n + 1 \in S
    PROVE  \A n \in Nat : n \in S
<1>. SUFFICES ASSUME NEW m \in Nat, m \notin S PROVE FALSE
  OBVIOUS
<1>. DEFINE T == {n \in Nat : n \notin S}
<1>1. PICK x \in T : \A y \in T : x <= y
  <2>1. T \subseteq Nat /\ T # {}
    OBVIOUS
  <2>. HIDE DEF T
  <2>. QED
    BY <2>1, NatMin
<1>2. x # 0 /\ x - 1 \in Nat /\ x - 1 \in S
  <2>1. x # 0 /\ x - 1 \in Nat
    OBVIOUS
  <2>. QED
    BY <2>1, <1>1
<1>. QED
  BY <1>2
-----------------------------------------------------------------------------
(* What is true of one desk.                                                   *)

LEMMA Limits ==
    /\ Window \in Nat \ {0} /\ Work \in Nat \ {0} /\ Batch \in Nat \ {0}
    /\ Expiry \in Nat \ {0} /\ LastId \in Nat \ {0}
    /\ Ids \subseteq Nat
    /\ "other" \notin DOMAIN Catalogue
    /\ \A v \in DOMAIN Catalogue : Catalogue[v] \in Seq(Keys)
    /\ Nil \notin Answers /\ Nil \notin Caches
    /\ \A requests \in SUBSET Requests : Nil # requests
  BY WindowAssumption, CatalogueAssumption, NilAssumption DEF Ids

(* The requests MIR knows of, wherever it keeps them.                          *)
Listed(requests) == IF requests = Nil THEN {} ELSE requests
Held(s) == IF s.cache # Nil THEN s.cache.pending ELSE Listed(s.active) \cup Listed(s.retired)

(* Labels on show are right.                                                   *)
Fresh(s) ==
    s.cache # Nil =>
      \A k \in Keys : s.cache.labels[k] # Nil =>
        s.cache.labels[k] = [key |-> k, site |-> s.cache.site, life |-> s.life]

(* What a present request will be answered is right, unless the player moved.  *)
Honest(s) ==
    (s.cache # Nil /\ s.cache.site = s.site) =>
      \A r \in s.cache.pending : r.current =>
        s.flight[r.id] \in {Nil, [key |-> r.key, site |-> s.site, life |-> s.life]}

(* MIR knows of every request the engine has lately been asked, and they are   *)
(* no more than the window.                                                    *)
Counted(s) ==
    /\ \A i \in Ids : (s.flight[i] # Nil /\ s.age[i] < Expiry) => \E r \in Held(s) : r.id = i
    /\ IsFiniteSet(Held(s)) /\ Cardinality(Held(s)) <= Window

(* A cache is of a player who is there and owes nothing of an earlier life.    *)
Core(s) ==
    /\ s \in Desks
    /\ s.cache # Nil => s.present /\ s.retired = Nil
    /\ Fresh(s) /\ Honest(s) /\ Counted(s)

(* The ledger and its copy agree with the cache, and only one life has a       *)
(* ledger.                                                                     *)
Filed(s) ==
    /\ s.saved <=> s.cache # Nil
    /\ s.cache # Nil => s.active = Ledger(s.cache.pending)
    /\ s.retired # Nil => s.active = Nil

Whole(s) == Core(s) /\ Filed(s)

(* No request has outlived its time.                                           *)
Lively(s) == \A r \in Held(s) : s.age[r.id] < Expiry

(* Between two moves of the player the cache is for where the player is.       *)
Placed(s) == (s.cache # Nil /\ ~s.moved) => s.cache.site = s.site

SamePlayer(s, t) ==
    /\ t.present = s.present /\ t.connected = s.connected
    /\ t.life = s.life /\ t.site = s.site /\ t.moved = s.moved

(* What every part of a handler does to a desk.                                *)
Nears(s, t) ==
    /\ SamePlayer(s, t)
    /\ t.cache # Nil => t.cache.site = s.site \/ (s.cache # Nil /\ t.cache.site = s.cache.site)
    /\ Lively(s) => Lively(t)

Leads(s, t) == Whole(t) /\ Nears(s, t)

LEMMA NearsOn ==
    ASSUME NEW s, NEW t, NEW u, Nears(s, t), Nears(t, u)
    PROVE  Nears(s, u)
  BY DEF Nears, SamePlayer

LEMMA LeadsNowhere ==
    ASSUME NEW s, Whole(s) PROVE Leads(s, s)
  BY DEF Leads, Nears, SamePlayer

(* A desk that differs only in what the view shows, or where the player is.    *)
Redrawn(s, t) ==
    /\ t \in Desks
    /\ t.flight = s.flight /\ t.age = s.age
    /\ t.cache = s.cache /\ t.saved = s.saved /\ t.active = s.active /\ t.retired = s.retired
    /\ t.present = s.present /\ t.life = s.life /\ t.site = s.site

LEMMA RedrawnKeeps ==
    ASSUME NEW s, NEW t, Redrawn(s, t)
    PROVE  /\ Held(t) = Held(s)
           /\ Core(s) => Core(t)
           /\ Whole(s) => Whole(t)
           /\ Lively(s) => Lively(t)
<1>1. Held(t) = Held(s)
  BY DEF Redrawn, Held
<1>2. Core(s) => Core(t)
  BY <1>1 DEF Redrawn, Core, Fresh, Honest, Counted
<1>3. Filed(s) => Filed(t)
  BY DEF Redrawn, Filed
<1>4. Lively(s) => Lively(t)
  BY <1>1 DEF Redrawn, Lively
<1>. QED
  BY <1>1, <1>2, <1>3, <1>4 DEF Whole
-----------------------------------------------------------------------------
(* The cache.                                                                  *)

(* Settling or failing keys leaves the requests, and labels at most as they    *)
(* were.                                                                       *)
Dimmed(c, d) ==
    /\ d \in Caches /\ d.site = c.site /\ d.pending = c.pending
    /\ \A k \in Keys : d.labels[k] \in {c.labels[k], Nil}

LEMMA SettleKeeps ==
    ASSUME NEW c \in Caches, NEW k \in Keys, NEW label \in Answers \cup {Nil}
    PROVE  LET d == Settle(c, k, label)
           IN  /\ d \in Caches /\ d.site = c.site /\ d.pending = c.pending
               /\ \A j \in Keys \ {k} : d.labels[j] = c.labels[j]
               /\ d.labels[k] \in {c.labels[k], label}
<1>. DEFINE settled == c.settled \cup {k}
            labels  == [c.labels EXCEPT ![k] = label]
            fresh   == IF c.fresh < Batch THEN c.fresh + 1 ELSE c.fresh
            refresh == c.refresh \/ c.fresh + 1 >= Batch
                         \/ Cardinality(c.settled) + 1 >= Len(Catalogue[c.view])
            d       == [c EXCEPT !.settled = settled, !.labels = labels, !.fresh = fresh,
                                 !.refresh = refresh]
<1>1. /\ settled \in SUBSET Keys /\ labels \in [Keys -> Answers \cup {Nil}] /\ fresh \in Nat
      /\ refresh \in BOOLEAN
      /\ labels[k] = label /\ \A j \in Keys \ {k} : labels[j] = c.labels[j]
  BY DEF Caches
<1>2. CASE k \in c.settled
  BY <1>2 DEF Settle
<1>3. CASE k \notin c.settled
  <2>1. Settle(c, k, label) = d
    BY <1>3 DEF Settle
  <2>. HIDE DEF settled, labels, fresh, refresh
  <2>2. d \in Caches /\ d.site = c.site /\ d.pending = c.pending /\ d.labels = labels
    BY <1>1 DEF Caches
  <2>. QED
    BY <1>1, <2>1, <2>2
<1>. QED
  BY <1>2, <1>3

LEMMA RetryKeeps ==
    ASSUME NEW c \in Caches, NEW k \in Keys
    PROVE  Dimmed(c, Retry(c, k))
<1>. DEFINE d == [c EXCEPT !.tries[k] = @ + 1]
<1>1. d \in Caches /\ d.site = c.site /\ d.pending = c.pending /\ d.labels = c.labels
      /\ d.queue = c.queue
  <2>. DEFINE tries == [c.tries EXCEPT ![k] = @ + 1]
  <2>1. tries \in [Keys -> Nat]
    BY DEF Caches
  <2>2. d = [c EXCEPT !.tries = tries]
    OBVIOUS
  <2>. HIDE DEF tries, d
  <2>. QED
    BY <2>1, <2>2 DEF Caches
<1>2. CASE d.tries[k] >= RetryLimit
  <2>1. Retry(c, k) = Settle(d, k, Nil)
    BY <1>2 DEF Retry
  <2>. HIDE DEF d
  <2>2. /\ Settle(d, k, Nil) \in Caches /\ Settle(d, k, Nil).site = d.site
        /\ Settle(d, k, Nil).pending = d.pending
        /\ \A j \in Keys \ {k} : Settle(d, k, Nil).labels[j] = d.labels[j]
        /\ Settle(d, k, Nil).labels[k] \in {d.labels[k], Nil}
    BY <1>1, SettleKeeps
  <2>. QED
    BY <1>1, <2>1, <2>2 DEF Dimmed
<1>3. CASE ~(d.tries[k] >= RetryLimit) /\ Contains(d.queue, k)
  <2>1. Retry(c, k) = d
    BY <1>3 DEF Retry
  <2>. HIDE DEF d
  <2>. QED
    BY <1>1, <2>1 DEF Dimmed
<1>4. CASE ~(d.tries[k] >= RetryLimit) /\ ~Contains(d.queue, k)
  <2>1. Retry(c, k) = [d EXCEPT !.queue = Append(@, k)]
    BY <1>4 DEF Retry
  <2>. HIDE DEF d
  <2>2. Append(d.queue, k) \in Seq(Keys)
    BY <1>1 DEF Caches
  <2>3. /\ [d EXCEPT !.queue = Append(@, k)] \in Caches
        /\ [d EXCEPT !.queue = Append(@, k)].site = d.site
        /\ [d EXCEPT !.queue = Append(@, k)].pending = d.pending
        /\ [d EXCEPT !.queue = Append(@, k)].labels = d.labels
    BY <1>1, <2>2 DEF Caches
  <2>. QED
    BY <1>1, <2>1, <2>3 DEF Dimmed
<1>. QED
  BY <1>2, <1>3, <1>4

LEMMA DimmedOn ==
    ASSUME NEW c, NEW d, NEW e, Dimmed(c, d), Dimmed(d, e)
    PROVE  Dimmed(c, e)
  BY DEF Dimmed

(* A desk whose cache is dimmed.                                               *)
LEMMA DimmedDesk ==
    ASSUME NEW s, Core(s), s.cache # Nil, NEW d, Dimmed(s.cache, d)
    PROVE  LET t == [s EXCEPT !.cache = d]
           IN  /\ Core(t) /\ SamePlayer(s, t) /\ t.cache = d /\ t.cache # Nil
               /\ t.active = s.active /\ t.saved = s.saved /\ t.retired = s.retired
               /\ t.rooted = s.rooted /\ t.tab = s.tab
               /\ Lively(s) => Lively(t)
<1>. DEFINE t == [s EXCEPT !.cache = d]
<1>1. d \in Caches /\ d # Nil /\ s \in Desks
  BY Limits DEF Dimmed, Core
<1>2. /\ t \in Desks /\ t.cache = d /\ t.flight = s.flight /\ t.age = s.age
      /\ t.active = s.active /\ t.saved = s.saved /\ t.retired = s.retired
      /\ t.present = s.present /\ t.connected = s.connected /\ t.life = s.life
      /\ t.site = s.site /\ t.moved = s.moved /\ t.rooted = s.rooted /\ t.tab = s.tab
  BY <1>1 DEF Desks
<1>. HIDE DEF t
<1>3. Held(t) = Held(s)
  BY <1>1, <1>2 DEF Held, Dimmed
<1>4. Fresh(t)
  BY <1>1, <1>2 DEF Fresh, Dimmed, Core
<1>5. Honest(t)
  BY <1>1, <1>2 DEF Honest, Dimmed, Core
<1>6. Counted(t)
  BY <1>2, <1>3 DEF Counted, Core
<1>7. Core(t)
  BY <1>1, <1>2, <1>4, <1>5, <1>6 DEF Core
<1>8. Lively(s) => Lively(t)
  BY <1>2, <1>3 DEF Lively
<1>9. SamePlayer(s, t)
  BY <1>2 DEF SamePlayer
<1>. QED
  BY <1>1, <1>2, <1>7, <1>8, <1>9 DEF t

(* The engine takes a request.                                                 *)
LEMMA AskedKeeps ==
    ASSUME NEW s, Core(s), s.cache # Nil, Cardinality(s.cache.pending) < Window,
           NEW k \in Keys, FreeIds(s) # {}, NEW t, t = Asked(s, k)
    PROVE  /\ Core(t) /\ SamePlayer(s, t) /\ t.cache # Nil /\ t.cache.site = s.cache.site
           /\ t.saved = s.saved /\ t.retired = s.retired
           /\ Lively(s) => Lively(t)
<1>. DEFINE id == CHOOSE i \in FreeIds(s) : \A j \in FreeIds(s) : i <= j
            answer  == [key |-> k, site |-> s.site, life |-> s.life]
            new     == [id |-> id, key |-> k, current |-> TRUE]
            flight  == [s.flight EXCEPT ![id] = answer]
            age     == [s.age EXCEPT ![id] = 0]
            pending == s.cache.pending \cup {new}
            cache   == [s.cache EXCEPT !.pending = pending]
<1>1. s \in Desks /\ s.cache \in Caches
  BY DEF Core, Desks
<1>2. id \in FreeIds(s)
  <2>1. FreeIds(s) \subseteq Nat
    BY Limits DEF FreeIds
  <2>2. \E i \in FreeIds(s) : \A j \in FreeIds(s) : i <= j
    BY <2>1, NatMin
  <2>. QED
    BY <2>2
<1>3. id \in Ids /\ s.flight[id] = Nil /\ \A r \in s.cache.pending : r.id # id
  <2>1. id \in Ids /\ s.flight[id] = Nil /\ id \notin Known(s)
    BY <1>2 DEF FreeIds
  <2>2. s.cache.pending # Nil
    BY <1>1, Limits DEF Caches
  <2>3. IdsOf(s.cache.pending) \subseteq Known(s)
    BY DEF Known
  <2>. HIDE DEF id
  <2>. QED
    BY <2>1, <2>2, <2>3 DEF IdsOf
<1>4. t = [s EXCEPT !.flight = flight, !.age = age, !.cache = cache]
  BY DEF Asked
<1>. HIDE DEF id
<1>5. answer \in Answers /\ new \in Requests /\ new.id = id /\ new.key = k /\ new.current = TRUE
      /\ answer # Nil
  BY <1>1, <1>3, Limits DEF Answers, Requests, Desks
<1>6. flight \in [Ids -> Answers \cup {Nil}] /\ flight[id] = answer
      /\ \A j \in Ids \ {id} : flight[j] = s.flight[j]
  BY <1>1, <1>3, <1>5 DEF Desks
<1>7. age \in [Ids -> 0 .. Expiry] /\ age[id] = 0 /\ \A j \in Ids \ {id} : age[j] = s.age[j]
  BY <1>1, <1>3, Limits DEF Desks
<1>8. pending \subseteq Requests /\ s.cache.pending \subseteq Requests
  BY <1>1, <1>5 DEF Caches
<1>9. cache \in Caches /\ cache.site = s.cache.site /\ cache.labels = s.cache.labels
      /\ cache.pending = pending
  BY <1>1, <1>8 DEF Caches
<1>. HIDE DEF answer, new, flight, age, pending, cache
<1>10. cache # Nil
  BY <1>9, Limits
<1>11. /\ t \in Desks /\ t.flight = flight /\ t.age = age /\ t.cache = cache
       /\ t.active = s.active /\ t.saved = s.saved /\ t.retired = s.retired
       /\ t.present = s.present /\ t.connected = s.connected /\ t.life = s.life
       /\ t.site = s.site /\ t.moved = s.moved
  BY <1>1, <1>4, <1>6, <1>7, <1>9 DEF Desks
<1>12. Held(t) = pending /\ Held(s) = s.cache.pending
  BY <1>9, <1>10, <1>11 DEF Held
<1>13. Fresh(t)
  BY <1>9, <1>11 DEF Fresh, Core
<1>14. Honest(t)
  <2>1. SUFFICES ASSUME cache.site = s.site, NEW r \in pending, r.current
                 PROVE  flight[r.id] \in {Nil, [key |-> r.key, site |-> s.site, life |-> s.life]}
    BY <1>9, <1>11 DEF Honest
  <2>2. CASE r = new
    BY <2>2, <1>5, <1>6 DEF answer
  <2>3. CASE r # new
    <3>1. r \in s.cache.pending /\ r.id \in Ids \ {id}
      BY <2>3, <1>3, <1>8 DEF pending, Requests
    <3>. QED
      BY <2>1, <3>1, <1>6, <1>9 DEF Core, Honest
  <2>. QED
    BY <2>2, <2>3
<1>15. Counted(t)
  <2>1. IsFiniteSet(s.cache.pending) /\ Cardinality(s.cache.pending) \in Nat
    BY <1>12, FS_CardinalityType DEF Core, Counted
  <2>2. IsFiniteSet(pending) /\ Cardinality(pending) <= Cardinality(s.cache.pending) + 1
    <3>1. /\ IsFiniteSet(s.cache.pending \cup {new})
          /\ Cardinality(s.cache.pending \cup {new})
               = IF new \in s.cache.pending THEN Cardinality(s.cache.pending)
                 ELSE Cardinality(s.cache.pending) + 1
      BY <2>1, FS_AddElement
    <3>. QED
      BY <2>1, <3>1 DEF pending
  <2>3. Cardinality(pending) <= Window
    <3>1. Cardinality(pending) \in Nat
      BY <2>2, FS_CardinalityType
    <3>. QED
      BY <2>1, <2>2, <3>1, Limits
  <2>4. ASSUME NEW i \in Ids, flight[i] # Nil, age[i] < Expiry PROVE \E r \in pending : r.id = i
    <3>1. CASE i = id
      BY <3>1, <1>5 DEF pending
    <3>2. CASE i # id
      <4>1. \E r \in s.cache.pending : r.id = i
        BY <2>4, <3>2, <1>6, <1>7, <1>12 DEF Core, Counted
      <4>. QED
        BY <4>1 DEF pending
    <3>. QED
      BY <3>1, <3>2
  <2>. QED
    BY <2>2, <2>3, <2>4, <1>11, <1>12 DEF Counted
<1>16. Core(t)
  BY <1>11, <1>13, <1>14, <1>15 DEF Core
<1>17. Lively(s) => Lively(t)
  <2>1. SUFFICES ASSUME Lively(s), NEW r \in pending PROVE age[r.id] < Expiry
    BY <1>11, <1>12 DEF Lively
  <2>2. CASE r = new
    BY <2>2, <1>5, <1>7, Limits
  <2>3. CASE r # new
    <3>1. r \in s.cache.pending /\ r.id \in Ids \ {id}
      BY <2>3, <1>3, <1>8 DEF pending, Requests
    <3>. QED
      BY <2>1, <3>1, <1>7, <1>12 DEF Lively
  <2>. QED
    BY <2>2, <2>3
<1>. QED
  BY <1>9, <1>10, <1>11, <1>16, <1>17 DEF SamePlayer

(* One turn of the dispatch loop.                                              *)
Asking(s, t) ==
    /\ Core(t) /\ SamePlayer(s, t) /\ t.cache # Nil /\ t.cache.site = s.cache.site
    /\ t.retired = s.retired
    /\ Lively(s) => Lively(t)

LEMMA AskNextKeeps ==
    ASSUME NEW s, Core(s), s.cache # Nil, NEW failing
    PROVE  Asking(s, AskNext(s, failing))
<1>. DEFINE waiting == {i \in DOMAIN s.cache.queue : Waiting(s.cache, s.cache.queue[i])}
            n == CHOOSE i \in waiting : \A j \in waiting : i <= j
            k == s.cache.queue[n]
            queue == SubSeq(s.cache.queue, n + 1, Len(s.cache.queue))
            cache == [s.cache EXCEPT !.queue = queue]
            t == [s EXCEPT !.cache = cache]
<1>1. s \in Desks /\ s.cache \in Caches /\ s.cache.queue \in Seq(Keys)
  BY SMTT(30) DEF Core, Desks, Caches
<1>2. AskNext(s, failing) =
        IF Cardinality(s.cache.pending) >= Window \/ waiting = {} THEN s
        ELSE IF k \in failing \/ FreeIds(s) = {} THEN [t EXCEPT !.cache = Retry(@, k)]
        ELSE Asked(t, k)
  BY DEF AskNext
<1>3. CASE Cardinality(s.cache.pending) >= Window \/ waiting = {}
  BY <1>2, <1>3, Zenon DEF Asking, SamePlayer
<1>4. CASE ~(Cardinality(s.cache.pending) >= Window \/ waiting = {})
  <2>1. n \in waiting
    <3>1. waiting \subseteq Nat /\ waiting # {}
      BY <1>1, <1>4
    <3>2. \E i \in waiting : \A j \in waiting : i <= j
      BY <3>1, NatMin
    <3>. QED
      BY <3>2
  <2>2. n \in 1 .. Len(s.cache.queue)
    BY <2>1, <1>1
  <2>. HIDE DEF n, waiting
  <2>3. k \in Keys /\ queue \in Seq(Keys)
    <3>1. k \in Keys
      BY <2>2, <1>1
    <3>2. n + 1 \in Nat /\ Len(s.cache.queue) \in Nat
      BY <2>2, <1>1
    <3>3. \A i \in n + 1 .. Len(s.cache.queue) : s.cache.queue[i] \in Keys
      BY <2>2, <1>1
    <3>. QED
      BY <2>2, <3>1, <3>2, <3>3, <1>1
  <2>. HIDE DEF k, queue
  <2>4. cache \in Caches /\ cache.site = s.cache.site /\ cache.labels = s.cache.labels
        /\ cache.pending = s.cache.pending
    BY <2>3, <1>1 DEF Caches
  <2>. HIDE DEF cache
  <2>5. Dimmed(s.cache, cache)
    BY <2>4 DEF Dimmed
  <2>6. /\ Core(t) /\ SamePlayer(s, t) /\ t.cache = cache /\ t.cache # Nil
        /\ t.retired = s.retired
        /\ Lively(s) => Lively(t)
    BY <2>5, DimmedDesk
  <2>. HIDE DEF t
  <2>7. CASE k \in failing \/ FreeIds(s) = {}
    <3>1. Dimmed(t.cache, Retry(t.cache, k))
      BY <2>3, <2>4, <2>6, RetryKeeps
    <3>. DEFINE u == [t EXCEPT !.cache = Retry(t.cache, k)]
    <3>2. /\ Core(u) /\ SamePlayer(t, u) /\ u.cache = Retry(t.cache, k) /\ u.cache # Nil
          /\ u.retired = t.retired
          /\ Lively(t) => Lively(u)
      BY <2>6, <3>1, DimmedDesk
    <3>3. AskNext(s, failing) = u
      BY <1>2, <1>4, <2>7
    <3>. HIDE DEF u
    <3>. QED
      BY <2>4, <2>6, <3>1, <3>2, <3>3 DEF Asking, SamePlayer, Dimmed
  <2>8. CASE ~(k \in failing \/ FreeIds(s) = {})
    <3>1. FreeIds(t) # {}
      <4>1. t.flight = s.flight /\ t.active = s.active /\ t.retired = s.retired
        BY <1>1 DEF t, Desks
      <4>2. FreeIds(t) = FreeIds(s)
        BY <4>1, <2>4, <2>6 DEF FreeIds, Known, IdsOf
      <4>. QED
        BY <4>2, <2>8
    <3>2. Cardinality(t.cache.pending) < Window
      <4>1. Cardinality(s.cache.pending) \in Nat
        BY FS_CardinalityType DEF Core, Counted, Held
      <4>. QED
        BY <4>1, <1>4, <2>4, <2>6, Limits
    <3>3. AskNext(s, failing) = Asked(t, k)
      BY <1>2, <1>4, <2>8
    <3>4. /\ Core(Asked(t, k)) /\ SamePlayer(t, Asked(t, k)) /\ Asked(t, k).cache # Nil
          /\ Asked(t, k).cache.site = t.cache.site
          /\ Asked(t, k).retired = t.retired
          /\ Lively(t) => Lively(Asked(t, k))
      BY <2>3, <2>6, <3>1, <3>2, AskedKeeps
    <3>. QED
      BY <2>4, <2>6, <3>3, <3>4 DEF Asking, SamePlayer
  <2>. QED
    BY <2>7, <2>8
<1>. QED
  BY <1>3, <1>4
-----------------------------------------------------------------------------
(* Dispatching.                                                                *)

LEMMA SyncKeeps ==
    ASSUME NEW s, Core(s), s.cache # Nil
    PROVE  /\ Leads(s, Sync(s)) /\ Sync(s).cache = s.cache /\ Sync(s).retired = Nil
           /\ Sync(s).rooted = s.rooted /\ Sync(s).tab = s.tab
           /\ Sync(s).flight = s.flight /\ Sync(s).age = s.age
           /\ Sync(s).active = Ledger(s.cache.pending)
<1>. DEFINE active == Ledger(s.cache.pending)
            t == [s EXCEPT !.active = active, !.saved = TRUE]
<1>1. s \in Desks /\ s.cache \in Caches /\ s.retired = Nil
  BY DEF Core, Desks
<1>2. active \in (SUBSET Requests) \cup {Nil}
  BY <1>1 DEF Ledger, Caches
<1>3. Sync(s) = t
  BY DEF Sync
<1>4. active = Ledger(s.cache.pending)
  OBVIOUS
<1>. HIDE DEF active
<1>5. /\ t \in Desks /\ t.cache = s.cache /\ t.flight = s.flight /\ t.age = s.age
      /\ t.active = active /\ t.saved = TRUE /\ t.retired = s.retired
      /\ t.present = s.present /\ t.connected = s.connected /\ t.life = s.life
      /\ t.site = s.site /\ t.moved = s.moved /\ t.rooted = s.rooted /\ t.tab = s.tab
  BY <1>1, <1>2 DEF Desks
<1>. HIDE DEF t
<1>6. Held(t) = Held(s)
  BY <1>5 DEF Held
<1>7. Core(t)
  BY <1>5, <1>6 DEF Core, Fresh, Honest, Counted
<1>8. Filed(t)
  BY <1>1, <1>4, <1>5 DEF Filed
<1>9. Nears(s, t)
  BY <1>5, <1>6 DEF Nears, SamePlayer, Lively
<1>. QED
  BY <1>1, <1>3, <1>4, <1>5, <1>7, <1>8, <1>9 DEF Leads, Whole

LEMMA AskingOn ==
    ASSUME NEW s, NEW t, NEW u, Asking(s, t), Asking(t, u)
    PROVE  Asking(s, u)
  BY DEF Asking, SamePlayer

(* The recursive function of the dispatch loop exists.                         *)
LEMMA AskExists ==
    ASSUME NEW n \in Nat, NEW s, NEW failing
    PROVE  \E after : after = [k \in 0 .. n |->
             IF k = 0 THEN s ELSE AskNext(after[k - 1], failing)]
<1>. DEFINE S == {m \in Nat : \E after : after = [k \in 0 .. m |->
                      IF k = 0 THEN s ELSE AskNext(after[k - 1], failing)]}
<1>1. 0 \in S
  <2>. DEFINE f == [k \in 0 .. 0 |-> s]
  <2>1. f = [k \in 0 .. 0 |-> IF k = 0 THEN s ELSE AskNext(f[k - 1], failing)]
    OBVIOUS
  <2>. QED
    BY <2>1
<1>2. ASSUME NEW m \in Nat, m \in S PROVE m + 1 \in S
  <2>1. PICK f : f = [k \in 0 .. m |->
                      IF k = 0 THEN s ELSE AskNext(f[k - 1], failing)]
    BY <1>2
  <2>. DEFINE g == [k \in 0 .. m + 1 |-> IF k <= m THEN f[k] ELSE AskNext(f[m], failing)]
  <2>2. \A k \in 0 .. m : f[k] = IF k = 0 THEN s ELSE AskNext(f[k - 1], failing)
    BY <2>1
  <2>3. \A k \in 0 .. m + 1 : g[k] = IF k = 0 THEN s ELSE AskNext(g[k - 1], failing)
    BY <2>2
  <2>4. g = [k \in 0 .. m + 1 |-> IF k = 0 THEN s ELSE AskNext(g[k - 1], failing)]
    BY <2>3
  <2>. HIDE DEF g
  <2>5. \E after : after = [k \in 0 .. m + 1 |->
                    IF k = 0 THEN s ELSE AskNext(after[k - 1], failing)]
    BY <2>4
  <2>. QED
    BY <2>5
<1>. HIDE DEF S
<1>3. n \in S
  BY <1>1, <1>2, NatSetInduction
<1>. QED
  BY <1>3 DEF S

LEMMA DispatchKeeps ==
    ASSUME NEW s, Core(s), Whole(s) \/ (s.cache # Nil /\ Rooted(s)), NEW failing
    PROVE  Leads(s, Dispatch(s, failing))
<1>1. CASE s.cache = Nil \/ ~Rooted(s)
  <2>1. Dispatch(s, failing) = s
    BY <1>1 DEF Dispatch
  <2>. QED
    BY <1>1, <2>1, LeadsNowhere
<1>2. CASE s.cache # Nil /\ Rooted(s)
  <2>. DEFINE after == CHOOSE f : f = [k \in 0 .. Work |->
                          IF k = 0 THEN s ELSE AskNext(f[k - 1], failing)]
  <2>1. Dispatch(s, failing) = Sync(after[Work])
    BY <1>2 DEF Dispatch
  <2>2. Work \in Nat
    BY Limits
  <2>3. after = [k \in 0 .. Work |-> IF k = 0 THEN s ELSE AskNext(after[k - 1], failing)]
    BY <2>2, AskExists
  <2>. HIDE DEF after
  <2>4. \A k \in 0 .. Work : after[k] = IF k = 0 THEN s ELSE AskNext(after[k - 1], failing)
    BY <2>3
  <2>. DEFINE S == {k \in Nat : k <= Work => Asking(s, after[k])}
  <2>5. 0 \in S
    <3>1. after[0] = s
      BY <2>2, <2>4
    <3>. QED
      BY <1>2, <3>1 DEF Asking, SamePlayer
  <2>6. ASSUME NEW k \in Nat, k \in S PROVE k + 1 \in S
    <3>1. SUFFICES ASSUME k + 1 <= Work PROVE Asking(s, after[k + 1])
      OBVIOUS
    <3>2. Asking(s, after[k])
      BY <2>2, <2>6, <3>1
    <3>3. after[k + 1] = AskNext(after[k], failing)
      BY <2>2, <2>4, <3>1
    <3>4. Asking(after[k], AskNext(after[k], failing))
      BY <3>2, AskNextKeeps DEF Asking
    <3>. QED
      BY <3>2, <3>3, <3>4, AskingOn
  <2>. HIDE DEF S
  <2>7. Work \in S
    BY <2>2, <2>5, <2>6, NatSetInduction
  <2>8. Asking(s, after[Work])
    BY <2>2, <2>7 DEF S
  <2>9. Nears(s, after[Work])
    BY <1>2, <2>8 DEF Asking, Nears
  <2>10. Leads(after[Work], Sync(after[Work]))
    BY <2>8, SyncKeeps DEF Asking
  <2>. QED
    BY <2>1, <2>9, <2>10, NearsOn DEF Leads
<1>. QED
  BY <1>1, <1>2
-----------------------------------------------------------------------------
(* Releasing requests.                                                         *)

(* A cache left with some of its requests: those it loses are out of flight or *)
(* past their time.                                                            *)
LEMMA ReleaseKeeps ==
    ASSUME NEW s, Core(s), s.cache # Nil, NEW kept, kept \subseteq s.cache.pending,
           \A r \in s.cache.pending \ kept : \/ s.flight[r.id] = Nil \/ s.age[r.id] >= Expiry
                                             \/ \E q \in kept : q.id = r.id,
           NEW c, c = [s.cache EXCEPT !.pending = kept], NEW t, t = [s EXCEPT !.cache = c]
    PROVE  /\ c \in Caches /\ c.site = s.cache.site /\ c.labels = s.cache.labels /\ c.pending = kept
           /\ Core(t) /\ SamePlayer(s, t) /\ t.cache = c /\ c # Nil
           /\ t.active = s.active /\ t.saved = s.saved /\ t.retired = s.retired
           /\ t.rooted = s.rooted /\ t.tab = s.tab /\ t.flight = s.flight /\ t.age = s.age
           /\ Held(t) = kept
           /\ Lively(s) => Lively(t)
<1>1. s \in Desks /\ s.cache \in Caches /\ s.cache.pending \subseteq Requests
  BY DEF Core, Desks, Caches
<1>2. /\ c \in Caches /\ c.site = s.cache.site /\ c.labels = s.cache.labels /\ c.pending = kept
      /\ c # Nil
  BY <1>1, Limits DEF Caches
<1>3. /\ t \in Desks /\ t.cache = c /\ t.flight = s.flight /\ t.age = s.age
      /\ t.active = s.active /\ t.saved = s.saved /\ t.retired = s.retired
      /\ t.present = s.present /\ t.connected = s.connected /\ t.life = s.life
      /\ t.site = s.site /\ t.moved = s.moved /\ t.rooted = s.rooted /\ t.tab = s.tab
  BY <1>1, <1>2 DEF Desks
<1>4. Held(t) = kept /\ Held(s) = s.cache.pending
  BY <1>2, <1>3 DEF Held
<1>5. Fresh(t)
  <2>1. ASSUME NEW k \in Keys, s.cache.labels[k] # Nil
        PROVE  s.cache.labels[k] = [key |-> k, site |-> s.cache.site, life |-> s.life]
    BY <2>1 DEF Core, Fresh
  <2>2. t.cache.labels = s.cache.labels /\ t.cache.site = s.cache.site /\ t.life = s.life
    BY <1>2, <1>3
  <2>. QED
    BY <2>1, <2>2, Zenon DEF Fresh
<1>6. Honest(t)
  <2>1. ASSUME s.cache.site = s.site, NEW r \in kept, r.current
        PROVE  s.flight[r.id] \in {Nil, [key |-> r.key, site |-> s.site, life |-> s.life]}
    BY <2>1 DEF Core, Honest
  <2>2. /\ t.cache.pending = kept /\ t.cache.site = s.cache.site /\ t.life = s.life
        /\ t.site = s.site /\ t.flight = s.flight
    BY <1>2, <1>3
  <2>. QED
    BY <2>1, <2>2, Zenon DEF Honest
<1>7. Counted(t)
  <2>1. IsFiniteSet(s.cache.pending) /\ Cardinality(s.cache.pending) <= Window
    BY <1>4 DEF Core, Counted
  <2>2. IsFiniteSet(kept) /\ Cardinality(kept) <= Cardinality(s.cache.pending)
    BY <2>1, FS_Subset
  <2>3. Cardinality(kept) \in Nat /\ Cardinality(s.cache.pending) \in Nat
    BY <2>1, <2>2, FS_CardinalityType
  <2>4. Cardinality(kept) <= Window
    BY <2>1, <2>2, <2>3, Limits
  <2>5. ASSUME NEW i \in Ids, s.flight[i] # Nil, s.age[i] < Expiry PROVE \E r \in kept : r.id = i
    <3>1. PICK r \in s.cache.pending : r.id = i
      BY <2>5, <1>4 DEF Core, Counted
    <3>2. s.age[i] \in Nat
      BY <1>1, Limits DEF Desks
    <3>3. ~(s.age[r.id] >= Expiry)
      BY <2>5, <3>1, <3>2, Limits
    <3>. QED
      BY <2>5, <3>1, <3>3
  <2>. QED
    BY <2>2, <2>4, <2>5, <1>3, <1>4 DEF Counted
<1>8. Core(t)
  BY <1>2, <1>3, <1>5, <1>6, <1>7 DEF Core
<1>9. Lively(s) => Lively(t)
  BY <1>3, <1>4 DEF Lively
<1>. QED
  BY <1>2, <1>3, <1>4, <1>8, <1>9 DEF SamePlayer

(* The recursive function of the maintenance pass exists.                      *)
Lapsing(s, i) == {r \in {q \in s.cache.pending : s.age[q.id] >= Expiry} : r.id = i /\ r.current}

Lapsed(s, i, c) ==
    IF Lapsing(s, i) = {} THEN c ELSE Retry(c, (CHOOSE r \in Lapsing(s, i) : TRUE).key)

LEMMA LapseExists ==
    ASSUME NEW n \in Nat, NEW s, NEW c
    PROVE  \E after : after = [k \in 0 .. n |->
             IF k = 0 THEN c ELSE Lapsed(s, k, after[k - 1])]
<1>. DEFINE S == {m \in Nat : \E after : after = [k \in 0 .. m |->
                      IF k = 0 THEN c ELSE Lapsed(s, k, after[k - 1])]}
<1>1. 0 \in S
  <2>. DEFINE f == [k \in 0 .. 0 |-> c]
  <2>1. f = [k \in 0 .. 0 |-> IF k = 0 THEN c ELSE Lapsed(s, k, f[k - 1])]
    OBVIOUS
  <2>. QED
    BY <2>1
<1>2. ASSUME NEW m \in Nat, m \in S PROVE m + 1 \in S
  <2>1. PICK f : f = [k \in 0 .. m |->
                      IF k = 0 THEN c ELSE Lapsed(s, k, f[k - 1])]
    BY <1>2
  <2>. DEFINE g == [k \in 0 .. m + 1 |-> IF k <= m THEN f[k] ELSE Lapsed(s, k, f[m])]
  <2>2. \A k \in 0 .. m : f[k] = IF k = 0 THEN c ELSE Lapsed(s, k, f[k - 1])
    BY <2>1
  <2>3. \A k \in 0 .. m + 1 : g[k] = IF k = 0 THEN c ELSE Lapsed(s, k, g[k - 1])
    BY <2>2
  <2>4. g = [k \in 0 .. m + 1 |-> IF k = 0 THEN c ELSE Lapsed(s, k, g[k - 1])]
    BY <2>3
  <2>. HIDE DEF g
  <2>5. \E after : after = [k \in 0 .. m + 1 |->
                    IF k = 0 THEN c ELSE Lapsed(s, k, after[k - 1])]
    BY <2>4
  <2>. QED
    BY <2>5
<1>. HIDE DEF S
<1>3. n \in S
  BY <1>1, <1>2, NatSetInduction
<1>. QED
  BY <1>3 DEF S

LEMMA MaintainKeeps ==
    ASSUME NEW s, Core(s), s.cache # Nil, NEW t, t = Maintain(s)
    PROVE  /\ Core(t) /\ SamePlayer(s, t) /\ t.cache # Nil /\ t.cache.site = s.cache.site
           /\ t.rooted = s.rooted /\ t.tab = s.tab
           /\ Lively(t)
<1>. DEFINE expired == {r \in s.cache.pending : s.age[r.id] >= Expiry}
            kept == s.cache.pending \ expired
            c == [s.cache EXCEPT !.pending = kept]
            u == [s EXCEPT !.cache = c]
            after == CHOOSE f : f = [k \in 0 .. LastId |->
                       IF k = 0 THEN c ELSE Lapsed(s, k, f[k - 1])]
<1>1. t = [s EXCEPT !.cache = after[LastId]]
  BY DEF Maintain, Lapsed, Lapsing
<1>2. LastId \in Nat
  BY Limits
<1>3. after = [k \in 0 .. LastId |-> IF k = 0 THEN c ELSE Lapsed(s, k, after[k - 1])]
  <2>. HIDE DEF c
  <2>. QED
    BY <1>2, LapseExists
<1>. HIDE DEF after
<1>4. \A k \in 0 .. LastId : after[k] = IF k = 0 THEN c ELSE Lapsed(s, k, after[k - 1])
  BY <1>3
<1>5. s \in Desks /\ s.cache \in Caches /\ s.cache.pending \subseteq Requests
  BY DEF Core, Desks, Caches
<1>6. /\ c \in Caches /\ c.site = s.cache.site /\ c.labels = s.cache.labels /\ c.pending = kept
      /\ Core(u) /\ SamePlayer(s, u) /\ u.cache = c /\ c # Nil
      /\ u.rooted = s.rooted /\ u.tab = s.tab /\ u.age = s.age /\ Held(u) = kept
  <2>1. kept \subseteq s.cache.pending
        /\ \A r \in s.cache.pending \ kept : s.age[r.id] >= Expiry
    OBVIOUS
  <2>. HIDE DEF kept
  <2>. QED
    BY <2>1, ReleaseKeeps
<1>7. Lively(u)
  <2>1. SUFFICES ASSUME NEW r \in kept PROVE s.age[r.id] < Expiry
    BY <1>6 DEF Lively
  <2>2. r.id \in Ids /\ ~(s.age[r.id] >= Expiry)
    BY <1>5 DEF Requests
  <2>3. s.age[r.id] \in Nat
    BY <2>2, <1>5, Limits, SMTT(30) DEF Desks
  <2>. QED
    BY <2>2, <2>3, Limits
<1>. HIDE DEF kept, c
<1>. DEFINE S == {k \in Nat : k <= LastId => Dimmed(c, after[k])}
<1>8. 0 \in S
  <2>1. after[0] = c
    BY <1>2, <1>4
  <2>. QED
    BY <1>6, <2>1 DEF Dimmed
<1>9. ASSUME NEW k \in Nat, k \in S PROVE k + 1 \in S
  <2>1. SUFFICES ASSUME k + 1 <= LastId PROVE Dimmed(c, after[k + 1])
    OBVIOUS
  <2>2. Dimmed(c, after[k])
    BY <1>2, <1>9, <2>1
  <2>3. after[k + 1] = Lapsed(s, k + 1, after[k])
    BY <1>2, <1>4, <2>1
  <2>4. CASE Lapsing(s, k + 1) = {}
    BY <2>2, <2>3, <2>4 DEF Lapsed
  <2>5. CASE Lapsing(s, k + 1) # {}
    <3>. DEFINE r == CHOOSE x \in Lapsing(s, k + 1) : TRUE
    <3>1. r \in Lapsing(s, k + 1)
      BY <2>5
    <3>2. r.key \in Keys
      BY <3>1, <1>5 DEF Lapsing, Requests
    <3>3. after[k + 1] = Retry(after[k], r.key)
      BY <2>3, <2>5 DEF Lapsed
    <3>. HIDE DEF r
    <3>4. Dimmed(after[k], Retry(after[k], r.key))
      BY <2>2, <3>2, RetryKeeps DEF Dimmed
    <3>. QED
      BY <2>2, <3>3, <3>4, DimmedOn
  <2>. QED
    BY <2>4, <2>5
<1>. HIDE DEF S
<1>10. LastId \in S
  BY <1>2, <1>8, <1>9, NatSetInduction
<1>11. Dimmed(u.cache, after[LastId])
  BY <1>2, <1>6, <1>10 DEF S
<1>12. t = [u EXCEPT !.cache = after[LastId]]
  BY <1>1, <1>5 DEF Desks, u
<1>. HIDE DEF u
<1>13. /\ Core(t) /\ SamePlayer(u, t) /\ t.cache = after[LastId] /\ t.cache # Nil
       /\ t.rooted = u.rooted /\ t.tab = u.tab
       /\ Lively(u) => Lively(t)
  BY <1>6, <1>11, <1>12, DimmedDesk
<1>. QED
  BY <1>6, <1>7, <1>11, <1>13 DEF Dimmed, SamePlayer
-----------------------------------------------------------------------------
(* Discarding and opening a cache.                                             *)

LEMMA DiscardKeeps ==
    ASSUME NEW s, Whole(s), NEW d, d = Discard(s)
    PROVE  /\ Leads(s, d) /\ d.cache = Nil /\ Held(d) = Held(s)
           /\ d.retired = s.retired /\ d.rooted = s.rooted /\ d.tab = s.tab
           /\ d.flight = s.flight /\ d.age = s.age
<1>1. CASE s.cache = Nil
  BY <1>1, LeadsNowhere DEF Discard
<1>2. CASE s.cache # Nil
  <2>1. /\ Leads(s, Sync(s)) /\ Sync(s).cache = s.cache /\ Sync(s).retired = Nil
        /\ Sync(s).rooted = s.rooted /\ Sync(s).tab = s.tab
        /\ Sync(s).flight = s.flight /\ Sync(s).age = s.age
        /\ Sync(s).active = Ledger(s.cache.pending)
    BY <1>2, SyncKeeps DEF Whole
  <2>. DEFINE t == Sync(s)
  <2>2. d = [t EXCEPT !.saved = FALSE, !.cache = Nil]
    BY <1>2 DEF Discard
  <2>3. t \in Desks /\ s \in Desks /\ s.retired = Nil
    BY <2>1, <1>2 DEF Leads, Whole, Core
  <2>. HIDE DEF t
  <2>4. /\ d \in Desks /\ d.cache = Nil /\ d.saved = FALSE /\ d.flight = t.flight /\ d.age = t.age
        /\ d.active = t.active /\ d.retired = t.retired
        /\ d.present = t.present /\ d.connected = t.connected /\ d.life = t.life
        /\ d.site = t.site /\ d.moved = t.moved /\ d.rooted = t.rooted /\ d.tab = t.tab
    BY <2>2, <2>3 DEF Desks
  <2>5. s.cache.pending \in SUBSET Requests
    BY <2>3, <1>2 DEF Desks, Caches
  <2>6. Listed(Ledger(s.cache.pending)) = s.cache.pending
    BY <2>5, Limits DEF Listed, Ledger
  <2>7. Held(d) = Held(s)
    BY <2>1, <2>4, <2>6, <1>2 DEF Held, Listed, t
  <2>8. d.flight = s.flight /\ d.age = s.age /\ d.retired = Nil /\ d.rooted = s.rooted /\ d.tab = s.tab
    BY <2>1, <2>4 DEF t
  <2>9. Core(d)
    BY <2>4, <2>7, <2>8, <1>2 DEF Core, Fresh, Honest, Counted, Whole
  <2>10. Filed(d)
    BY <2>4, <2>8 DEF Filed
  <2>11. Nears(s, d)
    BY <2>1, <2>4, <2>7, <2>8 DEF Leads, Nears, SamePlayer, Lively, t
  <2>. QED
    BY <2>3, <2>4, <2>7, <2>8, <2>9, <2>10, <2>11 DEF Leads, Whole
<1>. QED
  BY <1>1, <1>2

(* Marking requests as of an older view.                                       *)
LEMMA OlderRequests ==
    ASSUME NEW requests, requests \subseteq Requests, IsFiniteSet(requests),
           NEW older, older = {[r EXCEPT !.current = FALSE] : r \in requests}
    PROVE  /\ older \subseteq Requests /\ \A r \in older : ~r.current
           /\ \A r \in older : \E q \in requests : q.id = r.id
           /\ \A q \in requests : \E r \in older : q.id = r.id
           /\ IsFiniteSet(older) /\ Cardinality(older) <= Cardinality(requests)
<1>1. \A r \in requests : /\ [r EXCEPT !.current = FALSE] \in Requests
                          /\ [r EXCEPT !.current = FALSE].current = FALSE
                          /\ [r EXCEPT !.current = FALSE].id = r.id
  BY DEF Requests
<1>. DEFINE f == [r \in requests |-> [r EXCEPT !.current = FALSE]]
<1>2. f \in Surjection(requests, older)
  <2>1. f \in [requests -> older]
    OBVIOUS
  <2>2. \A t \in older : \E r \in requests : f[r] = t
    OBVIOUS
  <2>. QED
    BY <2>1, <2>2 DEF Surjection
<1>. HIDE DEF f
<1>3. IsFiniteSet(older) /\ Cardinality(older) <= Cardinality(requests)
  BY <1>2, FS_Surjection
<1>. QED
  BY <1>1, <1>3

LEMMA RenewKeeps ==
    ASSUME NEW s, Core(s), s.present, s.retired = Nil, s.tab # "other",
           NEW c, c = Renewed(s, Held(s)), NEW u, u = [s EXCEPT !.cache = c]
    PROVE  /\ Core(u) /\ Nears(s, u) /\ u.cache # Nil /\ u.cache.site = s.site
           /\ u.rooted = s.rooted /\ u.tab = s.tab
<1>1. s \in Desks /\ s.tab \in DOMAIN Catalogue /\ s.site \in Sites
  BY DEF Core, Desks, Tabs
<1>2. Held(s) \subseteq Requests
  BY <1>1 DEF Held, Listed, Desks, Caches
<1>. DEFINE older == {[r EXCEPT !.current = FALSE] : r \in Held(s)}
<1>3. IsFiniteSet(Held(s)) /\ Cardinality(Held(s)) <= Window
  BY DEF Core, Counted
<1>4. /\ older \subseteq Requests /\ \A r \in older : ~r.current
      /\ \A r \in older : \E q \in Held(s) : q.id = r.id
      /\ \A q \in Held(s) : \E r \in older : q.id = r.id
      /\ IsFiniteSet(older) /\ Cardinality(older) <= Cardinality(Held(s))
  BY <1>2, <1>3, OlderRequests
<1>. DEFINE labels == [k \in Keys |-> Nil]
            tries  == [k \in Keys |-> 0]
<1>5. c = [site |-> s.site, view |-> s.tab, queue |-> Catalogue[s.tab], settled |-> {},
           labels |-> labels, tries |-> tries, fresh |-> 0, refresh |-> FALSE, pending |-> older]
  BY DEF Renewed
<1>6. /\ labels \in [Keys -> Answers \cup {Nil}] /\ tries \in [Keys -> Nat]
      /\ \A k \in Keys : labels[k] = Nil
  OBVIOUS
<1>. HIDE DEF older, labels, tries
<1>7. c \in Caches /\ c.site = s.site /\ c.labels = labels /\ c.pending = older /\ c # Nil
  <2>1. Catalogue[s.tab] \in Seq(Keys) /\ older \in SUBSET Requests
    BY <1>1, <1>4, Limits
  <2>. DEFINE queue == Catalogue[s.tab]
  <2>2. c = [site |-> s.site, view |-> s.tab, queue |-> queue, settled |-> {}, labels |-> labels,
             tries |-> tries, fresh |-> 0, refresh |-> FALSE, pending |-> older]
    BY <1>5
  <2>. HIDE DEF queue
  <2>3. queue \in Seq(Keys)
    BY <2>1 DEF queue
  <2>4. c \in Caches
    BY <1>1, <1>6, <2>1, <2>2, <2>3 DEF Caches
  <2>5. c # Nil
    BY <2>4, Limits
  <2>. QED
    BY <2>2, <2>4, <2>5
<1>8. /\ u \in Desks /\ u.cache = c /\ u.flight = s.flight /\ u.age = s.age
      /\ u.active = s.active /\ u.saved = s.saved /\ u.retired = s.retired
      /\ u.present = s.present /\ u.connected = s.connected /\ u.life = s.life
      /\ u.site = s.site /\ u.moved = s.moved /\ u.rooted = s.rooted /\ u.tab = s.tab
  BY <1>1, <1>7 DEF Desks
<1>9. Held(u) = older
  BY <1>7, <1>8 DEF Held
<1>10. Fresh(u) /\ Honest(u)
  BY <1>4, <1>6, <1>7, <1>8 DEF Fresh, Honest
<1>11. Counted(u)
  <2>1. Cardinality(older) \in Nat /\ Cardinality(Held(s)) \in Nat
    BY <1>3, <1>4, FS_CardinalityType
  <2>2. Cardinality(older) <= Window
    BY <2>1, <1>3, <1>4, Limits
  <2>3. ASSUME NEW i \in Ids, s.flight[i] # Nil, s.age[i] < Expiry PROVE \E r \in older : r.id = i
    BY <2>3, <1>4 DEF Core, Counted
  <2>. QED
    BY <2>2, <2>3, <1>4, <1>8, <1>9 DEF Counted
<1>12. Core(u)
  BY <1>8, <1>10, <1>11 DEF Core
<1>13. Lively(s) => Lively(u)
  BY <1>4, <1>8, <1>9 DEF Lively
<1>. QED
  BY <1>7, <1>8, <1>12, <1>13 DEF Nears, SamePlayer

LEMMA OpenedKeeps ==
    ASSUME NEW s, Whole(s), s.present, s.tab # "other", NEW u, u = Opened(s)
    PROVE  /\ Core(u) /\ Nears(s, u) /\ u.rooted = s.rooted
           /\ u.cache # Nil \/ Whole(u)
<1>. DEFINE here == s.cache # Nil /\ s.cache.site = s.site
            t == Discard(s)
<1>1. CASE here /\ s.cache.view = s.tab
  BY <1>1, LeadsNowhere DEF Opened, Leads, Whole
<1>2. CASE here /\ s.cache.view # s.tab
  <2>. DEFINE v == [s EXCEPT !.cache = Renewed(s, s.cache.pending)]
  <2>1. u = Sync(v)
    BY <1>2 DEF Opened
  <2>2. Held(s) = s.cache.pending /\ s.retired = Nil /\ Core(s)
    BY <1>2 DEF Held, Whole, Core
  <2>. DEFINE c == Renewed(s, Held(s))
  <2>5. v = [s EXCEPT !.cache = c]
    BY <2>2
  <2>6. c = Renewed(s, Held(s)) /\ s.present /\ s.retired = Nil /\ s.tab # "other"
    BY <2>2
  <2>. HIDE DEF v, c
  <2>7. Core(s)
    BY <2>2
  <2>3. Core(v) /\ Nears(s, v) /\ v.cache # Nil /\ v.rooted = s.rooted
    <3>1. Core(v)
      BY <2>7, <2>5, <2>6, RenewKeeps
    <3>2. Nears(s, v)
      BY <2>7, <2>5, <2>6, RenewKeeps
    <3>3. v.cache # Nil
      BY <2>7, <2>5, <2>6, RenewKeeps
    <3>4. v.rooted = s.rooted
      BY <2>7, <2>5, <2>6, RenewKeeps
    <3>. QED
      BY <3>1, <3>2, <3>3, <3>4
  <2>4. Leads(v, u) /\ u.cache = v.cache /\ u.rooted = v.rooted
    BY <2>1, <2>3, SyncKeeps
  <2>. QED
    BY <2>3, <2>4, NearsOn DEF Leads, Whole
<1>3. CASE ~here /\ t.retired # Nil
  <2>1. u = t
    BY <1>3 DEF Opened
  <2>2. Leads(s, t) /\ t.rooted = s.rooted
    BY DiscardKeeps
  <2>. QED
    BY <2>1, <2>2 DEF Leads, Whole
<1>4. CASE ~here /\ t.retired = Nil
  <2>1. Leads(s, t) /\ t.rooted = s.rooted /\ t.tab = s.tab /\ t.cache = Nil
    BY DiscardKeeps
  <2>2. u = [t EXCEPT !.cache = Renewed(t, IF t.active = Nil THEN {} ELSE t.active)]
    BY <1>4 DEF Opened
  <2>. HIDE DEF t
  <2>3. Held(t) = IF t.active = Nil THEN {} ELSE t.active
    BY <2>1, <1>4 DEF Held, Listed
  <2>4. t.present /\ Core(t)
    BY <2>1 DEF Leads, Nears, SamePlayer, Whole
  <2>. DEFINE c == Renewed(t, Held(t))
  <2>6. u = [t EXCEPT !.cache = c]
    BY <2>2, <2>3
  <2>7. c = Renewed(t, Held(t)) /\ t.tab # "other" /\ t.retired = Nil
    BY <2>1, <1>4
  <2>. HIDE DEF c
  <2>5. Core(u) /\ Nears(t, u) /\ u.cache # Nil /\ u.rooted = t.rooted
    <3>1. Core(u)
      BY <2>4, <2>6, <2>7, RenewKeeps
    <3>2. Nears(t, u)
      BY <2>4, <2>6, <2>7, RenewKeeps
    <3>3. u.cache # Nil
      BY <2>4, <2>6, <2>7, RenewKeeps
    <3>4. u.rooted = t.rooted
      BY <2>4, <2>6, <2>7, RenewKeeps
    <3>. QED
      BY <3>1, <3>2, <3>3, <3>4
  <2>. QED
    BY <2>1, <2>5, NearsOn DEF Leads
<1>. QED
  BY <1>1, <1>2, <1>3, <1>4
-----------------------------------------------------------------------------
(* The views.                                                                  *)

LEMMA RenderKeeps ==
    ASSUME NEW s, Whole(s), s.present, s.connected, NEW failing
    PROVE  Leads(s, Render(s, failing))
<1>. DEFINE t == [s EXCEPT !.rooted = TRUE, !.open = TRUE]
<1>1. s \in Desks
  BY DEF Whole, Core
<1>2. Redrawn(s, t) /\ t.rooted = TRUE /\ t.connected = s.connected /\ t.moved = s.moved /\ t.tab = s.tab
  BY <1>1 DEF Redrawn, Desks
<1>3. Render(s, failing) = IF t.tab = "other" THEN Discard(t) ELSE Dispatch(Opened(t), failing)
  BY DEF Render
<1>. HIDE DEF t
<1>4. Whole(t) /\ Nears(s, t) /\ t.present /\ t.connected
  BY <1>2, RedrawnKeeps DEF Nears, SamePlayer, Redrawn
<1>5. CASE t.tab = "other"
  <2>1. Leads(t, Discard(t))
    BY <1>4, DiscardKeeps
  <2>. QED
    BY <1>3, <1>4, <1>5, <2>1, NearsOn DEF Leads
<1>6. CASE t.tab # "other"
  <2>. DEFINE u == Opened(t)
  <2>1. Core(u) /\ Nears(t, u) /\ u.rooted = t.rooted /\ (u.cache # Nil \/ Whole(u))
    BY <1>4, <1>6, OpenedKeeps
  <2>. HIDE DEF u
  <2>2. Rooted(u)
    BY <1>2, <1>4, <2>1 DEF Rooted, Nears, SamePlayer
  <2>3. Leads(u, Dispatch(u, failing))
    BY <2>1, <2>2, DispatchKeeps
  <2>4. Render(s, failing) = Dispatch(u, failing)
    BY <1>3, <1>6 DEF u
  <2>. QED
    BY <1>4, <2>1, <2>3, <2>4, NearsOn DEF Leads
<1>. QED
  BY <1>5, <1>6

LEMMA ClearedKeeps ==
    ASSUME NEW s, Whole(s)
    PROVE  /\ Leads(s, Cleared(s)) /\ Redrawn(s, Cleared(s))
           /\ Cleared(s).tab = s.tab
<1>1. s \in Desks
  BY DEF Whole, Core
<1>2. /\ Redrawn(s, Cleared(s)) /\ Cleared(s).connected = s.connected
      /\ Cleared(s).moved = s.moved /\ Cleared(s).tab = s.tab
  BY <1>1 DEF Cleared, Redrawn, Desks
<1>. QED
  BY <1>2, RedrawnKeeps DEF Leads, Nears, SamePlayer, Redrawn

LEMMA ClosedKeeps ==
    ASSUME NEW s, Whole(s)
    PROVE  Leads(s, Closed(s)) /\ Closed(s).cache = Nil
<1>. DEFINE t == [Cleared(s) EXCEPT !.rooted = FALSE]
<1>1. Leads(s, Cleared(s))
  BY ClearedKeeps
<1>2. Cleared(s) \in Desks
  BY <1>1 DEF Leads, Whole, Core
<1>3. Redrawn(Cleared(s), t) /\ t.connected = Cleared(s).connected /\ t.moved = Cleared(s).moved
  BY <1>2 DEF Redrawn, Desks
<1>4. Closed(s) = Discard(t)
  BY DEF Closed
<1>. HIDE DEF t
<1>5. Leads(Cleared(s), t)
  BY <1>1, <1>3, RedrawnKeeps DEF Leads, Nears, SamePlayer, Redrawn
<1>6. Leads(t, Discard(t)) /\ Discard(t).cache = Nil
  BY <1>5, DiscardKeeps DEF Leads
<1>. QED
  BY <1>1, <1>4, <1>5, <1>6, NearsOn DEF Leads

LEMMA ResumeKeeps ==
    ASSUME NEW s, Whole(s), NEW failing
    PROVE  Leads(s, Resume(s, failing))
  BY RenderKeeps, LeadsNowhere DEF Resume, Rooted

LEMMA InvalidateKeeps ==
    ASSUME NEW s, Whole(s), NEW failing, NEW u, u = Invalidate(s, failing)
    PROVE  Leads(s, u) /\ (u.cache # Nil => u.cache.site = s.site)
<1>. DEFINE t == Discard(s)
<1>1. Leads(s, t) /\ t.cache = Nil
  BY DiscardKeeps
<1>2. u = IF Rooted(t) THEN Render(t, failing) ELSE Cleared(t)
  BY DEF Invalidate
<1>. HIDE DEF t
<1>3. Leads(t, u)
  BY <1>1, <1>2, RenderKeeps, ClearedKeeps DEF Leads, Rooted
<1>. QED
  BY <1>1, <1>3, NearsOn DEF Leads, Nears, SamePlayer

LEMMA RefreshedKeeps ==
    ASSUME NEW s, Whole(s), s.cache # Nil, s.present, s.connected, NEW failing
    PROVE  Leads(s, Refreshed(s, failing))
<1>. DEFINE c == [s.cache EXCEPT !.refresh = FALSE, !.fresh = 0]
            t == [s EXCEPT !.cache = c]
<1>1. s \in Desks /\ s.cache \in Caches
  BY DEF Whole, Core, Desks
<1>2. Dimmed(s.cache, c)
  BY <1>1 DEF Dimmed, Caches
<1>3. Refreshed(s, failing) = Render(t, failing)
  BY DEF Refreshed
<1>4. t = [s EXCEPT !.cache = c]
  OBVIOUS
<1>. HIDE DEF c, t
<1>5. /\ Core(t) /\ SamePlayer(s, t) /\ t.cache = c /\ t.cache # Nil
      /\ t.active = s.active /\ t.saved = s.saved /\ t.retired = s.retired
      /\ Lively(s) => Lively(t)
  BY <1>2, <1>4, DimmedDesk DEF Whole
<1>6. Filed(t)
  BY <1>2, <1>5 DEF Filed, Dimmed, Whole
<1>7. Leads(s, t)
  BY <1>2, <1>5, <1>6 DEF Leads, Nears, Whole, Dimmed
<1>8. Leads(t, Render(t, failing))
  BY <1>7, RenderKeeps DEF Leads, Nears, SamePlayer
<1>. QED
  BY <1>3, <1>7, <1>8, NearsOn DEF Leads
-----------------------------------------------------------------------------
(* An answer.                                                                  *)

(* A desk whose cache gains labels that are right.                             *)
LEMMA LabelledDesk ==
    ASSUME NEW s, Core(s), s.cache # Nil,
           NEW d \in Caches, d.site = s.cache.site, d.pending = s.cache.pending,
           \A k \in Keys : d.labels[k] \in {s.cache.labels[k], Nil,
                                            [key |-> k, site |-> d.site, life |-> s.life]},
           NEW t, t = [s EXCEPT !.cache = d]
    PROVE  /\ Core(t) /\ SamePlayer(s, t) /\ t.cache = d /\ t.cache # Nil
           /\ t.rooted = s.rooted
           /\ Lively(s) => Lively(t)
<1>1. d # Nil /\ s \in Desks
  BY Limits DEF Core
<1>2. /\ t \in Desks /\ t.cache = d /\ t.flight = s.flight /\ t.age = s.age
      /\ t.active = s.active /\ t.saved = s.saved /\ t.retired = s.retired
      /\ t.present = s.present /\ t.connected = s.connected /\ t.life = s.life
      /\ t.site = s.site /\ t.moved = s.moved /\ t.rooted = s.rooted
  BY <1>1 DEF Desks
<1>3. Held(t) = Held(s)
  BY <1>1, <1>2 DEF Held
<1>4. Fresh(t)
  <2>1. SUFFICES ASSUME NEW k \in Keys, d.labels[k] # Nil
                 PROVE  d.labels[k] = [key |-> k, site |-> d.site, life |-> s.life]
    BY <1>2, Zenon DEF Fresh
  <2>2. CASE d.labels[k] = s.cache.labels[k]
    <3>1. s.cache.labels[k] = [key |-> k, site |-> s.cache.site, life |-> s.life]
      BY <2>1, <2>2 DEF Core, Fresh
    <3>. QED
      BY <2>2, <3>1
  <2>. QED
    BY <2>1, <2>2
<1>5. Honest(t)
  BY <1>1, <1>2 DEF Honest, Core
<1>6. Counted(t)
  BY <1>2, <1>3 DEF Counted, Core
<1>7. Core(t)
  BY <1>1, <1>2, <1>4, <1>5, <1>6 DEF Core
<1>8. Lively(s) => Lively(t)
  BY <1>2, <1>3 DEF Lively
<1>. QED
  BY <1>1, <1>2, <1>7, <1>8 DEF SamePlayer

(* What the engine says is right for whoever asked it here and now.            *)
Told(s, id, label) ==
    /\ s.flight[id] = Nil /\ label \in Answers \cup {Nil}
    /\ (s.cache # Nil /\ s.cache.site = s.site) =>
         \A r \in s.cache.pending : (r.id = id /\ r.current) =>
           label \in {Nil, [key |-> r.key, site |-> s.site, life |-> s.life]}

LEMMA AnsweredKeeps ==
    ASSUME NEW s, Whole(s), s.cache # Nil, Rooted(s), NEW id \in Ids, NEW label,
           Told(s, id, label), NEW failing
    PROVE  Leads(s, Answered(s, id, label, failing))
<1>. DEFINE r == CHOOSE x \in s.cache.pending : x.id = id
            published == r.current /\ s.cache.site = s.site
            kept == Release(s.cache.pending, id)
            open == [s.cache EXCEPT !.pending = kept]
            d == IF published THEN Settle(open, r.key, label) ELSE open
            u == [s EXCEPT !.cache = open]
            v == [s EXCEPT !.cache = d]
            t == Sync(v)
<1>1. Answered(s, id, label, failing) =
        IF id \notin IdsOf(s.cache.pending) THEN s
        ELSE IF published /\ t.cache.refresh THEN Refreshed(t, failing) ELSE t
  BY DEF Answered
<1>2. s \in Desks /\ s.cache \in Caches /\ s.cache.pending \subseteq Requests /\ Core(s)
      /\ s.cache.pending # Nil
  BY Limits DEF Whole, Core, Desks, Caches
<1>3. CASE id \notin IdsOf(s.cache.pending)
  BY <1>1, <1>3, LeadsNowhere
<1>4. CASE id \in IdsOf(s.cache.pending)
  <2>1. r \in s.cache.pending /\ r.id = id
    <3>1. \E x \in s.cache.pending : x.id = id
      BY <1>2, <1>4 DEF IdsOf
    <3>. QED
      BY <3>1
  <2>2. r.key \in Keys
    BY <2>1, <1>2 DEF Requests
  <2>3. published => label \in {Nil, [key |-> r.key, site |-> s.site, life |-> s.life]}
    BY <2>1 DEF Told
  <2>. HIDE DEF r
  <2>4. kept \subseteq s.cache.pending
        /\ \A q \in s.cache.pending \ kept : s.flight[q.id] = Nil
    BY DEF Release, Told
  <2>5. open = [s.cache EXCEPT !.pending = kept] /\ u = [s EXCEPT !.cache = open]
    OBVIOUS
  <2>6. v = [u EXCEPT !.cache = d]
    BY <1>2 DEF Desks
  <2>7. d = IF published THEN Settle(open, r.key, label) ELSE open
    OBVIOUS
  <2>. HIDE DEF kept, open, u, v, d
  <2>8. /\ open \in Caches /\ open.site = s.cache.site /\ open.labels = s.cache.labels
        /\ Core(u) /\ SamePlayer(s, u) /\ u.cache = open /\ open # Nil
        /\ u.rooted = s.rooted
        /\ Lively(s) => Lively(u)
    BY <1>2, <2>4, <2>5, ReleaseKeeps, SMTT(30)
  <2>9. d \in Caches /\ d.site = open.site /\ d.pending = open.pending
        /\ \A k \in Keys : d.labels[k] \in {open.labels[k], Nil,
                                            [key |-> k, site |-> d.site, life |-> u.life]}
    <3>1. CASE ~published
      BY <3>1, <2>7, <2>8
    <3>2. CASE published
      <4>. DEFINE e == Settle(open, r.key, label)
      <4>1. label \in Answers \cup {Nil}
        BY DEF Told
      <4>2. /\ e \in Caches /\ e.site = open.site /\ e.pending = open.pending
            /\ \A j \in Keys \ {r.key} : e.labels[j] = open.labels[j]
            /\ e.labels[r.key] \in {open.labels[r.key], label}
        BY <2>2, <2>8, <4>1, SettleKeeps
      <4>3. d = e
        BY <2>7, <3>2
      <4>. HIDE DEF e
      <4>4. label \in {Nil, [key |-> r.key, site |-> d.site, life |-> u.life]}
        <5>1. d.site = s.site /\ u.life = s.life
          BY <2>8, <3>2, <4>2, <4>3 DEF SamePlayer
        <5>. QED
          BY <2>3, <3>2, <5>1
      <4>. HIDE DEF published
      <4>5. ASSUME NEW k \in Keys
            PROVE  d.labels[k] \in {open.labels[k], Nil, [key |-> k, site |-> d.site, life |-> u.life]}
        <5>1. CASE k = r.key
          BY <5>1, <4>2, <4>3, <4>4
        <5>2. CASE k # r.key
          BY <5>2, <4>2, <4>3
        <5>. QED
          BY <5>1, <5>2
      <4>. QED
        BY <4>2, <4>3, <4>5
    <3>. QED
      BY <3>1, <3>2
  <2>10. /\ Core(v) /\ SamePlayer(u, v) /\ v.cache = d /\ v.cache # Nil
         /\ v.rooted = u.rooted
         /\ Lively(u) => Lively(v)
    BY <2>6, <2>8, <2>9, LabelledDesk
  <2>11. Nears(s, v)
    BY <2>8, <2>9, <2>10 DEF Nears, SamePlayer
  <2>12. Leads(v, t) /\ t.cache # Nil
    BY <2>10, SyncKeeps
  <2>. HIDE DEF t
  <2>13. Leads(s, t)
    BY <2>11, <2>12, NearsOn DEF Leads
  <2>14. t.present /\ t.connected
    BY <2>13 DEF Leads, Nears, SamePlayer, Rooted
  <2>15. Leads(t, Refreshed(t, failing))
    BY <2>12, <2>14, RefreshedKeeps DEF Leads
  <2>16. Leads(s, Refreshed(t, failing))
    BY <2>13, <2>15, NearsOn DEF Leads
  <2>. QED
    BY <1>1, <1>4, <2>13, <2>16
<1>. QED
  BY <1>3, <1>4

(* A desk without a cache whose ledger lost only requests that are out of      *)
(* flight or past their time.                                                  *)
Pruned(s, t) ==
    /\ t \in Desks /\ s.cache = Nil /\ t.cache = Nil /\ t.saved = s.saved
    /\ SamePlayer(s, t) /\ t.flight = s.flight /\ t.age = s.age
    /\ t.retired # Nil => t.active = Nil
    /\ Held(t) \subseteq Held(s)
    /\ \A r \in Held(s) \ Held(t) : s.flight[r.id] = Nil \/ s.age[r.id] >= Expiry

LEMMA PrunedKeeps ==
    ASSUME NEW s, Whole(s), NEW t, Pruned(s, t)
    PROVE  Leads(s, t)
<1>1. s \in Desks /\ IsFiniteSet(Held(s)) /\ Cardinality(Held(s)) <= Window
  BY DEF Whole, Core, Counted
<1>2. Counted(t)
  <2>1. IsFiniteSet(Held(t)) /\ Cardinality(Held(t)) <= Cardinality(Held(s))
    BY <1>1, FS_Subset DEF Pruned
  <2>2. Cardinality(Held(t)) \in Nat /\ Cardinality(Held(s)) \in Nat
    BY <1>1, <2>1, FS_CardinalityType
  <2>3. Cardinality(Held(t)) <= Window
    BY <1>1, <2>1, <2>2, Limits
  <2>4. ASSUME NEW i \in Ids, s.flight[i] # Nil, s.age[i] < Expiry
        PROVE  \E r \in Held(t) : r.id = i
    <3>1. PICK r \in Held(s) : r.id = i
      BY <2>4 DEF Whole, Core, Counted
    <3>2. s.age[i] \in Nat
      BY <1>1, Limits DEF Desks
    <3>3. ~(s.age[r.id] >= Expiry) /\ s.flight[r.id] # Nil
      BY <2>4, <3>1, <3>2, Limits
    <3>. QED
      BY <3>1, <3>3 DEF Pruned
  <2>. QED
    BY <2>1, <2>3, <2>4 DEF Counted, Pruned
<1>3. Core(t)
  BY <1>2 DEF Core, Pruned, Fresh, Honest
<1>4. Filed(t)
  BY DEF Filed, Pruned, Whole
<1>5. Nears(s, t)
  BY DEF Nears, Pruned, Lively
<1>. QED
  BY <1>3, <1>4, <1>5 DEF Leads, Whole

(* What is left of a ledger.                                                   *)
LEMMA LedgerListed ==
    ASSUME NEW requests \in SUBSET Requests, NEW kept, kept \subseteq requests
    PROVE  /\ Ledger(kept) \in (SUBSET Requests) \cup {Nil}
           /\ Listed(Ledger(kept)) = kept
  BY Limits DEF Ledger, Listed

LEMMA ReleasedDurablyKeeps ==
    ASSUME NEW s, Whole(s), s.cache = Nil, NEW id \in Ids, s.flight[id] = Nil, NEW failing
    PROVE  Leads(s, ReleasedDurably(s, id, failing))
<1>. DEFINE t == [s EXCEPT !.retired = Ledger(Release(s.retired, id))]
            u == [s EXCEPT !.active = Ledger(Release(s.active, id))]
<1>1. ReleasedDurably(s, id, failing) =
        IF s.active # Nil THEN u
        ELSE IF id \notin IdsOf(s.retired) THEN s
        ELSE IF t.retired = Nil THEN Resume(t, failing) ELSE t
  BY DEF ReleasedDurably
<1>2. s \in Desks
  BY DEF Whole, Core
<1>3. CASE s.active # Nil
  <2>1. s.active \in SUBSET Requests /\ s.retired = Nil
    BY <1>2, <1>3 DEF Desks, Whole, Filed
  <2>. DEFINE kept == Release(s.active, id)
              active == Ledger(kept)
  <2>2. kept \subseteq s.active /\ \A r \in s.active \ kept : s.flight[r.id] = Nil
    BY DEF Release
  <2>3. active \in (SUBSET Requests) \cup {Nil} /\ Listed(active) = kept
    <3>. HIDE DEF kept
    <3>. QED
      BY <2>1, <2>2, LedgerListed
  <2>4. u = [s EXCEPT !.active = active]
    OBVIOUS
  <2>. HIDE DEF active, kept, u
  <2>5. /\ u \in Desks /\ u.cache = s.cache /\ u.saved = s.saved /\ SamePlayer(s, u)
        /\ u.flight = s.flight /\ u.age = s.age /\ u.active = active /\ u.retired = s.retired
    BY <1>2, <2>3, <2>4 DEF Desks, SamePlayer
  <2>6. Held(s) = s.active /\ Held(u) = kept
    BY <1>3, <2>1, <2>3, <2>5 DEF Held, Listed
  <2>7. Pruned(s, u)
    BY <2>1, <2>2, <2>5, <2>6 DEF Pruned
  <2>. QED
    BY <1>1, <1>3, <2>7, PrunedKeeps
<1>4. CASE s.active = Nil /\ id \notin IdsOf(s.retired)
  BY <1>1, <1>4, LeadsNowhere
<1>5. CASE s.active = Nil /\ id \in IdsOf(s.retired)
  <2>1. s.retired \in SUBSET Requests /\ s.retired # Nil
    BY <1>2, <1>5 DEF Desks, IdsOf
  <2>. DEFINE kept == Release(s.retired, id)
              retired == Ledger(kept)
  <2>2. kept \subseteq s.retired /\ \A r \in s.retired \ kept : s.flight[r.id] = Nil
    BY DEF Release
  <2>3. retired \in (SUBSET Requests) \cup {Nil} /\ Listed(retired) = kept
    <3>. HIDE DEF kept
    <3>. QED
      BY <2>1, <2>2, LedgerListed
  <2>4. t = [s EXCEPT !.retired = retired]
    OBVIOUS
  <2>. HIDE DEF retired, kept, t
  <2>5. /\ t \in Desks /\ t.cache = s.cache /\ t.saved = s.saved /\ SamePlayer(s, t)
        /\ t.flight = s.flight /\ t.age = s.age /\ t.active = s.active /\ t.retired = retired
    BY <1>2, <2>3, <2>4 DEF Desks, SamePlayer
  <2>6. Held(s) = s.retired /\ Held(t) = kept
    BY <1>5, <2>1, <2>3, <2>5 DEF Held, Listed
  <2>7. Pruned(s, t)
    BY <1>5, <2>1, <2>2, <2>5, <2>6 DEF Pruned
  <2>8. Leads(s, t)
    BY <2>7, PrunedKeeps
  <2>9. Leads(s, Resume(t, failing))
    BY <2>8, ResumeKeeps, NearsOn DEF Leads
  <2>. QED
    BY <1>1, <1>5, <2>8, <2>9
<1>. QED
  BY <1>3, <1>4, <1>5

LEMMA StringTranslatedKeeps ==
    ASSUME NEW s, Whole(s), NEW id \in Ids, NEW label, Told(s, id, label), NEW failing
    PROVE  Leads(s, StringTranslated(s, id, label, failing))
<1>1. CASE s.cache # Nil /\ Rooted(s)
  BY <1>1, AnsweredKeeps DEF StringTranslated
<1>2. CASE ~(s.cache # Nil /\ Rooted(s))
  <2>. DEFINE t == IF s.cache = Nil THEN s ELSE Cleared(Discard(s))
  <2>1. StringTranslated(s, id, label, failing) = ReleasedDurably(t, id, failing)
    BY <1>2 DEF StringTranslated
  <2>2. Leads(s, t) /\ t.cache = Nil /\ t.flight = s.flight
    <3>1. CASE s.cache = Nil
      BY <3>1, LeadsNowhere
    <3>2. CASE s.cache # Nil
      <4>. DEFINE d == Discard(s)
      <4>1. Leads(s, d) /\ d.cache = Nil /\ d.flight = s.flight
        BY DiscardKeeps
      <4>2. t = Cleared(d)
        BY <3>2
      <4>. HIDE DEF d, t
      <4>3. Leads(d, t) /\ Redrawn(d, t)
        BY <4>1, <4>2, ClearedKeeps DEF Leads
      <4>. QED
        BY <4>1, <4>3, NearsOn DEF Leads, Redrawn
    <3>. QED
      BY <3>1, <3>2
  <2>. HIDE DEF t
  <2>3. Leads(t, ReleasedDurably(t, id, failing))
    BY <2>2, ReleasedDurablyKeeps DEF Leads, Told
  <2>. QED
    BY <2>1, <2>2, <2>3, NearsOn DEF Leads
<1>. QED
  BY <1>1, <1>2
-----------------------------------------------------------------------------
(* Maintenance.                                                                *)

(* What a ledger keeps of its requests when time passes.                       *)
LEMMA UnexpiredListed ==
    ASSUME NEW s \in Desks, NEW requests \in SUBSET Requests,
           NEW kept, kept = Unexpired(s, requests)
    PROVE  /\ kept \in (SUBSET Requests) \cup {Nil} /\ Listed(kept) \subseteq requests
           /\ \A r \in Listed(kept) : s.age[r.id] < Expiry
           /\ \A r \in requests \ Listed(kept) : s.age[r.id] >= Expiry
<1>. DEFINE young == {r \in requests : s.age[r.id] < Expiry}
<1>1. kept = Ledger(young)
  BY DEF Unexpired
<1>2. young \subseteq requests
  OBVIOUS
<1>3. \A r \in young : s.age[r.id] < Expiry
  OBVIOUS
<1>4. \A r \in requests \ young : s.age[r.id] >= Expiry
  <2>1. SUFFICES ASSUME NEW r \in requests, ~(s.age[r.id] < Expiry) PROVE s.age[r.id] >= Expiry
    OBVIOUS
  <2>2. s.age[r.id] \in Nat
    BY Limits DEF Desks, Requests
  <2>. QED
    BY <2>1, <2>2, Limits
<1>. HIDE DEF young
<1>5. kept \in (SUBSET Requests) \cup {Nil} /\ Listed(kept) = young
  BY <1>1, <1>2, LedgerListed
<1>. QED
  BY <1>2, <1>3, <1>4, <1>5

LEMMA MaintainedActiveKeeps ==
    ASSUME NEW s, Whole(s), NEW failing, NEW t, t = MaintainedActive(s, failing)
    PROVE  Leads(s, t) /\ (t.retired = Nil => Lively(t))
<1>1. s \in Desks
  BY DEF Whole, Core
<1>2. CASE s.active = Nil
  <2>1. t = s
    BY <1>2 DEF MaintainedActive
  <2>2. CASE s.cache = Nil
    BY <1>2, <2>1, <2>2, LeadsNowhere DEF Lively, Held, Listed
  <2>3. CASE s.cache # Nil
    <3>1. s.cache.pending \in SUBSET Requests /\ Nil = Ledger(s.cache.pending)
      BY <1>1, <1>2, <2>3 DEF Whole, Filed, Desks, Caches
    <3>2. s.cache.pending = {}
      BY <3>1, Limits DEF Ledger
    <3>. QED
      BY <2>1, <2>3, <3>2, LeadsNowhere DEF Lively, Held
  <2>. QED
    BY <2>2, <2>3
<1>3. CASE s.active # Nil /\ s.cache # Nil /\ Rooted(s)
  <2>. DEFINE m == Maintain(s)
              u == Sync(m)
  <2>1. t = IF u.cache.refresh THEN Refreshed(u, failing) ELSE Dispatch(u, failing)
    BY <1>3 DEF MaintainedActive
  <2>2. /\ Core(m) /\ SamePlayer(s, m) /\ m.cache # Nil /\ m.cache.site = s.cache.site
        /\ Lively(m)
    BY <1>3, MaintainKeeps DEF Whole
  <2>. HIDE DEF m
  <2>3. Leads(m, u) /\ u.cache = m.cache
    BY <2>2, SyncKeeps
  <2>. HIDE DEF u
  <2>4. Leads(s, u) /\ Lively(u)
    BY <1>3, <2>2, <2>3 DEF Leads, Nears, SamePlayer
  <2>5. u.present /\ u.connected
    BY <1>3, <2>4 DEF Leads, Nears, SamePlayer, Rooted
  <2>6. Leads(u, Refreshed(u, failing))
    BY <2>2, <2>3, <2>4, <2>5, RefreshedKeeps DEF Leads
  <2>7. Leads(u, Dispatch(u, failing))
    BY <2>4, DispatchKeeps DEF Leads, Whole
  <2>8. Leads(u, t)
    BY <2>1, <2>6, <2>7
  <2>. QED
    BY <2>4, <2>8, NearsOn DEF Leads, Nears
<1>4. CASE s.active # Nil /\ ~(s.cache # Nil /\ Rooted(s))
  <2>. DEFINE u == IF s.cache = Nil THEN s ELSE Discard(Cleared(s))
  <2>1. t = IF u.active = Nil THEN u ELSE [u EXCEPT !.active = Unexpired(u, u.active)]
    BY <1>4 DEF MaintainedActive
  <2>2. s.retired = Nil
    BY <1>4 DEF Whole, Filed
  <2>3. Leads(s, u) /\ u.cache = Nil /\ u.retired = Nil
    <3>1. CASE s.cache = Nil
      BY <2>2, <3>1, LeadsNowhere
    <3>2. CASE s.cache # Nil
      <4>1. Leads(s, Cleared(s)) /\ Cleared(s).retired = Nil
        BY <2>2, ClearedKeeps DEF Redrawn
      <4>2. u = Discard(Cleared(s))
        BY <3>2
      <4>. HIDE DEF u
      <4>3. Leads(Cleared(s), u) /\ u.cache = Nil /\ u.retired = Nil
        BY <4>1, <4>2, DiscardKeeps DEF Leads
      <4>. QED
        BY <4>1, <4>3, NearsOn DEF Leads
    <3>. QED
      BY <3>1, <3>2
  <2>. HIDE DEF u
  <2>4. CASE u.active = Nil
    BY <2>1, <2>3, <2>4 DEF Lively, Held, Listed
  <2>5. CASE u.active # Nil
    <3>1. u \in Desks
      BY <2>3 DEF Leads, Whole, Core
    <3>2. u.active \in SUBSET Requests
      BY <2>5, <3>1 DEF Desks
    <3>. DEFINE kept == Unexpired(u, u.active)
    <3>3. t = [u EXCEPT !.active = kept]
      BY <2>1, <2>5
    <3>4. kept = Unexpired(u, u.active)
      OBVIOUS
    <3>. HIDE DEF kept
    <3>5. /\ kept \in (SUBSET Requests) \cup {Nil} /\ Listed(kept) \subseteq u.active
          /\ \A r \in Listed(kept) : u.age[r.id] < Expiry
          /\ \A r \in u.active \ Listed(kept) : u.age[r.id] >= Expiry
      BY <3>1, <3>2, <3>4, UnexpiredListed
    <3>6. /\ t \in Desks /\ t.cache = u.cache /\ t.saved = u.saved /\ SamePlayer(u, t)
          /\ t.flight = u.flight /\ t.age = u.age /\ t.active = kept /\ t.retired = u.retired
      BY <3>1, <3>3, <3>5 DEF Desks, SamePlayer
    <3>7. Held(u) = u.active /\ Held(t) = Listed(kept)
      BY <2>3, <2>5, <3>6 DEF Held, Listed
    <3>8. Pruned(u, t)
      BY <2>3, <3>5, <3>6, <3>7 DEF Pruned
    <3>9. Leads(u, t)
      BY <2>3, <3>8, PrunedKeeps DEF Leads
    <3>10. Lively(t)
      BY <3>5, <3>6, <3>7 DEF Lively
    <3>. QED
      BY <2>3, <3>9, <3>10, NearsOn DEF Leads
  <2>. QED
    BY <2>4, <2>5
<1>. QED
  BY <1>2, <1>3, <1>4

LEMMA MaintainedRetiredKeeps ==
    ASSUME NEW s, Whole(s), s.retired = Nil => Lively(s), NEW failing,
           NEW t, t = MaintainedRetired(s, failing)
    PROVE  Leads(s, t) /\ Lively(t)
<1>1. CASE s.retired = Nil
  BY <1>1, LeadsNowhere DEF MaintainedRetired
<1>2. CASE s.retired # Nil
  <2>1. s \in Desks /\ s.cache = Nil /\ s.active = Nil
    BY <1>2 DEF Whole, Core, Filed
  <2>2. s.retired \in SUBSET Requests
    BY <1>2, <2>1 DEF Desks
  <2>. DEFINE kept == Unexpired(s, s.retired)
              u == [s EXCEPT !.retired = kept]
  <2>3. t = IF u.retired = Nil /\ u.cache = Nil THEN Resume(u, failing) ELSE u
    BY <1>2 DEF MaintainedRetired
  <2>4. kept = Unexpired(s, s.retired) /\ u = [s EXCEPT !.retired = kept]
    OBVIOUS
  <2>. HIDE DEF kept, u
  <2>5. /\ kept \in (SUBSET Requests) \cup {Nil} /\ Listed(kept) \subseteq s.retired
        /\ \A r \in Listed(kept) : s.age[r.id] < Expiry
        /\ \A r \in s.retired \ Listed(kept) : s.age[r.id] >= Expiry
    BY <2>1, <2>2, <2>4, UnexpiredListed
  <2>6. /\ u \in Desks /\ u.cache = s.cache /\ u.saved = s.saved /\ SamePlayer(s, u)
        /\ u.flight = s.flight /\ u.age = s.age /\ u.active = s.active /\ u.retired = kept
    BY <2>1, <2>4, <2>5 DEF Desks, SamePlayer
  <2>7. Held(s) = s.retired /\ Held(u) = Listed(kept)
    BY <1>2, <2>1, <2>6 DEF Held, Listed
  <2>8. Pruned(s, u)
    BY <2>1, <2>5, <2>6, <2>7 DEF Pruned
  <2>9. Leads(s, u)
    BY <2>8, PrunedKeeps
  <2>10. Lively(u)
    BY <2>5, <2>6, <2>7 DEF Lively
  <2>11. Leads(u, Resume(u, failing))
    BY <2>9, ResumeKeeps DEF Leads
  <2>12. Leads(u, t)
    BY <2>3, <2>9, <2>11, LeadsNowhere DEF Leads
  <2>. QED
    BY <2>9, <2>10, <2>12, NearsOn DEF Leads, Nears
<1>. QED
  BY <1>1, <1>2

LEMMA MaintainedKeeps ==
    ASSUME NEW s, Whole(s), NEW failing
    PROVE  Leads(s, Maintained(s, failing)) /\ Lively(Maintained(s, failing))
<1>. DEFINE t == MaintainedActive(s, failing)
            u == MaintainedRetired(t, failing)
<1>1. Leads(s, t) /\ (t.retired = Nil => Lively(t))
  BY MaintainedActiveKeeps
<1>2. Maintained(s, failing) = u
  BY DEF Maintained
<1>. HIDE DEF t
<1>3. Leads(t, u) /\ Lively(u)
  BY <1>1, MaintainedRetiredKeeps DEF Leads
<1>. QED
  BY <1>1, <1>2, <1>3, NearsOn DEF Leads

(* A period passes: what is not past its time now was not before.              *)
LEMMA OlderKeeps ==
    ASSUME NEW s, Whole(s), NEW t, t = Older(s)
    PROVE  /\ Whole(t) /\ SamePlayer(s, t) /\ t.cache = s.cache
           /\ t.active = s.active /\ t.retired = s.retired
<1>1. s \in Desks
  BY DEF Whole, Core
<1>. DEFINE used == {i \in Ids : s.flight[i] # Nil} \cup Known(s)
            age == [i \in Ids |-> IF i \notin used THEN 0
                                  ELSE IF s.age[i] < Expiry THEN s.age[i] + 1 ELSE Expiry]
<1>2. t = [s EXCEPT !.age = age]
  BY DEF Older
<1>3. age \in [Ids -> 0 .. Expiry]
  <2>. HIDE DEF used
  <2>1. \A i \in Ids : s.age[i] \in 0 .. Expiry
    BY <1>1 DEF Desks
  <2>. QED
    BY <2>1, Limits
<1>4. ASSUME NEW i \in Ids, s.flight[i] # Nil, age[i] < Expiry PROVE s.age[i] < Expiry
  <2>1. s.age[i] \in Nat /\ i \in used
    BY <1>1, <1>4, Limits DEF Desks
  <2>. HIDE DEF used
  <2>. QED
    BY <2>1, <1>4, Limits
<1>. HIDE DEF age
<1>5. /\ t \in Desks /\ t.cache = s.cache /\ t.flight = s.flight /\ t.age = age
      /\ t.active = s.active /\ t.saved = s.saved /\ t.retired = s.retired
      /\ SamePlayer(s, t)
  BY <1>1, <1>2, <1>3 DEF Desks, SamePlayer
<1>6. Held(t) = Held(s)
  BY <1>5 DEF Held
<1>7. Fresh(t) /\ Honest(t)
  BY <1>5 DEF Fresh, Honest, Whole, Core, SamePlayer
<1>8. Counted(t)
  <2>1. IsFiniteSet(Held(s)) /\ Cardinality(Held(s)) <= Window
    BY DEF Whole, Core, Counted
  <2>2. ASSUME NEW i \in Ids, s.flight[i] # Nil, age[i] < Expiry PROVE \E r \in Held(s) : r.id = i
    BY <2>2, <1>4 DEF Whole, Core, Counted
  <2>. QED
    BY <2>1, <2>2, <1>5, <1>6 DEF Counted
<1>9. Core(t) /\ Filed(t)
  BY <1>5, <1>7, <1>8 DEF Core, Filed, Whole, SamePlayer
<1>. QED
  BY <1>5, <1>9 DEF Whole
-----------------------------------------------------------------------------
(* The inductive invariant: every desk is whole, its cache is for where the    *)
(* player is (or MIR is about to hear of the move), and the tick is installed  *)
(* exactly while it is needed.                                                 *)
Kept(s) == Whole(s) /\ Placed(s)

LibraryInv ==
    /\ desk \in [Players -> Desks] /\ scheduled \in BOOLEAN
    /\ \A p \in Players : Kept(desk[p])
    /\ Subscribed

LEMMA LeadsKept ==
    ASSUME NEW s, NEW t, Kept(s), Leads(s, t)
    PROVE  Kept(t)
  BY DEF Kept, Leads, Nears, Placed, SamePlayer

LEMMA HandledAll ==
    ASSUME LibraryInv, NEW d, d \in [Players -> Desks], \A p \in Players : Kept(d[p]), Handled(d)
    PROVE  LibraryInv'
<1>1. desk' = d /\ scheduled' = Needed(d) /\ Needed(d) \in BOOLEAN
  BY DEF Handled, Needed
<1>2. scheduled' <=> Needed(desk')
  BY <1>1
<1>3. Subscribed'
  BY <1>2 DEF Subscribed, Needed
<1>. QED
  BY <1>1, <1>3 DEF LibraryInv

LEMMA HandledOne ==
    ASSUME LibraryInv, NEW p \in Players, NEW s, Kept(s), Handle(p, s)
    PROVE  LibraryInv'
<1>. DEFINE d == [desk EXCEPT ![p] = s]
<1>1. s \in Desks
  BY DEF Kept, Whole, Core
<1>2. d \in [Players -> Desks] /\ \A q \in Players : d[q] = IF q = p THEN s ELSE desk[q]
  BY <1>1 DEF LibraryInv
<1>3. Handled(d)
  BY DEF Handle
<1>. HIDE DEF d
<1>4. \A q \in Players : Kept(d[q])
  BY <1>2 DEF LibraryInv
<1>. QED
  BY <1>2, <1>3, <1>4, HandledAll

(* A step of the world does not touch the ledger.                              *)
LEMMA WorldOne ==
    ASSUME LibraryInv, NEW p \in Players, NEW s, Kept(s), World(p, s),
           s.active = desk[p].active, s.retired = desk[p].retired
    PROVE  LibraryInv'
<1>1. s \in Desks
  BY DEF Kept, Whole, Core
<1>2. /\ desk' \in [Players -> Desks] /\ scheduled' = scheduled
      /\ \A q \in Players : desk'[q] = IF q = p THEN s ELSE desk[q]
  BY <1>1 DEF LibraryInv, World
<1>3. \A q \in Players : Kept(desk'[q])
  BY <1>2 DEF LibraryInv
<1>4. \A q \in Players : desk'[q].active = desk[q].active /\ desk'[q].retired = desk[q].retired
  BY <1>2
<1>5. Subscribed'
  BY <1>2, <1>4 DEF LibraryInv, Subscribed, Needed
<1>. QED
  BY <1>2, <1>3, <1>5 DEF LibraryInv

(* A desk redrawn whose player stays put is as good as it was.                 *)
LEMMA RedrawnKept ==
    ASSUME NEW s, Kept(s), NEW t, Redrawn(s, t), t.moved = s.moved
    PROVE  Kept(t)
  BY RedrawnKeeps DEF Kept, Placed, Redrawn

(* A desk without a cache: only its ledger and flights count.                  *)
LEMMA BareKept ==
    ASSUME NEW s, Whole(s), NEW t \in Desks, s.cache = Nil, t.cache = Nil, t.saved = s.saved,
           t.flight = s.flight, t.age = s.age, Held(t) = Held(s),
           t.retired # Nil => t.active = Nil
    PROVE  Kept(t)
  BY DEF Kept, Whole, Core, Filed, Fresh, Honest, Counted, Placed

LEMMA InitKept == Init => LibraryInv
<1>. SUFFICES ASSUME Init PROVE LibraryInv
  OBVIOUS
<1>. DEFINE Blank(x) ==
         [present |-> TRUE, connected |-> TRUE, life |-> TRUE, site |-> x,
          moved |-> FALSE, rooted |-> FALSE,
          flight |-> [i \in Ids |-> Nil], age |-> [i \in Ids |-> 0],
          tab |-> "other", open |-> FALSE, refresh |-> FALSE,
          cache |-> Nil, saved |-> FALSE, active |-> Nil, retired |-> Nil]
<1>1. scheduled = FALSE /\ desk \in [Players -> {Blank(x) : x \in Sites}]
  BY DEF Init
<1>2. ASSUME NEW p \in Players
      PROVE  /\ desk[p] \in Desks /\ desk[p].cache = Nil /\ desk[p].saved = FALSE
             /\ desk[p].active = Nil /\ desk[p].retired = Nil
             /\ \A i \in Ids : desk[p].flight[i] = Nil
  <2>1. PICK x \in Sites : desk[p] = Blank(x)
    BY <1>1
  <2>. DEFINE flight == [i \in Ids |-> Nil]
              age == [i \in Ids |-> 0]
  <2>2. flight \in [Ids -> Answers \cup {Nil}] /\ \A i \in Ids : flight[i] = Nil
    OBVIOUS
  <2>3. age \in [Ids -> 0 .. Expiry]
    BY Limits
  <2>4. desk[p] = [present |-> TRUE, connected |-> TRUE, life |-> TRUE, site |-> x,
                   moved |-> FALSE, rooted |-> FALSE, flight |-> flight, age |-> age,
                   tab |-> "other", open |-> FALSE, refresh |-> FALSE,
                   cache |-> Nil, saved |-> FALSE, active |-> Nil, retired |-> Nil]
    BY <2>1
  <2>. HIDE DEF flight, age
  <2>. QED
    BY <2>2, <2>3, <2>4 DEF Desks, Tabs
<1>3. ASSUME NEW p \in Players PROVE Kept(desk[p])
  <2>1. Held(desk[p]) = {}
    BY <1>2 DEF Held, Listed
  <2>2. Counted(desk[p])
    <3>1. IsFiniteSet({}) /\ Cardinality({}) = 0
      BY FS_EmptySet
    <3>2. IsFiniteSet(Held(desk[p])) /\ Cardinality(Held(desk[p])) <= Window
      BY <2>1, <3>1, Limits
    <3>. QED
      BY <1>2, <3>2 DEF Counted
  <2>. QED
    BY <1>2, <2>2 DEF Kept, Whole, Core, Filed, Fresh, Honest, Placed
<1>4. desk \in [Players -> Desks]
  BY <1>1, <1>2
<1>5. Subscribed
  BY <1>1, <1>2 DEF Subscribed, Needed
<1>. QED
  BY <1>1, <1>3, <1>4, <1>5 DEF LibraryInv
-----------------------------------------------------------------------------
(* Every step keeps it.                                                        *)

LEMMA OpenLibraryKept ==
    ASSUME LibraryInv, NEW p \in Players, OpenLibrary(p)
    PROVE  LibraryInv'
<1>1. PICK tab \in Tabs, failing \in SUBSET Refusable :
        Handle(p, Render([desk[p] EXCEPT !.tab = tab], failing))
  BY DEF OpenLibrary
<1>. DEFINE s == [desk[p] EXCEPT !.tab = tab]
<1>2. Kept(desk[p]) /\ desk[p] \in Desks
  BY DEF LibraryInv
<1>3. Redrawn(desk[p], s) /\ s.moved = desk[p].moved /\ s.present /\ s.connected
  BY <1>2 DEF Redrawn, Desks, OpenLibrary
<1>4. Handle(p, Render(s, failing))
  BY <1>1
<1>. HIDE DEF s
<1>5. Kept(s)
  BY <1>2, <1>3, RedrawnKept
<1>6. Kept(Render(s, failing))
  BY <1>3, <1>5, RenderKeeps, LeadsKept DEF Kept
<1>. QED
  BY <1>4, <1>6, HandledOne

LEMMA CloseLibraryKept ==
    ASSUME LibraryInv, NEW p \in Players, CloseLibrary(p)
    PROVE  LibraryInv'
<1>1. Kept(desk[p])
  BY DEF LibraryInv
<1>2. Kept(Closed(desk[p]))
  BY <1>1, ClosedKeeps, LeadsKept DEF Kept
<1>. QED
  BY <1>2, HandledOne DEF CloseLibrary

(* A flight that ends leaves nobody waiting.                                   *)
LEMMA LandedKept ==
    ASSUME NEW s, Kept(s), NEW id \in Ids, NEW t, t = [s EXCEPT !.flight[id] = Nil]
    PROVE  Kept(t) /\ t.active = s.active /\ t.retired = s.retired
           /\ t.flight[id] = Nil /\ t.cache = s.cache /\ SamePlayer(s, t)
<1>1. s \in Desks
  BY DEF Kept, Whole, Core
<1>. DEFINE flight == [s.flight EXCEPT ![id] = Nil]
<1>2. t = [s EXCEPT !.flight = flight]
  OBVIOUS
<1>3. flight \in [Ids -> Answers \cup {Nil}] /\ \A i \in Ids : flight[i] \in {s.flight[i], Nil}
      /\ flight[id] = Nil
  BY <1>1 DEF Desks
<1>. HIDE DEF flight
<1>4. /\ t \in Desks /\ t.cache = s.cache /\ t.flight = flight /\ t.age = s.age
      /\ t.active = s.active /\ t.saved = s.saved /\ t.retired = s.retired
      /\ SamePlayer(s, t)
  BY <1>1, <1>2, <1>3 DEF Desks, SamePlayer
<1>5. Held(t) = Held(s)
  BY <1>4 DEF Held
<1>6. Honest(t)
  <2>1. SUFFICES ASSUME s.cache # Nil, s.cache.site = s.site, NEW r \in s.cache.pending, r.current
                 PROVE  flight[r.id] \in {Nil, [key |-> r.key, site |-> s.site, life |-> s.life]}
    BY <1>4, Zenon DEF Honest, SamePlayer
  <2>2. r.id \in Ids
    BY <1>1, <2>1 DEF Desks, Caches, Requests
  <2>3. s.flight[r.id] \in {Nil, [key |-> r.key, site |-> s.site, life |-> s.life]}
    BY <2>1 DEF Kept, Whole, Core, Honest
  <2>. QED
    BY <1>3, <2>2, <2>3
<1>7. Counted(t)
  BY <1>3, <1>4, <1>5 DEF Counted, Kept, Whole, Core
<1>8. Fresh(t)
  BY <1>4 DEF Fresh, Kept, Whole, Core, SamePlayer
<1>9. Core(t)
  BY <1>4, <1>6, <1>7, <1>8 DEF Core, Kept, Whole, SamePlayer
<1>10. Filed(t) /\ Placed(t)
  BY <1>4 DEF Filed, Placed, Kept, Whole, SamePlayer
<1>. QED
  BY <1>3, <1>4, <1>9, <1>10 DEF Kept, Whole

LEMMA OnStringTranslatedKept ==
    ASSUME LibraryInv, NEW p \in Players, OnStringTranslated(p)
    PROVE  LibraryInv'
<1>1. PICK id \in Ids, failing \in SUBSET Refusable :
        /\ desk[p].flight[id] # Nil
        /\ \E label \in {desk[p].flight[id], Nil} :
             Handle(p, StringTranslated([desk[p] EXCEPT !.flight[id] = Nil], id, label, failing))
  BY DEF OnStringTranslated
<1>2. PICK label \in {desk[p].flight[id], Nil} :
        Handle(p, StringTranslated([desk[p] EXCEPT !.flight[id] = Nil], id, label, failing))
  BY <1>1
<1>. DEFINE s == desk[p]
            t == [s EXCEPT !.flight[id] = Nil]
<1>3. Kept(s) /\ s \in Desks
  BY DEF LibraryInv
<1>4. Handle(p, StringTranslated(t, id, label, failing)) /\ t = [s EXCEPT !.flight[id] = Nil]
      /\ label \in {s.flight[id], Nil}
  BY <1>2
<1>. HIDE DEF s, t
<1>5. /\ Kept(t) /\ t.flight[id] = Nil /\ t.cache = s.cache /\ SamePlayer(s, t)
  BY <1>3, <1>4, LandedKept
<1>6. Told(t, id, label)
  <2>1. label \in Answers \cup {Nil}
    BY <1>3, <1>4 DEF Desks
  <2>2. ASSUME s.cache # Nil, s.cache.site = s.site, NEW r \in s.cache.pending, r.id = id, r.current
        PROVE  label \in {Nil, [key |-> r.key, site |-> s.site, life |-> s.life]}
    <3>1. s.flight[id] \in {Nil, [key |-> r.key, site |-> s.site, life |-> s.life]}
      BY <1>3, <2>2 DEF Kept, Whole, Core, Honest
    <3>. QED
      BY <1>4, <3>1
  <2>3. t.site = s.site /\ t.life = s.life
    BY <1>5 DEF SamePlayer
  <2>. QED
    BY <1>5, <2>1, <2>2, <2>3 DEF Told
<1>7. Kept(StringTranslated(t, id, label, failing))
  BY <1>5, <1>6, StringTranslatedKeeps, LeadsKept DEF Kept
<1>. QED
  BY <1>4, <1>7, HandledOne

LEMMA OnPlayerMovedKept ==
    ASSUME LibraryInv, NEW p \in Players, OnPlayerMoved(p)
    PROVE  LibraryInv'
<1>1. PICK failing \in SUBSET Refusable :
        Handle(p, Invalidate([desk[p] EXCEPT !.moved = FALSE], failing))
  BY DEF OnPlayerMoved
<1>. DEFINE s == [desk[p] EXCEPT !.moved = FALSE]
            u == Invalidate(s, failing)
<1>2. Kept(desk[p]) /\ desk[p] \in Desks
  BY DEF LibraryInv
<1>3. Redrawn(desk[p], s)
  BY <1>2 DEF Redrawn, Desks
<1>4. Handle(p, u)
  BY <1>1
<1>. HIDE DEF s
<1>5. Whole(s)
  BY <1>2, <1>3, RedrawnKeeps DEF Kept
<1>6. Leads(s, u) /\ (u.cache # Nil => u.cache.site = s.site)
  BY <1>5, InvalidateKeeps
<1>. HIDE DEF u
<1>7. Kept(u)
  BY <1>6 DEF Kept, Leads, Nears, SamePlayer, Placed
<1>. QED
  BY <1>4, <1>7, HandledOne

LEMMA OnPlayerLeftKept ==
    ASSUME LibraryInv, NEW p \in Players, OnPlayerLeft(p)
    PROVE  LibraryInv'
<1>. DEFINE s == [desk[p] EXCEPT !.connected = FALSE]
            u == Discard(Cleared(s))
<1>1. Kept(desk[p]) /\ desk[p] \in Desks
  BY DEF LibraryInv
<1>2. Redrawn(desk[p], s) /\ s.moved = desk[p].moved
  BY <1>1 DEF Redrawn, Desks
<1>3. Handle(p, u)
  BY DEF OnPlayerLeft
<1>. HIDE DEF s
<1>4. Kept(s)
  BY <1>1, <1>2, RedrawnKept
<1>5. Kept(Cleared(s))
  BY <1>4, ClearedKeeps, LeadsKept DEF Kept
<1>6. Kept(u)
  BY <1>5, DiscardKeeps, LeadsKept DEF Kept
<1>. QED
  BY <1>3, <1>6, HandledOne

LEMMA OnPlayerJoinedKept ==
    ASSUME LibraryInv, NEW p \in Players, OnPlayerJoined(p)
    PROVE  LibraryInv'
<1>. DEFINE s == [desk[p] EXCEPT !.connected = TRUE]
<1>1. Kept(desk[p]) /\ desk[p] \in Desks /\ desk[p].present
  BY DEF LibraryInv, OnPlayerJoined
<1>2. Redrawn(desk[p], s) /\ s.moved = desk[p].moved /\ s.present /\ s.connected
  BY <1>1 DEF Redrawn, Desks
<1>3. IF s.rooted THEN \E failing \in SUBSET Refusable : Handle(p, Render(s, failing))
      ELSE Handle(p, Discard(Cleared(s)))
  BY DEF OnPlayerJoined
<1>. HIDE DEF s
<1>4. Kept(s)
  BY <1>1, <1>2, RedrawnKept
<1>5. ASSUME NEW failing PROVE Kept(Render(s, failing))
  BY <1>2, <1>4, RenderKeeps, LeadsKept DEF Kept
<1>6. Kept(Cleared(s))
  BY <1>4, ClearedKeeps, LeadsKept DEF Kept
<1>7. Kept(Discard(Cleared(s)))
  BY <1>6, DiscardKeeps, LeadsKept DEF Kept
<1>. QED
  BY <1>3, <1>5, <1>7, HandledOne

LEMMA OnPlayerRemovedKept ==
    ASSUME LibraryInv, NEW p \in Players, OnPlayerRemoved(p)
    PROVE  LibraryInv'
<1>. DEFINE c == Closed(desk[p])
            s == [c EXCEPT !.present = FALSE, !.tab = "other"]
            kept == s.active = Nil \/ s.retired # Nil
            u == IF kept THEN s ELSE [s EXCEPT !.retired = s.active, !.active = Nil]
<1>1. Handle(p, u)
  BY DEF OnPlayerRemoved
<1>2. Kept(desk[p])
  BY DEF LibraryInv
<1>3. Whole(c) /\ c.cache = Nil /\ c \in Desks
  BY <1>2, ClosedKeeps DEF Kept, Leads, Whole, Core
<1>4. /\ s \in Desks /\ s.cache = Nil /\ s.saved = c.saved /\ s.flight = c.flight /\ s.age = c.age
      /\ s.active = c.active /\ s.retired = c.retired
  BY <1>3 DEF Desks, Tabs
<1>5. s.retired # Nil => s.active = Nil
  BY <1>3, <1>4 DEF Whole, Filed
<1>. HIDE DEF c, s
<1>6. CASE kept
  <2>1. Held(s) = Held(c)
    BY <1>3, <1>4 DEF Held
  <2>2. Kept(s)
    BY <1>3, <1>4, <1>5, <2>1, BareKept
  <2>. QED
    BY <1>1, <1>6, <2>2, HandledOne
<1>7. CASE ~kept
  <2>. DEFINE t == [s EXCEPT !.retired = s.active, !.active = Nil]
  <2>1. /\ t \in Desks /\ t.cache = Nil /\ t.saved = c.saved /\ t.flight = c.flight
        /\ t.age = c.age /\ t.active = Nil /\ t.retired = s.active
    BY <1>4 DEF Desks
  <2>2. u = t
    BY <1>7
  <2>. HIDE DEF t, u
  <2>3. Held(t) = Held(c)
    BY <1>3, <1>4, <1>7, <2>1 DEF Held, Listed
  <2>4. Kept(t)
    BY <1>3, <2>1, <2>3, BareKept
  <2>. QED
    BY <1>1, <2>2, <2>4, HandledOne
<1>. QED
  BY <1>6, <1>7

LEMMA OnNativeStateChangedKept ==
    ASSUME LibraryInv, OnNativeStateChanged
    PROVE  LibraryInv'
<1>. DEFINE Marked(s) == IF ~s.open THEN s ELSE IF Rooted(s) THEN [s EXCEPT !.refresh = TRUE]
                         ELSE Discard(Cleared(s))
            d == [p \in Players |-> Marked(desk[p])]
<1>1. Handled(d)
  BY DEF OnNativeStateChanged
<1>2. ASSUME NEW p \in Players PROVE Kept(Marked(desk[p])) /\ Marked(desk[p]) \in Desks
  <2>. DEFINE s == desk[p]
              t == [s EXCEPT !.refresh = TRUE]
  <2>1. Kept(s) /\ s \in Desks
    BY DEF LibraryInv
  <2>2. Redrawn(s, t) /\ t.moved = s.moved
    BY <2>1 DEF Redrawn, Desks
  <2>3. Marked(s) = s \/ Marked(s) = t \/ Marked(s) = Discard(Cleared(s))
    OBVIOUS
  <2>. HIDE DEF t, s
  <2>4. Kept(t)
    BY <2>1, <2>2, RedrawnKept
  <2>5. Kept(Cleared(s))
    BY <2>1, ClearedKeeps, LeadsKept DEF Kept
  <2>6. Kept(Discard(Cleared(s)))
    BY <2>5, DiscardKeeps, LeadsKept DEF Kept
  <2>. HIDE DEF Marked
  <2>7. Kept(Marked(s))
    BY <2>1, <2>3, <2>4, <2>6
  <2>. QED
    BY <2>7 DEF s, Kept, Whole, Core
<1>. HIDE DEF Marked
<1>3. d \in [Players -> Desks] /\ \A p \in Players : Kept(d[p])
  BY <1>2
<1>. HIDE DEF d
<1>. QED
  BY <1>1, <1>3, HandledAll

LEMMA OnNativeRefreshTickKept ==
    ASSUME LibraryInv, OnNativeRefreshTick
    PROVE  LibraryInv'
<1>. DEFINE Still(s) == [s EXCEPT !.refresh = FALSE]
            Shut(s) == [Still(s) EXCEPT !.open = FALSE]
            Drawn(s, failing) ==
              IF ~s.refresh THEN Still(s)
              ELSE IF Still(s).open /\ Rooted(Still(s)) THEN Render(Still(s), failing)
              ELSE Discard(Shut(s))
<1>1. PICK failing \in SUBSET Refusable : Handled([p \in Players |-> Drawn(desk[p], failing)])
  BY Zenon DEF OnNativeRefreshTick
<1>. DEFINE d == [p \in Players |-> Drawn(desk[p], failing)]
<1>2. ASSUME NEW p \in Players
      PROVE  Kept(Drawn(desk[p], failing)) /\ Drawn(desk[p], failing) \in Desks
  <2>. DEFINE s == desk[p]
  <2>1. Kept(s) /\ s \in Desks
    BY DEF LibraryInv
  <2>. HIDE DEF s
  <2>2. Redrawn(s, Still(s)) /\ Still(s).moved = s.moved
    BY <2>1 DEF Redrawn, Desks
  <2>3. Redrawn(s, Shut(s)) /\ Shut(s).moved = s.moved
    BY <2>1 DEF Redrawn, Desks
  <2>. HIDE DEF Still, Shut
  <2>4. Kept(Still(s)) /\ Kept(Shut(s))
    BY <2>1, <2>2, <2>3, RedrawnKept
  <2>5. Kept(Discard(Shut(s)))
    BY <2>4, DiscardKeeps, LeadsKept DEF Kept
  <2>6. Rooted(Still(s)) => Kept(Render(Still(s), failing))
    BY <2>4, RenderKeeps, LeadsKept DEF Kept, Rooted
  <2>7. Kept(Drawn(s, failing))
    BY <2>4, <2>5, <2>6
  <2>. HIDE DEF Drawn
  <2>. QED
    BY <2>7 DEF s, Kept, Whole, Core
<1>. HIDE DEF Drawn
<1>3. d \in [Players -> Desks] /\ \A p \in Players : Kept(d[p])
  BY <1>2
<1>4. Handled(d)
  BY <1>1
<1>. HIDE DEF d
<1>. QED
  BY <1>3, <1>4, HandledAll

LEMMA OlderKept ==
    ASSUME NEW s, Kept(s)
    PROVE  Kept(Older(s))
  BY OlderKeeps DEF Kept, Placed, SamePlayer

(* With nothing outstanding no request can be past its time.                   *)
LEMMA IdleLively ==
    ASSUME NEW s, Whole(s), s.active = Nil, s.retired = Nil
    PROVE  Lively(s)
<1>1. CASE s.cache = Nil
  BY <1>1 DEF Lively, Held, Listed
<1>2. CASE s.cache # Nil
  <2>1. s.cache.pending \in SUBSET Requests /\ Nil = Ledger(s.cache.pending)
    BY <1>2 DEF Whole, Core, Filed, Desks, Caches
  <2>2. s.cache.pending = {}
    BY <2>1, Limits DEF Ledger
  <2>. QED
    BY <1>2, <2>2 DEF Lively, Held
<1>. QED
  BY <1>1, <1>2

LEMMA OnTranslationMaintenanceKept ==
    ASSUME LibraryInv, OnTranslationMaintenance
    PROVE  LibraryInv' /\ \A p \in Players : Lively(desk'[p])
<1>1. CASE scheduled
  <2>1. PICK failing \in SUBSET Refusable :
          Handled([p \in Players |-> Maintained(Older(desk[p]), failing)])
    BY <1>1 DEF OnTranslationMaintenance
  <2>. DEFINE d == [p \in Players |-> Maintained(Older(desk[p]), failing)]
  <2>2. ASSUME NEW p \in Players
        PROVE  LET t == Maintained(Older(desk[p]), failing)
               IN  Kept(t) /\ t \in Desks /\ Lively(t)
    <3>1. Kept(Older(desk[p]))
      BY OlderKept DEF LibraryInv
    <3>. DEFINE s == Older(desk[p])
                t == Maintained(s, failing)
    <3>. HIDE DEF s
    <3>2. Leads(s, t) /\ Lively(t)
      BY <3>1, MaintainedKeeps DEF Kept, s
    <3>3. Kept(t)
      BY <3>1, <3>2, LeadsKept DEF s
    <3>. QED
      BY <3>2, <3>3 DEF Kept, Whole, Core, s
  <2>3. d \in [Players -> Desks] /\ \A p \in Players : Kept(d[p]) /\ Lively(d[p])
    BY <2>2
  <2>4. Handled(d)
    BY <2>1
  <2>. HIDE DEF d
  <2>5. LibraryInv'
    BY <2>3, <2>4, HandledAll
  <2>. QED
    BY <2>3, <2>4, <2>5 DEF Handled
<1>2. CASE ~scheduled
  <2>1. desk' = [p \in Players |-> Older(desk[p])] /\ scheduled' = scheduled
    BY <1>2 DEF OnTranslationMaintenance
  <2>2. \A p \in Players : Kept(desk[p]) /\ desk[p].active = Nil /\ desk[p].retired = Nil
    BY <1>2 DEF LibraryInv, Subscribed, Needed
  <2>3. ASSUME NEW p \in Players
        PROVE  /\ Kept(desk'[p]) /\ desk'[p] \in Desks
               /\ desk'[p].active = Nil /\ desk'[p].retired = Nil
    <3>1. desk'[p] = Older(desk[p])
      BY <2>1
    <3>. DEFINE t == Older(desk[p])
    <3>2. t.active = Nil /\ t.retired = Nil
      BY <2>2, OlderKeeps DEF Kept
    <3>3. Kept(t)
      BY <2>2, OlderKept
    <3>. HIDE DEF t
    <3>. QED
      BY <3>1, <3>2, <3>3 DEF t, Kept, Whole, Core
  <2>4. desk' \in [Players -> Desks]
    BY <2>1, <2>3
  <2>5. Subscribed'
    BY <1>2, <2>1, <2>3 DEF Subscribed, Needed
  <2>6. LibraryInv'
    BY <2>1, <2>3, <2>4, <2>5 DEF LibraryInv
  <2>. QED
    BY <2>3, <2>6, IdleLively DEF Kept
<1>. QED
  BY <1>1, <1>2

(* Storage lists every cache, so a load rebuilds them all.                     *)
LEMMA ReconnectedSame ==
    ASSUME NEW s, Kept(s)
    PROVE  Reconnected(s) = s
<1>1. s \in Desks /\ (s.saved <=> s.cache # Nil)
  BY DEF Kept, Whole, Core, Filed
<1>2. CASE s.cache # Nil
  BY <1>1, <1>2 DEF Reconnected
<1>3. CASE s.cache = Nil
  <2>1. [s EXCEPT !.cache = Nil] = s
    BY <1>1, <1>3 DEF Desks
  <2>. QED
    BY <2>1 DEF Reconnected
<1>. QED
  BY <1>2, <1>3

LEMMA LoadKept ==
    ASSUME LibraryInv, Load
    PROVE  LibraryInv'
<1>. DEFINE d == [p \in Players |-> Reconnected(desk[p])]
<1>1. \A p \in Players : Reconnected(desk[p]) = desk[p] /\ Kept(desk[p]) /\ desk[p] \in Desks
  BY ReconnectedSame DEF LibraryInv
<1>2. d \in [Players -> Desks] /\ \A p \in Players : Kept(d[p])
  BY <1>1
<1>3. Handled(d)
  BY DEF Load
<1>. HIDE DEF d
<1>. QED
  BY <1>2, <1>3, HandledAll

LEMMA OnConfigurationChangedKept ==
    ASSUME LibraryInv, OnConfigurationChanged
    PROVE  LibraryInv'
<1>. DEFINE Marked(s) == [s EXCEPT !.open = Rooted(s), !.refresh = Rooted(s)]
            Changed(s, failing) ==
              IF Marked(s).cache = Nil THEN Marked(s) ELSE Invalidate(Marked(s), failing)
<1>1. PICK failing \in SUBSET Refusable :
        Handled([p \in Players |-> Changed(Reconnected(desk[p]), failing)])
  BY Zenon DEF OnConfigurationChanged
<1>. DEFINE d == [p \in Players |-> Changed(Reconnected(desk[p]), failing)]
<1>2. ASSUME NEW p \in Players
      PROVE  /\ Kept(Changed(Reconnected(desk[p]), failing))
             /\ Changed(Reconnected(desk[p]), failing) \in Desks
  <2>. DEFINE s == desk[p]
  <2>1. Kept(s) /\ s \in Desks
    BY DEF LibraryInv
  <2>2. Reconnected(desk[p]) = s
    BY <2>1, ReconnectedSame
  <2>. HIDE DEF s
  <2>3. Rooted(s) \in BOOLEAN
    BY DEF Rooted
  <2>4. Redrawn(s, Marked(s)) /\ Marked(s).moved = s.moved
    BY <2>1, <2>3 DEF Redrawn, Desks
  <2>. HIDE DEF Marked
  <2>5. Kept(Marked(s))
    BY <2>1, <2>4, RedrawnKept
  <2>6. Kept(Invalidate(Marked(s), failing))
    BY <2>5, InvalidateKeeps, LeadsKept DEF Kept
  <2>7. Kept(Changed(s, failing))
    BY <2>5, <2>6
  <2>. HIDE DEF Changed
  <2>. QED
    BY <2>2, <2>7 DEF Kept, Whole, Core
<1>. HIDE DEF Changed
<1>3. d \in [Players -> Desks] /\ \A p \in Players : Kept(d[p])
  BY <1>2
<1>4. Handled(d)
  BY <1>1
<1>. HIDE DEF d
<1>. QED
  BY <1>3, <1>4, HandledAll

(* A cache of where the player was is for elsewhere now: nothing on its way is *)
(* believed.                                                                   *)
LEMMA MoveKept ==
    ASSUME LibraryInv, NEW p \in Players, Move(p)
    PROVE  LibraryInv'
<1>1. PICK site \in Sites \ {desk[p].site} :
        World(p, [desk[p] EXCEPT !.site = site, !.moved = TRUE])
  BY Zenon DEF Move
<1>. DEFINE s == desk[p]
            t == [s EXCEPT !.site = site, !.moved = TRUE]
<1>2. Kept(s) /\ s \in Desks /\ ~s.moved /\ site # s.site
  BY DEF LibraryInv, Move
<1>3. World(p, t)
  BY <1>1
<1>4. s = desk[p]
  OBVIOUS
<1>. HIDE DEF s
<1>5. /\ t \in Desks /\ t.cache = s.cache /\ t.flight = s.flight /\ t.age = s.age
      /\ t.active = s.active /\ t.saved = s.saved /\ t.retired = s.retired
      /\ t.present = s.present /\ t.life = s.life /\ t.site = site /\ t.moved = TRUE
  BY <1>2 DEF Desks
<1>. HIDE DEF t
<1>6. Held(t) = Held(s)
  BY <1>5 DEF Held
<1>7. t.cache # Nil => t.cache.site # t.site
  BY <1>2, <1>5 DEF Kept, Placed
<1>8. Fresh(t) /\ Honest(t)
  BY <1>2, <1>5, <1>7 DEF Fresh, Honest, Kept, Whole, Core
<1>9. Counted(t)
  BY <1>2, <1>5, <1>6 DEF Counted, Kept, Whole, Core
<1>10. Core(t)
  BY <1>2, <1>5, <1>8, <1>9 DEF Core, Kept, Whole
<1>11. Filed(t)
  BY <1>2, <1>5 DEF Filed, Kept, Whole
<1>12. Kept(t)
  BY <1>5, <1>10, <1>11 DEF Kept, Whole, Placed
<1>. QED
  BY <1>3, <1>4, <1>5, <1>12, WorldOne

LEMMA LoseFrameKept ==
    ASSUME LibraryInv, NEW p \in Players, LoseFrame(p)
    PROVE  LibraryInv'
<1>. DEFINE s == desk[p]
            t == [s EXCEPT !.rooted = FALSE]
<1>1. Kept(s) /\ s \in Desks
  BY DEF LibraryInv
<1>2. World(p, t) /\ s = desk[p]
  BY DEF LoseFrame
<1>. HIDE DEF s
<1>3. Redrawn(s, t) /\ t.moved = s.moved /\ t.active = s.active /\ t.retired = s.retired
  BY <1>1 DEF Redrawn, Desks
<1>. HIDE DEF t
<1>4. Kept(t)
  BY <1>1, <1>3, RedrawnKept
<1>. QED
  BY <1>2, <1>3, <1>4, WorldOne

LEMMA NeverAnswerKept ==
    ASSUME LibraryInv, NEW p \in Players, NeverAnswer(p)
    PROVE  LibraryInv'
<1>1. PICK id \in Ids : World(p, [desk[p] EXCEPT !.flight[id] = Nil])
  BY DEF NeverAnswer
<1>. DEFINE s == desk[p]
            t == [s EXCEPT !.flight[id] = Nil]
<1>2. Kept(s)
  BY DEF LibraryInv
<1>3. World(p, t) /\ s = desk[p] /\ t = [s EXCEPT !.flight[id] = Nil]
  BY <1>1
<1>. HIDE DEF s, t
<1>4. Kept(t) /\ t.active = s.active /\ t.retired = s.retired
  BY <1>2, <1>3, LandedKept
<1>. QED
  BY <1>3, <1>4, WorldOne

LEMMA ReuseIndexKept ==
    ASSUME LibraryInv, NEW p \in Players, ReuseIndex(p)
    PROVE  LibraryInv'
<1>1. PICK site \in Sites :
        World(p, [desk[p] EXCEPT !.present = TRUE, !.connected = TRUE, !.life = ~@, !.site = site])
  BY Zenon DEF ReuseIndex
<1>. DEFINE s == desk[p]
            t == [s EXCEPT !.present = TRUE, !.connected = TRUE, !.life = ~s.life, !.site = site]
<1>2. Kept(s) /\ s \in Desks /\ ~s.present
  BY DEF LibraryInv, ReuseIndex
<1>3. World(p, t) /\ s = desk[p]
  BY <1>1
<1>. HIDE DEF s
<1>4. s.cache = Nil
  BY <1>2 DEF Kept, Whole, Core
<1>5. /\ t \in Desks /\ t.cache = s.cache /\ t.flight = s.flight /\ t.age = s.age
      /\ t.active = s.active /\ t.saved = s.saved /\ t.retired = s.retired
  BY <1>2, Zenon DEF Desks
<1>. HIDE DEF t
<1>6. Held(t) = Held(s)
  BY <1>5 DEF Held
<1>7. t.retired # Nil => t.active = Nil
  BY <1>2, <1>5 DEF Kept, Whole, Filed
<1>8. Kept(t)
  BY <1>2, <1>4, <1>5, <1>6, <1>7, BareKept DEF Kept
<1>. QED
  BY <1>3, <1>5, <1>8, WorldOne

LEMMA StepKept ==
    ASSUME LibraryInv, [Next]_tvars
    PROVE  LibraryInv'
<1>1. CASE UNCHANGED tvars
  BY <1>1 DEF LibraryInv, tvars, Subscribed, Needed
<1>2. ASSUME NEW p \in Players,
             OpenLibrary(p) \/ CloseLibrary(p) \/ OnStringTranslated(p) \/ OnPlayerMoved(p)
      PROVE  LibraryInv'
  BY <1>2, OpenLibraryKept, CloseLibraryKept, OnStringTranslatedKept, OnPlayerMovedKept
<1>3. ASSUME NEW p \in Players,
             OnPlayerLeft(p) \/ OnPlayerJoined(p) \/ OnPlayerRemoved(p)
      PROVE  LibraryInv'
  BY <1>3, OnPlayerLeftKept, OnPlayerJoinedKept, OnPlayerRemovedKept
<1>4. ASSUME NEW p \in Players, Move(p) \/ LoseFrame(p) \/ NeverAnswer(p) \/ ReuseIndex(p)
      PROVE  LibraryInv'
  BY <1>4, MoveKept, LoseFrameKept, NeverAnswerKept, ReuseIndexKept
<1>5. CASE OnNativeStateChanged \/ OnNativeRefreshTick \/ OnTranslationMaintenance
  BY <1>5, OnNativeStateChangedKept, OnNativeRefreshTickKept, OnTranslationMaintenanceKept
<1>6. CASE Load \/ OnConfigurationChanged
  BY <1>6, LoadKept, OnConfigurationChangedKept
<1>. QED
  BY <1>1, <1>2, <1>3, <1>4, <1>5, <1>6 DEF Next

LEMMA LibraryCorrect == Spec => []LibraryInv
  BY InitKept, StepKept, PTL DEF Spec
-----------------------------------------------------------------------------
(* What follows.                                                               *)

(* A label on show was asked for that key, in the cache's locale and force, by *)
(* the player who is there now.                                                *)
THEOREM LabelsAreFresh == Spec => []LabelsFresh
<1>1. LibraryInv => LabelsFresh
  BY DEF LibraryInv, Kept, Whole, Core, Fresh, LabelsFresh
<1>. QED
  BY <1>1, LibraryCorrect, PTL

(* The maintenance tick is installed exactly while requests are outstanding.   *)
THEOREM TickFollowsLedger == Spec => []Subscribed
<1>1. LibraryInv => Subscribed
  BY DEF LibraryInv
<1>. QED
  BY <1>1, LibraryCorrect, PTL

(* A joining client finds in storage the caches and requests the others hold.  *)
THEOREM JoinersAgree == Spec => []JoinerAgrees
<1>1. LibraryInv => JoinerAgrees
  BY DEF LibraryInv, Kept, Whole, Filed, JoinerAgrees
<1>. QED
  BY <1>1, LibraryCorrect, PTL

(* The engine never has more than the window of one player's requests.         *)
THEOREM WindowHolds == Spec => []WindowKept
<1>1. LibraryInv => WindowKept
  <2>1. SUFFICES ASSUME LibraryInv, NEW p \in Players
                 PROVE  Cardinality({i \in Ids : /\ desk[p].flight[i] # Nil
                                                 /\ desk[p].age[i] < Expiry}) <= Window
    BY DEF WindowKept
  <2>. DEFINE s == desk[p]
              asked == {i \in Ids : s.flight[i] # Nil /\ s.age[i] < Expiry}
              ids == {r.id : r \in Held(s)}
              f == [r \in Held(s) |-> r.id]
  <2>2. Counted(s)
    BY <2>1 DEF LibraryInv, Kept, Whole, Core
  <2>3. f \in Surjection(Held(s), ids)
    <3>1. f \in [Held(s) -> ids]
      OBVIOUS
    <3>2. \A i \in ids : \E r \in Held(s) : f[r] = i
      OBVIOUS
    <3>. QED
      BY <3>1, <3>2 DEF Surjection
  <2>. HIDE DEF f, s
  <2>4. asked \subseteq ids
    BY <2>2 DEF Counted
  <2>5. IsFiniteSet(Held(s)) /\ Cardinality(Held(s)) <= Window
    BY <2>2 DEF Counted
  <2>. HIDE DEF asked, ids
  <2>6. IsFiniteSet(ids) /\ Cardinality(ids) <= Cardinality(Held(s))
    BY <2>3, <2>5, FS_Surjection
  <2>7. IsFiniteSet(asked) /\ Cardinality(asked) <= Cardinality(ids)
    BY <2>4, <2>6, FS_Subset
  <2>8. Cardinality(asked) \in Nat /\ Cardinality(ids) \in Nat /\ Cardinality(Held(s)) \in Nat
    BY <2>5, <2>6, <2>7, FS_CardinalityType
  <2>9. Cardinality(asked) <= Window
    BY <2>5, <2>6, <2>7, <2>8, Limits
  <2>. QED
    BY <2>9 DEF asked, s
<1>. QED
  BY <1>1, LibraryCorrect, PTL

(* After a maintenance pass no request past its time holds a slot, whoever     *)
(* asked and whatever became of the view.                                      *)
THEOREM ExpiredAreReleased == Spec => ExpiredReleased
<1>1. ASSUME NEW s, Whole(s), Lively(s), NEW i \in Known(s)
      PROVE  s.age[i] < Expiry
  <2>1. \E r \in Held(s) : r.id = i
    <3>1. CASE s.cache = Nil
      BY <3>1 DEF Known, IdsOf, Held, Listed
    <3>2. CASE s.cache # Nil
      <4>1. /\ s.cache.pending \in SUBSET Requests /\ s.retired = Nil
            /\ s.active = Ledger(s.cache.pending)
        BY <1>1, <3>2 DEF Whole, Core, Filed, Desks, Caches
      <4>2. s.cache.pending # Nil
        BY <4>1, Limits
      <4>3. IdsOf(s.active) \subseteq IdsOf(s.cache.pending) /\ IdsOf(s.retired) = {}
        BY <4>1 DEF IdsOf, Ledger
      <4>4. i \in IdsOf(s.cache.pending)
        BY <3>2, <4>3 DEF Known
      <4>. QED
        BY <3>2, <4>2, <4>4 DEF IdsOf, Held
    <3>. QED
      BY <3>1, <3>2
  <2>. QED
    BY <1>1, <2>1 DEF Lively
<1>2. ASSUME LibraryInv, OnTranslationMaintenance, NEW p \in Players, NEW i \in Known(desk'[p])
      PROVE  desk'[p].age[i] < Expiry
  <2>1. Whole(desk'[p]) /\ Lively(desk'[p])
    BY <1>2, OnTranslationMaintenanceKept DEF LibraryInv, Kept
  <2>. QED
    BY <1>1, <1>2, <2>1
<1>3. LibraryInv =>
        [OnTranslationMaintenance =>
           \A p \in Players : \A i \in Known(desk[p])' : desk'[p].age[i] < Expiry]_tvars
  BY <1>2
<1>. QED
  BY <1>3, LibraryCorrect, PTL DEF ExpiredReleased
=============================================================================
