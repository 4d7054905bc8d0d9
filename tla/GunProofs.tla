------------------------------ MODULE GunProofs ------------------------------
(* Proofs about GunRights for every set of forces and categories, every limit  *)
(* of a holder and every bound: the types, that each force natively has the    *)
(* levels it paid for, that waiting work is heard about and still queued, and  *)
(* that MIR refuses a save for cause only.                                     *)
EXTENDS GunRights, TLAPS

HistTypeOK ==
    /\ paid \in [Forces -> [Categories -> Int]]
    /\ owed \in [Forces -> Nat]
    /\ promise \in [Forces -> SUBSET Categories]

(* The flag and the subscription follow the ledger at all times.               *)
Following == pendingActive = PendingIn(ledger) /\ bound = pendingActive

(* The row of a force is that of the loaded mask.                              *)
Rowed(f) ==
    /\ ledger[f] # Nil /\ ledger[f].included = mask
    /\ mask # {} => ledger[f].pending = 0
    /\ ledger[f].pending > 0 => ledger[f].payable = promise[f]

(* A force with nothing to be handled: it has what it paid for, and the row    *)
(* waits for exactly the work that is owed, which is still queued.             *)
Kept(f) ==
    /\ Rowed(f)
    /\ \A c \in Categories : Effect(f, c) = paid[f][c]
    /\ owed[f] = ledger[f].pending /\ ledger[f].pending <= queue[f]

(* A force that has just started over.                                         *)
Begun(f) ==
    /\ native[f] = Unpaid /\ queue[f] = 0 /\ owed[f] = 0
    /\ \A c \in Categories : paid[f][c] = 0

(* A force MIR has no row of, in a save it has just been loaded into.          *)
Unknown(f) ==
    /\ native[f].positive = Unpaid.positive /\ native[f].negative = Unpaid.negative
    /\ \A c \in Categories :
         paid[f][c] = IF event.published \/ c \in mask THEN native[f].completed ELSE 0
    /\ owed[f] = IF event.published /\ mask = {} THEN queue[f] ELSE 0
    /\ promise[f] = IF event.published THEN Categories ELSE mask

(* A force whose row is still that of the mask it was saved under.             *)
Saved(f) ==
    LET row == ledger[f]
    IN  /\ \A c \in Categories : Earned(f, c, row.included) = paid[f][c]
        /\ row.included # {} => row.pending = 0
        /\ row.pending <= queue[f]
        /\ owed[f] = IF mask # {} THEN 0 ELSE IF row.included # {} THEN queue[f] ELSE row.pending
        /\ owed[f] > 0 =>
             promise[f] = IF row.included # {} THEN row.included ELSE row.payable

(* A force that completed a level its row has not credited yet.                *)
Uncredited(f) ==
    /\ Rowed(f) /\ ledger[f].pending > 0
    /\ \A c \in Categories :
         paid[f][c] = Effect(f, c) + IF c \in ledger[f].payable THEN 1 ELSE 0
    /\ owed[f] = ledger[f].pending - 1 /\ ledger[f].pending <= queue[f] + 1

(* A force that cancelled n entries its row still waits for.                   *)
Uncancelled(f, n) ==
    /\ Rowed(f)
    /\ \A c \in Categories : Effect(f, c) = paid[f][c]
    /\ owed[f] = (IF ledger[f].pending > n THEN ledger[f].pending - n ELSE 0)
    /\ ledger[f].pending <= queue[f] + n

(* A level was completed that no row waits for, or that the row must credit.   *)
Completed(f) == (Kept(f) /\ ledger[f].pending = 0) \/ Uncredited(f)

(* What holds of the forces while an event waits to be handled.                *)
Due ==
    LET f == event.force
        Others == \A g \in alive \ {f} : Kept(g)
    IN  CASE event.kind = "none"       -> \A g \in alive : Kept(g)
          [] event.kind = "init"       -> \A g \in alive : Begun(g)
          [] event.kind = "configured" ->
               \A g \in alive : IF ledger[g] = Nil THEN Unknown(g) ELSE Saved(g)
          [] event.kind = "created"    -> f \in alive /\ Begun(f) /\ Others
          [] event.kind = "merged"     ->
               f \in alive /\ event.source \notin alive /\ \A g \in alive : Kept(g)
          [] event.kind = "finished"   -> f \in alive /\ Completed(f) /\ Others
          [] event.kind = "cancelled"  ->
               f \in alive /\ event.count \in Nat /\ Uncancelled(f, event.count) /\ Others
          [] OTHER -> FALSE

IInv ==
    /\ NativeTypeOK /\ HistTypeOK
    /\ event.published \in BOOLEAN
    /\ ~refused => Following /\ Due
-----------------------------------------------------------------------------
(* plan_force                                                                  *)

(* Field access under the types.                                               *)
LEMMA Fields ==
    ASSUME NativeTypeOK, HistTypeOK, NEW f \in Forces
    PROVE  /\ native[f] \in Natives /\ native[f].completed \in Nat
           /\ \A c \in Categories : /\ native[f].positive[c] \in Int
                                    /\ native[f].negative[c] \in Int
                                    /\ paid[f][c] \in Int
           /\ queue[f] \in Nat /\ owed[f] \in Nat
           /\ ledger[f] \in Records \cup {Nil}
  BY DEF NativeTypeOK, HistTypeOK, Natives

LEMMA RowFields ==
    ASSUME NEW row \in Records
    PROVE  /\ row.included \in SUBSET Categories /\ row.payable \in SUBSET Categories
           /\ row.completed \in Int /\ row.pending \in Nat
           /\ row.positive \in [Categories -> Int] /\ row.negative \in [Categories -> Int]
           /\ row # Nil
  BY NilAssumption DEF Records

(* The planned row is one of the loaded mask, and with the planned holders the *)
(* force has natively just what was earned under the previous mask.            *)
LEMMA PlanKeeps ==
    ASSUME NativeTypeOK, HistTypeOK, NEW f \in Forces,
           NEW prior \in Records \cup {Nil},
           NEW published, NEW fresh, NEW begun,
           prior # Nil => prior.pending <= queue[f]
    PROVE  LET previous == Previous(f, prior, published, fresh, begun)
               p        == Plan(f, prior, published, fresh, begun)
           IN  /\ previous \subseteq Categories
               /\ p \in Records /\ p.included = mask
               /\ \A c \in Categories :
                    p.positive[c] + (IF c \in mask THEN native[f].completed - p.negative[c] ELSE 0)
                      = Earned(f, c, previous)
               /\ p.pending = (IF mask # {} THEN 0
                               ELSE IF prior = Nil \/ previous # {} THEN queue[f]
                               ELSE prior.pending)
               /\ p.pending <= queue[f]
               /\ p.pending > 0 =>
                    p.payable = IF prior = Nil \/ previous # {} THEN previous ELSE prior.payable
<1> DEFINE previous == Previous(f, prior, published, fresh, begun)
           p        == Plan(f, prior, published, fresh, begun)
           earned   == [c \in Categories |-> Earned(f, c, previous)]
<1>1. prior # Nil => /\ prior.included \in SUBSET Categories /\ prior.payable \in SUBSET Categories
                     /\ prior.pending \in Nat
  BY RowFields
<1>2. mask \in SUBSET Categories /\ previous \in SUBSET Categories
  BY <1>1 DEF Previous, NativeTypeOK
<1>3. earned \in [Categories -> Int]
  BY Fields DEF Earned
<1>4. PendingWork(f, prior, previous) =
        IF mask # {} THEN 0 ELSE IF prior = Nil \/ previous # {} THEN queue[f] ELSE prior.pending
  BY <1>1, Fields DEF PendingWork, Retires, Smaller
<1>5. PendingWork(f, prior, previous) \in Nat /\ PendingWork(f, prior, previous) <= queue[f]
  BY <1>1, <1>4, Fields
<1>6. Payable(f, prior, previous) \in SUBSET Categories
  BY <1>1, <1>2 DEF Payable, Retires
<1>7. PendingWork(f, prior, previous) > 0 =>
        Payable(f, prior, previous)
          = IF prior = Nil \/ previous # {} THEN previous ELSE prior.payable
  BY <1>5 DEF Payable, Retires
<1>8. p = [included |-> mask, completed |-> native[f].completed,
           pending  |-> PendingWork(f, prior, previous),
           payable  |-> Payable(f, prior, previous),
           positive |-> [c \in Categories |-> IF c \in mask THEN 0 ELSE earned[c]],
           negative |-> [c \in Categories |-> IF c \in mask THEN native[f].completed - earned[c]
                                              ELSE 0]]
  BY Zenon DEF Plan
<1> HIDE DEF p, previous, earned
<1>9. p \in Records
  BY <1>2, <1>3, <1>5, <1>6, <1>8, Fields DEF Records
<1>10. \A c \in Categories :
         p.positive[c] + (IF c \in mask THEN native[f].completed - p.negative[c] ELSE 0) = earned[c]
  BY <1>3, <1>8, Fields
<1>11. p.included = mask /\ p.pending = PendingWork(f, prior, previous)
       /\ p.payable = Payable(f, prior, previous)
  BY <1>8
<1>12. \A c \in Categories : earned[c] = Earned(f, c, previous)
  BY DEF earned
<1> QED  BY <1>2, <1>4, <1>5, <1>7, <1>9, <1>10, <1>11, <1>12 DEF p, previous
-----------------------------------------------------------------------------
(* preflight and apply                                                         *)

(* What planning needs to know of a force, for the row and mask it plans from. *)
Ready(f, prior, previous) ==
    /\ prior # Nil => prior.pending <= queue[f]
    /\ \A c \in Categories : Earned(f, c, previous) = paid[f][c]
    /\ owed[f] = IF mask # {} THEN 0
                 ELSE IF prior = Nil \/ previous # {} THEN queue[f] ELSE prior.pending
    /\ owed[f] > 0 =>
         promise[f] = IF prior = Nil \/ previous # {} THEN previous ELSE prior.payable

Prior(f, fresh) == IF fresh THEN Nil ELSE ledger[f]

(* A pass that is not refused leaves every force it planned as it should be,   *)
(* and the others as they were.                                                *)
LEMMA ReconcileKeeps ==
    ASSUME NativeTypeOK, HistTypeOK, NEW F \in SUBSET alive, NEW gone,
           NEW published \in BOOLEAN, NEW fresh \in BOOLEAN,
           Reconcile(F, gone, published, fresh), ~refused',
           UNCHANGED <<paid, owed, promise>>,
           \A f \in F, begun \in BOOLEAN :
             ~Refuses(f, Prior(f, fresh), published, fresh, begun)
               => Ready(f, Prior(f, fresh),
                        Previous(f, Prior(f, fresh), published, fresh, begun))
    PROVE  /\ NativeTypeOK' /\ HistTypeOK' /\ Following'
           /\ UNCHANGED <<alive, mask, queue>>
           /\ \A f \in F : Kept(f)'
           /\ \A f \in alive \ F : f \notin gone /\ Kept(f) => Kept(f)'
<1> DEFINE record(f, begun) == Plan(f, Prior(f, fresh), published, fresh, begun)
<1>1. PICK begun \in BOOLEAN :
        /\ ~\E f \in F : Refuses(f, Prior(f, fresh), published, fresh, begun)
        /\ native' = [f \in Forces |-> IF f \notin F THEN native[f]
              ELSE [native[f] EXCEPT !.positive = record(f, begun).positive,
                                     !.negative = record(f, begun).negative]]
        /\ ledger' = [f \in Forces |-> IF f \in F THEN record(f, begun)
                                       ELSE IF f \in gone THEN Nil ELSE ledger[f]]
        /\ Refreshed(ledger')
        /\ UNCHANGED <<alive, mask, queue>>
  BY Zenon DEF Reconcile, Prior, Refused
<1>2. F \subseteq Forces
  BY DEF NativeTypeOK
<1>3. ASSUME NEW f \in F
      PROVE  /\ Ready(f, Prior(f, fresh), Previous(f, Prior(f, fresh), published, fresh, begun))
             /\ Prior(f, fresh) \in Records \cup {Nil}
             /\ Prior(f, fresh) # Nil => Prior(f, fresh).pending <= queue[f]
  <2>1. ledger[f] \in Records \cup {Nil}
    BY <1>2, Fields
  <2> QED  BY <1>1, <2>1, Zenon DEF Ready, Prior
<1>4. ASSUME NEW f \in F
      PROVE  LET previous == Previous(f, Prior(f, fresh), published, fresh, begun)
                 p        == record(f, begun)
             IN  /\ p \in Records /\ p.included = mask
                 /\ \A c \in Categories :
                      p.positive[c]
                        + (IF c \in mask THEN native[f].completed - p.negative[c] ELSE 0)
                        = paid[f][c]
                 /\ p.pending = owed[f] /\ p.pending <= queue[f]
                 /\ mask # {} => p.pending = 0
                 /\ p.pending > 0 => p.payable = promise[f]
  <2> DEFINE previous == Previous(f, Prior(f, fresh), published, fresh, begun)
             p        == record(f, begun)
  <2>1. /\ p \in Records /\ p.included = mask
        /\ \A c \in Categories :
             p.positive[c] + (IF c \in mask THEN native[f].completed - p.negative[c] ELSE 0)
               = Earned(f, c, previous)
        /\ p.pending = (IF mask # {} THEN 0
                        ELSE IF Prior(f, fresh) = Nil \/ previous # {} THEN queue[f]
                        ELSE Prior(f, fresh).pending)
        /\ p.pending <= queue[f]
        /\ p.pending > 0 =>
             p.payable = IF Prior(f, fresh) = Nil \/ previous # {} THEN previous
                         ELSE Prior(f, fresh).payable
    BY <1>2, <1>3, PlanKeeps
  <2>2. Ready(f, Prior(f, fresh), previous)
    BY <1>3
  <2> HIDE DEF p, previous
  <2>3. p.pending = owed[f] /\ (mask # {} => p.pending = 0)
    BY <2>1, <2>2 DEF Ready
  <2>4. \A c \in Categories : Earned(f, c, previous) = paid[f][c]
    BY <2>2 DEF Ready
  <2>5. p.pending > 0 => p.payable = promise[f]
    BY <2>1, <2>2, <2>3 DEF Ready
  <2> QED  BY <2>1, <2>3, <2>4, <2>5, Zenon DEF p, previous
<1> HIDE DEF record
<1>5. NativeTypeOK'
  <2>1. \A f \in F : record(f, begun) \in Records
    BY <1>4
  <2>2. ledger' \in [Forces -> Records \cup {Nil}]
    BY <1>1, <2>1, Zenon DEF NativeTypeOK
  <2>3. \A f \in F : /\ record(f, begun).positive \in [Categories -> Int]
                     /\ record(f, begun).negative \in [Categories -> Int]
    BY <2>1, RowFields
  <2>4. native' \in [Forces -> Natives]
    BY <1>1, <2>3, Zenon DEF NativeTypeOK, Natives
  <2> QED  BY <1>1, <2>2, <2>4, Zenon DEF NativeTypeOK
<1>6. HistTypeOK'
  BY DEF HistTypeOK
<1>7. Following'
  BY <1>1, Zenon DEF Refreshed, Following
<1>8. ASSUME NEW f \in F
      PROVE  Kept(f)'
  <2>1. f \in Forces /\ native[f] \in Natives
    BY <1>2, Fields
  <2>2. /\ native'[f].positive = record(f, begun).positive
        /\ native'[f].negative = record(f, begun).negative
        /\ native'[f].completed = native[f].completed
        /\ ledger'[f] = record(f, begun)
    BY <1>1, <2>1, Zenon DEF Natives
  <2>3. Rowed(f)'
    BY <1>1, <1>4, <2>2, RowFields, Zenon DEF Rowed
  <2>4. \A c \in Categories : Effect(f, c)' = paid'[f][c]
    <3>1. \A c \in Categories :
            record(f, begun).positive[c]
              + (IF c \in mask THEN native[f].completed - record(f, begun).negative[c] ELSE 0)
              = paid[f][c]
      BY <1>4, Zenon
    <3>2. mask' = mask /\ paid' = paid
      BY <1>1, Zenon
    <3> QED  BY <2>2, <3>1, <3>2, Zenon DEF Effect
  <2> QED  BY <1>1, <1>4, <2>2, <2>3, <2>4, Zenon DEF Kept
<1>9. ASSUME NEW f \in alive \ F, f \notin gone, Kept(f)
      PROVE  Kept(f)'
  <2>1. f \in Forces
    BY DEF NativeTypeOK
  <2>2. native'[f] = native[f] /\ ledger'[f] = ledger[f]
    BY <1>1, <1>9, <2>1, Zenon
  <2> QED  BY <1>1, <1>9, <2>2, Zenon DEF Kept, Rowed, Effect
<1> QED  BY <1>1, <1>5, <1>6, <1>7, <1>8, <1>9, Zenon
-----------------------------------------------------------------------------
(* The handlers                                                                *)

Handling == IInv /\ ~refused /\ ~refused' /\ UNCHANGED <<paid, owed, promise, foul>>

(* The next event is none, so what is due is that every force is Kept.         *)
LEMMA AllKept ==
    ASSUME NativeTypeOK', HistTypeOK', Following', event' = NoEvent,
           \A f \in alive' : Kept(f)'
    PROVE  IInv'
  BY DEF IInv, Due, NoEvent

LEMMA InitStep ==
    ASSUME Handling, OnInit
    PROVE  IInv'
<1>1. event.kind = "init" /\ event' = NoEvent /\ Reconcile(alive, {}, FALSE, TRUE)
  BY DEF OnInit, Takes
<1>2. NativeTypeOK /\ HistTypeOK /\ \A f \in alive : Begun(f)
  BY <1>1 DEF Handling, IInv, Due
<1>3. ASSUME NEW f \in alive, NEW begun \in BOOLEAN
      PROVE  Ready(f, Prior(f, TRUE), Previous(f, Prior(f, TRUE), FALSE, TRUE, begun))
  <2>1. Previous(f, Prior(f, TRUE), FALSE, TRUE, begun) = mask
    BY DEF Previous, Prior
  <2>2. Begun(f)
    BY <1>2
  <2> QED  BY <2>1, <2>2 DEF Ready, Prior, Begun, Earned, Unpaid
<1>4. /\ NativeTypeOK' /\ HistTypeOK' /\ Following' /\ alive' = alive
      /\ \A f \in alive : Kept(f)'
  BY <1>1, <1>2, <1>3, ReconcileKeeps DEF Handling
<1> QED  BY <1>1, <1>4, AllKept

(* A published edition paid all categories; an unknown one is refused unless   *)
(* nothing was invested or nothing was left out.                               *)
LEMMA UnknownReady ==
    ASSUME NativeTypeOK, HistTypeOK, NEW f \in alive, NEW begun \in BOOLEAN,
           event.published \in BOOLEAN, Unknown(f),
           ~Refuses(f, Nil, event.published, FALSE, begun)
    PROVE  Ready(f, Nil, Previous(f, Nil, event.published, FALSE, begun))
<1>1. f \in Forces
  BY DEF NativeTypeOK
<1>2. \A c \in Categories : native[f].positive[c] = 0 /\ native[f].negative[c] = 0
  BY DEF Unknown, Unpaid
<1>3. native[f].completed \in Nat /\ queue[f] \in Nat /\ mask \subseteq Categories
  BY <1>1, Fields DEF NativeTypeOK
<1>4. CASE event.published /\ Invested(f, begun)
  <2>1. Previous(f, Nil, event.published, FALSE, begun) = Categories
    BY <1>4 DEF Previous
  <2>2. \A c \in Categories : Earned(f, c, Categories) = paid[f][c]
    BY <1>2, <1>3, <1>4 DEF Earned, Unknown
  <2> QED  BY <1>3, <1>4, <2>1, <2>2, CategoriesAssumption DEF Ready, Unknown
<1>5. CASE ~(event.published /\ Invested(f, begun))
  <2>1. Previous(f, Nil, event.published, FALSE, begun) = mask
    BY <1>5 DEF Previous
  <2>2. event.published => native[f].completed = 0 /\ queue[f] = 0
    BY <1>3, <1>5 DEF Invested
  <2>3. \A c \in Categories : Earned(f, c, mask) = paid[f][c]
    BY <1>2, <1>3, <2>2 DEF Earned, Unknown
  <2>4. ~event.published /\ mask = {} => queue[f] = 0
    <3>1. ~(Invested(f, begun) /\ ~event.published /\ mask # Categories)
      BY Zenon DEF Refuses
    <3> QED  BY <1>3, <3>1, CategoriesAssumption DEF Invested
  <2>5. owed[f] = 0 /\ (mask = {} => queue[f] = 0)
    BY <2>2, <2>4 DEF Unknown
  <2>6. Ready(f, Nil, mask)
    BY <2>3, <2>5 DEF Ready
  <2> QED  BY <2>1, <2>6, Zenon
<1> QED  BY <1>4, <1>5

LEMMA ConfigurationStep ==
    ASSUME Handling, OnConfigurationChanged
    PROVE  IInv'
<1>1. event.kind = "configured" /\ event' = NoEvent
      /\ Reconcile(alive, {}, event.published, FALSE)
  BY DEF OnConfigurationChanged, Takes
<1>2. /\ NativeTypeOK /\ HistTypeOK /\ event.published \in BOOLEAN
      /\ \A f \in alive : IF ledger[f] = Nil THEN Unknown(f) ELSE Saved(f)
  BY <1>1 DEF Handling, IInv, Due
<1>3. ASSUME NEW f \in alive, NEW begun \in BOOLEAN,
             ~Refuses(f, Prior(f, FALSE), event.published, FALSE, begun)
      PROVE  Ready(f, Prior(f, FALSE),
                   Previous(f, Prior(f, FALSE), event.published, FALSE, begun))
  <2>1. CASE ledger[f] = Nil
    BY <1>2, <1>3, <2>1, UnknownReady DEF Prior
  <2>2. CASE ledger[f] # Nil
    <3>1. Saved(f)
      BY <1>2, <2>2
    <3>2. Previous(f, Prior(f, FALSE), event.published, FALSE, begun) = ledger[f].included
      BY <2>2 DEF Previous, Prior
    <3> QED  BY <2>2, <3>1, <3>2 DEF Ready, Prior, Saved
  <2> QED  BY <2>1, <2>2
<1>4. /\ NativeTypeOK' /\ HistTypeOK' /\ Following' /\ alive' = alive
      /\ \A f \in alive : Kept(f)'
  BY <1>1, <1>2, <1>3, ReconcileKeeps DEF Handling
<1> QED  BY <1>1, <1>4, AllKept

LEMMA CreatedStep ==
    ASSUME Handling, OnForceCreated
    PROVE  IInv'
<1> DEFINE f == event.force
<1>1. event.kind = "created" /\ event' = NoEvent /\ Reconcile({f}, {}, FALSE, TRUE)
  BY DEF OnForceCreated, Takes
<1>2. /\ NativeTypeOK /\ HistTypeOK /\ f \in alive /\ Begun(f)
      /\ \A g \in alive \ {f} : Kept(g)
  BY <1>1 DEF Handling, IInv, Due
<1> HIDE DEF f
<1>3. ASSUME NEW begun \in BOOLEAN
      PROVE  Ready(f, Prior(f, TRUE), Previous(f, Prior(f, TRUE), FALSE, TRUE, begun))
  <2>1. Previous(f, Prior(f, TRUE), FALSE, TRUE, begun) = mask
    BY DEF Previous, Prior
  <2> QED  BY <1>2, <2>1 DEF Ready, Prior, Begun, Earned, Unpaid
<1> DEFINE F == {f}
           gone == {}
<1>4. F \in SUBSET alive /\ f \in F /\ (\A g \in F : g = f) /\ \A g \in alive : g \notin gone
  BY <1>2
<1>5. Reconcile(F, gone, FALSE, TRUE)
  BY <1>1
<1> HIDE DEF F, gone
<1>6. \A g \in F, begun \in BOOLEAN :
        Ready(g, Prior(g, TRUE), Previous(g, Prior(g, TRUE), FALSE, TRUE, begun))
  BY <1>3, <1>4
<1>7. /\ NativeTypeOK' /\ HistTypeOK' /\ Following' /\ alive' = alive
      /\ \A g \in F : Kept(g)'
      /\ \A g \in alive \ F : g \notin gone /\ Kept(g) => Kept(g)'
  BY <1>2, <1>4, <1>5, <1>6, ReconcileKeeps DEF Handling
<1>8. \A g \in alive : Kept(g)'
  BY <1>2, <1>4, <1>7
<1> QED  BY <1>1, <1>7, <1>8, AllKept

LEMMA MergedStep ==
    ASSUME Handling, OnForcesMerged
    PROVE  IInv'
<1> DEFINE f == event.force
           s == event.source
<1>1. event.kind = "merged" /\ event' = NoEvent /\ Reconcile({f}, {s}, FALSE, FALSE)
  BY DEF OnForcesMerged, Takes
<1>2. /\ NativeTypeOK /\ HistTypeOK /\ f \in alive /\ s \notin alive
      /\ \A g \in alive : Kept(g)
  BY <1>1 DEF Handling, IInv, Due
<1> HIDE DEF f, s
<1>3. ASSUME NEW begun \in BOOLEAN
      PROVE  Ready(f, Prior(f, FALSE), Previous(f, Prior(f, FALSE), FALSE, FALSE, begun))
  <2>1. Kept(f) /\ ledger[f] # Nil /\ ledger[f].included = mask
    BY <1>2 DEF Kept, Rowed
  <2>2. Previous(f, Prior(f, FALSE), FALSE, FALSE, begun) = mask
    BY <2>1 DEF Previous, Prior
  <2>3. \A c \in Categories : Earned(f, c, mask) = paid[f][c]
    BY <2>1 DEF Kept, Earned, Effect
  <2>4. Prior(f, FALSE) = ledger[f]
    BY DEF Prior
  <2>5. /\ owed[f] = ledger[f].pending /\ ledger[f].pending <= queue[f]
        /\ mask # {} => owed[f] = 0
        /\ owed[f] > 0 => promise[f] = ledger[f].payable
    BY <2>1, Zenon DEF Kept, Rowed
  <2>6. owed[f] > 0 => mask = {}
    BY <2>5
  <2> QED  BY <2>1, <2>2, <2>3, <2>4, <2>5, <2>6 DEF Ready
<1> DEFINE F == {f}
<1>4. F \in SUBSET alive /\ \A g \in F : g = f
  BY <1>2
<1>5. Reconcile(F, {s}, FALSE, FALSE)
  BY <1>1
<1> HIDE DEF F
<1>6. \A g \in F, begun \in BOOLEAN :
        Ready(g, Prior(g, FALSE), Previous(g, Prior(g, FALSE), FALSE, FALSE, begun))
  BY <1>3, <1>4
<1>7. /\ NativeTypeOK' /\ HistTypeOK' /\ Following' /\ alive' = alive
      /\ \A g \in F : Kept(g)'
      /\ \A g \in alive \ F : g \notin {s} /\ Kept(g) => Kept(g)'
  BY <1>2, <1>4, <1>5, <1>6, ReconcileKeeps DEF Handling
<1>8. \A g \in alive : Kept(g)'
  BY <1>2, <1>4, <1>7
<1> QED  BY <1>1, <1>7, <1>8, AllKept

(* A force whose natives, row and queue are untouched stays Kept.              *)
LEMMA KeptSame ==
    ASSUME NEW f, Kept(f), UNCHANGED <<mask>>,
           native'[f] = native[f], ledger'[f] = ledger[f], queue'[f] = queue[f],
           paid'[f] = paid[f], owed'[f] = owed[f], promise'[f] = promise[f]
    PROVE  Kept(f)'
  BY DEF Kept, Rowed, Effect

LEMMA CreditedRow ==
    ASSUME NEW row \in Records, row.pending # 0
    PROVE  /\ Credited(row) \in Records /\ Credited(row).included = row.included
           /\ Credited(row).pending = row.pending - 1
           /\ row.pending # 1 => Credited(row).payable = row.payable
           /\ \A c \in Categories : Credited(row).positive[c]
                = IF c \in row.payable THEN row.positive[c] + 1 ELSE row.positive[c]
<1> DEFINE more == [c \in Categories |-> IF c \in row.payable THEN row.positive[c] + 1
                                         ELSE row.positive[c]]
<1>1. more \in [Categories -> Int]
  BY RowFields
<1>2. row.pending - 1 \in Nat /\ row.completed + 1 \in Int
  BY RowFields
<1>3. Credited(row) = [row EXCEPT !.positive = more, !.completed = row.completed + 1,
                                  !.pending = row.pending - 1,
                                  !.payable = IF row.pending = 1 THEN row.included
                                              ELSE row.payable]
  BY DEF Credited
<1>4. \A c \in Categories :
        more[c] = IF c \in row.payable THEN row.positive[c] + 1 ELSE row.positive[c]
  OBVIOUS
<1> HIDE DEF more
<1> QED  BY <1>1, <1>2, <1>3, <1>4 DEF Records

LEMMA WithdrawnRow ==
    ASSUME NEW row \in Records, NEW n \in Nat
    PROVE  /\ Withdrawn(row, n) \in Records /\ Withdrawn(row, n).included = row.included
           /\ Withdrawn(row, n).pending = (IF row.pending > n THEN row.pending - n ELSE 0)
           /\ row.pending > n => Withdrawn(row, n).payable = row.payable
<1>1. row.pending \in Nat
  BY RowFields
<1> DEFINE left     == IF row.pending > n THEN row.pending - n ELSE 0
           promised == IF row.pending <= n THEN row.included ELSE row.payable
<1>2. left \in Nat /\ promised \in SUBSET Categories
  BY <1>1, RowFields
<1>3. Withdrawn(row, n) = [row EXCEPT !.pending = left, !.payable = promised]
  BY DEF Withdrawn
<1>4. row.pending > n => promised = row.payable
  BY <1>1
<1> HIDE DEF promised
<1> QED  BY <1>2, <1>3, <1>4 DEF Records

(* A credited completion pays the categories the waiting row promised.         *)
LEMMA FinishedStep ==
    ASSUME Handling, OnResearchFinished
    PROVE  IInv'
<1>1. PICK f \in Forces : f = event.force
        /\ NativeTypeOK /\ HistTypeOK /\ Following /\ f \in alive
        /\ Completed(f) /\ \A g \in alive \ {f} : Kept(g)
  BY DEF Handling, IInv, Due, OnResearchFinished, Takes, NativeTypeOK
<1> DEFINE row == ledger[f]
<1>2. row # Nil /\ row \in Records /\ row.included = mask /\ row.pending \in Nat
  <2>1. row # Nil /\ row.included = mask
    BY <1>1 DEF Completed, Kept, Uncredited, Rowed
  <2>2. row \in Records
    BY <1>1, <2>1, Fields
  <2> QED  BY <2>1, <2>2, RowFields
<1>3. event' = NoEvent
  BY DEF OnResearchFinished, Takes
<1>4. CASE ~pendingActive \/ row = Nil \/ row.pending = 0
  <2>1. UNCHANGED <<alive, mask, native, queue, ledger, pendingActive, bound, refused>>
    BY <1>1, <1>4 DEF OnResearchFinished
  <2>2. Kept(f)
    <3>1. row.pending # 0 => PendingIn(ledger)
      BY <1>1, <1>2 DEF PendingIn
    <3>2. row.pending = 0
      BY <1>1, <1>2, <1>4, <3>1 DEF Following
    <3> QED  BY <1>1, <3>2 DEF Completed, Uncredited
  <2>3. \A g \in alive : Kept(g)'
    BY <1>1, <2>1, <2>2, KeptSame DEF Handling
  <2>4. NativeTypeOK' /\ HistTypeOK' /\ Following'
    BY <1>1, <2>1 DEF Handling, NativeTypeOK, HistTypeOK, Following, PendingIn
  <2> QED  BY <1>3, <2>1, <2>3, <2>4, AllKept
<1>5. CASE ~(~pendingActive \/ row = Nil \/ row.pending = 0)
  <2>1. /\ ~Unexpected(f)
        /\ ledger' = [ledger EXCEPT ![f] = Credited(@)]
        /\ native' = [native EXCEPT ![f].positive = Credited(row).positive]
        /\ Refreshed(ledger')
        /\ UNCHANGED <<alive, mask, queue, refused>>
    BY <1>1, <1>5 DEF OnResearchFinished, Refused, Handling
  <2>2. mask = {} /\ native[f].positive = row.positive
    BY <2>1 DEF Unexpected
  <2>3. Uncredited(f) /\ row.payable = promise[f]
    BY <1>1, <1>2, <1>5 DEF Completed, Uncredited, Rowed
  <2> HIDE DEF row
  <2>4. /\ Credited(row) \in Records /\ Credited(row).included = row.included
        /\ Credited(row).pending = row.pending - 1
        /\ row.pending # 1 => Credited(row).payable = row.payable
        /\ \A c \in Categories : Credited(row).positive[c]
             = IF c \in row.payable THEN row.positive[c] + 1 ELSE row.positive[c]
    BY <1>2, <1>5, CreditedRow
  <2>5. NativeTypeOK'
    <3>1. Credited(row).positive \in [Categories -> Int]
      BY <2>4, RowFields
    <3>2. native' \in [Forces -> Natives]
      BY <1>1, <2>1, <3>1 DEF NativeTypeOK, Natives
    <3>3. ledger' \in [Forces -> Records \cup {Nil}]
      BY <1>1, <2>1, <2>4 DEF NativeTypeOK, row
    <3> QED  BY <1>1, <2>1, <3>2, <3>3 DEF NativeTypeOK
  <2>6. HistTypeOK' /\ Following'
    BY <1>1, <2>1 DEF Handling, HistTypeOK, Following, Refreshed
  <2>7. ASSUME NEW g \in alive \ {f}
        PROVE  Kept(g)'
    <3>1. g \in Forces /\ native'[g] = native[g] /\ ledger'[g] = ledger[g]
      BY <1>1, <2>1 DEF NativeTypeOK
    <3> QED  BY <1>1, <2>1, <2>7, <3>1, KeptSame DEF Handling
  <2>8. Kept(f)'
    <3>1. /\ ledger'[f] = Credited(row) /\ native'[f].positive = Credited(row).positive
          /\ queue'[f] = queue[f] /\ owed'[f] = owed[f] /\ paid'[f] = paid[f]
          /\ promise'[f] = promise[f] /\ mask' = {}
      BY <1>1, <2>1, <2>2 DEF NativeTypeOK, Natives, row, Handling
    <3>2. owed[f] = row.pending - 1 /\ row.pending - 1 <= queue[f]
      BY <1>1, <1>2, <2>3, Fields DEF Uncredited, row
    <3>3. Rowed(f)'
      BY <1>2, <1>5, <2>2, <2>3, <2>4, <3>1, RowFields DEF Rowed
    <3>4. \A c \in Categories : Effect(f, c)' = paid'[f][c]
      <4>1. \A c \in Categories : row.positive[c] \in Int
        BY <1>2, RowFields
      <4>2. \A c \in Categories :
              paid[f][c] = row.positive[c] + IF c \in row.payable THEN 1 ELSE 0
        BY <2>2, <2>3, <4>1 DEF Uncredited, Effect, row
      <4> QED  BY <2>4, <3>1, <4>1, <4>2 DEF Effect
    <3> QED  BY <2>4, <3>1, <3>2, <3>3, <3>4 DEF Kept
  <2> QED  BY <1>3, <2>1, <2>5, <2>6, <2>7, <2>8, AllKept
<1> QED  BY <1>4, <1>5

(* Cancelled work is waited for no longer.                                     *)
LEMMA CancelledStep ==
    ASSUME Handling, OnResearchCancelled
    PROVE  IInv'
<1>1. PICK f \in Forces, n \in Nat : f = event.force /\ n = event.count
        /\ NativeTypeOK /\ HistTypeOK /\ Following /\ f \in alive
        /\ Uncancelled(f, n) /\ \A g \in alive \ {f} : Kept(g)
  BY DEF Handling, IInv, Due, OnResearchCancelled, Takes, NativeTypeOK
<1> DEFINE row == ledger[f]
<1>2. row # Nil /\ row \in Records /\ row.included = mask /\ row.pending \in Nat
  <2>1. row # Nil /\ row.included = mask
    BY <1>1 DEF Uncancelled, Rowed
  <2>2. row \in Records
    BY <1>1, <2>1, Fields
  <2> QED  BY <2>1, <2>2, RowFields
<1>3. event' = NoEvent /\ UNCHANGED <<alive, mask, native, queue, refused>>
  BY DEF OnResearchCancelled, Takes
<1>4. CASE ~pendingActive
  <2>1. UNCHANGED <<ledger, pendingActive, bound>>
    BY <1>1, <1>4 DEF OnResearchCancelled
  <2>2. row.pending = 0
    BY <1>1, <1>2, <1>4 DEF Following, PendingIn
  <2>3. Kept(f)
    BY <1>1, <1>2, <2>2, Fields DEF Uncancelled, Kept
  <2>4. \A g \in alive : Kept(g)'
    BY <1>1, <1>3, <2>1, <2>3, KeptSame DEF Handling
  <2>5. NativeTypeOK' /\ HistTypeOK' /\ Following'
    BY <1>1, <1>3, <2>1 DEF Handling, NativeTypeOK, HistTypeOK, Following, PendingIn
  <2> QED  BY <1>3, <2>4, <2>5, AllKept
<1>5. CASE pendingActive
  <2>1. ledger' = [ledger EXCEPT ![f] = Withdrawn(@, n)] /\ Refreshed(ledger')
    BY <1>1, <1>2, <1>5 DEF OnResearchCancelled
  <2> HIDE DEF row
  <2>2. /\ Withdrawn(row, n) \in Records /\ Withdrawn(row, n).included = row.included
        /\ Withdrawn(row, n).pending = (IF row.pending > n THEN row.pending - n ELSE 0)
        /\ row.pending > n => Withdrawn(row, n).payable = row.payable
    BY <1>2, WithdrawnRow
  <2>3. NativeTypeOK'
    BY <1>1, <1>3, <2>1, <2>2 DEF NativeTypeOK, row
  <2>4. HistTypeOK' /\ Following'
    BY <1>1, <2>1 DEF Handling, HistTypeOK, Following, Refreshed
  <2>5. ASSUME NEW g \in alive \ {f}
        PROVE  Kept(g)'
    <3>1. g \in Forces /\ ledger'[g] = ledger[g]
      BY <1>1, <2>1 DEF NativeTypeOK
    <3> QED  BY <1>1, <1>3, <2>5, <3>1, KeptSame DEF Handling
  <2>6. Kept(f)'
    <3>1. ledger'[f] = Withdrawn(row, n)
      BY <1>1, <2>1 DEF NativeTypeOK, row
    <3>2. /\ Rowed(f) /\ row.pending <= queue[f] + n /\ queue[f] \in Nat
          /\ owed[f] = (IF row.pending > n THEN row.pending - n ELSE 0)
      BY <1>1, Fields DEF Uncancelled, row
    <3>3. Rowed(f)'
      BY <1>1, <1>2, <1>3, <2>2, <3>1, <3>2, RowFields DEF Rowed, Handling, row
    <3>4. \A c \in Categories : Effect(f, c)' = paid'[f][c]
      BY <1>1, <1>3 DEF Uncancelled, Effect, Handling
    <3>5. owed'[f] = ledger'[f].pending /\ ledger'[f].pending <= queue'[f]
      BY <1>1, <1>2, <1>3, <2>2, <3>1, <3>2 DEF Handling
    <3> QED  BY <3>3, <3>4, <3>5 DEF Kept
  <2> QED  BY <1>3, <2>3, <2>4, <2>5, <2>6, AllKept
<1>6. pendingActive \in BOOLEAN
  BY <1>1 DEF Following, PendingIn
<1> QED  BY <1>4, <1>5

(* Every handler, refusals included, keeps the invariant.                      *)
LEMMA GunStep ==
    ASSUME IInv, GunNext, UNCHANGED <<paid, owed, promise, foul>>
    PROVE  IInv'
<1>1. ~refused /\ event' = NoEvent
  BY DEF GunNext, OnInit, OnConfigurationChanged, OnForceCreated, OnForcesMerged,
         OnResearchFinished, OnResearchCancelled, Takes
<1>2. CASE ~refused'
  BY <1>1, <1>2, InitStep, ConfigurationStep, CreatedStep, MergedStep, FinishedStep,
     CancelledStep DEF GunNext, Handling
<1>3. CASE refused'
  <2>1. Refused
    <3>1. CASE OnInit \/ OnConfigurationChanged \/ OnForceCreated \/ OnForcesMerged
      BY <1>1, <1>3, <3>1, Zenon DEF OnInit, OnConfigurationChanged, OnForceCreated, OnForcesMerged,
                              Reconcile
    <3>2. CASE OnResearchFinished \/ OnResearchCancelled
      BY <1>1, <1>3, <3>2 DEF OnResearchFinished, OnResearchCancelled
    <3> QED  BY <3>1, <3>2 DEF GunNext
  <2> QED  BY <1>1, <1>3, <2>1 DEF Refused, IInv, NativeTypeOK, HistTypeOK, NoEvent
<1> QED  BY <1>2, <1>3
-----------------------------------------------------------------------------
(* The engine, players and scripts                                             *)

(* What holds when one of their steps is taken.                                *)
LEMMA WhenQuiet ==
    ASSUME IInv, ~refused, Quiet
    PROVE  /\ NativeTypeOK /\ HistTypeOK /\ Following /\ alive \subseteq Forces
           /\ \A g \in alive : Kept(g)
  BY DEF IInv, Quiet, Due, NoEvent, NativeTypeOK

LEMMA EnqueueStep ==
    ASSUME IInv, NEW f \in Forces, Enqueue(f), UNCHANGED <<paid, owed, promise, foul>>
    PROVE  IInv'
<1>1. /\ NativeTypeOK /\ HistTypeOK /\ Following /\ alive \subseteq Forces
      /\ \A g \in alive : Kept(g)
  BY WhenQuiet DEF Enqueue
<1>2. /\ queue' = [queue EXCEPT ![f] = @ + 1] /\ event = NoEvent
      /\ UNCHANGED <<alive, mask, native, ledger, pendingActive, bound, event, refused>>
  BY DEF Enqueue, Quiet
<1>3. NativeTypeOK' /\ HistTypeOK' /\ Following'
  BY <1>1, <1>2 DEF NativeTypeOK, HistTypeOK, Following, PendingIn
<1>4. ASSUME NEW g \in alive
      PROVE  Kept(g)'
  <2>1. Kept(g) /\ g \in Forces /\ ledger[g].pending \in Nat
    BY <1>1, Fields, RowFields DEF Kept, Rowed
  <2>2. queue[g] \in Nat /\ queue'[g] >= queue[g]
    BY <1>1, <1>2, <2>1 DEF NativeTypeOK
  <2> QED  BY <1>2, <2>1, <2>2 DEF Kept, Rowed, Effect
<1> QED  BY <1>2, <1>3, <1>4, AllKept

(* A level that is queued, or scripted, goes to the mask or to a waiting row.  *)
LEMMA CompleteStep ==
    ASSUME IInv, NEW f \in Forces, NEW queued \in BOOLEAN, RComplete(f, queued)
    PROVE  IInv'
<1>1. /\ NativeTypeOK /\ HistTypeOK /\ Following /\ alive \subseteq Forces
      /\ \A g \in alive : Kept(g)
  BY WhenQuiet DEF RComplete, Complete
<1>2. /\ f \in alive /\ ~refused /\ event = NoEvent
      /\ queued => queue[f] > 0
      /\ native' = [native EXCEPT ![f].completed = @ + 1]
      /\ queue' = [queue EXCEPT ![f] = IF queued THEN @ - 1 ELSE @]
      /\ event' = IF bound THEN Raised("finished", f) ELSE NoEvent
      /\ UNCHANGED <<alive, mask, ledger, pendingActive, bound, refused, promise>>
      /\ paid' = [paid EXCEPT ![f] = [c \in Categories |->
                    IF c \in PaidNow(f) THEN @[c] + 1 ELSE @[c]]]
      /\ owed' = [owed EXCEPT ![f] = IF mask = {} /\ @ > 0 THEN @ - 1 ELSE @]
  BY DEF RComplete, Complete, Heard, Quiet
<1>3. /\ Kept(f) /\ native[f].completed \in Nat /\ queue[f] \in Nat /\ owed[f] \in Nat
      /\ ledger[f] # Nil /\ ledger[f].pending \in Nat /\ owed[f] = ledger[f].pending
      /\ \A c \in Categories : /\ native[f].positive[c] \in Int
                               /\ native[f].negative[c] \in Int
                               /\ paid[f][c] \in Int
  <2>1. ledger[f] # Nil /\ owed[f] = ledger[f].pending
    BY <1>1, <1>2 DEF Kept, Rowed
  <2> QED  BY <1>1, <1>2, <2>1, Fields, RowFields
<1>4. NativeTypeOK'
  <2>1. native' \in [Forces -> Natives]
    BY <1>1, <1>2, <1>3 DEF NativeTypeOK, Natives
  <2>2. queue' \in [Forces -> Nat]
    BY <1>1, <1>2, <1>3 DEF NativeTypeOK
  <2> QED  BY <1>1, <1>2, <2>1, <2>2 DEF NativeTypeOK
<1>5. HistTypeOK'
  <2>1. owed' \in [Forces -> Nat]
    BY <1>1, <1>2, <1>3 DEF HistTypeOK
  <2>2. paid' \in [Forces -> [Categories -> Int]]
    BY <1>1, <1>2, <1>3 DEF HistTypeOK
  <2> QED  BY <1>1, <1>2, <2>1, <2>2 DEF HistTypeOK
<1>6. Following'
  BY <1>1, <1>2 DEF Following, PendingIn
<1>7. ASSUME NEW g \in alive \ {f}
      PROVE  Kept(g)'
  <2>1. g \in Forces /\ Kept(g)
    BY <1>1
  <2>2. /\ native'[g] = native[g] /\ queue'[g] = queue[g] /\ paid'[g] = paid[g]
        /\ owed'[g] = owed[g]
    BY <1>1, <1>2, <2>1 DEF NativeTypeOK, HistTypeOK
  <2> QED  BY <1>2, <2>1, <2>2, KeptSame
<1>8. /\ native'[f].completed = native[f].completed + 1
      /\ native'[f].positive = native[f].positive /\ native'[f].negative = native[f].negative
      /\ queue'[f] = IF queued THEN queue[f] - 1 ELSE queue[f]
      /\ \A c \in Categories :
           paid'[f][c] = IF c \in PaidNow(f) THEN paid[f][c] + 1 ELSE paid[f][c]
      /\ owed'[f] = IF mask = {} /\ owed[f] > 0 THEN owed[f] - 1 ELSE owed[f]
  BY <1>1, <1>2 DEF NativeTypeOK, HistTypeOK, Natives
<1>9. CASE ledger[f].pending = 0
  <2>1. PaidNow(f) = mask /\ owed'[f] = 0
    BY <1>3, <1>8, <1>9 DEF PaidNow
  <2>2. \A c \in Categories : Effect(f, c)' = paid'[f][c]
    <3> SUFFICES ASSUME NEW c \in Categories PROVE Effect(f, c)' = paid'[f][c]
      OBVIOUS
    <3>1. Effect(f, c) = paid[f][c]
      BY <1>3 DEF Kept
    <3>2. Effect(f, c)' = native[f].positive[c]
            + (IF c \in mask THEN native[f].completed + 1 - native[f].negative[c] ELSE 0)
      <4>1. mask' = mask
        BY <1>2
      <4>2. Effect(f, c)' = native'[f].positive[c]
              + (IF c \in mask' THEN native'[f].completed - native'[f].negative[c] ELSE 0)
        BY Zenon DEF Effect
      <4> QED  BY <1>3, <1>8, <4>1, <4>2
    <3>3. paid'[f][c] = IF c \in mask THEN paid[f][c] + 1 ELSE paid[f][c]
      BY <1>8, <2>1
    <3> QED  BY <1>3, <3>1, <3>2, <3>3 DEF Effect
  <2>3. ledger'[f].pending <= queue'[f]
    BY <1>2, <1>3, <1>8, <1>9
  <2>4. Kept(f)'
    BY <1>2, <1>3, <1>9, <2>1, <2>2, <2>3 DEF Kept, Rowed
  <2>5. Due'
    BY <1>2, <1>7, <1>9, <2>4 DEF Due, Completed, Raised, NoEvent
  <2> QED  BY <1>2, <1>4, <1>5, <1>6, <2>5 DEF IInv, Raised, NoEvent
<1>10. CASE ledger[f].pending # 0
  <2>1. mask = {} /\ PaidNow(f) = promise[f] /\ ledger[f].payable = promise[f]
        /\ owed'[f] = ledger[f].pending - 1
    BY <1>3, <1>8, <1>10 DEF PaidNow, Kept, Rowed
  <2>2. \A c \in Categories :
          paid'[f][c] = Effect(f, c)' + IF c \in ledger'[f].payable THEN 1 ELSE 0
    <3> SUFFICES ASSUME NEW c \in Categories
                 PROVE  paid'[f][c] = Effect(f, c)' + IF c \in ledger'[f].payable THEN 1 ELSE 0
      OBVIOUS
    <3>1. Effect(f, c) = paid[f][c]
      BY <1>3 DEF Kept
    <3>2. Effect(f, c)' = native[f].positive[c] /\ Effect(f, c) = native[f].positive[c]
      BY <1>2, <1>3, <1>8, <2>1 DEF Effect
    <3>3. paid'[f][c] = IF c \in ledger[f].payable THEN paid[f][c] + 1 ELSE paid[f][c]
      BY <1>8, <2>1
    <3> QED  BY <1>2, <1>3, <3>1, <3>2, <3>3
  <2>3. ledger'[f].pending <= queue'[f] + 1
    BY <1>2, <1>3, <1>8 DEF Kept
  <2>4. Uncredited(f)'
    <3>1. Rowed(f)'
      BY <1>2, <1>3 DEF Kept, Rowed
    <3>2. ledger'[f].pending > 0 /\ owed'[f] = ledger'[f].pending - 1
      BY <1>2, <1>3, <1>10, <2>1
    <3> QED  BY <2>2, <2>3, <3>1, <3>2 DEF Uncredited
  <2>5. bound = TRUE
    BY <1>1, <1>3, <1>10 DEF Following, PendingIn
  <2>6. Due'
    BY <1>2, <1>7, <2>4, <2>5 DEF Due, Completed, Raised, NoEvent
  <2> QED  BY <1>2, <1>4, <1>5, <1>6, <2>5, <2>6 DEF IInv, Raised, NoEvent
<1> QED  BY <1>9, <1>10

LEMMA UnresearchStep ==
    ASSUME IInv, NEW f \in Forces, RUnresearch(f)
    PROVE  IInv'
<1>1. /\ NativeTypeOK /\ HistTypeOK /\ Following /\ alive \subseteq Forces
      /\ \A g \in alive : Kept(g)
  BY WhenQuiet DEF RUnresearch, Unresearch
<1>2. /\ f \in alive /\ native[f].completed > 0 /\ event = NoEvent
      /\ native' = [native EXCEPT ![f].completed = @ - 1]
      /\ UNCHANGED <<alive, mask, queue, ledger, pendingActive, bound, event, refused>>
      /\ paid' = [paid EXCEPT ![f] = [c \in Categories |->
                    IF c \in mask THEN @[c] - 1 ELSE @[c]]]
      /\ UNCHANGED <<owed, promise>>
  BY DEF RUnresearch, Unresearch, Quiet
<1>3. /\ native[f].completed \in Nat
      /\ \A c \in Categories : /\ native[f].positive[c] \in Int
                               /\ native[f].negative[c] \in Int
                               /\ paid[f][c] \in Int
  BY <1>1, Fields
<1>4. NativeTypeOK'
  <2>1. native' \in [Forces -> Natives]
    BY <1>1, <1>2, <1>3 DEF NativeTypeOK, Natives
  <2> QED  BY <1>1, <1>2, <2>1 DEF NativeTypeOK
<1>5. HistTypeOK' /\ Following'
  <2>1. paid' \in [Forces -> [Categories -> Int]]
    BY <1>1, <1>2, <1>3 DEF HistTypeOK
  <2> QED  BY <1>1, <1>2, <2>1 DEF HistTypeOK, Following, PendingIn
<1>6. ASSUME NEW g \in alive \ {f}
      PROVE  Kept(g)'
  <2>1. g \in Forces /\ Kept(g) /\ native'[g] = native[g] /\ paid'[g] = paid[g]
    BY <1>1, <1>2 DEF NativeTypeOK, HistTypeOK
  <2> QED  BY <1>2, <2>1, KeptSame
<1>7. Kept(f)'
  <2>1. /\ native'[f].completed = native[f].completed - 1
        /\ native'[f].positive = native[f].positive /\ native'[f].negative = native[f].negative
        /\ \A c \in Categories : paid'[f][c] = IF c \in mask THEN paid[f][c] - 1 ELSE paid[f][c]
    BY <1>1, <1>2 DEF NativeTypeOK, HistTypeOK, Natives
  <2>2. \A c \in Categories : Effect(f, c)' = paid'[f][c]
    <3> SUFFICES ASSUME NEW c \in Categories PROVE Effect(f, c)' = paid'[f][c]
      OBVIOUS
    <3>1. Effect(f, c) = paid[f][c]
      BY <1>1, <1>2 DEF Kept
    <3>2. Effect(f, c)' = native[f].positive[c]
            + (IF c \in mask THEN native[f].completed - 1 - native[f].negative[c] ELSE 0)
      BY <1>2, <2>1 DEF Effect
    <3> QED  BY <1>3, <2>1, <3>1, <3>2 DEF Effect
  <2> QED  BY <1>1, <1>2, <2>2 DEF Kept, Rowed
<1>8. \A g \in alive' : Kept(g)'
  BY <1>2, <1>6, <1>7
<1> QED  BY <1>2, <1>4, <1>5, <1>8, AllKept

LEMMA CancelStep ==
    ASSUME IInv, NEW f \in Forces, NEW n \in 1 .. MaxQueue, RCancel(f, n)
    PROVE  IInv'
<1>1. /\ NativeTypeOK /\ HistTypeOK /\ Following /\ alive \subseteq Forces
      /\ \A g \in alive : Kept(g)
  BY WhenQuiet DEF RCancel, Cancel
<1>2. /\ f \in alive /\ n <= queue[f] /\ n \in Nat
      /\ queue' = [queue EXCEPT ![f] = @ - n]
      /\ event' = IF bound THEN [Raised("cancelled", f) EXCEPT !.count = n] ELSE NoEvent
      /\ UNCHANGED <<alive, mask, native, ledger, pendingActive, bound, refused>>
      /\ owed' = [owed EXCEPT ![f] = IF @ > n THEN @ - n ELSE 0]
      /\ UNCHANGED <<paid, promise>>
  BY BoundsAssumption DEF RCancel, Cancel, Heard
<1>3. /\ Kept(f) /\ queue[f] \in Nat /\ owed[f] \in Nat
      /\ ledger[f].pending \in Nat /\ owed[f] = ledger[f].pending
      /\ queue'[f] = queue[f] - n /\ owed'[f] = IF owed[f] > n THEN owed[f] - n ELSE 0
  BY <1>1, <1>2, Fields DEF Kept, NativeTypeOK, HistTypeOK
<1>4. NativeTypeOK' /\ HistTypeOK' /\ Following'
  <2>1. queue' \in [Forces -> Nat]
    BY <1>1, <1>2, <1>3 DEF NativeTypeOK
  <2>2. owed' \in [Forces -> Nat]
    BY <1>1, <1>2, <1>3 DEF HistTypeOK
  <2> QED  BY <1>1, <1>2, <2>1, <2>2 DEF NativeTypeOK, HistTypeOK, Following, PendingIn
<1>5. ASSUME NEW g \in alive \ {f}
      PROVE  Kept(g)'
  <2>1. g \in Forces /\ Kept(g) /\ queue'[g] = queue[g] /\ owed'[g] = owed[g]
    BY <1>1, <1>2 DEF NativeTypeOK, HistTypeOK
  <2> QED  BY <1>2, <2>1, KeptSame
<1>6. CASE bound
  <2>1. Uncancelled(f, n)'
    BY <1>2, <1>3 DEF Uncancelled, Kept, Rowed, Effect
  <2>2. event'.kind = "cancelled" /\ event'.force = f /\ event'.count = n
    BY <1>2, <1>6 DEF Raised, NoEvent
  <2>3. Due'
    BY <1>2, <1>5, <2>1, <2>2 DEF Due
  <2> QED  BY <1>2, <1>4, <1>6, <2>3 DEF IInv, Raised, NoEvent
<1>7. CASE ~bound
  <2>1. ledger[f].pending = 0
    BY <1>1, <1>3, <1>7 DEF Following, PendingIn, Kept, Rowed
  <2>2. Kept(f)'
    BY <1>2, <1>3, <2>1 DEF Kept, Rowed, Effect
  <2>3. \A g \in alive' : Kept(g)'
    BY <1>2, <1>5, <2>2
  <2> QED  BY <1>2, <1>4, <1>7, <2>3, AllKept
<1> QED  BY <1>6, <1>7

(* A force that starts over is as it should be for its event.                  *)
LEMMA BeginStep ==
    ASSUME IInv, NEW f \in Forces, Begin(f), Forgotten(f)
    PROVE  IInv'
<1>1. /\ NativeTypeOK /\ HistTypeOK /\ Following /\ alive \subseteq Forces
      /\ \A g \in alive : Kept(g)
  BY WhenQuiet DEF Begin
<1>2. /\ ~refused /\ alive' = alive \cup {f} /\ event' = Raised("created", f)
      /\ native' = [native EXCEPT ![f] = Unpaid] /\ queue' = [queue EXCEPT ![f] = 0]
      /\ UNCHANGED <<mask, ledger, pendingActive, bound, refused>>
      /\ paid' = [paid EXCEPT ![f] = [c \in Categories |-> 0]]
      /\ owed' = [owed EXCEPT ![f] = 0] /\ promise' = [promise EXCEPT ![f] = mask]
  BY DEF Begin, Forgotten
<1>3. NativeTypeOK' /\ HistTypeOK' /\ Following'
  <2>1. Unpaid \in Natives
    BY DEF Unpaid, Natives
  <2>2. native' \in [Forces -> Natives] /\ queue' \in [Forces -> Nat]
    BY <1>1, <1>2, <2>1 DEF NativeTypeOK
  <2>3. HistTypeOK'
    BY <1>1, <1>2 DEF NativeTypeOK, HistTypeOK
  <2> QED  BY <1>1, <1>2, <2>2, <2>3 DEF NativeTypeOK, Following, PendingIn
<1>4. ASSUME NEW g \in alive' \ {f}
      PROVE  Kept(g)'
  <2>1. g \in alive /\ g \in Forces /\ Kept(g)
    BY <1>1, <1>2
  <2>2. /\ native'[g] = native[g] /\ queue'[g] = queue[g] /\ paid'[g] = paid[g]
        /\ owed'[g] = owed[g] /\ promise'[g] = promise[g]
    BY <1>1, <1>2, <2>1 DEF NativeTypeOK, HistTypeOK
  <2> QED  BY <1>2, <2>1, <2>2, KeptSame
<1>5. Begun(f)'
  <2>1. /\ native'[f] = Unpaid /\ queue'[f] = 0 /\ owed'[f] = 0
        /\ \A c \in Categories : paid'[f][c] = 0
    BY <1>1, <1>2 DEF NativeTypeOK, HistTypeOK
  <2> QED  BY <2>1 DEF Begun, Unpaid
<1>6. event'.kind = "created" /\ event'.force = f /\ event'.published = FALSE
  BY <1>2 DEF Raised, NoEvent
<1>7. Due'
  BY <1>2, <1>4, <1>5, <1>6 DEF Due
<1> QED  BY <1>2, <1>3, <1>6, <1>7 DEF IInv

(* The destination, and every other force, stays as it is.                     *)
LEMMA MergeStep ==
    ASSUME IInv, NEW s \in Forces, NEW f \in Forces, Merge(s, f), Forgotten(s)
    PROVE  IInv'
<1>1. /\ NativeTypeOK /\ HistTypeOK /\ Following /\ alive \subseteq Forces
      /\ \A g \in alive : Kept(g)
  BY WhenQuiet DEF Merge
<1>2. /\ ~refused /\ f \in alive \ {s} /\ alive' = alive \ {s}
      /\ event' = [Raised("merged", f) EXCEPT !.source = s]
      /\ native' = [native EXCEPT ![s] = Unpaid] /\ queue' = [queue EXCEPT ![s] = 0]
      /\ UNCHANGED <<mask, ledger, pendingActive, bound, refused>>
      /\ paid' = [paid EXCEPT ![s] = [c \in Categories |-> 0]]
      /\ owed' = [owed EXCEPT ![s] = 0] /\ promise' = [promise EXCEPT ![s] = mask]
  BY DEF Merge, Forgotten
<1>3. NativeTypeOK' /\ HistTypeOK' /\ Following'
  <2>1. Unpaid \in Natives
    BY DEF Unpaid, Natives
  <2>2. native' \in [Forces -> Natives] /\ queue' \in [Forces -> Nat]
    BY <1>1, <1>2, <2>1 DEF NativeTypeOK
  <2>3. HistTypeOK'
    BY <1>1, <1>2 DEF NativeTypeOK, HistTypeOK
  <2> QED  BY <1>1, <1>2, <2>2, <2>3 DEF NativeTypeOK, Following, PendingIn
<1>4. ASSUME NEW g \in alive'
      PROVE  Kept(g)'
  <2>1. g \in alive /\ g # s /\ g \in Forces /\ Kept(g)
    BY <1>1, <1>2
  <2>2. /\ native'[g] = native[g] /\ queue'[g] = queue[g] /\ paid'[g] = paid[g]
        /\ owed'[g] = owed[g] /\ promise'[g] = promise[g]
    BY <1>1, <1>2, <2>1 DEF NativeTypeOK, HistTypeOK
  <2> QED  BY <1>2, <2>1, <2>2, KeptSame
<1>5. /\ event'.kind = "merged" /\ event'.force = f /\ event'.source = s
      /\ event'.published = FALSE
  BY <1>2 DEF Raised, NoEvent
<1>6. Due'
  BY <1>2, <1>4, <1>5 DEF Due
<1> QED  BY <1>2, <1>3, <1>5, <1>6 DEF IInv

(* A load under other inputs leaves rows of the mask that was saved.           *)
LEMMA LoadStep ==
    ASSUME IInv, NEW included \in SUBSET Categories, RLoad(included)
    PROVE  IInv'
<1>1. /\ NativeTypeOK /\ HistTypeOK /\ Following /\ alive \subseteq Forces
      /\ \A g \in alive : Kept(g)
  BY WhenQuiet DEF RLoad, Load
<1>2. /\ ~refused /\ mask' = included /\ Refreshed(ledger)
      /\ event' = Raised("configured", Nil) \/ (included = mask /\ event' = NoEvent)
      /\ UNCHANGED <<alive, native, queue, ledger, refused, paid>>
      /\ owed' = [f \in Forces |-> IF included # {} THEN 0
                                   ELSE IF mask # {} THEN queue[f] ELSE owed[f]]
      /\ promise' = [f \in Forces |-> IF mask # {} THEN mask ELSE promise[f]]
  BY DEF RLoad, Load
<1>3. NativeTypeOK' /\ HistTypeOK' /\ Following'
  <2>1. owed' \in [Forces -> Nat]
    BY <1>1, <1>2 DEF NativeTypeOK, HistTypeOK
  <2>2. promise' \in [Forces -> SUBSET Categories]
    BY <1>1, <1>2 DEF NativeTypeOK, HistTypeOK
  <2> QED  BY <1>1, <1>2, <2>1, <2>2 DEF NativeTypeOK, HistTypeOK, Following, Refreshed, PendingIn
<1>4. ASSUME NEW g \in alive
      PROVE  /\ g \in Forces /\ Rowed(g) /\ ledger[g].pending \in Nat
             /\ owed[g] = ledger[g].pending /\ ledger[g].pending <= queue[g]
             /\ \A c \in Categories : Effect(g, c) = paid[g][c]
             /\ owed'[g] = (IF included # {} THEN 0
                            ELSE IF mask # {} THEN queue[g] ELSE owed[g])
             /\ promise'[g] = IF mask # {} THEN mask ELSE promise[g]
  <2>1. g \in Forces /\ Kept(g)
    BY <1>1
  <2>2. ledger[g].pending \in Nat
    BY <1>1, <2>1, Fields, RowFields DEF Kept, Rowed
  <2> QED  BY <1>2, <2>1, <2>2 DEF Kept
<1>5. CASE event' = Raised("configured", Nil)
  <2>1. event'.kind = "configured" /\ event'.published = FALSE
    BY <1>5 DEF Raised, NoEvent
  <2>2. ASSUME NEW g \in alive
        PROVE  ledger'[g] # Nil /\ Saved(g)'
    <3>1. ledger[g] # Nil /\ ledger[g].included = mask /\ (mask # {} => ledger[g].pending = 0)
          /\ (ledger[g].pending > 0 => ledger[g].payable = promise[g])
      BY <1>4 DEF Rowed
    <3>2. \A c \in Categories : Earned(g, c, ledger[g].included)' = paid'[g][c]
      BY <1>2, <1>4, <3>1 DEF Earned, Effect
    <3>3. /\ ledger'[g].included # {} => ledger'[g].pending = 0
          /\ ledger'[g].pending <= queue'[g]
      BY <1>2, <1>4, <3>1
    <3>4. owed'[g] = IF mask' # {} THEN 0
                     ELSE IF ledger'[g].included # {} THEN queue'[g] ELSE ledger'[g].pending
      BY <1>2, <1>4, <3>1
    <3>5. owed'[g] > 0 =>
            promise'[g] = IF ledger'[g].included # {} THEN ledger'[g].included
                          ELSE ledger'[g].payable
      BY <1>2, <1>4, <3>1
    <3> QED  BY <1>2, <3>1, <3>2, <3>3, <3>4, <3>5 DEF Saved
  <2>3. Due'
    BY <1>2, <2>1, <2>2 DEF Due
  <2> QED  BY <1>3, <2>1, <2>3 DEF IInv
<1>6. CASE included = mask /\ event' = NoEvent
  <2>1. ASSUME NEW g \in alive'
        PROVE  Kept(g)'
    <3>1. g \in alive /\ mask' = mask
      BY <1>2, <1>6
    <3>2. Rowed(g)'
      BY <1>2, <1>4, <3>1 DEF Rowed
    <3>3. \A c \in Categories : Effect(g, c)' = paid'[g][c]
      BY <1>2, <1>4, <3>1 DEF Effect
    <3>4. owed'[g] = ledger'[g].pending /\ ledger'[g].pending <= queue'[g]
      BY <1>2, <1>4, <1>6, <3>1 DEF Rowed
    <3> QED  BY <3>2, <3>3, <3>4 DEF Kept
  <2> QED  BY <1>3, <1>6, <2>1, AllKept
<1> QED  BY <1>2, <1>5, <1>6
-----------------------------------------------------------------------------
(* The invariant                                                               *)

LEMMA InvInit == RInit => IInv
<1> SUFFICES ASSUME RInit PROVE IInv
  OBVIOUS
<1>1. /\ alive \in SUBSET Forces /\ mask \in SUBSET Categories
      /\ queue \in [Forces -> 0 .. MaxQueue]
      /\ native \in [Forces -> {[Unpaid EXCEPT !.completed = n] : n \in 0 .. MaxCompleted}]
      /\ ledger = [f \in Forces |-> Nil] /\ pendingActive = FALSE /\ bound = FALSE
  BY DEF RInit, Init
<1>2. PICK o \in Origins :
        event = IF o = "new" THEN Raised("init", Nil)
                ELSE [Raised("configured", Nil) EXCEPT !.published = (o = "published")]
  BY DEF RInit, Init
<1>3. event.published \in BOOLEAN /\ event.kind \in {"init", "configured"}
      /\ (event.kind = "init" => event.published = FALSE)
  BY <1>2 DEF Raised, NoEvent
<1>4. ASSUME NEW f \in Forces
      PROVE  /\ native[f] \in Natives /\ native[f].positive = Unpaid.positive
             /\ native[f].negative = Unpaid.negative
  <2>1. PICK n \in 0 .. MaxCompleted : native[f] = [Unpaid EXCEPT !.completed = n]
    BY <1>1
  <2> QED  BY <2>1, BoundsAssumption DEF Unpaid, Natives
<1>5. NativeTypeOK
  <2>1. queue \in [Forces -> Nat]
    BY <1>1, BoundsAssumption
  <2>2. native \in [Forces -> Natives]
    BY <1>1, <1>4
  <2> QED  BY <1>1, <2>1, <2>2 DEF NativeTypeOK
<1>6. ASSUME NEW f \in Forces
      PROVE  /\ \A c \in Categories :
                  paid[f][c] = IF event.published \/ c \in mask THEN native[f].completed ELSE 0
             /\ owed[f] = (IF event.published /\ mask = {} THEN queue[f] ELSE 0)
             /\ promise[f] = IF event.published THEN Categories ELSE mask
  BY Zenon DEF RInit
<1>7. HistTypeOK
  <2>1. \A f \in Forces : native[f].completed \in Nat /\ queue[f] \in Nat
    BY <1>5 DEF NativeTypeOK, Natives
  <2>2. paid \in [Forces -> [Categories -> Int]]
    BY <2>1 DEF RInit
  <2>3. owed \in [Forces -> Nat]
    BY <2>1 DEF RInit
  <2>4. promise \in [Forces -> SUBSET Categories]
    BY <1>1 DEF RInit
  <2> QED  BY <2>2, <2>3, <2>4 DEF HistTypeOK
<1>8. Following
  BY <1>1 DEF Following, PendingIn
<1>9. CASE event.kind = "init"
  <2>1. ASSUME NEW f \in alive
        PROVE  Begun(f)
    <3>1. f \in Forces /\ native[f] = Unpaid /\ queue[f] = 0
      BY <1>1, <1>9 DEF RInit, Init
    <3>2. \A c \in Categories : paid[f][c] = 0
      BY <1>3, <1>6, <1>9, <3>1 DEF Unpaid
    <3>3. owed[f] = 0
      BY <1>6, <3>1
    <3> QED  BY <3>1, <3>2, <3>3 DEF Begun
  <2> QED  BY <1>3, <1>5, <1>7, <1>8, <1>9, <2>1 DEF IInv, Due
<1>10. CASE event.kind = "configured"
  <2>1. ASSUME NEW f \in alive
        PROVE  ledger[f] = Nil /\ Unknown(f)
    <3>1. f \in Forces
      BY <1>1
    <3> QED  BY <1>1, <1>4, <1>6, <3>1 DEF Unknown
  <2> QED  BY <1>3, <1>5, <1>7, <1>8, <1>10, <2>1 DEF IInv, Due
<1> QED  BY <1>3, <1>9, <1>10

LEMMA InvNext == IInv /\ [RNext]_rvars => IInv'
<1> SUFFICES ASSUME IInv, [RNext]_rvars PROVE IInv'
  OBVIOUS
<1>1. CASE RNext
  <2>1. CASE GunNext /\ UNCHANGED <<paid, owed, promise, foul>>
    BY <2>1, GunStep
  <2>2. ASSUME NEW f \in Forces,
               \/ Enqueue(f) /\ UNCHANGED <<paid, owed, promise, foul>>
               \/ RUnresearch(f)
               \/ Begin(f) /\ Forgotten(f)
        PROVE  IInv'
    BY <2>2, EnqueueStep, UnresearchStep, BeginStep
  <2>3. ASSUME NEW f \in Forces, NEW q \in BOOLEAN, RComplete(f, q)
        PROVE  IInv'
    BY <2>3, CompleteStep
  <2>4. ASSUME NEW f \in Forces, NEW n \in 1 .. MaxQueue, RCancel(f, n)
        PROVE  IInv'
    BY <2>4, CancelStep
  <2>5. ASSUME NEW f \in Forces, NEW s \in Forces, Merge(s, f), Forgotten(s)
        PROVE  IInv'
    BY <2>5, MergeStep
  <2>6. ASSUME NEW included \in SUBSET Categories, RLoad(included)
        PROVE  IInv'
    BY <2>6, LoadStep
  <2> QED  BY <1>1, <2>1, <2>2, <2>3, <2>4, <2>5, <2>6 DEF RNext
<1>2. CASE UNCHANGED rvars
  <2>1. UNCHANGED <<alive, mask, native, queue, ledger, pendingActive, bound, event, refused,
                    paid, owed, promise>>
    BY <1>2 DEF rvars, gvars
  <2>2. \A f : /\ Kept(f)' <=> Kept(f)
               /\ Begun(f)' <=> Begun(f)
               /\ Uncredited(f)' <=> Uncredited(f)
    BY <2>1, Zenon DEF Kept, Rowed, Effect, Begun, Unpaid, Uncredited
  <2>3. \A f : /\ Unknown(f)' <=> Unknown(f)
               /\ Saved(f)' <=> Saved(f)
    BY <2>1, Zenon DEF Unknown, Unpaid, Saved, Earned
  <2>4. \A f, n : Uncancelled(f, n)' <=> Uncancelled(f, n)
    BY <2>1, Zenon DEF Uncancelled, Rowed, Effect
  <2>5. \A f : Completed(f)' <=> Completed(f)
    BY <2>1, <2>2, Zenon DEF Completed
  <2>6. ~refused => Due'
    BY <2>1, <2>2, <2>3, <2>4, <2>5 DEF IInv, Due
  <2> QED  BY <2>1, <2>6 DEF IInv, NativeTypeOK, HistTypeOK, Following, PendingIn
<1> QED  BY <1>1, <1>2

(* Only levels that were checked to be storable are written to a holder.       *)
LEMMA TypeNext == IInv /\ GunTypeOK /\ [RNext]_rvars => GunTypeOK'
<1> DEFINE Held(n) == \A c \in Categories : n.positive[c] \in 0 .. Limit
                                             /\ n.negative[c] \in 0 .. Limit
<1> SUFFICES ASSUME IInv, GunTypeOK, [RNext]_rvars PROVE GunTypeOK'
  OBVIOUS
<1>1. /\ \A f \in Forces : Held(native[f])
      /\ pendingActive \in BOOLEAN /\ bound \in BOOLEAN /\ refused \in BOOLEAN
      /\ NativeTypeOK /\ NativeTypeOK'
  BY InvNext DEF IInv, GunTypeOK
<1>2. \A rows : PendingIn(rows) \in BOOLEAN
  BY DEF PendingIn
<1>3. Held(Unpaid)
  BY BoundsAssumption DEF Unpaid
<1> SUFFICES /\ \A f \in Forces : Held(native'[f])
             /\ pendingActive' \in BOOLEAN /\ bound' \in BOOLEAN /\ refused' \in BOOLEAN
  BY <1>1 DEF GunTypeOK
<1>4. ASSUME NEW F, NEW gone, NEW published, NEW fresh, Reconcile(F, gone, published, fresh)
      PROVE  /\ \A f \in Forces : Held(native'[f])
             /\ pendingActive' \in BOOLEAN /\ bound' \in BOOLEAN /\ refused' \in BOOLEAN
  <2>1. CASE Refused
    BY <1>1, <2>1 DEF Refused
  <2>2. CASE ~Refused
    <3> DEFINE p(f, begun) == Plan(f, Prior(f, fresh), published, fresh, begun)
    <3>1. PICK begun \in BOOLEAN :
            /\ ~\E f \in F : Refuses(f, Prior(f, fresh), published, fresh, begun)
            /\ native' = [f \in Forces |-> IF f \notin F THEN native[f]
                  ELSE [native[f] EXCEPT !.positive = p(f, begun).positive,
                                         !.negative = p(f, begun).negative]]
            /\ Refreshed(ledger') /\ UNCHANGED refused
      BY <1>4, <2>2, Zenon DEF Reconcile, Prior
    <3>2. ASSUME NEW f \in F, NEW c \in Categories
          PROVE  Storable(p(f, begun).positive[c]) /\ Storable(p(f, begun).negative[c])
      BY <3>1, Zenon DEF Refuses
    <3> HIDE DEF p
    <3>3. ASSUME NEW f \in Forces
          PROVE  Held(native'[f])
      <4>1. CASE f \in F
        <5>1. native[f] \in Natives
          BY <1>1 DEF NativeTypeOK
        <5>2. /\ native'[f].positive = p(f, begun).positive
              /\ native'[f].negative = p(f, begun).negative
          BY <3>1, <4>1, <5>1, Zenon DEF Natives
        <5> QED  BY <3>2, <4>1, <5>2, BoundsAssumption DEF Storable
      <4>2. CASE f \notin F
        BY <1>1, <3>1, <4>2, Zenon
      <4> QED  BY <4>1, <4>2
    <3> QED  BY <1>1, <1>2, <3>1, <3>3, Zenon DEF Refreshed
  <2> QED  BY <2>1, <2>2
<1>5. CASE GunNext
  <2>1. CASE OnInit \/ OnConfigurationChanged \/ OnForceCreated \/ OnForcesMerged
    BY <1>4, <2>1 DEF OnInit, OnConfigurationChanged, OnForceCreated, OnForcesMerged
  <2>2. CASE OnResearchCancelled
    BY <1>1, <1>2, <2>2 DEF OnResearchCancelled, Refreshed
  <2>3. CASE OnResearchFinished
    <3> DEFINE f == event.force
    <3>1. CASE ~pendingActive \/ ledger[f] = Nil \/ ledger[f].pending = 0 \/ Unexpected(f)
      BY <1>1, <2>3, <3>1 DEF OnResearchFinished, Refused
    <3>2. CASE ~(~pendingActive \/ ledger[f] = Nil \/ ledger[f].pending = 0 \/ Unexpected(f))
      <4>1. /\ native' = [native EXCEPT ![f].positive = Credited(ledger[f]).positive]
            /\ Refreshed(ledger') /\ UNCHANGED refused /\ ~Unexpected(f)
        BY <2>3, <3>2 DEF OnResearchFinished
      <4>2. ASSUME NEW g \in Forces
            PROVE  Held(native'[g])
        <5>1. CASE g # f
          BY <1>1, <4>1, <5>1 DEF NativeTypeOK
        <5>2. CASE g = f
          <6> DEFINE row == ledger[g]
          <6>1. row \in Records
            BY <1>1, <3>2, <5>2 DEF NativeTypeOK
          <6>2. row.positive \in [Categories -> Int] /\ native[g] \in Natives
            BY <1>1, <6>1, RowFields DEF NativeTypeOK
          <6>3. /\ native[g].positive = row.positive
                /\ \A c \in row.payable : Storable(row.positive[c] + 1)
            BY <4>1, <5>2 DEF Unexpected
          <6> HIDE DEF row
          <6>4. Credited(row).positive = [c \in Categories |->
                  IF c \in row.payable THEN row.positive[c] + 1 ELSE row.positive[c]]
            BY <6>1, <6>2 DEF Credited, Records
          <6>5. /\ native'[g].positive = Credited(row).positive
                /\ native'[g].negative = native[g].negative
            BY <1>1, <4>1, <5>2, <6>2 DEF NativeTypeOK, Natives, row
          <6> QED  BY <1>1, <6>2, <6>3, <6>4, <6>5, BoundsAssumption DEF Storable
        <5> QED  BY <5>1, <5>2
      <4> QED  BY <1>1, <1>2, <4>1, <4>2 DEF Refreshed
    <3> QED  BY <3>1, <3>2
  <2> QED  BY <1>5, <2>1, <2>2, <2>3 DEF GunNext
<1>6. ASSUME NEW f \in Forces,
             \/ Enqueue(f)
             \/ \E n \in 1 .. MaxQueue : Cancel(f, n)
      PROVE  UNCHANGED <<native, pendingActive, bound, refused>>
  BY <1>6 DEF Enqueue, Cancel
<1>7. ASSUME NEW f \in Forces,
             Unresearch(f) \/ \E q \in BOOLEAN : Complete(f, q)
      PROVE  /\ \A g \in Forces : Held(native'[g])
             /\ UNCHANGED <<pendingActive, bound, refused>>
  <2>1. \E n : native' = [native EXCEPT ![f].completed = n]
    <3>1. CASE Unresearch(f)
      <4>1. native' = [native EXCEPT ![f].completed = native[f].completed - 1]
        BY <3>1 DEF Unresearch
      <4> QED  BY <4>1
    <3>2. CASE \E q \in BOOLEAN : Complete(f, q)
      <4>1. native' = [native EXCEPT ![f].completed = native[f].completed + 1]
        BY <3>2 DEF Complete
      <4> QED  BY <4>1
    <3> QED  BY <1>7, <3>1, <3>2
  <2>2. \A g \in Forces : /\ native'[g].positive = native[g].positive
                          /\ native'[g].negative = native[g].negative
    BY <1>1, <2>1 DEF NativeTypeOK, Natives
  <2>3. UNCHANGED <<pendingActive, bound, refused>>
    BY <1>7 DEF Unresearch, Complete
  <2> QED  BY <1>1, <2>2, <2>3
<1>8. ASSUME NEW f \in Forces, Begin(f) \/ \E d \in Forces : Merge(f, d)
      PROVE  /\ \A g \in Forces : Held(native'[g])
             /\ UNCHANGED <<pendingActive, bound, refused>>
  <2>1. native' = [native EXCEPT ![f] = Unpaid] /\ UNCHANGED <<pendingActive, bound, refused>>
    BY <1>8 DEF Begin, Merge
  <2> QED  BY <1>1, <1>3, <2>1 DEF NativeTypeOK
<1>9. ASSUME NEW included \in SUBSET Categories, Load(included)
      PROVE  UNCHANGED <<native, refused>> /\ pendingActive' \in BOOLEAN /\ bound' \in BOOLEAN
  BY <1>2, <1>9 DEF Load, Refreshed
<1>10. CASE UNCHANGED rvars
  BY <1>1, <1>10 DEF rvars, gvars
<1> QED  BY <1>1, <1>5, <1>6, <1>7, <1>8, <1>9, <1>10 DEF RNext, RUnresearch, RComplete, RCancel,
                                                          RLoad

(* Native counts, ledger rows and flags keep their types, and no holder is     *)
(* ever written a level it cannot store (apply_counts, force_record).          *)
THEOREM GunTypeCorrect == RSpec => []GunTypeOK
<1>1. RInit => GunTypeOK
  <2> SUFFICES ASSUME RInit PROVE GunTypeOK
    OBVIOUS
  <2>1. NativeTypeOK
    BY InvInit DEF IInv
  <2>2. ASSUME NEW f \in Forces, NEW c \in Categories
        PROVE  native[f].positive[c] = 0 /\ native[f].negative[c] = 0
    <3>1. native \in [Forces -> {[Unpaid EXCEPT !.completed = n] : n \in 0 .. MaxCompleted}]
      BY DEF RInit, Init
    <3> QED  BY <3>1 DEF Unpaid
  <2>3. pendingActive \in BOOLEAN /\ bound \in BOOLEAN /\ refused \in BOOLEAN
    BY DEF RInit, Init
  <2> QED  BY <2>1, <2>2, <2>3, BoundsAssumption DEF GunTypeOK
<1> QED  BY <1>1, InvInit, InvNext, TypeNext, PTL DEF RSpec

(* Whatever categories were taken out and put back, in whatever order, and     *)
(* whatever was completed or cancelled meanwhile, each force has natively      *)
(* exactly the levels of each category it paid for (plan_force, apply_counts,  *)
(* on_research_finished).                                                      *)
THEOREM PaidLevelsKept == RSpec => []PaidKept
<1>1. IInv => PaidKept
  BY WhenQuiet DEF PaidKept, Kept
<1> QED  BY <1>1, InvInit, InvNext, PTL DEF RSpec

(* While a ledger row waits for queued work the research events are            *)
(* subscribed, and they are released when no row waits (pending_active).       *)
THEOREM WorkHeard == RSpec => []PendingHeard
<1>1. IInv => PendingHeard
  BY WhenQuiet DEF PendingHeard, Following
<1> QED  BY <1>1, InvInit, InvNext, PTL DEF RSpec

(* A row never waits for more work than the force still has queued             *)
(* (on_research_cancelled, plan_force).                                        *)
THEOREM WorkQueued == RSpec => []PendingQueued
<1>1. IInv => PendingQueued
  BY WhenQuiet DEF PendingQueued, Kept, Rowed
<1> QED  BY <1>1, InvInit, InvNext, PTL DEF RSpec
-----------------------------------------------------------------------------
(* Refusals: while no script has moved a level, the rows, the holders and the  *)
(* counts of completed levels agree just as observe and plan_force demand.     *)

(* No script moved a level: the row of f is what the force has, each category  *)
(* is kept by at most one of its holders, and at most every level paid it.     *)
Clean(f, row, uncredited) ==
    /\ \A c \in Categories : paid[f][c] \in 0 .. native[f].completed
    /\ row.positive = native[f].positive /\ row.negative = native[f].negative
    /\ \A c \in Categories : (IF c \in row.included THEN row.positive[c] ELSE row.negative[c]) = 0
    /\ row.included = {} /\ row.pending > 0 => native[f].completed = row.completed + uncredited

(* A row MIR keeps is clean; a force it has none of is of a known origin.      *)
Sound(f) ==
    IF ledger[f] # Nil
    THEN Clean(f, ledger[f], IF event.kind = "finished" /\ event.force = f THEN 1 ELSE 0)
    ELSE event.kind = "configured" => event.published

Sane ==
    ~refused /\ ~foul => \A f \in alive :
        (event.kind = "created" /\ event.force = f) \/ Sound(f)

JInv == IInv /\ Sane /\ RefusedForCause
-----------------------------------------------------------------------------
(* preflight                                                                   *)

(* A force whose row is clean is planned without a refusal.                    *)
LEMMA Accepted ==
    ASSUME NativeTypeOK, HistTypeOK, NEW f \in Forces, NEW prior \in Records \cup {Nil},
           NEW published, NEW fresh, NEW begun,
           Storable(native[f].completed),
           \A c \in Categories :
             Earned(f, c, Previous(f, prior, published, fresh, begun)) = paid[f][c],
           \A c \in Categories : paid[f][c] \in 0 .. native[f].completed,
           prior = Nil => /\ fresh \/ published
                          /\ \A c \in Categories :
                               native[f].positive[c] = 0 /\ native[f].negative[c] = 0,
           prior # Nil => Clean(f, prior, 0)
    PROVE  ~Refuses(f, prior, published, fresh, begun)
<1> DEFINE previous == Previous(f, prior, published, fresh, begun)
           p        == Plan(f, prior, published, fresh, begun)
<1>1. /\ native[f].completed \in Nat /\ Limit \in Nat
      /\ \A c \in Categories : /\ native[f].positive[c] \in Int /\ native[f].negative[c] \in Int
                               /\ paid[f][c] \in 0 .. native[f].completed
      /\ native[f].completed < Limit
  BY Fields, BoundsAssumption DEF Storable
<1>2. prior # Nil => previous = prior.included
  BY DEF Previous
<1>3. ASSUME NEW c \in Categories
      PROVE  Storable(native[f].positive[c]) /\ Storable(native[f].negative[c])
  <2>1. CASE prior = Nil
    BY <1>1, <2>1 DEF Storable
  <2>2. CASE prior # Nil
    <3>1. Earned(f, c, prior.included) = paid[f][c]
      BY <1>2, <2>2
    <3>2. CASE c \in prior.included
      <4>1. native[f].positive[c] = 0
        BY <2>2, <3>2 DEF Clean
      <4>2. native[f].negative[c] = native[f].completed - paid[f][c]
        BY <1>1, <3>1, <3>2, <4>1 DEF Earned
      <4> QED  BY <1>1, <4>1, <4>2 DEF Storable
    <3>3. CASE c \notin prior.included
      <4>1. native[f].negative[c] = 0
        BY <2>2, <3>3 DEF Clean
      <4>2. native[f].positive[c] = paid[f][c]
        BY <1>1, <3>1, <3>3 DEF Earned
      <4> QED  BY <1>1, <4>1, <4>2 DEF Storable
    <3> QED  BY <3>2, <3>3
  <2> QED  BY <2>1, <2>2
<1>4. ASSUME NEW c \in Categories
      PROVE  Storable(p.positive[c]) /\ Storable(p.negative[c])
  <2>1. /\ p.positive[c] = (IF c \in mask THEN 0 ELSE Earned(f, c, previous))
        /\ p.negative[c] = IF c \in mask THEN native[f].completed - Earned(f, c, previous) ELSE 0
    BY DEF Plan
  <2>2. Earned(f, c, previous) = paid[f][c]
    OBVIOUS
  <2> HIDE DEF p, previous
  <2> QED  BY <1>1, <2>1, <2>2 DEF Storable
<1>5. prior # Nil =>
        /\ prior.positive = native[f].positive /\ prior.negative = native[f].negative
        /\ prior.included = {} /\ prior.pending > 0 => prior.completed = native[f].completed
  <2> SUFFICES ASSUME prior # Nil, Clean(f, prior, 0)
               PROVE  /\ prior.positive = native[f].positive /\ prior.negative = native[f].negative
                      /\ prior.included = {} /\ prior.pending > 0 =>
                           prior.completed = native[f].completed
    OBVIOUS
  <2>1. prior.completed \in Int
    BY RowFields
  <2> QED  BY <2>1 DEF Clean
<1> HIDE DEF p, previous
<1>6. Refuses(f, prior, published, fresh, begun) =>
        \/ prior # Nil /\ (prior.positive # native[f].positive \/ prior.negative # native[f].negative)
        \/ prior # Nil /\ prior.included = {} /\ prior.pending > 0
             /\ prior.completed # native[f].completed
        \/ prior = Nil /\ \E c \in Categories :
                            native[f].positive[c] # 0 \/ native[f].negative[c] # 0
        \/ prior = Nil /\ ~fresh /\ ~published
  BY <1>3, <1>4, Zenon DEF Refuses, p
<1> QED  BY <1>5, <1>6

(* apply leaves every force it planned with a clean row.                       *)
LEMMA AppliedClean ==
    ASSUME NativeTypeOK, HistTypeOK, NEW F \in SUBSET alive, NEW gone, NEW published, NEW fresh,
           Reconcile(F, gone, published, fresh), ~refused', UNCHANGED paid,
           \A f \in F, c \in Categories : paid[f][c] \in 0 .. native[f].completed
    PROVE  /\ \A f \in F : Clean(f, ledger[f], 0)'
           /\ \A f \in alive \ F : f \notin gone =>
                native'[f] = native[f] /\ ledger'[f] = ledger[f]
<1> DEFINE p(f, begun) == Plan(f, Prior(f, fresh), published, fresh, begun)
<1>1. PICK begun \in BOOLEAN :
        /\ native' = [f \in Forces |-> IF f \notin F THEN native[f]
              ELSE [native[f] EXCEPT !.positive = p(f, begun).positive,
                                     !.negative = p(f, begun).negative]]
        /\ ledger' = [f \in Forces |-> IF f \in F THEN p(f, begun)
                                       ELSE IF f \in gone THEN Nil ELSE ledger[f]]
  BY Zenon DEF Reconcile, Prior, Refused
<1>2. alive \subseteq Forces
  BY DEF NativeTypeOK
<1>3. ASSUME NEW f \in F
      PROVE  Clean(f, ledger[f], 0)'
  <2>1. /\ p(f, begun).included = mask /\ p(f, begun).completed = native[f].completed
        /\ \A c \in Categories : c \in mask => p(f, begun).positive[c] = 0
        /\ \A c \in Categories : c \notin mask => p(f, begun).negative[c] = 0
    BY DEF Plan
  <2> HIDE DEF p
  <2>2. native[f] \in Natives /\ f \in Forces /\ native[f].completed \in Nat
    BY <1>2, Fields
  <2>3. /\ ledger'[f] = p(f, begun) /\ native'[f].completed = native[f].completed
        /\ native'[f].positive = p(f, begun).positive
        /\ native'[f].negative = p(f, begun).negative
    BY <1>1, <2>2, Zenon DEF Natives
  <2> QED  BY <2>1, <2>2, <2>3 DEF Clean
<1> HIDE DEF p
<1>4. ASSUME NEW f \in alive \ F, f \notin gone
      PROVE  native'[f] = native[f] /\ ledger'[f] = ledger[f]
  BY <1>1, <1>2, <1>4, Zenon
<1> QED  BY <1>3, <1>4
-----------------------------------------------------------------------------
(* What the handlers find, and leave                                           *)

LEMMA SameClean ==
    ASSUME NEW f, NEW n, Clean(f, ledger[f], n),
           native'[f] = native[f], ledger'[f] = ledger[f], paid'[f] = paid[f]
    PROVE  Clean(f, ledger[f], n)'
  BY DEF Clean

(* With nothing to be handled every row is clean.                              *)
LEMMA QuietClean ==
    ASSUME IInv, Sane, Quiet, ~refused, ~foul
    PROVE  \A f \in alive : ledger[f] # Nil /\ Clean(f, ledger[f], 0)
<1>1. ASSUME NEW f \in alive
      PROVE  ledger[f] # Nil /\ Clean(f, ledger[f], 0)
  <2>1. Kept(f)
    BY WhenQuiet
  <2>2. event.kind = "none"
    BY DEF Quiet, NoEvent
  <2> QED  BY <2>1, <2>2 DEF Sane, Sound, Kept, Rowed
<1> QED  BY <1>1

(* After a handler every row is clean again.                                   *)
LEMMA SaneAfter ==
    ASSUME event' = NoEvent, \A f \in alive' : ledger'[f] # Nil /\ Clean(f, ledger[f], 0)'
    PROVE  Sane'
<1>1. event'.kind = "none"
  BY DEF NoEvent
<1> QED  BY <1>1 DEF Sane, Sound

(* A force without a row has no holders and paid for every level or for none.  *)
LEMMA NoRow ==
    ASSUME NativeTypeOK, HistTypeOK, NEW f \in Forces, Begun(f) \/ Unknown(f)
    PROVE  /\ \A c \in Categories : /\ native[f].positive[c] = 0 /\ native[f].negative[c] = 0
                                    /\ paid[f][c] \in 0 .. native[f].completed
<1>1. native[f].completed \in Nat
  BY Fields
<1>2. CASE Begun(f)
  BY <1>2 DEF Begun, Unpaid
<1>3. CASE Unknown(f)
  BY <1>1, <1>3 DEF Unknown, Unpaid
<1> QED  BY <1>2, <1>3

(* What a reconciliation plans from in a sane state.                           *)
Plannable(F, published, fresh) ==
    \A f \in F :
        /\ \A c \in Categories : paid[f][c] \in 0 .. native[f].completed
        /\ Prior(f, fresh) = Nil =>
             /\ fresh \/ published
             /\ \A c \in Categories : native[f].positive[c] = 0 /\ native[f].negative[c] = 0
        /\ Prior(f, fresh) # Nil => Clean(f, Prior(f, fresh), 0)
        /\ \A begun \in BOOLEAN, c \in Categories :
             Earned(f, c, Previous(f, Prior(f, fresh), published, fresh, begun)) = paid[f][c]

(* It is not refused, unless a count of levels is not storable.                *)
LEMMA PlannableAccepted ==
    ASSUME NativeTypeOK, HistTypeOK, NEW F \in SUBSET alive, NEW gone,
           NEW published \in BOOLEAN, NEW fresh \in BOOLEAN,
           Reconcile(F, gone, published, fresh), Plannable(F, published, fresh), ~refused,
           \A f \in Forces : Storable(native[f].completed)
    PROVE  ~refused'
<1>1. ASSUME NEW f \in F, NEW begun \in BOOLEAN
      PROVE  ~Refuses(f, Prior(f, fresh), published, fresh, begun)
  <2>1. f \in Forces
    BY DEF NativeTypeOK
  <2>2. Prior(f, fresh) \in Records \cup {Nil}
    BY <2>1, Fields DEF Prior
  <2> QED  BY <2>1, <2>2, Accepted DEF Plannable
<1>2. PICK begun \in BOOLEAN :
        \/ \E f \in F : Refuses(f, Prior(f, fresh), published, fresh, begun)
        \/ UNCHANGED refused
  BY Zenon DEF Reconcile, Prior
<1> QED  BY <1>1, <1>2

LEMMA InitPlannable ==
    ASSUME IInv, OnInit
    PROVE  /\ Reconcile(alive, {}, FALSE, TRUE) /\ event' = NoEvent
           /\ Plannable(alive, FALSE, TRUE)
<1>1. /\ event' = NoEvent /\ Reconcile(alive, {}, FALSE, TRUE)
      /\ NativeTypeOK /\ HistTypeOK /\ \A f \in alive : Begun(f)
  BY DEF OnInit, Takes, IInv, Due
<1>2. ASSUME NEW f \in alive
      PROVE  /\ \A c \in Categories : /\ paid[f][c] \in 0 .. native[f].completed
                                      /\ native[f].positive[c] = 0 /\ native[f].negative[c] = 0
             /\ \A begun \in BOOLEAN, c \in Categories :
                  Earned(f, c, Previous(f, Nil, FALSE, TRUE, begun)) = paid[f][c]
  <2>1. f \in Forces /\ Begun(f)
    BY <1>1 DEF NativeTypeOK
  <2> QED  BY <1>1, <2>1, NoRow DEF Begun, Earned, Previous, Unpaid
<1> QED  BY <1>1, <1>2 DEF Plannable, Prior

LEMMA ConfigurationPlannable ==
    ASSUME IInv, Sane, ~foul, OnConfigurationChanged
    PROVE  /\ Reconcile(alive, {}, event.published, FALSE) /\ event' = NoEvent
           /\ Plannable(alive, event.published, FALSE)
<1>1. /\ event' = NoEvent /\ Reconcile(alive, {}, event.published, FALSE)
      /\ NativeTypeOK /\ HistTypeOK /\ event.kind = "configured" /\ event.published \in BOOLEAN
      /\ \A f \in alive : IF ledger[f] = Nil THEN Unknown(f) ELSE Saved(f)
  BY DEF OnConfigurationChanged, Takes, IInv, Due
<1>2. \A f \in alive : Sound(f)
  BY <1>1 DEF Sane, OnConfigurationChanged, Takes
<1>3. ASSUME NEW f \in alive, ledger[f] = Nil
      PROVE  /\ event.published
             /\ \A c \in Categories : /\ paid[f][c] \in 0 .. native[f].completed
                                      /\ native[f].positive[c] = 0 /\ native[f].negative[c] = 0
             /\ \A begun \in BOOLEAN, c \in Categories :
                  Earned(f, c, Previous(f, Nil, event.published, FALSE, begun)) = paid[f][c]
  <2>1. event.published /\ Unknown(f) /\ f \in Forces
    BY <1>1, <1>2, <1>3 DEF Sound, NativeTypeOK
  <2>2. \A c \in Categories : /\ paid[f][c] \in 0 .. native[f].completed
                              /\ native[f].positive[c] = 0 /\ native[f].negative[c] = 0
    BY <1>1, <2>1, NoRow
  <2>3. native[f].completed \in Nat
    BY <1>1, <2>1, Fields
  <2>4. ASSUME NEW begun \in BOOLEAN, NEW c \in Categories
        PROVE  Earned(f, c, Previous(f, Nil, event.published, FALSE, begun)) = paid[f][c]
    <3>1. paid[f][c] = native[f].completed
      BY <2>1 DEF Unknown
    <3>2. CASE Invested(f, begun)
      <4>1. Previous(f, Nil, event.published, FALSE, begun) = Categories
        BY <2>1, <3>2 DEF Previous
      <4>2. Earned(f, c, Categories) = native[f].completed
        BY <2>2, <2>3 DEF Earned
      <4> QED  BY <3>1, <4>1, <4>2
    <3>3. CASE ~Invested(f, begun)
      <4>1. native[f].completed = 0
        BY <2>3, <3>3 DEF Invested
      <4>2. Earned(f, c, mask) = 0
        BY <2>2, <4>1 DEF Earned
      <4>3. Previous(f, Nil, event.published, FALSE, begun) = mask
        BY <3>3 DEF Previous
      <4> QED  BY <3>1, <4>1, <4>2, <4>3
    <3> QED  BY <3>2, <3>3
  <2> QED  BY <2>1, <2>2, <2>4
<1>4. ASSUME NEW f \in alive, ledger[f] # Nil
      PROVE  /\ Clean(f, ledger[f], 0)
             /\ \A c \in Categories : paid[f][c] \in 0 .. native[f].completed
             /\ \A begun \in BOOLEAN, c \in Categories :
                  Earned(f, c, Previous(f, ledger[f], event.published, FALSE, begun)) = paid[f][c]
  <2>1. Clean(f, ledger[f], 0) /\ Saved(f)
    BY <1>1, <1>2, <1>4 DEF Sound
  <2>2. \A begun \in BOOLEAN :
          Previous(f, ledger[f], event.published, FALSE, begun) = ledger[f].included
    BY <1>4 DEF Previous
  <2>3. \A c \in Categories : Earned(f, c, ledger[f].included) = paid[f][c]
    BY <2>1 DEF Saved
  <2>4. \A c \in Categories : paid[f][c] \in 0 .. native[f].completed
    BY <2>1 DEF Clean
  <2> QED  BY <2>1, <2>2, <2>3, <2>4
<1>5. ASSUME NEW f \in alive
      PROVE  Prior(f, FALSE) = ledger[f]
  BY DEF Prior
<1>6. Plannable(alive, event.published, FALSE)
  <2> SUFFICES ASSUME NEW f \in alive
               PROVE  Plannable({f}, event.published, FALSE)
    BY DEF Plannable
  <2>1. CASE ledger[f] = Nil
    <3>1. Prior(f, FALSE) = Nil /\ \A g \in {f} : g = f
      BY <1>5, <2>1
    <3>2. /\ event.published
          /\ \A c \in Categories : /\ paid[f][c] \in 0 .. native[f].completed
                                   /\ native[f].positive[c] = 0 /\ native[f].negative[c] = 0
          /\ \A begun \in BOOLEAN, c \in Categories :
               Earned(f, c, Previous(f, Prior(f, FALSE), event.published, FALSE, begun))
                 = paid[f][c]
      BY <1>3, <2>1, <3>1, Zenon
    <3> QED  BY <3>1, <3>2, Zenon DEF Plannable
  <2>2. CASE ledger[f] # Nil
    BY <1>4, <1>5, <2>2 DEF Plannable
  <2> QED  BY <2>1, <2>2
<1> QED  BY <1>1, <1>6

LEMMA CreatedPlannable ==
    ASSUME IInv, OnForceCreated
    PROVE  /\ Reconcile({event.force}, {}, FALSE, TRUE) /\ event' = NoEvent
           /\ {event.force} \subseteq alive /\ Plannable({event.force}, FALSE, TRUE)
<1>1. PICK f \in alive :
        /\ f = event.force /\ event' = NoEvent /\ Reconcile({event.force}, {}, FALSE, TRUE)
        /\ NativeTypeOK /\ HistTypeOK /\ Begun(f)
  BY DEF OnForceCreated, Takes, IInv, Due
<1>2. /\ \A c \in Categories : /\ paid[f][c] \in 0 .. native[f].completed
                               /\ native[f].positive[c] = 0 /\ native[f].negative[c] = 0
      /\ \A begun \in BOOLEAN, c \in Categories :
           Earned(f, c, Previous(f, Nil, FALSE, TRUE, begun)) = paid[f][c]
  <2>1. f \in Forces
    BY <1>1 DEF NativeTypeOK
  <2> QED  BY <1>1, <2>1, NoRow DEF Begun, Earned, Previous, Unpaid
<1>3. Prior(f, TRUE) = Nil
  BY DEF Prior
<1>4. {event.force} = {f} /\ \A g \in {event.force} : g = f
  BY <1>1
<1> QED  BY <1>1, <1>2, <1>3, <1>4 DEF Plannable

LEMMA MergedPlannable ==
    ASSUME IInv, Sane, ~foul, OnForcesMerged
    PROVE  /\ Reconcile({event.force}, {event.source}, FALSE, FALSE) /\ event' = NoEvent
           /\ {event.force} \subseteq alive /\ event.source \notin alive
           /\ Plannable({event.force}, FALSE, FALSE)
<1>1. PICK f \in alive :
        /\ f = event.force /\ event' = NoEvent
        /\ Reconcile({event.force}, {event.source}, FALSE, FALSE) /\ event.source \notin alive
        /\ NativeTypeOK /\ HistTypeOK /\ Kept(f) /\ event.kind = "merged" /\ ~refused
  BY DEF OnForcesMerged, Takes, IInv, Due
<1>2. ledger[f] # Nil /\ ledger[f].included = mask
  BY <1>1 DEF Kept, Rowed
<1>3. Clean(f, ledger[f], 0)
  BY <1>1, <1>2 DEF Sane, Sound
<1>4. \A c \in Categories : Earned(f, c, mask) = paid[f][c]
  BY <1>1 DEF Kept, Earned, Effect
<1>5. \A begun \in BOOLEAN : Previous(f, ledger[f], FALSE, FALSE, begun) = mask
  BY <1>2 DEF Previous
<1>6. \A c \in Categories : paid[f][c] \in 0 .. native[f].completed
  BY <1>3 DEF Clean
<1> QED  BY <1>1, <1>2, <1>3, <1>4, <1>5, <1>6 DEF Plannable, Prior
(* A sane reconciliation is refused for cause, or leaves clean rows.           *)
LEMMA Reconciled ==
    ASSUME IInv, IInv', NEW F \in SUBSET alive, NEW gone,
           NEW published \in BOOLEAN, NEW fresh \in BOOLEAN,
           Reconcile(F, gone, published, fresh), Plannable(F, published, fresh), ~refused,
           UNCHANGED <<paid, owed, promise, foul>>, event' = NoEvent,
           \A f \in alive \ F : f \notin gone /\ ledger[f] # Nil /\ Clean(f, ledger[f], 0)
    PROVE  Sane' /\ RefusedForCause'
<1>1. NativeTypeOK /\ HistTypeOK
  BY DEF IInv
<1>2. alive' = alive
  BY Zenon DEF Reconcile, Refused
<1>3. CASE refused'
  <2>1. native' = native
    BY <1>3, Zenon DEF Reconcile, Refused
  <2>2. \E f \in Forces : ~Storable(native[f].completed)
    BY <1>1, <1>3, PlannableAccepted
  <2> QED  BY <1>3, <2>1, <2>2 DEF Sane, RefusedForCause, Storable
<1>4. CASE ~refused'
  <2>1. /\ \A f \in F : Clean(f, ledger[f], 0)'
        /\ \A f \in alive \ F : f \notin gone =>
             native'[f] = native[f] /\ ledger'[f] = ledger[f]
    BY <1>1, <1>4, AppliedClean DEF Plannable
  <2>2. \A f \in alive' : ledger'[f] # Nil
    BY <1>4 DEF IInv, Due, NoEvent, Kept, Rowed
  <2>3. \A f \in alive \ F : Clean(f, ledger[f], 0)'
    BY <2>1, SameClean
  <2> QED  BY <1>2, <1>4, <2>1, <2>2, <2>3, SaneAfter DEF RefusedForCause
<1> QED  BY <1>3, <1>4

(* The credited level is one the waiting row is short of, and is storable.     *)
LEMMA FinishedSane ==
    ASSUME IInv, IInv', Sane, ~foul, OnResearchFinished, UNCHANGED <<paid, owed, promise, foul>>
    PROVE  Sane' /\ RefusedForCause'
<1>1. PICK f \in Forces :
        /\ f = event.force /\ event.kind = "finished" /\ event' = NoEvent /\ ~refused
        /\ NativeTypeOK /\ HistTypeOK /\ Following /\ f \in alive
        /\ Completed(f) /\ \A g \in alive \ {f} : Kept(g)
  BY DEF IInv, Due, OnResearchFinished, Takes, NativeTypeOK
<1> DEFINE row == ledger[f]
<1>2. row # Nil /\ row \in Records /\ row.included = mask /\ row.pending \in Nat
  <2>1. row # Nil /\ row.included = mask
    BY <1>1 DEF Completed, Kept, Uncredited, Rowed
  <2>2. row \in Records
    BY <1>1, <2>1, Fields
  <2> QED  BY <2>1, <2>2, RowFields
<1>3. Clean(f, row, 1)
  BY <1>1, <1>2 DEF Sane, Sound
<1>4. \A g \in alive \ {f} : ledger[g] # Nil /\ Clean(g, ledger[g], 0)
  BY <1>1 DEF Sane, Sound, Kept, Rowed
<1>5. CASE ~pendingActive \/ row.pending = 0
  <2>1. UNCHANGED <<alive, mask, native, queue, ledger, pendingActive, bound, refused>>
    BY <1>1, <1>5 DEF OnResearchFinished
  <2>2. row.pending = 0
    BY <1>1, <1>2, <1>5 DEF Following, PendingIn
  <2>3. Clean(f, row, 0)
    BY <1>3, <2>2 DEF Clean
  <2>4. \A g \in alive' : ledger'[g] # Nil /\ Clean(g, ledger[g], 0)'
    BY <1>2, <1>4, <2>1, <2>3, SameClean
  <2> QED  BY <1>1, <2>1, <2>4, SaneAfter DEF RefusedForCause
<1>6. CASE pendingActive /\ row.pending # 0
  <2>1. /\ \/ Unexpected(f) /\ Refused
           \/ /\ ledger' = [ledger EXCEPT ![f] = Credited(@)]
              /\ native' = [native EXCEPT ![f].positive = Credited(row).positive]
              /\ UNCHANGED <<alive, mask, refused>>
    BY <1>1, <1>2, <1>6 DEF OnResearchFinished
  <2>2. Uncredited(f) /\ mask = {}
    BY <1>1, <1>6 DEF Completed, Uncredited, Rowed
  <2>3. /\ native[f].completed \in Nat /\ row.completed \in Int
        /\ native[f].completed = row.completed + 1
        /\ native[f].positive = row.positive /\ native[f].negative = row.negative
        /\ row.positive \in [Categories -> Int] /\ row.payable \in SUBSET Categories
    BY <1>1, <1>2, <1>3, <1>6, <2>2, Fields, RowFields DEF Clean
  <2>4. \A c \in Categories : /\ paid[f][c] \in 0 .. native[f].completed
                              /\ row.negative[c] = 0
                              /\ paid[f][c] = row.positive[c] + IF c \in row.payable THEN 1 ELSE 0
    BY <1>2, <1>3, <2>2, <2>3 DEF Clean, Uncredited, Effect
  <2>5. CASE Unexpected(f) /\ Refused
    <3>1. ~Storable(native[f].completed)
      <4> SUFFICES ASSUME Storable(native[f].completed) PROVE FALSE
        OBVIOUS
      <4>1. \A c \in row.payable : Storable(row.positive[c] + 1)
        BY <2>3, <2>4, BoundsAssumption DEF Storable
      <4> QED  BY <2>2, <2>3, <2>5, <4>1 DEF Unexpected
    <3> QED  BY <2>5, <3>1 DEF Refused, Sane, RefusedForCause, Storable
  <2>6. CASE /\ ledger' = [ledger EXCEPT ![f] = Credited(@)]
             /\ native' = [native EXCEPT ![f].positive = Credited(row).positive]
             /\ UNCHANGED <<alive, mask, refused>>
    <3> HIDE DEF row
    <3>1. /\ Credited(row) \in Records /\ Credited(row).included = row.included
          /\ Credited(row).completed = row.completed + 1
          /\ Credited(row).negative = row.negative
      BY <1>2, <1>6, CreditedRow, Zenon DEF Credited, Records
    <3>2. /\ ledger'[f] = Credited(row) /\ native'[f].positive = Credited(row).positive
          /\ native'[f].negative = native[f].negative
          /\ native'[f].completed = native[f].completed
      BY <1>1, <2>6 DEF NativeTypeOK, Natives, row
    <3>3. Clean(f, ledger[f], 0)'
      BY <1>2, <2>2, <2>3, <2>4, <3>1, <3>2 DEF Clean
    <3>4. ASSUME NEW g \in alive \ {f}
          PROVE  ledger'[g] # Nil /\ Clean(g, ledger[g], 0)'
      <4>1. native'[g] = native[g] /\ ledger'[g] = ledger[g]
        BY <1>1, <2>6 DEF NativeTypeOK
      <4> QED  BY <1>4, <4>1, SameClean
    <3>5. ledger'[f] # Nil
      BY <3>1, <3>2, RowFields
    <3> QED  BY <1>1, <2>6, <3>3, <3>4, <3>5, SaneAfter DEF RefusedForCause
  <2> QED  BY <2>1, <2>5, <2>6
<1>7. pendingActive \in BOOLEAN
  BY <1>1 DEF Following, PendingIn
<1> QED  BY <1>5, <1>6, <1>7

LEMMA CancelledSane ==
    ASSUME IInv, Sane, ~foul, OnResearchCancelled, UNCHANGED <<paid, owed, promise, foul>>
    PROVE  Sane' /\ RefusedForCause'
<1>1. PICK f \in Forces, n \in Nat :
        /\ f = event.force /\ n = event.count /\ event.kind = "cancelled" /\ event' = NoEvent
        /\ ~refused /\ NativeTypeOK /\ HistTypeOK /\ f \in alive
        /\ ledger[f] # Nil /\ \A g \in alive \ {f} : Kept(g)
  BY DEF IInv, Due, OnResearchCancelled, Takes, NativeTypeOK, Uncancelled, Rowed
<1>2. /\ UNCHANGED <<alive, native, refused>>
      /\ ledger' = ledger \/ ledger' = [ledger EXCEPT ![f] = Withdrawn(@, n)]
  BY <1>1 DEF OnResearchCancelled
<1>3. \A g \in alive : ledger[g] # Nil /\ Clean(g, ledger[g], 0)
  BY <1>1 DEF Sane, Sound, Kept, Rowed
<1>4. CASE ledger' = ledger
  BY <1>1, <1>2, <1>3, <1>4, SameClean, SaneAfter DEF RefusedForCause
<1>5. CASE ledger' = [ledger EXCEPT ![f] = Withdrawn(@, n)]
  <2> DEFINE row == ledger[f]
  <2>1. row \in Records /\ row.pending \in Nat
    BY <1>1, Fields, RowFields
  <2> HIDE DEF row
  <2>2. /\ Withdrawn(row, n) \in Records /\ Withdrawn(row, n).included = row.included
        /\ Withdrawn(row, n).pending = (IF row.pending > n THEN row.pending - n ELSE 0)
        /\ Withdrawn(row, n).positive = row.positive /\ Withdrawn(row, n).negative = row.negative
        /\ Withdrawn(row, n).completed = row.completed
    BY <2>1, WithdrawnRow, Zenon DEF Withdrawn, Records
  <2>3. ledger'[f] = Withdrawn(row, n)
    BY <1>1, <1>5 DEF NativeTypeOK, row
  <2>4. Clean(f, row, 0)
    BY <1>1, <1>3 DEF row
  <2>5. Clean(f, ledger[f], 0)' /\ ledger'[f] # Nil
    BY <1>2, <2>1, <2>2, <2>3, <2>4, RowFields DEF Clean
  <2>6. ASSUME NEW g \in alive \ {f}
        PROVE  ledger'[g] # Nil /\ Clean(g, ledger[g], 0)'
    <3>1. ledger'[g] = ledger[g]
      BY <1>1, <1>5 DEF NativeTypeOK
    <3> QED  BY <1>2, <1>3, <3>1, SameClean
  <2> QED  BY <1>1, <1>2, <2>5, <2>6, SaneAfter DEF RefusedForCause
<1> QED  BY <1>2, <1>4, <1>5

(* Every handler.                                                              *)
LEMMA GunSane ==
    ASSUME JInv, IInv', GunNext, UNCHANGED <<paid, owed, promise, foul>>
    PROVE  Sane' /\ RefusedForCause'
<1>1. IInv /\ Sane
  BY DEF JInv
<1>2. CASE foul
  BY <1>2 DEF Sane, RefusedForCause
<1>3. CASE ~foul
  <2>1. CASE OnInit
    <3>1. ~refused
      BY <2>1 DEF OnInit, Takes
    <3> QED  BY <1>1, <2>1, <3>1, InitPlannable, Reconciled
  <2>2. CASE OnConfigurationChanged
    <3>1. ~refused /\ event.published \in BOOLEAN
      BY <1>1, <2>2 DEF OnConfigurationChanged, Takes, IInv
    <3> QED  BY <1>1, <1>3, <2>2, <3>1, ConfigurationPlannable, Reconciled
  <2>3. CASE OnForceCreated
    <3>1. ~refused /\ \A g \in alive \ {event.force} : ledger[g] # Nil /\ Clean(g, ledger[g], 0)
      BY <1>1, <1>3, <2>3 DEF OnForceCreated, Takes, IInv, Due, Sane, Sound, Kept, Rowed
    <3> DEFINE F    == {event.force}
               gone == {}
    <3>2. /\ Reconcile(F, gone, FALSE, TRUE) /\ event' = NoEvent
          /\ F \in SUBSET alive /\ Plannable(F, FALSE, TRUE)
      BY <1>1, <2>3, CreatedPlannable
    <3>3. \A g \in alive \ F : g \notin gone /\ ledger[g] # Nil /\ Clean(g, ledger[g], 0)
      BY <3>1
    <3> HIDE DEF F, gone
    <3> QED  BY <1>1, <3>1, <3>2, <3>3, Reconciled
  <2>4. CASE OnForcesMerged
    <3>1. ~refused /\ \A g \in alive : ledger[g] # Nil /\ Clean(g, ledger[g], 0)
      BY <1>1, <1>3, <2>4 DEF OnForcesMerged, Takes, IInv, Due, Sane, Sound, Kept, Rowed
    <3> QED  BY <1>1, <1>3, <2>4, <3>1, MergedPlannable, Reconciled
  <2>5. CASE OnResearchFinished
    BY <1>1, <1>3, <2>5, FinishedSane
  <2>6. CASE OnResearchCancelled
    BY <1>1, <1>3, <2>6, CancelledSane
  <2> QED  BY <2>1, <2>2, <2>3, <2>4, <2>5, <2>6 DEF GunNext
<1> QED  BY <1>2, <1>3
-----------------------------------------------------------------------------
(* The engine, players and scripts                                             *)

(* A step after which the rows are clean but for a level just completed.       *)
LEMMA CompleteSane ==
    ASSUME JInv, NEW f \in Forces, NEW queued \in BOOLEAN, RComplete(f, queued)
    PROVE  Sane'
<1>1. /\ IInv /\ Sane /\ Quiet /\ ~refused /\ NativeTypeOK /\ HistTypeOK /\ Following
      /\ f \in alive
  BY WhenQuiet DEF JInv, RComplete, Complete
<1>2. /\ native' = [native EXCEPT ![f].completed = @ + 1]
      /\ event' = IF bound THEN Raised("finished", f) ELSE NoEvent
      /\ UNCHANGED <<alive, ledger>>
      /\ paid' = [paid EXCEPT ![f] = [c \in Categories |->
                    IF c \in PaidNow(f) THEN @[c] + 1 ELSE @[c]]]
      /\ foul => foul'
  BY DEF RComplete, Complete, Heard
<1>3. CASE foul
  BY <1>2, <1>3 DEF Sane
<1>4. CASE ~foul
  <2>1. \A g \in alive : ledger[g] # Nil /\ Clean(g, ledger[g], 0)
    BY <1>1, <1>4, QuietClean
  <2>2. /\ native[f].completed \in Nat /\ ledger[f].pending \in Nat /\ ledger[f].completed \in Int
        /\ \A c \in Categories : paid[f][c] \in 0 .. native[f].completed
    BY <1>1, <2>1, Fields, RowFields DEF Clean
  <2>3. /\ native'[f].completed = native[f].completed + 1
        /\ native'[f].positive = native[f].positive /\ native'[f].negative = native[f].negative
        /\ \A c \in Categories :
             paid'[f][c] = IF c \in PaidNow(f) THEN paid[f][c] + 1 ELSE paid[f][c]
    BY <1>1, <1>2 DEF NativeTypeOK, HistTypeOK, Natives
  <2>4. \A c \in Categories : paid'[f][c] \in 0 .. native'[f].completed
    BY <2>2, <2>3
  <2>5. Clean(f, ledger[f], 1)'
    BY <1>1, <1>2, <2>1, <2>2, <2>3, <2>4 DEF Clean
  <2>6. ledger[f].pending = 0 => Clean(f, ledger[f], 0)'
    BY <1>2, <2>5 DEF Clean
  <2>7. ASSUME NEW g \in alive \ {f}
        PROVE  ledger'[g] # Nil /\ Clean(g, ledger[g], 0)'
    <3>1. g \in Forces /\ native'[g] = native[g] /\ paid'[g] = paid[g] /\ ledger'[g] = ledger[g]
      BY <1>1, <1>2 DEF NativeTypeOK, HistTypeOK
    <3> QED  BY <2>1, <3>1, SameClean
  <2>8. CASE bound
    <3>1. event'.kind = "finished" /\ event'.force = f
      BY <1>2, <2>8 DEF Raised, NoEvent
    <3> QED  BY <1>2, <2>1, <2>5, <2>7, <3>1 DEF Sane, Sound
  <2>9. CASE ~bound
    <3>1. ledger[f].pending = 0
      BY <1>1, <2>1, <2>2, <2>9 DEF Following, PendingIn
    <3>2. event' = NoEvent
      BY <1>2, <2>9
    <3> QED  BY <1>2, <2>1, <2>6, <2>7, <3>1, <3>2, SaneAfter
  <2> QED  BY <2>8, <2>9
<1> QED  BY <1>3, <1>4

(* The rows, holders and paid levels of every force that stays are untouched.  *)
LEMMA UntouchedSane ==
    ASSUME JInv, Quiet, ~refused, foul' = foul,
           \A f \in alive' : \/ event'.kind = "created" /\ event'.force = f
                             \/ /\ f \in alive /\ event'.kind # "finished"
                                /\ native'[f] = native[f] /\ ledger'[f] = ledger[f]
                                /\ paid'[f] = paid[f]
    PROVE  Sane'
<1>1. CASE foul
  BY <1>1 DEF Sane
<1>2. CASE ~foul
  <2>1. \A f \in alive : ledger[f] # Nil /\ Clean(f, ledger[f], 0)
    BY <1>2, QuietClean DEF JInv
  <2>2. ASSUME NEW f \in alive, native'[f] = native[f], ledger'[f] = ledger[f],
               paid'[f] = paid[f], event'.kind # "finished"
        PROVE  Sound(f)'
    BY <2>1, <2>2, SameClean DEF Sound
  <2> QED  BY <2>2 DEF Sane
<1> QED  BY <1>1, <1>2

LEMMA EngineSane ==
    ASSUME JInv, NEW f \in Forces,
           \/ Enqueue(f) /\ UNCHANGED <<paid, owed, promise, foul>>
           \/ Begin(f) /\ Forgotten(f)
           \/ \E n \in 1 .. MaxQueue : RCancel(f, n)
           \/ \E s \in Forces : Merge(s, f) /\ Forgotten(s)
    PROVE  Sane'
<1>1. /\ Quiet /\ ~refused /\ NativeTypeOK /\ HistTypeOK /\ alive \subseteq Forces
      /\ foul' = foul
  <2>1. NativeTypeOK /\ HistTypeOK /\ alive \subseteq Forces
    BY DEF JInv, IInv, NativeTypeOK
  <2>2. Quiet /\ ~refused /\ foul' = foul
    BY Zenon DEF Enqueue, Begin, RCancel, Cancel, Merge, Forgotten
  <2> QED  BY <2>1, <2>2
<1>2. CASE Enqueue(f) /\ UNCHANGED <<paid, owed, promise, foul>>
  <2>1. event'.kind # "finished" /\ UNCHANGED <<alive, native, ledger, paid>>
    BY <1>2 DEF Enqueue, Quiet, NoEvent
  <2> QED  BY <1>1, <2>1, UntouchedSane
<1>3. CASE \E n \in 1 .. MaxQueue : RCancel(f, n)
  <2>1. PICK n \in 1 .. MaxQueue : RCancel(f, n)
    BY <1>3
  <2>2. event'.kind # "finished"
    BY <2>1, Zenon DEF RCancel, Cancel, Heard, Raised, NoEvent
  <2>3. UNCHANGED <<alive, native, ledger, paid>>
    BY <2>1 DEF RCancel, Cancel
  <2> QED  BY <1>1, <2>2, <2>3, UntouchedSane
<1>4. CASE Begin(f) /\ Forgotten(f)
  <2>1. /\ event'.kind = "created" /\ event'.force = f /\ alive' = alive \cup {f}
        /\ \A g \in alive \ {f} :
             native'[g] = native[g] /\ ledger'[g] = ledger[g] /\ paid'[g] = paid[g]
    BY <1>1, <1>4 DEF Begin, Forgotten, Raised, NoEvent, NativeTypeOK, HistTypeOK
  <2> QED  BY <1>1, <2>1, UntouchedSane
<1>5. CASE \E s \in Forces : Merge(s, f) /\ Forgotten(s)
  <2>1. PICK s \in Forces : Merge(s, f) /\ Forgotten(s)
    BY <1>5
  <2>2. /\ event'.kind = "merged" /\ alive' = alive \ {s}
        /\ \A g \in alive \ {s} :
             native'[g] = native[g] /\ ledger'[g] = ledger[g] /\ paid'[g] = paid[g]
    BY <1>1, <2>1, Zenon DEF Merge, Forgotten, Raised, NoEvent, NativeTypeOK, HistTypeOK
  <2> QED  BY <1>1, <2>2, UntouchedSane
<1> QED  BY <1>2, <1>3, <1>4, <1>5

(* No row is lost by a load.                                                   *)
LEMMA LoadSane ==
    ASSUME JInv, NEW included \in SUBSET Categories, RLoad(included)
    PROVE  Sane'
<1>1. Quiet /\ ~refused /\ UNCHANGED <<alive, native, ledger, paid, foul>>
  BY DEF RLoad, Load
<1>2. event'.kind # "finished"
  <2>1. event' = Raised("configured", Nil) \/ event' = NoEvent
    BY DEF RLoad, Load
  <2>2. Raised("configured", Nil).kind = "configured" /\ NoEvent.kind = "none"
    BY DEF Raised, NoEvent
  <2> QED  BY <2>1, <2>2
<1> QED  BY <1>1, <1>2, UntouchedSane
-----------------------------------------------------------------------------
LEMMA SaneInit == RInit => JInv
<1> SUFFICES ASSUME RInit PROVE JInv
  OBVIOUS
<1>1. /\ ledger = [f \in Forces |-> Nil] /\ refused = FALSE /\ alive \subseteq Forces
      /\ foul = (event.kind = "configured" /\ ~event.published)
  BY DEF RInit, Init
<1> QED  BY <1>1, InvInit DEF JInv, Sane, Sound, RefusedForCause

LEMMA SaneNext == JInv /\ [RNext]_rvars => JInv'
<1> SUFFICES ASSUME JInv, [RNext]_rvars PROVE JInv'
  OBVIOUS
<1>1. IInv'
  BY InvNext DEF JInv
<1>2. CASE UNCHANGED rvars
  <2>1. UNCHANGED <<alive, native, ledger, event, refused, paid, foul>>
    BY <1>2 DEF rvars, gvars
  <2>2. \A f : Sound(f)' <=> Sound(f)
    BY <2>1, Zenon DEF Sound, Clean
  <2> QED  BY <1>1, <2>1, <2>2 DEF JInv, Sane, RefusedForCause, Storable
<1>3. CASE GunNext /\ UNCHANGED <<paid, owed, promise, foul>>
  BY <1>1, <1>3, GunSane DEF JInv
<1>4. CASE RNext /\ ~(GunNext /\ UNCHANGED <<paid, owed, promise, foul>>)
  <2>1. ~refused'
    BY <1>4 DEF RNext, Enqueue, RUnresearch, Unresearch, Begin, RComplete, Complete, RCancel,
                Cancel, Merge, RLoad, Load
  <2>2. ASSUME NEW f \in Forces, RUnresearch(f)
        PROVE  Sane'
    BY <2>2 DEF RUnresearch, Sane
  <2>3. Sane'
    BY <1>4, <2>2, CompleteSane, EngineSane, LoadSane DEF RNext
  <2> QED  BY <1>1, <2>1, <2>3 DEF JInv, RefusedForCause
<1> QED  BY <1>2, <1>3, <1>4

(* Research, cancellations, resets, merges, saves and changes of the included  *)
(* categories alone never lead to a refusal: only scripted levels, a save of   *)
(* unknown origin or a level count no holder can represent (credit_failure).   *)
THEOREM NoGroundlessRefusal == RSpec => []RefusedForCause
<1>1. JInv => RefusedForCause
  BY DEF JInv
<1> QED  BY <1>1, SaneInit, SaneNext, PTL DEF RSpec
=============================================================================
