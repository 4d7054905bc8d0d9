---------------------------- MODULE CreditsProofs ----------------------------
(* Proofs about CreditsEarned for every set of forces and recipes, every limit *)
(* of a carrier and every bound: the types, that each force has in effect the  *)
(* levels it earned, that only a cause stops the game, and that work owed      *)
(* other pay is heard.                                                         *)
EXTENDS CreditsEarned, TLAPS

Priors == [Recipes -> Records \cup {Nil}]
Pasts == (SUBSET Family) \cup {Nil}

LedgerTypeOK ==
    /\ record \in [Forces -> Priors]
    /\ history \in [Forces -> Pasts]
    /\ event.count \in Nat

WatchTypeOK ==
    /\ earned \in [Forces -> [Recipes -> Nat]]
    /\ promise \in [Forces -> [Family -> BOOLEAN \cup {Nil}]]
    /\ foul \in BOOLEAN

(* Levels and queue of f as the last event MIR handled left them.              *)
Awaits(k, f) == event.kind = k /\ event.force = f
SeenDone(f) == native[f].done - (IF Awaits("finished", f) THEN 1 ELSE 0)
SeenQueued(f) ==
    native[f].queued + (IF Awaits("finished", f) THEN 1
                        ELSE IF Awaits("cancelled", f) THEN event.count ELSE 0)

(* The flag follows the ledger at all times.                                   *)
Following == pendingActive = PendingIn(record, config.listed)

(* The ledger of f is that of the loaded inputs, and the carriers its offsets. *)
Recorded(f) ==
    /\ history[f] = config.listed
    /\ \A r \in Recipes :
         LET p == record[f][r]
         IN  IF r \in Family \ config.listed THEN p = Nil /\ native[f].credit[r] = 0
             ELSE /\ p # Nil /\ p.offset = native[f].credit[r] /\ p.included = Included(r)
                  /\ r \in Family => p.private = config.private
                  /\ ~p.private => p.pending = 0
                  /\ p.pending = 0 => p.payable = p.included

(* What was earned is what the ledger explains, and the level MIR has yet to   *)
(* hear of; no recipe earned more levels than were completed.                  *)
Explained(f, r) ==
    IF record[f][r] = Nil THEN 0
    ELSE record[f][r].offset + Paid(record[f][r].included) * SeenDone(f)
Backed(f) ==
    \A r \in Recipes :
      /\ earned[f][r] = Explained(f, r)
                          + (IF Awaits("finished", f) THEN Paid(Pays(f, r)) ELSE 0)
      /\ earned[f][r] <= native[f].done

(* Hidden work pays what its record says, and records wait for all of it.      *)
Promising(f) ==
    (config.private /\ SeenQueued(f) > 0) =>
      \A r \in Family :
        IF r \notin config.listed THEN promise[f][r] # TRUE
        ELSE IF record[f][r].pending > 0
        THEN promise[f][r] = record[f][r].payable /\ record[f][r].pending >= SeenQueued(f)
        ELSE promise[f][r] = Nil

(* While anything is owed no completion goes uncounted.                        *)
Counted(f) ==
    /\ \A r \in config.listed : record[f][r].completed <= SeenDone(f)
    /\ pendingActive => \A r \in config.listed :
         record[f][r].pending > 0 => record[f][r].completed = SeenDone(f)

Kept(f) == Recorded(f) /\ Backed(f) /\ Promising(f) /\ Counted(f)

(* A force that has just started over.                                         *)
Begun(f) ==
    /\ native[f] = Unpaid /\ earned[f] = [r \in Recipes |-> 0]
    /\ promise[f] = [r \in Family |-> Nil]

(* A force MIR has no ledger of, in a save it has just been loaded into.       *)
Unexplained(f) ==
    /\ history[f] = Nil /\ record[f] = Blank
    /\ \A r \in Recipes :
         /\ native[f].credit[r] = 0
         /\ earned[f][r] = Paid(IF event.origin # "none" /\ r \in Family THEN r \in Published
                                ELSE Included(r)) * native[f].done
    /\ \A r \in Family : promise[f][r] = IF event.origin # "none" THEN r \in Published ELSE Nil
    /\ event.origin \in {"none", IF config.private THEN "public" ELSE "private"}
         \/ ~(Published \subseteq config.listed) => foul

(* A force whose ledger is still that of the inputs it was saved under.        *)
Saved(f) ==
    /\ history[f] # Nil /\ (foul \/ history[f] \subseteq config.listed)
    /\ Backed(f)
    /\ \A r \in Recipes :
         LET p == record[f][r]
         IN  /\ native[f].credit[r] = IF p = Nil \/ r \in Family \ config.listed THEN 0 ELSE p.offset
             /\ p = Nil <=> r \in Family \ history[f]
             /\ (p # Nil /\ r \in Family) =>
                  /\ p.completed <= native[f].done
                  /\ ~p.private => p.pending = 0
                  /\ p.pending = 0 => p.payable = p.included
                  /\ p.pending > 0 /\ p.payable # p.included => p.completed = native[f].done
    /\ (config.private /\ native[f].queued > 0) =>
         \A r \in Family :
           LET p == record[f][r]
           IN  IF r \notin config.listed THEN promise[f][r] # TRUE
               ELSE IF p = Nil THEN promise[f][r] = Nil
               ELSE IF ~p.private THEN promise[f][r] = p.included
               ELSE IF p.pending > 0
               THEN promise[f][r] = p.payable /\ p.pending >= native[f].queued
               ELSE promise[f][r] = Nil

(* What holds of the forces while an event waits to be handled.                *)
Due ==
    /\ event.kind = "init" => \A g \in alive : Begun(g)
    /\ event.kind = "configured" => (\A g \in alive : Unexplained(g)) \/ \A g \in alive : Saved(g)
    /\ event.kind = "started" => /\ event.force \in alive /\ Begun(event.force)
                                /\ \A g \in alive \ {event.force} : Kept(g)
    /\ event.kind = "merged" => event.force \in alive /\ event.source \notin alive
    /\ event.kind \in {"finished", "cancelled"} => event.force \in alive
    /\ event.kind \in {"none", "merged", "finished", "cancelled"} => \A g \in alive : Kept(g)

IInv ==
    /\ CreditTypeOK /\ LedgerTypeOK /\ WatchTypeOK
    /\ ~refused => Following /\ Due
    /\ RefusedForCause
-----------------------------------------------------------------------------
(* Operators on records and levels                                             *)

(* A level paid or not, over n levels.                                         *)
LEMMA PaidTimes ==
    ASSUME NEW a \in BOOLEAN, NEW b \in BOOLEAN, NEW n \in Int
    PROVE  /\ Paid(a) * n = IF a THEN n ELSE 0
           /\ (Paid(a) - Paid(b)) * n = IF a = b THEN 0 ELSE IF a THEN n ELSE -n
           /\ Paid(a) \in 0 .. 1
  BY DEF Paid

LEMMA RowFields ==
    ASSUME NEW p \in Records
    PROVE  /\ p # Nil /\ p.included \in BOOLEAN /\ p.private \in BOOLEAN /\ p.payable \in BOOLEAN
           /\ p.offset \in Int /\ p.pending \in 0 .. MaxQueue /\ p.pending \in Nat
           /\ p.completed \in 0 .. MaxLevel /\ p.completed \in Nat
  BY NilAssumption, CreditAssumption DEF Records

LEMMA NativeFields ==
    ASSUME CreditTypeOK, NEW f \in Forces
    PROVE  /\ native[f] \in Natives /\ native[f].done \in Nat /\ native[f].queued \in Nat
           /\ native[f].done \in 0 .. MaxLevel /\ native[f].queued \in 0 .. MaxQueue
           /\ \A r \in Recipes : native[f].credit[r] \in Int
  BY CreditAssumption DEF CreditTypeOK, Natives

LEMMA ConfigFields ==
    ASSUME CreditTypeOK
    PROVE  /\ config.listed \in SUBSET Family /\ config.included \in SUBSET Recipes
           /\ config.private \in BOOLEAN
           /\ \A r \in Family : Included(r) => r \in config.listed
           /\ \A r : Included(r) \in BOOLEAN
  BY DEF CreditTypeOK, Configs, Included
-----------------------------------------------------------------------------
(* A transition of one force                                                   *)

(* What the rows say of the levels earned and of the work waiting is right.    *)
Explains(f, rows) ==
    \A r \in Recipes :
      earned[f][r] = IF rows[r] = Nil THEN 0
                     ELSE rows[r].offset + Paid(rows[r].included) * native[f].done
Honours(f, rows) ==
    (config.private /\ native[f].queued > 0) =>
      \A r \in Family :
        IF r \notin config.listed THEN promise[f][r] # TRUE
        ELSE IF rows[r].pending > 0
        THEN promise[f][r] = rows[r].payable /\ rows[r].pending >= native[f].queued
        ELSE promise[f][r] = Nil

LEMMA BlankPrior == Blank \in Priors /\ Nil \in Pasts /\ \A r \in Recipes : Blank[r] = Nil
  BY DEF Blank, Priors, Pasts

LEMMA PriorFields ==
    ASSUME CreditTypeOK, LedgerTypeOK, NEW f \in Forces, NEW r \in Family, NEW begun
    PROVE  /\ Prior(f) \in Priors /\ Past(f) \in Pasts
           /\ PriorIncluded(f, r, begun) \in BOOLEAN
           /\ Pending(f, r) \in 0 .. MaxQueue
           /\ Payable(f, r, begun) \in BOOLEAN
<1>1. Prior(f) \in Priors /\ Past(f) \in Pasts
  BY BlankPrior DEF LedgerTypeOK, Prior, Past
<1> DEFINE p == Prior(f)[r]
<1>2. p # Nil => p \in Records
  BY <1>1 DEF Priors, Recipes
<1>3. PriorIncluded(f, r, begun) \in BOOLEAN
  BY <1>2, RowFields, ConfigFields DEF PriorIncluded
<1>4. Pending(f, r) \in 0 .. MaxQueue
  BY <1>2, RowFields, NativeFields, CreditAssumption DEF Pending, Least
<1>5. Payable(f, r, begun) \in BOOLEAN
  BY <1>2, <1>3, RowFields DEF Payable
<1> QED  BY <1>1, <1>3, <1>4, <1>5

(* The record of a family recipe after the transition.                         *)
LEMMA RowIs ==
    ASSUME CreditTypeOK, LedgerTypeOK, NEW f \in Forces, NEW r \in config.listed, NEW begun
    PROVE  LET row == Row(f, r, begun)
           IN  /\ row \in Records /\ row # Nil
               /\ row.included = Included(r) /\ row.private = config.private
               /\ row.completed = native[f].done
               /\ row.offset + Paid(row.included) * native[f].done
                    = native[f].credit[r] + Paid(PriorIncluded(f, r, begun)) * native[f].done
               /\ row.pending = IF config.private THEN Pending(f, r) ELSE 0
               /\ row.pending = 0 => row.payable = Included(r)
               /\ row.pending > 0 => row.payable = Payable(f, r, begun)
<1> DEFINE row     == Row(f, r, begun)
           before  == PriorIncluded(f, r, begun)
           pending == IF config.private THEN Pending(f, r) ELSE 0
           n       == native[f].done
<1>0. r \in Family /\ r \in Recipes
  BY ConfigFields DEF Recipes
<1>1. /\ before \in BOOLEAN /\ pending \in 0 .. MaxQueue /\ Payable(f, r, begun) \in BOOLEAN
      /\ n \in 0 .. MaxLevel /\ n \in Int /\ native[f].credit[r] \in Int
      /\ Included(r) \in BOOLEAN /\ config.private \in BOOLEAN
  <2>1. 0 \in 0 .. MaxQueue
    BY CreditAssumption
  <2> QED  BY <1>0, <2>1, PriorFields, NativeFields, ConfigFields
<1> DEFINE offset  == native[f].credit[r] + (Paid(before) - Paid(Included(r))) * n
           payable == IF pending = 0 THEN Included(r) ELSE Payable(f, r, begun)
<1>2. row = [included |-> Included(r), private |-> config.private, completed |-> n,
             offset |-> offset, pending |-> pending, payable |-> payable]
  BY DEF Row
<1> HIDE DEF row, before, pending, n
<1>3. offset \in Int /\ offset + Paid(Included(r)) * n = native[f].credit[r] + Paid(before) * n
  BY <1>1, PaidTimes
<1>4. payable \in BOOLEAN
  BY <1>1
<1> HIDE DEF offset, payable
<1>5. row \in Records /\ row # Nil
  <2>1. row \in Records
    BY <1>1, <1>2, <1>3, <1>4 DEF Records
  <2> QED  BY <2>1, RowFields
<1>6. /\ row.pending = pending /\ row.included = Included(r) /\ row.private = config.private
      /\ row.completed = n /\ row.offset = offset /\ row.payable = payable
  BY <1>2
<1>7. pending = 0 \/ pending > 0
  BY <1>1
<1> QED
  BY <1>3, <1>5, <1>6, <1>7 DEF payable, pending, row, before, n

(* The record of an overlap after the transition.                              *)
LEMMA OverlapIs ==
    ASSUME CreditTypeOK, LedgerTypeOK, NEW f \in Forces, NEW r \in Overlaps
    PROVE  LET row == Overlap(f, r)
               p   == record[f][r]
           IN  /\ row \in Records /\ row # Nil
               /\ row.included = Included(r) /\ ~row.private /\ row.pending = 0
               /\ row.payable = row.included
               /\ row.offset + Paid(row.included) * native[f].done
                    = IF event.kind # "configured" \/ p = Nil
                      THEN native[f].credit[r] + Paid(Included(r)) * native[f].done
                      ELSE p.offset + Paid(p.included) * native[f].done
<1> DEFINE row    == Overlap(f, r)
           n      == native[f].done
           p      == IF event.kind = "configured" THEN record[f][r] ELSE Nil
           offset == IF p = Nil THEN native[f].credit[r]
                     ELSE p.offset + (Paid(p.included) - Paid(Included(r))) * n
<1>1. /\ n \in Int /\ native[f].credit[r] \in Int /\ Included(r) \in BOOLEAN
      /\ 0 \in 0 .. MaxQueue /\ 0 \in 0 .. MaxLevel
  BY NativeFields, ConfigFields, CreditAssumption DEF Recipes
<1>2. p # Nil => p.included \in BOOLEAN /\ p.offset \in Int
  <2>1. p # Nil => p \in Records
    BY DEF LedgerTypeOK, Priors, Recipes
  <2> QED  BY <2>1, RowFields
<1>3. row = [included |-> Included(r), private |-> FALSE, payable |-> Included(r), pending |-> 0,
             completed |-> 0, offset |-> offset]
  BY DEF Overlap
<1> HIDE DEF row, n, p
<1>4. offset \in Int /\ offset + Paid(Included(r)) * n
                          = IF p = Nil THEN native[f].credit[r] + Paid(Included(r)) * n
                            ELSE p.offset + Paid(p.included) * n
  <2>1. CASE p = Nil
    BY <1>1, <2>1
  <2>2. CASE p # Nil
    BY <1>1, <1>2, <2>2, PaidTimes
  <2> QED  BY <2>1, <2>2
<1> HIDE DEF offset
<1>5. row \in Records
  BY <1>1, <1>3, <1>4 DEF Records
<1>6. /\ row.included = Included(r) /\ row.offset = offset /\ ~row.private /\ row.pending = 0
      /\ row.payable = Included(r)
  BY <1>3
<1> QED  BY <1>4, <1>5, <1>6, RowFields DEF row, n, p

(* The whole ledger of a force after the transition.                           *)
LEMMA RowsAre ==
    ASSUME CreditTypeOK, LedgerTypeOK, NEW f \in Forces, NEW begun
    PROVE  LET rows == NewRecords(f, begun)
           IN  /\ rows \in Priors
               /\ \A r \in Family \ config.listed : rows[r] = Nil
               /\ \A r \in config.listed : rows[r] = Row(f, r, begun)
               /\ \A r \in Overlaps : rows[r] = Overlap(f, r)
<1> DEFINE rows == NewRecords(f, begun)
<1>1. config.listed \subseteq Family /\ Family \cap Overlaps = {}
  BY ConfigFields, CreditAssumption
<1>2. \A r \in Family \ config.listed : rows[r] = Nil
  BY <1>1 DEF NewRecords, Recipes
<1>3. \A r \in config.listed : rows[r] = Row(f, r, begun)
  BY <1>1 DEF NewRecords, Recipes
<1>4. \A r \in Overlaps : rows[r] = Overlap(f, r)
  BY <1>1 DEF NewRecords, Recipes
<1>5. ASSUME NEW r \in Recipes PROVE rows[r] \in Records \cup {Nil}
  <2>1. CASE r \in Overlaps
    BY <2>1, <1>4, OverlapIs
  <2>2. CASE r \in config.listed
    BY <2>2, <1>3, RowIs
  <2>3. CASE r \in Family \ config.listed
    BY <2>3, <1>2
  <2> QED  BY <2>1, <2>2, <2>3 DEF Recipes
<1>6. rows \in Priors
  <2>1. rows = [r \in Recipes |-> rows[r]]
    BY DEF NewRecords
  <2> HIDE DEF rows
  <2> QED  BY <1>5, <2>1 DEF Priors
<1> QED  BY <1>2, <1>3, <1>4, <1>6
-----------------------------------------------------------------------------
(* What a transition keeps, and what it refuses                                *)

(* A force that starts over: the present inclusion is its baseline.            *)
LEMMA BegunRows ==
    ASSUME CreditTypeOK, LedgerTypeOK, WatchTypeOK, NEW f \in Forces, Begun(f), Fresh, NEW begun
    PROVE  /\ Explains(f, NewRecords(f, begun)) /\ Honours(f, NewRecords(f, begun))
           /\ Refuses(f, begun) => ~Representable(native[f].done)
<1> DEFINE rows == NewRecords(f, begun)
<1>1. /\ native[f].done = 0 /\ native[f].queued = 0
      /\ \A r \in Recipes : native[f].credit[r] = 0 /\ earned[f][r] = 0
  BY DEF Begun, Unpaid
<1>2. /\ Prior(f) = Blank /\ Past(f) = Nil /\ \A r \in Recipes : Prior(f)[r] = Nil
      /\ event.kind # "configured"
  BY BlankPrior DEF Prior, Past, Fresh
<1>3. \A b \in BOOLEAN : Paid(b) * 0 = 0
  BY PaidTimes
<1>4. ASSUME NEW r \in config.listed
      PROVE  LET row == Row(f, r, begun)
             IN  row # Nil /\ row.offset = 0 /\ row.offset + Paid(row.included) * native[f].done = 0
  <2> DEFINE row == Row(f, r, begun)
  <2>1. r \in Family /\ r \in Recipes
    BY ConfigFields DEF Recipes
  <2>2. PriorIncluded(f, r, begun) \in BOOLEAN
    BY <2>1, PriorFields
  <2>3. row \in Records /\ row # Nil /\ row.offset + Paid(row.included) * native[f].done = 0
    BY <1>1, <1>3, <2>1, <2>2, RowIs
  <2> HIDE DEF row
  <2>4. row.offset \in Int /\ row.included \in BOOLEAN
    BY <2>3, RowFields
  <2>5. row.offset = 0
    BY <1>1, <1>3, <2>3, <2>4
  <2> QED  BY <2>3, <2>5 DEF row
<1>5. Explains(f, rows)
  <2> SUFFICES ASSUME NEW r \in Recipes
               PROVE  earned[f][r] = IF rows[r] = Nil THEN 0
                        ELSE rows[r].offset + Paid(rows[r].included) * native[f].done
    BY DEF Explains
  <2>1. CASE r \in Family \ config.listed
    BY <1>1, <2>1, RowsAre
  <2>2. CASE r \in config.listed
    BY <1>1, <1>4, <2>2, RowsAre
  <2>3. CASE r \in Overlaps
    <3>1. Included(r) \in BOOLEAN
      BY ConfigFields
    <3> QED  BY <1>1, <1>2, <1>3, <2>3, <3>1, OverlapIs, RowsAre
  <2> QED  BY <2>1, <2>2, <2>3 DEF Recipes
<1>6. Honours(f, rows)
  BY <1>1 DEF Honours
<1>7. Refuses(f, begun) => ~Representable(native[f].done)
  <2> SUFFICES ASSUME Refuses(f, begun)
               PROVE  ~Representable(native[f].done)
    OBVIOUS
  <2>1. PICK r \in config.listed : Disputed(f, r, begun)
    BY <1>2 DEF Refuses, Recipes
  <2>2. r \in Recipes
    BY ConfigFields DEF Recipes
  <2>3. ~Representable(Row(f, r, begun).offset)
    BY <1>2, <2>1, <2>2 DEF Disputed, Unknown
  <2> QED  BY <1>1, <1>4, <2>3
<1> QED  BY <1>5, <1>6, <1>7

(* A count between minus what is representable and it is representable.        *)
LEMMA Within ==
    ASSUME NEW n \in Nat, NEW m \in Int, -n <= m, m <= n, Representable(n)
    PROVE  Representable(m)
  BY CreditAssumption DEF Representable

(* Of a save MIR has no ledger of: what its published edition paid.            *)
LEMMA FirstRow ==
    ASSUME CreditTypeOK, LedgerTypeOK, NEW f \in Forces, Unexplained(f), event.kind = "configured",
           NEW begun, NEW r \in config.listed
    PROVE  LET n     == native[f].done
               prior == IF n = 0 /\ ~Invested(f, begun) THEN Included(r) ELSE r \in Published
               row   == Row(f, r, begun)
           IN  /\ row.offset + Paid(row.included) * n = Paid(prior) * n
               /\ config.private => row.pending = native[f].queued
               /\ row.pending > 0 => row.payable = prior
               /\ Representable(n) => Representable(row.offset)
<1> DEFINE n     == native[f].done
           prior == IF n = 0 /\ ~Invested(f, begun) THEN Included(r) ELSE r \in Published
           row   == Row(f, r, begun)
<1>0. r \in Family /\ r \in Recipes
  BY ConfigFields DEF Recipes
<1>1. /\ ~Fresh /\ Prior(f)[r] = Nil /\ Past(f) = Nil
      /\ native[f].credit[r] = 0
  BY <1>0, BlankPrior DEF Unexplained, Fresh, Prior, Past
<1>2. n \in Nat /\ prior \in BOOLEAN /\ PriorIncluded(f, r, begun) \in BOOLEAN
  <2>1. (r \in Published) \in BOOLEAN /\ Included(r) \in BOOLEAN
    BY ConfigFields
  <2> QED  BY <1>0, <2>1, NativeFields, PriorFields
<1>3. PriorIncluded(f, r, begun) = prior
  <2>1. PriorIncluded(f, r, begun) <=> prior
    BY <1>1 DEF PriorIncluded
  <2> QED  BY <1>2, <2>1
<1>4. Pending(f, r) = native[f].queued /\ Payable(f, r, begun) = prior
  BY <1>1, <1>3 DEF Pending, Payable
<1>5. /\ row.offset \in Int /\ row.included \in BOOLEAN
      /\ row.offset + Paid(row.included) * n = native[f].credit[r] + Paid(PriorIncluded(f, r, begun)) * n
      /\ row.pending = IF config.private THEN Pending(f, r) ELSE 0
      /\ row.pending > 0 => row.payable = Payable(f, r, begun)
  BY RowIs, RowFields
<1> HIDE DEF n, prior, row
<1>6. row.offset + Paid(row.included) * n = Paid(prior) * n
  <2>1. Paid(prior) * n \in Int
    BY <1>2, PaidTimes
  <2> QED  BY <1>1, <1>3, <1>5, <2>1
<1>7. Representable(n) => Representable(row.offset)
  <2>1. -n <= row.offset /\ row.offset <= n
    BY <1>5, <1>2, <1>6, PaidTimes
  <2> QED  BY <1>5, <1>2, <2>1, Within
<1> QED  BY <1>3, <1>4, <1>5, <1>6, <1>7 DEF n, prior, row

LEMMA FirstRows ==
    ASSUME CreditTypeOK, LedgerTypeOK, WatchTypeOK, NEW f \in Forces, Unexplained(f),
           event.kind = "configured", NEW begun
    PROVE  /\ ~Refuses(f, begun) => /\ Explains(f, NewRecords(f, begun))
                                    /\ Honours(f, NewRecords(f, begun))
                                    /\ \A r \in Recipes : earned[f][r] <= native[f].done
           /\ Refuses(f, begun) => foul \/ ~Representable(native[f].done)
<1> DEFINE n      == native[f].done
           rows   == NewRecords(f, begun)
           strange == \/ event.origin \in {"none", IF config.private THEN "public" ELSE "private"}
                      \/ ~(Published \subseteq config.listed)
<1>1. /\ ~Fresh /\ Past(f) = Nil /\ \A r \in Recipes : Prior(f)[r] = Nil /\ record[f][r] = Nil
      /\ \A r \in Recipes : native[f].credit[r] = 0
      /\ strange => foul
  BY BlankPrior DEF Unexplained, Fresh, Prior, Past
<1>2. /\ n \in Nat /\ native[f].queued \in Nat
      /\ config.listed \subseteq Family /\ Family \subseteq Recipes
      /\ \A r : Included(r) \in BOOLEAN /\ (r \in Published) \in BOOLEAN
  BY NativeFields, ConfigFields DEF Recipes
<1>3. \A r \in Recipes :
         earned[f][r] = Paid(IF event.origin # "none" /\ r \in Family THEN r \in Published
                             ELSE Included(r)) * n
  BY DEF Unexplained
<1>4. \A r \in Family : promise[f][r] = IF event.origin # "none" THEN r \in Published ELSE Nil
  BY DEF Unexplained
<1>5. \A r \in config.listed : Unknown(f, begun) => Disputed(f, r, begun)
  BY <1>1, <1>2 DEF Disputed
<1>6. Unknown(f, begun) <=> (n > 0 \/ Invested(f, begun)) /\ strange
  BY <1>1 DEF Unknown
<1>7. ASSUME ~Refuses(f, begun)
      PROVE  /\ n > 0 \/ Invested(f, begun) => ~strange
             /\ n = 0 \/ ~strange
  <2>1. \A r \in config.listed : ~Disputed(f, r, begun)
    BY <1>7 DEF Refuses
  <2>2. config.listed = {} => n = 0 /\ ~Invested(f, begun)
    BY <1>1, <1>2, <1>7 DEF Refuses, Invested
  <2> HIDE DEF strange, n
  <2> QED  BY <1>2, <1>5, <1>6, <2>1, <2>2
<1>8. \A b \in BOOLEAN : Paid(b) * n \in 0 .. n /\ (n = 0 \/ ~b => Paid(b) * n = 0)
  BY <1>2 DEF Paid
<1>9. ASSUME NEW r \in Family \ config.listed, n = 0 \/ ~strange
      PROVE  earned[f][r] = 0
  <2>1. CASE n = 0
    BY <1>2, <1>3, <1>8, <2>1
  <2>2. CASE ~strange
    <3>1. event.origin # "none" /\ r \notin Published
      BY <2>2
    <3> QED  BY <1>2, <1>3, <1>8, <3>1
  <2> QED  BY <1>9, <2>1, <2>2
<1>10. ASSUME ~Refuses(f, begun), NEW r \in config.listed
       PROVE  earned[f][r] = Row(f, r, begun).offset + Paid(Row(f, r, begun).included) * n
  <2> DEFINE prior == IF n = 0 /\ ~Invested(f, begun) THEN Included(r) ELSE r \in Published
             now   == IF event.origin # "none" /\ r \in Family THEN r \in Published ELSE Included(r)
  <2>1. prior \in BOOLEAN /\ now \in BOOLEAN
    BY <1>2
  <2>2. n = 0 \/ prior = now
    BY <1>2, <1>7, <1>10
  <2>3. earned[f][r] = Paid(now) * n
    BY <1>2, <1>3
  <2>4. Row(f, r, begun).offset + Paid(Row(f, r, begun).included) * n = Paid(prior) * n
    BY FirstRow
  <2> HIDE DEF prior, now, n
  <2>5. Paid(now) * n = Paid(prior) * n
    BY <1>8, <2>1, <2>2
  <2> QED  BY <2>3, <2>4, <2>5
<1>11. ASSUME ~Refuses(f, begun) PROVE Explains(f, rows)
  <2> SUFFICES ASSUME NEW r \in Recipes
               PROVE  earned[f][r] = IF rows[r] = Nil THEN 0
                        ELSE rows[r].offset + Paid(rows[r].included) * n
    BY DEF Explains
  <2>1. CASE r \in Family \ config.listed
    BY <1>7, <1>9, <1>11, <2>1, RowsAre
  <2>2. CASE r \in config.listed
    BY <1>10, <1>11, <2>2, RowsAre, RowIs
  <2>3. CASE r \in Overlaps
    <3>1. r \notin Family /\ earned[f][r] = Paid(Included(r)) * n /\ native[f].credit[r] = 0
      BY <1>1, <1>2, <1>3, <2>3, CreditAssumption
    <3>2. record[f][r] = Nil
      BY <1>1
    <3>3. Paid(Included(r)) * n \in Int
      BY <1>2, <1>8
    <3> QED  BY <2>3, <3>1, <3>2, <3>3, OverlapIs, RowsAre
  <2> QED  BY <2>1, <2>2, <2>3 DEF Recipes
<1>12. ASSUME ~Refuses(f, begun) PROVE Honours(f, rows)
  <2> SUFFICES ASSUME config.private, native[f].queued > 0, NEW r \in Family
               PROVE  IF r \notin config.listed THEN promise[f][r] # TRUE
                      ELSE IF rows[r].pending > 0
                      THEN promise[f][r] = rows[r].payable /\ rows[r].pending >= native[f].queued
                      ELSE promise[f][r] = Nil
    BY DEF Honours
  <2>1. Invested(f, begun) /\ ~strange
    BY <1>7, <1>12 DEF Invested
  <2>2. promise[f][r] = (r \in Published)
    BY <1>4, <2>1
  <2>3. CASE r \notin config.listed
    BY <2>1, <2>2, <2>3
  <2>4. CASE r \in config.listed
    <3>1. rows[r] = Row(f, r, begun)
      BY <2>4, RowsAre
    <3> DEFINE then == r \in Published
    <3>2. rows[r].pending = native[f].queued /\ native[f].queued \in Nat
      BY <1>2, <2>4, <3>1, FirstRow
    <3>3. rows[r].pending > 0 => rows[r].payable = then
      BY <2>1, <2>4, <3>1, FirstRow
    <3>4. promise[f][r] = then
      BY <2>2
    <3> HIDE DEF rows, then
    <3>5. rows[r].pending > 0
      BY <3>2
    <3>6. promise[f][r] = rows[r].payable /\ rows[r].pending >= native[f].queued
      BY <3>2, <3>3, <3>4, <3>5
    <3> QED  BY <2>4, <3>5, <3>6
  <2> QED  BY <2>3, <2>4
<1>13. ASSUME NEW r \in Recipes PROVE earned[f][r] <= n
  <2> DEFINE now == IF event.origin # "none" /\ r \in Family THEN r \in Published ELSE Included(r)
  <2>1. now \in BOOLEAN
    BY <1>2
  <2>2. earned[f][r] = Paid(now) * n
    BY <1>3
  <2> HIDE DEF now, n
  <2> QED  BY <1>2, <1>8, <2>1, <2>2
<1>14. ASSUME Refuses(f, begun) PROVE foul \/ ~Representable(n)
  <2>1. CASE config.listed = {}
    <3>1. strange
      BY <2>1, CreditAssumption
    <3> QED  BY <1>1, <3>1
  <2>2. CASE config.listed # {}
    <3>1. PICK r \in config.listed : Disputed(f, r, begun)
      BY <1>1, <1>2, <1>14, <2>2 DEF Refuses
    <3>2. Unknown(f, begun) \/ ~Representable(Row(f, r, begun).offset)
      BY <1>1, <1>2, <3>1 DEF Disputed
    <3>3. Unknown(f, begun) => strange
      BY <1>6
    <3> HIDE DEF strange
    <3> QED  BY <1>1, <3>2, <3>3, FirstRow
  <2> QED  BY <2>1, <2>2
<1> HIDE DEF rows
<1> QED  BY <1>11, <1>12, <1>13, <1>14 DEF rows

(* Of a ledger saved under other inputs: what it explains.                     *)
LEMMA SavedRow ==
    ASSUME CreditTypeOK, LedgerTypeOK, WatchTypeOK, NEW f \in Forces, Saved(f),
           event.kind \in {"configured", "merged"}, NEW begun, NEW r \in config.listed
    PROVE  LET n   == native[f].done
               p   == record[f][r]
               row == Row(f, r, begun)
           IN  /\ row.offset + Paid(row.included) * n = earned[f][r]
               /\ p = Nil => row.pending = 0
               /\ (p # Nil /\ config.private /\ ~p.private) =>
                    row.pending = native[f].queued /\ (row.pending > 0 => row.payable = p.included)
               /\ (p # Nil /\ config.private /\ p.private) =>
                    /\ row.pending = Least(p.pending, native[f].queued)
                    /\ row.pending > 0 => p.pending > 0 /\ row.payable = p.payable
               /\ Disputed(f, r, begun) => ~Representable(n)
<1> DEFINE n   == native[f].done
           q   == native[f].queued
           p   == record[f][r]
           row == Row(f, r, begun)
<1>1. /\ r \in Family /\ r \in Recipes /\ n \in Nat /\ q \in Nat
      /\ config.private \in BOOLEAN
  BY NativeFields, ConfigFields DEF Recipes
<1>2. ~Fresh /\ Prior(f)[r] = p /\ Past(f) = history[f] /\ Past(f) # Nil
  BY DEF Saved, Fresh, Prior, Past
<1>3. p # Nil => p \in Records
  BY <1>1 DEF LedgerTypeOK, Priors
<1>4. /\ row.offset \in Int /\ row.included \in BOOLEAN /\ row.pending \in Nat
      /\ row.offset + Paid(row.included) * n = native[f].credit[r] + Paid(PriorIncluded(f, r, begun)) * n
      /\ row.pending = IF config.private THEN Pending(f, r) ELSE 0
      /\ row.pending > 0 => row.payable = Payable(f, r, begun)
  BY RowIs, RowFields
<1>5. /\ native[f].credit[r] = IF p = Nil THEN 0 ELSE p.offset
      /\ p = Nil <=> r \notin history[f]
      /\ p # Nil => /\ p.completed <= n
                    /\ ~p.private => p.pending = 0
                    /\ p.pending > 0 /\ p.payable # p.included => p.completed = n
  BY <1>1 DEF Saved
<1>6. earned[f][r] = (IF p = Nil THEN 0 ELSE p.offset + Paid(p.included) * n) /\ earned[f][r] \in 0 .. n
  <2>1. SeenDone(f) = n /\ ~Awaits("finished", f)
    BY <1>1 DEF SeenDone, Awaits
  <2>2. earned[f][r] \in Nat /\ earned[f][r] <= n
    BY <1>1 DEF WatchTypeOK, Saved, Backed
  <2>3. earned[f][r] = Explained(f, r) + 0
    BY <1>1, <2>1 DEF Saved, Backed
  <2>4. earned[f][r] = Explained(f, r)
    <3>1. Explained(f, r) \in Int
      <4>1. CASE p = Nil
        BY <4>1 DEF Explained
      <4>2. CASE p # Nil
        BY <1>1, <1>3, <2>1, <4>2, RowFields, PaidTimes DEF Explained
      <4> QED  BY <4>1, <4>2
    <3> QED  BY <2>3, <3>1
  <2> QED  BY <1>1, <2>1, <2>2, <2>4 DEF Explained
<1>7. row.offset + Paid(row.included) * n = earned[f][r]
  <2>1. CASE p = Nil
    <3>1. PriorIncluded(f, r, begun) = FALSE
      BY <1>2, <2>1, PriorFields, <1>1 DEF PriorIncluded
    <3>2. Paid(PriorIncluded(f, r, begun)) * n = 0
      BY <1>1, <3>1 DEF Paid
    <3> QED  BY <1>4, <1>5, <1>6, <2>1, <3>2
  <2>2. CASE p # Nil
    <3>1. PriorIncluded(f, r, begun) = p.included
      BY <1>2, <2>2 DEF PriorIncluded
    <3> QED  BY <1>4, <1>5, <1>6, <2>2, <3>1
  <2> QED  BY <2>1, <2>2
<1>8. p = Nil => row.pending = 0
  BY <1>2, <1>4 DEF Pending
<1>9. (p # Nil /\ config.private /\ ~p.private) =>
         row.pending = q /\ (row.pending > 0 => row.payable = p.included)
  BY <1>2, <1>4 DEF Pending, Payable, PriorIncluded
<1>10. (p # Nil /\ config.private /\ p.private) =>
         row.pending = Least(p.pending, q) /\ (row.pending > 0 => p.pending > 0 /\ row.payable = p.payable)
  BY <1>1, <1>2, <1>3, <1>4, RowFields DEF Pending, Payable, Least
<1>11. Disputed(f, r, begun) => ~Representable(n)
  <2>1. Representable(n) => Representable(row.offset)
    <3>1. -n <= row.offset /\ row.offset <= n
      <4> HIDE DEF n, row
      <4>1. Paid(row.included) * n \in 0 .. n
        BY <1>1, <1>4 DEF Paid
      <4> QED  BY <1>1, <1>4, <1>6, <1>7, <4>1
    <3> QED  BY <1>1, <1>4, <3>1, Within
  <2>2. Disputed(f, r, begun) => ~Representable(row.offset)
    <3>1. CASE p = Nil
      BY <1>2, <1>5, <3>1 DEF Disputed
    <3>2. CASE p # Nil
      <4>1. p.completed \in Nat
        BY <1>3, <3>2, RowFields
      <4> QED  BY <1>1, <1>2, <1>5, <3>2, <4>1 DEF Disputed
    <3> QED  BY <3>1, <3>2
  <2> QED  BY <2>1, <2>2
<1> HIDE DEF n, q, p, row
<1> QED  BY <1>7, <1>8, <1>9, <1>10, <1>11 DEF n, q, p, row

LEMMA SavedRows ==
    ASSUME CreditTypeOK, LedgerTypeOK, WatchTypeOK, NEW f \in Forces, Saved(f),
           event.kind \in {"configured", "merged"}, NEW begun,
           event.kind = "merged" => \A r \in Overlaps : record[f][r].included = Included(r)
    PROVE  /\ ~Refuses(f, begun) => /\ Explains(f, NewRecords(f, begun))
                                    /\ Honours(f, NewRecords(f, begun))
                                    /\ \A r \in Recipes : earned[f][r] <= native[f].done
           /\ Refuses(f, begun) => foul \/ ~Representable(native[f].done)
<1> DEFINE n    == native[f].done
           q    == native[f].queued
           rows == NewRecords(f, begun)
<1>1. /\ n \in Nat /\ q \in Nat
      /\ config.listed \subseteq Family /\ Family \subseteq Recipes
      /\ Overlaps \subseteq Recipes /\ Family \cap Overlaps = {}
  BY NativeFields, ConfigFields, CreditAssumption DEF Recipes
<1>2. /\ ~Fresh /\ Prior(f) = record[f] /\ Past(f) = history[f] /\ history[f] # Nil
      /\ foul \/ history[f] \subseteq config.listed
      /\ \A r \in Recipes : record[f][r] = Nil <=> r \in Family \ history[f]
  BY DEF Saved, Fresh, Prior, Past
<1>3. ASSUME NEW r \in Recipes
      PROVE  earned[f][r] = Explained(f, r)
  <2>1. ~Awaits("finished", f) /\ SeenDone(f) = n
    BY <1>1 DEF SeenDone, Awaits
  <2>2. earned[f][r] = Explained(f, r) + 0
    BY <2>1 DEF Saved, Backed
  <2>3. record[f][r] # Nil => record[f][r] \in Records
    BY DEF LedgerTypeOK, Priors
  <2>4. Explained(f, r) \in Int
    <3>1. CASE record[f][r] = Nil
      BY <3>1 DEF Explained
    <3>2. CASE record[f][r] # Nil
      BY <1>1, <2>1, <2>3, <3>2, RowFields, PaidTimes DEF Explained
    <3> QED  BY <3>1, <3>2
  <2> QED  BY <2>2, <2>4
<1>4. \A r \in Recipes : Explained(f, r) = IF record[f][r] = Nil THEN 0
                           ELSE record[f][r].offset + Paid(record[f][r].included) * n
  <2>1. SeenDone(f) = n
    BY <1>1 DEF SeenDone, Awaits
  <2> QED  BY <2>1 DEF Explained
<1>5. ASSUME ~Refuses(f, begun) PROVE Explains(f, rows)
  <2> SUFFICES ASSUME NEW r \in Recipes
               PROVE  earned[f][r] = IF rows[r] = Nil THEN 0
                        ELSE rows[r].offset + Paid(rows[r].included) * n
    BY DEF Explains
  <2>1. CASE r \in Family \ config.listed
    <3>1. rows[r] = Nil
      BY <2>1, RowsAre
    <3>2. CASE record[f][r] = Nil
      BY <1>3, <1>4, <3>1, <3>2
    <3>3. CASE record[f][r] # Nil
      <4>1. r \in Past(f) \ config.listed
        BY <1>2, <2>1, <3>3
      <4>2. ~Unretirable(f, r, begun)
        BY <1>2, <1>5, <4>1 DEF Refuses
      <4>3. record[f][r].offset = 0 /\ ~(record[f][r].included /\ n > 0)
        BY <1>2, <4>2 DEF Unretirable
      <4>4. Paid(record[f][r].included) * n = 0
        <5>1. record[f][r].included \in BOOLEAN
          BY <3>3, RowFields DEF LedgerTypeOK, Priors
        <5> HIDE DEF n
        <5> QED  BY <1>1, <4>3, <5>1 DEF Paid
      <4> QED  BY <1>3, <1>4, <3>1, <3>3, <4>3, <4>4
    <3> QED  BY <3>2, <3>3
  <2>2. CASE r \in config.listed
    BY <2>2, RowsAre, RowIs, SavedRow
  <2>3. CASE r \in Overlaps
    <3>1. record[f][r] # Nil /\ r \notin Family
      BY <1>1, <1>2, <2>3
    <3>2. native[f].credit[r] = record[f][r].offset
      BY <3>1 DEF Saved
    <3>3. event.kind # "configured" => record[f][r].included = Included(r)
      BY <2>3
    <3>4. rows[r] = Overlap(f, r) /\ rows[r] # Nil
      BY <2>3, RowsAre, OverlapIs
    <3>5. rows[r].offset + Paid(rows[r].included) * n
            = record[f][r].offset + Paid(record[f][r].included) * n
      BY <2>3, <3>1, <3>2, <3>3, <3>4, OverlapIs
    <3> QED  BY <1>3, <1>4, <3>1, <3>4, <3>5
  <2> QED  BY <2>1, <2>2, <2>3 DEF Recipes
<1>6. Honours(f, rows)
  <2> SUFFICES ASSUME config.private, q > 0, NEW r \in Family
               PROVE  IF r \notin config.listed THEN promise[f][r] # TRUE
                      ELSE IF rows[r].pending > 0
                      THEN promise[f][r] = rows[r].payable /\ rows[r].pending >= q
                      ELSE promise[f][r] = Nil
    BY DEF Honours
  <2> DEFINE p == record[f][r]
  <2>1. CASE r \notin config.listed
    BY <2>1 DEF Saved
  <2>2. CASE r \in config.listed
    <3>1. rows[r] = Row(f, r, begun)
      BY <2>2, RowsAre
    <3>2. IF p = Nil THEN promise[f][r] = Nil
          ELSE IF ~p.private THEN promise[f][r] = p.included
          ELSE IF p.pending > 0 THEN promise[f][r] = p.payable /\ p.pending >= q
          ELSE promise[f][r] = Nil
      BY <2>2 DEF Saved
    <3>3. CASE p = Nil
      <4>1. ~(rows[r].pending > 0) /\ promise[f][r] = Nil
        BY <2>2, <3>1, <3>2, <3>3, SavedRow
      <4> QED  BY <2>2, <4>1
    <3>4. CASE p # Nil /\ ~p.private
      <4>1. rows[r].pending = q /\ promise[f][r] = p.included
            /\ (rows[r].pending > 0 => rows[r].payable = p.included)
        BY <2>2, <3>1, <3>2, <3>4, SavedRow
      <4>2. rows[r].pending > 0 /\ rows[r].pending >= q
        BY <1>1, <4>1
      <4>3. promise[f][r] = rows[r].payable
        BY <4>1, <4>2
      <4> QED  BY <2>2, <4>2, <4>3
    <3>5. CASE p # Nil /\ p.private
      <4>1. rows[r].pending = Least(p.pending, q)
            /\ (rows[r].pending > 0 => p.pending > 0 /\ rows[r].payable = p.payable)
        BY <2>2, <3>1, <3>5, SavedRow
      <4>2. p.pending \in Nat
        BY <3>5, RowFields, <1>1 DEF LedgerTypeOK, Priors
      <4>3. CASE p.pending > 0
        <5>1. promise[f][r] = p.payable /\ p.pending >= q
          BY <3>2, <3>5, <4>3
        <5>2. rows[r].pending = q
          BY <1>1, <4>1, <4>2, <5>1 DEF Least
        <5>3. rows[r].pending > 0 /\ rows[r].pending >= q
          BY <1>1, <5>2
        <5>4. promise[f][r] = rows[r].payable
          BY <4>1, <5>1, <5>3
        <5> QED  BY <2>2, <5>3, <5>4
      <4>4. CASE ~(p.pending > 0)
        <5>1. promise[f][r] = Nil /\ ~(rows[r].pending > 0)
          BY <1>1, <3>2, <3>5, <4>1, <4>4
        <5> QED  BY <2>2, <5>1
      <4> QED  BY <4>3, <4>4
    <3> QED  BY <3>3, <3>4, <3>5
  <2> QED  BY <2>1, <2>2
<1>7. \A r \in Recipes : earned[f][r] <= n
  BY DEF Saved, Backed
<1>8. ASSUME Refuses(f, begun) PROVE foul \/ ~Representable(n)
  <2>1. CASE \E r \in Past(f) \ config.listed : Unretirable(f, r, begun)
    BY <1>2, <2>1
  <2>2. CASE \E r \in config.listed : Disputed(f, r, begun)
    BY <2>2, SavedRow
  <2> QED  BY <1>2, <1>8, <2>1, <2>2 DEF Refuses
<1> HIDE DEF rows, n, q
<1> QED  BY <1>5, <1>6, <1>7, <1>8 DEF rows, n, q
-----------------------------------------------------------------------------
(* What a force that is kept keeps                                             *)

(* What the flag says of the ledger, for a kept force.                         *)
LEMMA KeptFields ==
    ASSUME CreditTypeOK, LedgerTypeOK, WatchTypeOK, NEW f \in Forces, Kept(f), NEW r \in Recipes
    PROVE  LET p == record[f][r]
           IN  /\ p = Nil => r \in Family /\ r \notin config.listed /\ native[f].credit[r] = 0
               /\ p # Nil =>
                    /\ p \in Records /\ (r \in Family => r \in config.listed)
                    /\ p.offset = native[f].credit[r] /\ p.included = Included(r)
                    /\ r \in Family => p.private = config.private
                    /\ ~p.private => p.pending = 0
                    /\ p.pending = 0 => p.payable = p.included
<1>1. /\ config.listed \subseteq Family /\ Family \cap Overlaps = {}
      /\ r \in Family \/ r \in Overlaps
  BY ConfigFields, CreditAssumption DEF Recipes
<1>2. record[f][r] # Nil => record[f][r] \in Records
  BY DEF LedgerTypeOK, Priors
<1> QED  BY <1>1, <1>2 DEF Kept, Recorded

LEMMA KeptOwed ==
    ASSUME CreditTypeOK, LedgerTypeOK, WatchTypeOK, Following, NEW f \in Forces, Kept(f),
           NEW r \in config.listed, record[f][r].pending > 0,
           record[f][r].payable # record[f][r].included
    PROVE  pendingActive /\ record[f][r].completed = SeenDone(f)
<1>1. r \in Recipes /\ r \in Family
  BY ConfigFields DEF Recipes
<1>2. record[f][r] # Nil /\ record[f][r] \in Records
  BY <1>1, KeptFields
<1>3. record[f][r].private
  <2>1. ~(record[f][r].pending = 0)
    BY <1>2, RowFields
  <2> QED  BY <1>1, <1>2, <2>1, KeptFields
<1>4. PendingIn(record, config.listed)
  BY <1>2, <1>3 DEF PendingIn
<1>5. pendingActive
  BY <1>4 DEF Following
<1> QED  BY <1>5 DEF Kept, Counted

LEMMA KeptIsSaved ==
    ASSUME CreditTypeOK, LedgerTypeOK, WatchTypeOK, Following, NEW f \in Forces, Kept(f),
           ~Awaits("finished", f), ~Awaits("cancelled", f)
    PROVE  Saved(f)
<1>1. SeenDone(f) = native[f].done /\ SeenQueued(f) = native[f].queued
  BY NativeFields DEF SeenDone, SeenQueued
<1>2. history[f] = config.listed /\ history[f] # Nil
  BY ConfigFields, NilAssumption DEF Kept, Recorded
<1>3. ASSUME NEW r \in Recipes
      PROVE  LET p == record[f][r]
             IN  /\ native[f].credit[r] = IF p = Nil \/ r \in Family \ config.listed THEN 0 ELSE p.offset
                 /\ p = Nil <=> r \in Family \ history[f]
                 /\ (p # Nil /\ r \in Family) =>
                      /\ p.completed <= native[f].done
                      /\ ~p.private => p.pending = 0
                      /\ p.pending = 0 => p.payable = p.included
                      /\ p.pending > 0 /\ p.payable # p.included => p.completed = native[f].done
  <2>1. CASE record[f][r] = Nil
    BY <1>2, <2>1, KeptFields
  <2>2. CASE record[f][r] # Nil
    <3>1. r \in Family => r \in config.listed /\ record[f][r].completed <= native[f].done
      BY <1>1, <2>2, KeptFields DEF Kept, Counted
    <3> QED  BY <1>1, <1>2, <2>2, <3>1, KeptFields, KeptOwed
  <2> QED  BY <2>1, <2>2
<1>4. ASSUME config.private, native[f].queued > 0, NEW r \in Family
      PROVE  LET p == record[f][r]
             IN  IF r \notin config.listed THEN promise[f][r] # TRUE
                 ELSE IF p = Nil THEN promise[f][r] = Nil
                 ELSE IF ~p.private THEN promise[f][r] = p.included
                 ELSE IF p.pending > 0
                 THEN promise[f][r] = p.payable /\ p.pending >= native[f].queued
                 ELSE promise[f][r] = Nil
  <2>1. CASE r \notin config.listed
    BY <1>1, <1>4, <2>1 DEF Kept, Promising
  <2>2. CASE r \in config.listed
    <3>1. record[f][r] # Nil /\ record[f][r].private
      BY <1>4, <2>2, KeptFields DEF Recipes
    <3>2. IF record[f][r].pending > 0
          THEN promise[f][r] = record[f][r].payable /\ record[f][r].pending >= native[f].queued
          ELSE promise[f][r] = Nil
      BY <1>1, <1>4, <2>2 DEF Kept, Promising
    <3> QED  BY <2>2, <3>1, <3>2
  <2> QED  BY <2>1, <2>2
<1> QED  BY <1>2, <1>3, <1>4 DEF Saved, Kept

(* The ledger and carriers of f after a transition that explains what it       *)
(* earned.                                                                     *)
LEMMA RowsKept ==
    ASSUME CreditTypeOK, LedgerTypeOK, WatchTypeOK, NEW f \in Forces, NEW begun,
           Explains(f, NewRecords(f, begun)), Honours(f, NewRecords(f, begun)),
           \A r \in Recipes : earned[f][r] <= native[f].done,
           record'[f] = NewRecords(f, begun), history'[f] = config.listed,
           native'[f] = Carried(f, NewRecords(f, begun)),
           event' = NoEvent, UNCHANGED <<config, earned, promise>>
    PROVE  Kept(f)'
<1> DEFINE rows == NewRecords(f, begun)
<1>1. /\ ~Awaits("finished", f)' /\ ~Awaits("cancelled", f)'
  BY DEF Awaits, NoEvent
<1>2. /\ native'[f].done = native[f].done /\ native'[f].queued = native[f].queued
      /\ \A r \in Recipes : native'[f].credit[r] = IF rows[r] = Nil THEN 0 ELSE rows[r].offset
      /\ native[f].done \in Nat /\ native[f].queued \in Nat
  <2>1. native[f] \in Natives
    BY NativeFields
  <2> HIDE DEF rows
  <2>2. native'[f] = [native[f] EXCEPT !.credit = [r \in Recipes |-> IF rows[r] = Nil THEN 0 ELSE rows[r].offset]]
    BY DEF Carried, rows
  <2> QED  BY <2>1, <2>2, NativeFields DEF Natives
<1>3. SeenDone(f)' = native[f].done /\ SeenQueued(f)' = native[f].queued
  BY <1>1, <1>2 DEF SeenDone, SeenQueued
<1>4. \A r \in Family \ config.listed : rows[r] = Nil
  BY RowsAre
<1>5. ASSUME NEW r \in config.listed
      PROVE  /\ rows[r] # Nil /\ rows[r] \in Records
             /\ rows[r].included = Included(r) /\ rows[r].private = config.private
             /\ rows[r].completed = native[f].done
             /\ ~rows[r].private => rows[r].pending = 0
             /\ rows[r].pending = 0 => rows[r].payable = rows[r].included
  <2>1. rows[r] = Row(f, r, begun)
    BY RowsAre
  <2> HIDE DEF rows
  <2> QED  BY <2>1, RowIs
<1>6. ASSUME NEW r \in Overlaps
      PROVE  /\ rows[r] # Nil /\ rows[r] \in Records
             /\ rows[r].included = Included(r)
             /\ rows[r].pending = 0 /\ rows[r].payable = rows[r].included
  <2>1. rows[r] = Overlap(f, r)
    BY RowsAre
  <2> HIDE DEF rows
  <2> QED  BY <2>1, OverlapIs
<1>7. /\ config.listed \subseteq Family /\ Family \cap Overlaps = {}
      /\ \A r : Included(r)' = Included(r)
  BY ConfigFields, CreditAssumption DEF Included
<1>8. record'[f] = rows
  OBVIOUS
<1> HIDE DEF rows
<1>9. Recorded(f)'
  BY <1>2, <1>4, <1>5, <1>6, <1>7, <1>8 DEF Recorded, Recipes
<1>10. Backed(f)'
  <2> SUFFICES ASSUME NEW r \in Recipes
               PROVE  earned'[f][r] = Explained(f, r)' + 0 /\ earned'[f][r] <= native'[f].done
    BY <1>1 DEF Backed
  <2>1. earned[f][r] \in Nat /\ Explained(f, r)' = earned[f][r]
    BY <1>3, <1>8 DEF Explained, Explains, WatchTypeOK, rows
  <2> QED  BY <1>2, <2>1
<1>11. Promising(f)'
  BY <1>3, <1>8 DEF Promising, Honours, rows
<1>12. Counted(f)'
  BY <1>2, <1>3, <1>5, <1>8 DEF Counted
<1> QED  BY <1>9, <1>10, <1>11, <1>12 DEF Kept

(* A force that a step leaves alone stays kept, unless it raises the flag.     *)
LEMMA KeptFrame ==
    ASSUME NEW f \in Forces, Kept(f), config' = config, pendingActive' => pendingActive,
           native'[f] = native[f], record'[f] = record[f], history'[f] = history[f],
           earned'[f] = earned[f], promise'[f] = promise[f],
           ~Awaits("finished", f), ~Awaits("finished", f)',
           ~Awaits("cancelled", f), ~Awaits("cancelled", f)'
    PROVE  Kept(f)'
<1>1. \A r : Included(r)' = Included(r)
  BY DEF Included
<1>2. SeenDone(f)' = SeenDone(f) /\ SeenQueued(f)' = SeenQueued(f)
  BY DEF SeenDone, SeenQueued
<1>3. \A r \in Recipes : Explained(f, r)' = Explained(f, r)
  BY <1>2 DEF Explained
<1>4. Recorded(f)'
  BY <1>1 DEF Kept, Recorded
<1>5. Backed(f)'
  BY <1>3 DEF Kept, Backed
<1>6. Promising(f)'
  BY <1>2 DEF Kept, Promising
<1>7. Counted(f)'
  BY <1>2 DEF Kept, Counted
<1> QED  BY <1>4, <1>5, <1>6, <1>7 DEF Kept
-----------------------------------------------------------------------------
(* The handlers that reconcile forces                                          *)

LEMMA WrittenTypes ==
    ASSUME CreditTypeOK, LedgerTypeOK, WatchTypeOK, NEW F \in SUBSET Forces, NEW gone, NEW begun,
           \A f \in F : ~Refuses(f, begun), Written(F, gone, begun), event' = NoEvent,
           UNCHANGED <<earned, promise, foul>>
    PROVE  CreditTypeOK' /\ LedgerTypeOK' /\ WatchTypeOK' /\ Following'
<1>1. /\ record' = [f \in Forces |-> IF f \in F THEN NewRecords(f, begun)
                                     ELSE IF f \in gone THEN Blank ELSE record[f]]
      /\ history' = [f \in Forces |-> IF f \in F THEN config.listed
                                      ELSE IF f \in gone THEN Nil ELSE history[f]]
      /\ native' = [f \in Forces |-> IF f \in F THEN Carried(f, NewRecords(f, begun)) ELSE native[f]]
      /\ pendingActive' = PendingIn(record', config.listed)
      /\ alive' = alive /\ config' = config /\ refused' = refused
  BY DEF Written
<1>2. record' \in [Forces -> Priors]
  <2> SUFFICES ASSUME NEW f \in Forces
               PROVE  (IF f \in F THEN NewRecords(f, begun)
                       ELSE IF f \in gone THEN Blank ELSE record[f]) \in Priors
    BY <1>1
  <2>1. NewRecords(f, begun) \in Priors /\ Blank \in Priors /\ record[f] \in Priors
    BY RowsAre, BlankPrior DEF LedgerTypeOK
  <2> QED  BY <2>1
<1>3. history' \in [Forces -> Pasts]
  <2>1. config.listed \in Pasts /\ Nil \in Pasts
    BY ConfigFields, BlankPrior DEF Pasts
  <2> HIDE DEF Pasts
  <2> QED  BY <1>1, <2>1 DEF LedgerTypeOK
<1>4. ASSUME NEW f \in Forces, NEW r \in Recipes, record'[f][r] # Nil
      PROVE  /\ record'[f][r] \in Records
             /\ r \in Family => record'[f][r].offset \in 1 - Limit .. Limit - 1
  <2>1. record'[f][r] \in Records
    BY <1>2, <1>4 DEF Priors
  <2>2. ASSUME r \in Family PROVE record'[f][r].offset \in 1 - Limit .. Limit - 1
    <3>1. CASE f \in F
      <4>1. record'[f] = NewRecords(f, begun)
        BY <1>1, <3>1
      <4>2. r \in config.listed
        BY <1>4, <2>2, <4>1, RowsAre
      <4>3. record'[f][r] = Row(f, r, begun)
        BY <4>1, <4>2, RowsAre
      <4>4. Representable(Row(f, r, begun).offset)
        BY <3>1, <4>2 DEF Refuses, Disputed
      <4>5. Row(f, r, begun).offset \in Int
        BY <4>2, RowIs, RowFields
      <4> QED  BY <4>3, <4>4, <4>5, CreditAssumption DEF Representable
    <3>2. CASE f \notin F
      <4>1. record'[f] = record[f]
        BY <1>1, <1>4, <3>2, BlankPrior
      <4> QED  BY <1>4, <2>2, <4>1 DEF CreditTypeOK
    <3> QED  BY <3>1, <3>2
  <2> QED  BY <2>1, <2>2
<1>5. native' \in [Forces -> Natives]
  <2> SUFFICES ASSUME NEW f \in Forces
               PROVE  (IF f \in F THEN Carried(f, NewRecords(f, begun)) ELSE native[f]) \in Natives
    BY <1>1
  <2> DEFINE rows == NewRecords(f, begun)
             credit == [r \in Recipes |-> IF rows[r] = Nil THEN 0 ELSE rows[r].offset]
  <2>1. native[f] \in Natives
    BY NativeFields
  <2>2. rows \in Priors
    BY RowsAre
  <2>3. credit \in [Recipes -> Int]
    <3> HIDE DEF rows
    <3> SUFFICES ASSUME NEW r \in Recipes
                 PROVE  (IF rows[r] = Nil THEN 0 ELSE rows[r].offset) \in Int
      OBVIOUS
    <3>1. rows[r] # Nil => rows[r] \in Records
      BY <2>2 DEF Priors
    <3> QED  BY <3>1, RowFields
  <2>4. Carried(f, rows) = [native[f] EXCEPT !.credit = credit]
    BY DEF Carried
  <2> HIDE DEF rows, credit
  <2>5. Carried(f, rows) \in Natives
    BY <2>1, <2>3, <2>4 DEF Natives
  <2> QED  BY <2>1, <2>5 DEF rows
<1>6. pendingActive' \in BOOLEAN
  BY <1>1 DEF PendingIn
<1>7. CreditTypeOK'
  <2>1. \A f \in Forces : history'[f] # Nil => history'[f] \subseteq Family
    BY <1>3 DEF Pasts
  <2> QED  BY <1>1, <1>4, <1>5, <1>6, <2>1 DEF CreditTypeOK
<1>8. LedgerTypeOK'
  BY <1>2, <1>3 DEF LedgerTypeOK, NoEvent
<1>9. WatchTypeOK'
  BY DEF WatchTypeOK
<1>10. Following'
  BY <1>1 DEF Following, PendingIn
<1> QED  BY <1>7, <1>8, <1>9, <1>10

(* A refusal leaves the forces as they are.                                    *)
LEMMA RefusedKeeps ==
    ASSUME CreditTypeOK, LedgerTypeOK, WatchTypeOK, Refused, event' = NoEvent,
           foul \/ \E f \in Forces : ~Representable(native[f].done),
           UNCHANGED <<earned, promise, foul>>
    PROVE  IInv'
<1>1. CreditTypeOK' /\ WatchTypeOK' /\ LedgerTypeOK' /\ refused'
  BY DEF CreditTypeOK, WatchTypeOK, LedgerTypeOK, Refused, NoEvent
<1>2. RefusedForCause'
  BY DEF RefusedForCause, Refused
<1> QED  BY <1>1, <1>2 DEF IInv

LEMMA ReconcileKeeps ==
    ASSUME CreditTypeOK, LedgerTypeOK, WatchTypeOK, ~refused, Following,
           NEW F \in SUBSET Forces, NEW gone, Reconcile(F, gone), event' = NoEvent,
           UNCHANGED <<earned, promise, foul>>,
           \A f \in F, begun \in BOOLEAN :
             /\ ~Refuses(f, begun) => /\ Explains(f, NewRecords(f, begun))
                                      /\ Honours(f, NewRecords(f, begun))
                                      /\ \A r \in Recipes : earned[f][r] <= native[f].done
             /\ Refuses(f, begun) => foul \/ ~Representable(native[f].done),
           \A g \in alive \ F : /\ Kept(g) /\ g \notin gone
                                /\ ~Awaits("finished", g) /\ ~Awaits("cancelled", g),
           alive \ F # {} =>
             \A f \in F, begun \in BOOLEAN, r \in config.listed :
               Row(f, r, begun).pending > 0 =>
                 pendingActive \/ Row(f, r, begun).payable = Row(f, r, begun).included
    PROVE  IInv'
<1>1. PICK begun \in BOOLEAN :
         IF \E f \in F : Refuses(f, begun) THEN Refused ELSE Written(F, gone, begun)
  BY DEF Reconcile
<1>2. CASE \E f \in F : Refuses(f, begun)
  BY <1>1, <1>2, RefusedKeeps
<1>3. CASE ~ \E f \in F : Refuses(f, begun)
  <2>1. Written(F, gone, begun) /\ \A f \in F : ~Refuses(f, begun)
    BY <1>1, <1>3
  <2>2. /\ record' = [f \in Forces |-> IF f \in F THEN NewRecords(f, begun)
                                       ELSE IF f \in gone THEN Blank ELSE record[f]]
        /\ history' = [f \in Forces |-> IF f \in F THEN config.listed
                                        ELSE IF f \in gone THEN Nil ELSE history[f]]
        /\ native' = [f \in Forces |-> IF f \in F THEN Carried(f, NewRecords(f, begun)) ELSE native[f]]
        /\ pendingActive' = PendingIn(record', config.listed)
        /\ alive' = alive /\ config' = config /\ refused' = refused
    BY <2>1 DEF Written
  <2>3. CreditTypeOK' /\ LedgerTypeOK' /\ WatchTypeOK' /\ Following'
    BY <2>1, WrittenTypes
  <2>4. ASSUME alive \ F # {}, pendingActive' PROVE pendingActive
    <3>1. PICK f \in Forces, r \in config.listed :
             LET p == record'[f][r] IN p # Nil /\ p.private /\ p.pending > 0 /\ p.payable # p.included
      BY <2>2, <2>4 DEF PendingIn
    <3>2. CASE f \in F
      <4>1. record'[f][r] = Row(f, r, begun)
        BY <2>2, <3>2, RowsAre
      <4> QED  BY <2>4, <3>1, <3>2, <4>1
    <3>3. CASE f \notin F
      <4>1. r \in Recipes
        BY ConfigFields DEF Recipes
      <4>2. record'[f] = record[f]
        BY <2>2, <3>1, <3>3, <4>1, BlankPrior
      <4> QED  BY <3>1, <4>2 DEF Following, PendingIn
    <3> QED  BY <3>2, <3>3
  <2>5. ASSUME NEW g \in alive PROVE Kept(g)'
    <3>0. g \in Forces
      BY DEF CreditTypeOK
    <3>1. CASE g \in F
      <4>1. /\ record'[g] = NewRecords(g, begun) /\ history'[g] = config.listed
            /\ native'[g] = Carried(g, NewRecords(g, begun))
        BY <2>2, <3>1
      <4> QED  BY <2>1, <2>2, <3>0, <3>1, <4>1, RowsKept
    <3>2. CASE g \notin F
      <4>1. record'[g] = record[g] /\ history'[g] = history[g] /\ native'[g] = native[g]
        BY <2>2, <3>0, <3>2
      <4>2. ~Awaits("finished", g)' /\ ~Awaits("cancelled", g)'
        BY DEF Awaits, NoEvent
      <4>3. pendingActive' => pendingActive
        BY <2>4, <3>2
      <4> QED  BY <2>2, <3>0, <3>2, <4>1, <4>2, <4>3, KeptFrame
    <3> QED  BY <3>1, <3>2
  <2>6. Due'
    <3>1. event'.kind = "none"
      BY DEF NoEvent
    <3> QED  BY <2>2, <2>5, <3>1 DEF Due
  <2>7. RefusedForCause'
    BY <2>2 DEF RefusedForCause
  <2> QED  BY <2>3, <2>6, <2>7 DEF IInv
<1> QED  BY <1>2, <1>3

LEMMA InitKeeps ==
    ASSUME IInv, OnInit, UNCHANGED <<earned, promise, foul>>
    PROVE  IInv'
<1>1. /\ event.kind = "init" /\ event' = NoEvent /\ Reconcile(alive, {}) /\ ~refused
      /\ CreditTypeOK /\ LedgerTypeOK /\ WatchTypeOK /\ Following
      /\ \A g \in alive : Begun(g)
  BY DEF IInv, OnInit, Takes, Due
<1>2. alive \in SUBSET Forces /\ Fresh
  BY <1>1 DEF CreditTypeOK, Fresh
<1>3. ASSUME NEW f \in alive
      PROVE  \A r \in Recipes : earned[f][r] <= native[f].done
  BY <1>1 DEF Begun, Unpaid
<1> QED  BY <1>1, <1>2, <1>3, BegunRows, ReconcileKeeps

LEMMA ConfigurationKeeps ==
    ASSUME IInv, OnConfigurationChanged, UNCHANGED <<earned, promise, foul>>
    PROVE  IInv'
<1>1. /\ event.kind = "configured" /\ event' = NoEvent /\ Reconcile(alive, {}) /\ ~refused
      /\ CreditTypeOK /\ LedgerTypeOK /\ WatchTypeOK /\ Following
      /\ (\A g \in alive : Unexplained(g)) \/ \A g \in alive : Saved(g)
  BY DEF IInv, OnConfigurationChanged, Takes, Due
<1>2. alive \in SUBSET Forces
  BY <1>1 DEF CreditTypeOK
<1>3. ASSUME NEW f \in alive, NEW begun \in BOOLEAN
      PROVE  /\ ~Refuses(f, begun) => /\ Explains(f, NewRecords(f, begun))
                                      /\ Honours(f, NewRecords(f, begun))
                                      /\ \A r \in Recipes : earned[f][r] <= native[f].done
             /\ Refuses(f, begun) => foul \/ ~Representable(native[f].done)
  BY <1>1, <1>2, FirstRows, SavedRows
<1> QED  BY <1>1, <1>2, <1>3, ReconcileKeeps

LEMMA StartedKeeps ==
    ASSUME IInv, OnForceStarted, UNCHANGED <<earned, promise, foul>>
    PROVE  IInv'
<1> DEFINE f == event.force
<1>1. /\ event.kind = "started" /\ event' = NoEvent /\ Reconcile({f}, {}) /\ ~refused
      /\ CreditTypeOK /\ LedgerTypeOK /\ WatchTypeOK /\ Following
      /\ f \in alive /\ Begun(f) /\ \A g \in alive \ {f} : Kept(g)
  BY DEF IInv, OnForceStarted, Takes, Due
<1>2. {f} \in SUBSET Forces /\ Fresh
  BY <1>1 DEF CreditTypeOK, Fresh
<1>3. \A r \in Recipes : earned[f][r] <= native[f].done
  BY <1>1 DEF Begun, Unpaid
<1>4. ASSUME NEW begun \in BOOLEAN, NEW r \in config.listed
      PROVE  ~(Row(f, r, begun).pending > 0)
  <2>1. r \in Recipes
    BY <1>1, ConfigFields DEF Recipes
  <2>2. Pending(f, r) = 0
    BY <1>1, <1>2, <2>1, BlankPrior DEF Pending, Prior, Past, Begun, Unpaid
  <2>3. Row(f, r, begun).pending = 0
    BY <1>1, <1>2, <2>2, RowIs
  <2> QED  BY <2>3
<1>5. \A g \in alive \ {f} : ~Awaits("finished", g) /\ ~Awaits("cancelled", g)
  BY <1>1 DEF Awaits
<1> HIDE DEF f
<1> QED  BY <1>1, <1>2, <1>3, <1>4, <1>5, BegunRows, ReconcileKeeps

LEMMA MergedKeeps ==
    ASSUME IInv, OnForcesMerged, UNCHANGED <<earned, promise, foul>>
    PROVE  IInv'
<1> DEFINE f == event.force
<1>1. /\ event.kind = "merged" /\ event' = NoEvent /\ Reconcile({f}, {event.source}) /\ ~refused
      /\ CreditTypeOK /\ LedgerTypeOK /\ WatchTypeOK /\ Following
      /\ f \in alive /\ event.source \notin alive /\ \A g \in alive : Kept(g)
  BY DEF IInv, OnForcesMerged, Takes, Due
<1>2. /\ f \in Forces /\ Kept(f)
      /\ \A g \in alive : ~Awaits("finished", g) /\ ~Awaits("cancelled", g)
  BY <1>1 DEF CreditTypeOK, Awaits
<1>3. Saved(f)
  BY <1>1, <1>2, KeptIsSaved
<1>4. \A r \in Overlaps : record[f][r].included = Included(r)
  BY <1>1, <1>2, CreditAssumption DEF Kept, Recorded, Recipes
<1>5. ASSUME NEW begun \in BOOLEAN, NEW r \in config.listed, Row(f, r, begun).pending > 0
      PROVE  pendingActive \/ Row(f, r, begun).payable = Row(f, r, begun).included
  <2>1. r \in Recipes /\ r \in Family
    BY <1>1, ConfigFields DEF Recipes
  <2>2. record[f][r] # Nil /\ record[f][r].included = Included(r)
    BY <1>1, <1>2, <2>1, KeptFields
  <2>3. Row(f, r, begun).included = Included(r) /\ config.private
    <3>1. Row(f, r, begun).pending = IF config.private THEN Pending(f, r) ELSE 0
      BY <1>1, <1>2, RowIs
    <3>2. config.private \/ Row(f, r, begun).pending = 0
      BY <3>1
    <3> QED  BY <1>1, <1>2, <1>5, <3>2, RowIs
  <2>4. record[f][r].private
    BY <1>1, <1>2, <2>1, <2>2, <2>3, KeptFields
  <2>5. record[f][r].pending > 0 /\ Row(f, r, begun).payable = record[f][r].payable
    BY <1>1, <1>2, <1>3, <1>5, <2>2, <2>3, <2>4, SavedRow
  <2> QED  BY <1>1, <1>2, <2>2, <2>3, <2>5, KeptOwed
<1>6. ASSUME NEW begun \in BOOLEAN
      PROVE  /\ ~Refuses(f, begun) => /\ Explains(f, NewRecords(f, begun))
                                      /\ Honours(f, NewRecords(f, begun))
                                      /\ \A r \in Recipes : earned[f][r] <= native[f].done
             /\ Refuses(f, begun) => foul \/ ~Representable(native[f].done)
  BY <1>1, <1>2, <1>3, <1>4, SavedRows
<1> HIDE DEF f
<1>7. \A g \in alive \ {f} : g \notin {event.source}
  BY <1>1
<1> QED  BY <1>1, <1>2, <1>5, <1>6, <1>7, ReconcileKeeps
-----------------------------------------------------------------------------
(* Completion and cancellation                                                 *)

(* What MIR has yet to hear of a completion on f.                              *)
LEMMA FinishedFields ==
    ASSUME IInv, ~refused, event.kind = "finished", NEW f \in Forces, event.force = f
    PROVE  /\ CreditTypeOK /\ LedgerTypeOK /\ WatchTypeOK /\ Following /\ Kept(f) /\ f \in alive
           /\ Awaits("finished", f) /\ ~Awaits("cancelled", f)
           /\ SeenDone(f) = native[f].done - 1 /\ SeenQueued(f) = native[f].queued + 1
           /\ native[f].done \in Nat /\ native[f].queued \in Nat
           /\ \A r \in config.listed : record[f][r].pending > 0 => record[f][r].private /\ config.private
           /\ \A r \in Recipes : record[f][r] # Nil =>
                Pays(f, r) = IF r \in config.listed /\ record[f][r].pending > 0
                             THEN record[f][r].payable ELSE Included(r)
           /\ \A r \in Recipes : record[f][r] = Nil => ~Pays(f, r)
<1>1. /\ CreditTypeOK /\ LedgerTypeOK /\ WatchTypeOK /\ Following /\ Kept(f) /\ f \in alive
  BY DEF IInv, Due
<1>2. /\ Awaits("finished", f) /\ ~Awaits("cancelled", f)
      /\ SeenDone(f) = native[f].done - 1 /\ SeenQueued(f) = native[f].queued + 1
      /\ native[f].done \in Nat /\ native[f].queued \in Nat
  BY <1>1, NativeFields DEF Awaits, SeenDone, SeenQueued
<1>3. ASSUME NEW r \in config.listed, record[f][r].pending > 0
      PROVE  record[f][r].private /\ config.private
  <2>1. r \in Recipes /\ r \in Family
    BY <1>1, ConfigFields DEF Recipes
  <2> QED  BY <1>1, <1>3, <2>1, KeptFields
<1>4. config.listed \subseteq Family /\ \A r \in Family : Included(r) => r \in config.listed
  BY <1>1, ConfigFields
<1> DEFINE Waits(r) == IF r \notin config.listed THEN promise[f][r] # TRUE
                       ELSE IF record[f][r].pending > 0
                       THEN promise[f][r] = record[f][r].payable /\ record[f][r].pending >= SeenQueued(f)
                       ELSE promise[f][r] = Nil
<1>5. config.private => \A r \in Family : Waits(r)
  <2>1. SeenQueued(f) > 0
    BY <1>2
  <2> QED  BY <1>1, <2>1 DEF Kept, Promising
<1>6. ASSUME NEW r \in Recipes, record[f][r] # Nil
      PROVE  Pays(f, r) = IF r \in config.listed /\ record[f][r].pending > 0
                          THEN record[f][r].payable ELSE Included(r)
  <2>1. CASE r \in config.listed /\ record[f][r].pending > 0
    <3>1. promise[f][r] = record[f][r].payable /\ r \in Family
      BY <1>3, <1>4, <1>5, <2>1
    <3>2. record[f][r].payable # Nil
      BY <1>1, <1>6, KeptFields, RowFields, NilAssumption
    <3>3. config.private
      BY <1>3, <2>1
    <3> QED  BY <2>1, <3>1, <3>2, <3>3 DEF Pays
  <2>2. CASE ~(r \in config.listed /\ record[f][r].pending > 0)
    <3>1. r \in Family => r \in config.listed
      BY <1>1, <1>6, KeptFields
    <3>2. (config.private /\ r \in Family) => promise[f][r] = Nil
      BY <1>5, <2>2, <3>1
    <3> QED  BY <2>2, <3>2 DEF Pays
  <2> QED  BY <2>1, <2>2
<1>7. ASSUME NEW r \in Recipes, record[f][r] = Nil
      PROVE  ~Pays(f, r)
  <2>1. r \in Family /\ r \notin config.listed
    BY <1>1, <1>7, KeptFields
  <2>2. ~Included(r)
    BY <1>4, <2>1
  <2>3. config.private => promise[f][r] # TRUE /\ promise[f][r] \in BOOLEAN \cup {Nil}
    BY <1>1, <1>5, <2>1 DEF WatchTypeOK
  <2> QED  BY <2>2, <2>3 DEF Pays
<1> QED  BY <1>1, <1>2, <1>3, <1>6, <1>7

(* What f earned, split as its ledger has it.                                  *)
LEMMA FinishedEarned ==
    ASSUME IInv, ~refused, event.kind = "finished", NEW f \in Forces, event.force = f,
           NEW r \in Recipes
    PROVE  /\ earned[f][r] \in Nat /\ earned[f][r] <= native[f].done
           /\ record[f][r] # Nil =>
                earned[f][r] = record[f][r].offset + Paid(Included(r)) * native[f].done
                                 - Paid(Included(r)) + Paid(Pays(f, r))
           /\ record[f][r] = Nil => earned[f][r] = 0
<1> DEFINE n == native[f].done
           p == record[f][r]
<1>1. /\ CreditTypeOK /\ LedgerTypeOK /\ WatchTypeOK /\ Kept(f) /\ Awaits("finished", f)
      /\ SeenDone(f) = n - 1 /\ n \in Nat
  BY FinishedFields
<1>2. earned[f][r] = Explained(f, r) + Paid(Pays(f, r)) /\ earned[f][r] <= n /\ earned[f][r] \in Nat
  BY <1>1 DEF Kept, Backed, WatchTypeOK
<1>3. ASSUME p # Nil
      PROVE  earned[f][r] = p.offset + Paid(Included(r)) * n - Paid(Included(r)) + Paid(Pays(f, r))
  <2>1. p.included = Included(r) /\ p.offset \in Int /\ Included(r) \in BOOLEAN
    BY <1>1, <1>3, KeptFields, RowFields, ConfigFields
  <2>2. Explained(f, r) = p.offset + Paid(Included(r)) * (n - 1)
    BY <1>1, <1>3, <2>1 DEF Explained
  <2>3. Pays(f, r) \in BOOLEAN
    <3>1. p.payable \in BOOLEAN
      BY <1>1, <1>3, KeptFields, RowFields
    <3> QED  BY <1>3, <2>1, <3>1, FinishedFields
  <2>4. Paid(Included(r)) * (n - 1) = Paid(Included(r)) * n - Paid(Included(r))
    BY <1>1, <2>1 DEF Paid
  <2>5. Paid(Pays(f, r)) \in Int /\ Paid(Included(r)) * n \in Int /\ Paid(Included(r)) \in Int
    BY <1>1, <2>1, <2>3 DEF Paid
  <2> HIDE DEF n, p
  <2> QED  BY <1>2, <2>1, <2>2, <2>4, <2>5
<1>4. p = Nil => earned[f][r] = 0
  BY <1>2, FinishedFields DEF Explained, Paid
<1> QED  BY <1>2, <1>3, <1>4

LEMMA CreditedFields ==
    ASSUME CreditTypeOK, NEW f \in Forces, NEW r \in Recipes, NEW p \in Records, p.pending > 0
    PROVE  LET c == Credited(p, f, r)
           IN  /\ c \in Records /\ c # Nil /\ c.included = p.included /\ c.private = p.private
               /\ c.offset = p.offset + Paid(p.payable) - Paid(Included(r))
               /\ c.completed = native[f].done /\ c.pending = p.pending - 1
               /\ c.payable = IF p.pending = 1 THEN p.included ELSE p.payable
<1> DEFINE c == Credited(p, f, r)
           offset == p.offset + Paid(p.payable) - Paid(Included(r))
           payable == IF p.pending = 1 THEN p.included ELSE p.payable
<1>1. /\ p.included \in BOOLEAN /\ p.private \in BOOLEAN /\ p.payable \in BOOLEAN
      /\ p.offset \in Int /\ p.pending \in 0 .. MaxQueue /\ Included(r) \in BOOLEAN
      /\ native[f].done \in 0 .. MaxLevel
  BY RowFields, ConfigFields, NativeFields
<1>2. offset \in Int /\ payable \in BOOLEAN /\ p.pending - 1 \in 0 .. MaxQueue
  BY <1>1, CreditAssumption DEF Paid
<1>3. c = [p EXCEPT !.offset = offset, !.completed = native[f].done,
                    !.pending = p.pending - 1, !.payable = payable]
  BY DEF Credited
<1> HIDE DEF c, offset, payable
<1>4. /\ c \in Records /\ c.included = p.included /\ c.private = p.private /\ c.offset = offset
      /\ c.completed = native[f].done /\ c.pending = p.pending - 1 /\ c.payable = payable
  BY <1>1, <1>2, <1>3 DEF Records
<1> QED  BY <1>4, RowFields DEF c, offset, payable

(* While the flag is down nothing is owed, and a completion counts itself.     *)
LEMMA FinishedUnheard ==
    ASSUME IInv, ~refused, event.kind = "finished", NEW f \in Forces, event.force = f,
           ~pendingActive, event' = NoEvent,
           UNCHANGED <<alive, config, native, record, history, pendingActive, earned, promise>>
    PROVE  Kept(f)'
<1> DEFINE n == native[f].done
<1>1. /\ CreditTypeOK /\ LedgerTypeOK /\ WatchTypeOK /\ Following /\ Kept(f)
      /\ SeenDone(f) = n - 1 /\ SeenQueued(f) = native[f].queued + 1
      /\ n \in Nat /\ native[f].queued \in Nat
  BY FinishedFields
<1>2. /\ ~Awaits("finished", f)' /\ SeenDone(f)' = n /\ SeenQueued(f)' = native[f].queued
      /\ \A r : Included(r)' = Included(r)
  BY <1>1 DEF Awaits, NoEvent, SeenDone, SeenQueued, Included
<1>3. ASSUME NEW r \in config.listed, record[f][r].pending > 0
      PROVE  record[f][r].payable = record[f][r].included
  BY <1>1, <1>3, KeptOwed
<1>4. Recorded(f)'
  BY <1>1, <1>2 DEF Kept, Recorded
<1>5. Backed(f)'
  <2> SUFFICES ASSUME NEW r \in Recipes
               PROVE  earned[f][r] = Explained(f, r)' + 0 /\ earned[f][r] <= n
    BY <1>2 DEF Backed
  <2> DEFINE p == record[f][r]
  <2>1. CASE p = Nil
    BY <1>2, <2>1, FinishedEarned DEF Explained
  <2>2. CASE p # Nil
    <3>1. Pays(f, r) = Included(r)
      <4>1. p.included = Included(r)
        BY <1>1, <2>2, KeptFields
      <4> QED  BY <1>3, <2>2, <4>1, FinishedFields
    <3>2. p.offset \in Int /\ Included(r) \in BOOLEAN /\ p.included = Included(r)
      BY <1>1, <2>2, KeptFields, RowFields, ConfigFields
    <3>3. Paid(Included(r)) * n \in Int /\ Paid(Included(r)) \in Int
      BY <1>1, <3>2 DEF Paid
    <3>4. Explained(f, r)' = p.offset + Paid(Included(r)) * n
      BY <1>2, <2>2, <3>2 DEF Explained
    <3>5. earned[f][r] = p.offset + Paid(Included(r)) * n - Paid(Included(r)) + Paid(Included(r))
      BY <2>2, <3>1, FinishedEarned
    <3> HIDE DEF n, p
    <3>6. earned[f][r] = p.offset + Paid(Included(r)) * n
      BY <3>2, <3>3, <3>5
    <3>7. earned[f][r] <= n /\ earned[f][r] \in Int
      BY FinishedEarned DEF n
    <3> QED  BY <3>4, <3>6, <3>7
  <2> QED  BY <2>1, <2>2
<1>6. Promising(f)'
  <2> SUFFICES ASSUME config.private, native[f].queued > 0, NEW r \in Family
               PROVE  IF r \notin config.listed THEN promise[f][r] # TRUE
                      ELSE IF record[f][r].pending > 0
                      THEN promise[f][r] = record[f][r].payable /\ record[f][r].pending >= native[f].queued
                      ELSE promise[f][r] = Nil
    BY <1>2 DEF Promising
  <2>1. SeenQueued(f) > 0
    BY <1>1
  <2>2. IF r \notin config.listed THEN promise[f][r] # TRUE
        ELSE IF record[f][r].pending > 0
        THEN promise[f][r] = record[f][r].payable /\ record[f][r].pending >= SeenQueued(f)
        ELSE promise[f][r] = Nil
    BY <1>1, <2>1 DEF Kept, Promising
  <2>3. CASE r \in config.listed /\ record[f][r].pending > 0
    <3>1. record[f][r].pending >= native[f].queued
      <4>1. record[f][r] \in Records
        BY <1>1, <2>3, KeptFields DEF Recipes, Kept, Recorded
      <4>2. record[f][r].pending \in Nat
        BY <4>1, RowFields
      <4>3. record[f][r].pending >= SeenQueued(f)
        BY <2>2, <2>3
      <4> QED  BY <1>1, <4>2, <4>3
    <3> QED  BY <2>2, <2>3, <3>1
  <2>4. CASE ~(r \in config.listed /\ record[f][r].pending > 0)
    BY <2>2, <2>4
  <2> QED  BY <2>3, <2>4
<1>7. Counted(f)'
  <2>1. \A r \in config.listed : record[f][r].completed \in Nat
    <3> SUFFICES ASSUME NEW r \in config.listed PROVE record[f][r].completed \in Nat
      OBVIOUS
    <3>1. r \in Recipes /\ r \in Family
      BY <1>1, ConfigFields DEF Recipes
    <3>2. record[f][r] # Nil
      BY <1>1, <3>1, KeptFields
    <3> QED  BY <1>1, <3>1, <3>2, KeptFields, RowFields
  <2> QED  BY <1>1, <1>2, <2>1 DEF Kept, Counted
<1> QED  BY <1>4, <1>5, <1>6, <1>7 DEF Kept

(* While the flag is up the ledger counts what the completion paid.            *)
LEMMA FinishedHeard ==
    ASSUME IInv, ~refused, event.kind = "finished", NEW f \in Forces, event.force = f,
           pendingActive, ~Impossible(f), event' = NoEvent,
           record' = [record EXCEPT ![f] = [r \in Recipes |->
                        IF r \in Advanced(f) THEN Credited(@[r], f, r) ELSE @[r]]],
           native' = [native EXCEPT ![f].credit = [r \in Recipes |->
                        IF r \in Advanced(f) THEN record'[f][r].offset ELSE @[r]]],
           UNCHANGED <<alive, config, history, earned, promise>>
    PROVE  /\ Kept(f)'
           /\ record' \in [Forces -> Priors] /\ native' \in [Forces -> Natives]
           /\ \A r \in Recipes : record'[f][r] # Nil /\ r \in Family =>
                record'[f][r].offset \in 1 - Limit .. Limit - 1
<1> DEFINE n == native[f].done
           q == native[f].queued
           Owed(r) == r \in config.listed /\ record[f][r].pending > 0
<1>1. /\ CreditTypeOK /\ LedgerTypeOK /\ WatchTypeOK /\ Following /\ Kept(f)
      /\ SeenDone(f) = n - 1 /\ SeenQueued(f) = q + 1 /\ n \in Nat /\ q \in Nat
      /\ \A r \in config.listed : record[f][r].pending > 0 => record[f][r].private /\ config.private
  BY FinishedFields
<1>2. /\ config.listed \subseteq Family /\ Family \subseteq Recipes
      /\ \A r : Included(r) \in BOOLEAN /\ Included(r)' = Included(r)
  BY <1>1, ConfigFields DEF Recipes, Included
<1>3. \A r \in Recipes : r \in Advanced(f) <=> Owed(r)
  <2> SUFFICES ASSUME NEW r \in Recipes PROVE r \in Advanced(f) <=> Owed(r)
    OBVIOUS
  <2>1. ASSUME Owed(r)
        PROVE  record[f][r] # Nil /\ record[f][r].private /\ n = record[f][r].completed + 1
    <3>1. record[f][r] # Nil
      BY <1>1, <1>2, <2>1, KeptFields
    <3>2. record[f][r].completed = n - 1 /\ record[f][r].completed \in Nat
      BY <1>1, <2>1, <3>1, KeptFields, RowFields DEF Kept, Counted
    <3> QED  BY <1>1, <2>1, <3>1, <3>2
  <2> QED  BY <2>1 DEF Advanced, Awaiting
<1>4. ASSUME NEW r \in Recipes
      PROVE  /\ Owed(r) => record'[f][r] = Credited(record[f][r], f, r)
             /\ ~Owed(r) => record'[f][r] = record[f][r]
             /\ native'[f].credit[r] = IF Owed(r) THEN record'[f][r].offset ELSE native[f].credit[r]
  <2>1. record'[f] = [s \in Recipes |-> IF s \in Advanced(f) THEN Credited(record[f][s], f, s)
                                        ELSE record[f][s]]
    BY <1>1 DEF LedgerTypeOK
  <2>2. native'[f].credit = [s \in Recipes |-> IF s \in Advanced(f) THEN record'[f][s].offset
                                               ELSE native[f].credit[s]]
    BY <1>1, NativeFields DEF CreditTypeOK, Natives
  <2> QED  BY <1>3, <2>1, <2>2
<1>5. /\ native'[f].done = n /\ native'[f].queued = q
  BY <1>1, NativeFields DEF CreditTypeOK, Natives
<1>6. /\ ~Awaits("finished", f)' /\ SeenDone(f)' = n /\ SeenQueued(f)' = q
  BY <1>1, <1>5 DEF Awaits, NoEvent, SeenDone, SeenQueued
<1>7. ASSUME NEW r \in Recipes, Owed(r)
      PROVE  LET p == record[f][r]
                 c == record'[f][r]
             IN  /\ r \in config.listed /\ config.private /\ p # Nil /\ p \in Records
                 /\ p.private /\ p.pending > 0 /\ p.included = Included(r)
                 /\ c \in Records /\ c # Nil /\ c.included = p.included /\ c.private = p.private
                 /\ c.offset = p.offset + Paid(p.payable) - Paid(Included(r))
                 /\ c.completed = n /\ c.pending = p.pending - 1
                 /\ c.payable = IF p.pending = 1 THEN p.included ELSE p.payable
                 /\ Representable(c.offset)
  <2>1. /\ r \in config.listed /\ record[f][r].pending > 0 /\ record[f][r].private /\ config.private
    BY <1>1, <1>7
  <2>2. record[f][r] # Nil /\ record[f][r] \in Records /\ record[f][r].included = Included(r)
    BY <1>1, <1>2, <2>1, KeptFields
  <2>3. record'[f][r] = Credited(record[f][r], f, r)
    BY <1>4, <1>7
  <2>4. Representable(record[f][r].offset + Paid(record[f][r].payable) - Paid(Included(r)))
    BY <2>1, <2>2 DEF Impossible, Awaiting
  <2> DEFINE p == record[f][r]
             c == Credited(p, f, r)
  <2>5. /\ c \in Records /\ c # Nil /\ c.included = p.included /\ c.private = p.private
        /\ c.offset = p.offset + Paid(p.payable) - Paid(Included(r))
        /\ c.completed = n /\ c.pending = p.pending - 1
        /\ c.payable = IF p.pending = 1 THEN p.included ELSE p.payable
    <3>1. p \in Records /\ p.pending > 0
      BY <2>1, <2>2
    <3> HIDE DEF p, n
    <3> QED  BY <1>1, <3>1, CreditedFields DEF n
  <2> HIDE DEF c
  <2>6. record'[f][r] = c
    BY <2>3 DEF c
  <2> QED  BY <2>1, <2>2, <2>4, <2>5, <2>6
<1>8. ASSUME NEW r \in Recipes, ~Owed(r)
      PROVE  /\ record'[f][r] = record[f][r] /\ native'[f].credit[r] = native[f].credit[r]
             /\ record[f][r] = Nil => r \in Family /\ r \notin config.listed
             /\ r \in config.listed => record[f][r] # Nil /\ record[f][r].pending = 0
  <2>1. record[f][r] = Nil => r \in Family /\ r \notin config.listed
    BY <1>1, KeptFields
  <2>2. ASSUME r \in config.listed PROVE record[f][r] # Nil /\ record[f][r].pending = 0
    <3>1. record[f][r] # Nil /\ record[f][r].pending \in Nat
      BY <1>1, <2>1, <2>2, KeptFields, RowFields
    <3>2. ~(record[f][r].pending > 0)
      BY <1>8, <2>2
    <3> QED  BY <3>1, <3>2
  <2> QED  BY <1>4, <1>8, <2>1, <2>2
<1> HIDE DEF Owed
<1>9. Recorded(f)'
  <2> SUFFICES ASSUME NEW r \in Recipes
               PROVE  LET p == record'[f][r]
                      IN  IF r \in Family \ config.listed THEN p = Nil /\ native'[f].credit[r] = 0
                          ELSE /\ p # Nil /\ p.offset = native'[f].credit[r] /\ p.included = Included(r)
                               /\ r \in Family => p.private = config.private
                               /\ ~p.private => p.pending = 0
                               /\ p.pending = 0 => p.payable = p.included
    BY <1>1, <1>2 DEF Recorded, Kept
  <2>1. CASE Owed(r)
    <3>1. ~(record'[f][r].pending = 0 /\ record[f][r].pending # 1)
      BY <1>7, <2>1, RowFields
    <3>2. record[f][r].private = config.private
      BY <1>1, <1>2, <1>7, <2>1, KeptFields
    <3> QED  BY <1>2, <1>4, <1>7, <2>1, <3>1, <3>2
  <2>2. CASE ~Owed(r)
    BY <1>1, <1>8, <2>2 DEF Kept, Recorded
  <2> QED  BY <2>1, <2>2
<1>10. Backed(f)'
  <2> SUFFICES ASSUME NEW r \in Recipes
               PROVE  earned[f][r] = Explained(f, r)' + 0 /\ earned[f][r] <= n
    BY <1>5, <1>6 DEF Backed
  <2> DEFINE p == record[f][r]
             c == record'[f][r]
  <2>1. CASE p = Nil
    <3>1. ~Owed(r)
      BY <1>7, <2>1
    <3> QED  BY <1>8, <2>1, <3>1, FinishedEarned DEF Explained
  <2>2. CASE p # Nil
    <3>1. /\ c # Nil /\ c.included = Included(r)
          /\ c.offset = p.offset - Paid(Included(r)) + Paid(Pays(f, r))
      <4>1. p.included = Included(r) /\ p.offset \in Int /\ p.payable \in BOOLEAN
        BY <1>1, <2>2, KeptFields, RowFields
      <4>2. Paid(p.payable) \in Int /\ Paid(Included(r)) \in Int
        BY <1>2, <4>1 DEF Paid
      <4>3. CASE Owed(r)
        <5>1. Pays(f, r) = p.payable
          BY <1>7, <4>3, FinishedFields
        <5>2. c # Nil /\ c.included = Included(r)
              /\ c.offset = p.offset + Paid(p.payable) - Paid(Included(r))
          BY <1>7, <4>3
        <5> HIDE DEF c, p
        <5> QED  BY <4>1, <4>2, <5>1, <5>2
      <4>4. CASE ~Owed(r)
        <5>1. Pays(f, r) = Included(r)
          BY <2>2, <4>4, FinishedFields DEF Owed
        <5>2. c = p
          BY <1>8, <4>4
        <5> HIDE DEF c, p
        <5> QED  BY <2>2, <4>1, <4>2, <5>1, <5>2
      <4> QED  BY <4>3, <4>4
    <3>2. Explained(f, r)' = c.offset + Paid(Included(r)) * n
      BY <1>2, <1>6, <3>1 DEF Explained
    <3>3. earned[f][r] = p.offset + Paid(Included(r)) * n - Paid(Included(r)) + Paid(Pays(f, r))
      BY <2>2, FinishedEarned
    <3>4. /\ earned[f][r] <= n /\ earned[f][r] \in Int /\ p.offset \in Int
          /\ Paid(Included(r)) \in Int /\ Paid(Included(r)) * n \in Int /\ Paid(Pays(f, r)) \in Int
      <4>1. p.offset \in Int /\ p.payable \in BOOLEAN
        BY <1>1, <2>2, KeptFields, RowFields
      <4>2. Pays(f, r) \in BOOLEAN
        BY <1>2, <2>2, <4>1, FinishedFields
      <4>3. earned[f][r] <= n /\ earned[f][r] \in Int
        BY FinishedEarned
      <4> QED  BY <1>1, <1>2, <4>1, <4>2, <4>3 DEF Paid
    <3> HIDE DEF n, p, c
    <3> QED  BY <3>1, <3>2, <3>3, <3>4
  <2> QED  BY <2>1, <2>2
<1>11. Promising(f)'
  <2> SUFFICES ASSUME config.private, q > 0, NEW r \in Family
               PROVE  IF r \notin config.listed THEN promise[f][r] # TRUE
                      ELSE IF record'[f][r].pending > 0
                      THEN promise[f][r] = record'[f][r].payable /\ record'[f][r].pending >= q
                      ELSE promise[f][r] = Nil
    BY <1>6 DEF Promising
  <2>1. IF r \notin config.listed THEN promise[f][r] # TRUE
        ELSE IF record[f][r].pending > 0
        THEN promise[f][r] = record[f][r].payable /\ record[f][r].pending >= SeenQueued(f)
        ELSE promise[f][r] = Nil
    <3>1. SeenQueued(f) > 0
      BY <1>1
    <3> QED  BY <1>1, <3>1 DEF Kept, Promising
  <2>2. r \in Recipes
    BY <1>2
  <2>3. CASE Owed(r)
    <3>1. /\ r \in config.listed /\ promise[f][r] = record[f][r].payable
          /\ record[f][r].pending >= SeenQueued(f) /\ record[f][r].pending \in Nat
          /\ record'[f][r].pending = record[f][r].pending - 1
          /\ record'[f][r].payable = IF record[f][r].pending = 1 THEN record[f][r].included
                                     ELSE record[f][r].payable
      BY <1>7, <2>1, <2>2, <2>3, RowFields
    <3>2. record'[f][r].pending > 0 /\ record'[f][r].pending >= q /\ record[f][r].pending # 1
      BY <1>1, <3>1
    <3>3. promise[f][r] = record'[f][r].payable
      BY <3>1, <3>2
    <3> QED  BY <3>1, <3>2, <3>3
  <2>4. CASE ~Owed(r)
    <3>1. r \in config.listed => ~(record[f][r].pending > 0) /\ ~(record'[f][r].pending > 0)
      BY <1>8, <2>2, <2>4
    <3> QED  BY <2>1, <3>1
  <2> QED  BY <2>3, <2>4
<1>12. Counted(f)'
  <2> SUFFICES ASSUME NEW r \in config.listed
               PROVE  /\ record'[f][r].completed <= n
                      /\ record'[f][r].pending > 0 => record'[f][r].completed = n
    BY <1>6 DEF Counted
  <2>1. r \in Recipes
    BY <1>2
  <2>2. CASE Owed(r)
    BY <1>1, <1>7, <2>1, <2>2
  <2>3. CASE ~Owed(r)
    <3>1. record'[f][r] = record[f][r] /\ record[f][r].pending = 0 /\ record[f][r] # Nil
      BY <1>8, <2>1, <2>3
    <3>2. record[f][r].completed <= n - 1 /\ record[f][r].completed \in Nat
      BY <1>1, <2>1, <3>1, KeptFields, RowFields DEF Kept, Counted
    <3> QED  BY <1>1, <3>1, <3>2
  <2> QED  BY <2>2, <2>3
<1>13. \A r \in Recipes : record'[f][r] \in Records \cup {Nil}
  <2> SUFFICES ASSUME NEW r \in Recipes PROVE record'[f][r] \in Records \cup {Nil}
    OBVIOUS
  <2>1. record[f][r] \in Records \cup {Nil}
    BY <1>1 DEF LedgerTypeOK, Priors
  <2> QED  BY <1>7, <1>8, <2>1
<1>14. record' \in [Forces -> Priors]
  <2>1. record'[f] \in Priors
    <3>1. record'[f] = [r \in Recipes |-> record'[f][r]]
      BY <1>1 DEF LedgerTypeOK
    <3> QED  BY <1>13, <3>1 DEF Priors
  <2>2. \A g \in Forces \ {f} : record'[g] = record[g]
    BY <1>1 DEF LedgerTypeOK
  <2>3. record' = [g \in Forces |-> record'[g]]
    BY <1>1 DEF LedgerTypeOK
  <2>4. record \in [Forces -> Priors]
    BY <1>1 DEF LedgerTypeOK
  <2> HIDE DEF Priors
  <2>5. \A g \in Forces : record'[g] \in Priors
    BY <2>1, <2>2, <2>4
  <2> QED  BY <2>3, <2>5
<1>15. native' \in [Forces -> Natives]
  <2> DEFINE credit == [r \in Recipes |-> IF r \in Advanced(f) THEN record'[f][r].offset
                                           ELSE native[f].credit[r]]
  <2>1. native[f] \in Natives /\ native \in [Forces -> Natives]
    BY <1>1, NativeFields DEF CreditTypeOK
  <2>2. credit \in [Recipes -> Int]
    <3> SUFFICES ASSUME NEW r \in Recipes
                 PROVE  (IF r \in Advanced(f) THEN record'[f][r].offset ELSE native[f].credit[r]) \in Int
      OBVIOUS
    <3>1. native[f].credit[r] \in Int
      BY <1>1, NativeFields
    <3>2. Owed(r) => record'[f][r].offset \in Int
      BY <1>7, RowFields
    <3> QED  BY <1>3, <3>1, <3>2 DEF Owed
  <2>3. native' = [native EXCEPT ![f].credit = credit]
    BY <2>1 DEF Natives
  <2> HIDE DEF credit
  <2>4. [native[f] EXCEPT !.credit = credit] \in Natives
    BY <2>1, <2>2 DEF Natives
  <2> QED  BY <2>1, <2>3, <2>4
<1>16. ASSUME NEW r \in Recipes, record'[f][r] # Nil, r \in Family
       PROVE  record'[f][r].offset \in 1 - Limit .. Limit - 1
  <2>1. CASE Owed(r)
    <3>1. Representable(record'[f][r].offset) /\ record'[f][r].offset \in Int
      BY <1>7, <2>1, RowFields
    <3> QED  BY <3>1, CreditAssumption DEF Representable
  <2>2. CASE ~Owed(r)
    BY <1>1, <1>8, <1>16, <2>2 DEF CreditTypeOK
  <2> QED  BY <2>1, <2>2
<1> QED  BY <1>9, <1>10, <1>11, <1>12, <1>14, <1>15, <1>16 DEF Kept

(* A completion that cannot be counted is of more levels than a carrier holds. *)
LEMMA FinishedImpossible ==
    ASSUME IInv, ~refused, event.kind = "finished", NEW f \in Forces, event.force = f,
           pendingActive, Impossible(f)
    PROVE  ~Representable(native[f].done)
<1> DEFINE n == native[f].done
<1>1. /\ CreditTypeOK /\ LedgerTypeOK /\ WatchTypeOK /\ Following /\ Kept(f)
      /\ SeenDone(f) = n - 1 /\ n \in Nat
  BY FinishedFields
<1>2. PICK r \in Awaiting(f) :
         LET p == record[f][r]
         IN  \/ p.offset # native[f].credit[r]
             \/ n - p.completed \notin {0, 1}
             \/ ~Representable(p.offset + Paid(p.payable) - Paid(Included(r)))
  BY DEF Impossible
<1> DEFINE p == record[f][r]
           m == p.offset + Paid(p.payable) - Paid(Included(r))
<1>3. /\ r \in config.listed /\ r \in Recipes /\ p # Nil /\ p.pending > 0
  BY <1>1, ConfigFields DEF Awaiting, Recipes
<1>4. p \in Records /\ p.offset = native[f].credit[r] /\ p.completed = n - 1
  BY <1>1, <1>3, KeptFields DEF Kept, Counted
<1>5. n - p.completed \in {0, 1}
  BY <1>1, <1>4
<1>6. ~Representable(m)
  BY <1>2, <1>4, <1>5
<1>7. earned[f][r] = p.offset + Paid(Included(r)) * n - Paid(Included(r)) + Paid(p.payable)
  BY <1>3, FinishedFields, FinishedEarned
<1>8. /\ p.offset \in Int /\ Paid(p.payable) \in Int /\ Paid(Included(r)) \in Int
      /\ Paid(Included(r)) * n \in 0 .. n /\ earned[f][r] \in 0 .. n
  <2>1. p.offset \in Int /\ p.payable \in BOOLEAN /\ Included(r) \in BOOLEAN
    BY <1>1, <1>4, RowFields, ConfigFields
  <2>2. earned[f][r] \in Nat /\ earned[f][r] <= n
    BY <1>3, FinishedEarned
  <2> HIDE DEF n, p
  <2> QED  BY <1>1, <2>1, <2>2 DEF Paid
<1>9. m \in Int /\ -n <= m /\ m <= n
  <2> HIDE DEF n, p
  <2> QED  BY <1>1, <1>7, <1>8
<1> HIDE DEF m
<1> QED  BY <1>1, <1>6, <1>9, Within

LEMMA FinishedKeeps ==
    ASSUME IInv, OnResearchFinished, UNCHANGED <<earned, promise, foul>>
    PROVE  IInv'
<1>1. event.kind = "finished" /\ event' = NoEvent /\ ~refused
  BY DEF OnResearchFinished, Takes
<1>2. /\ CreditTypeOK /\ LedgerTypeOK /\ WatchTypeOK /\ Following /\ event.force \in alive
      /\ \A g \in alive : Kept(g)
  BY <1>1 DEF IInv, Due
<1>3. PICK f \in alive : event.force = f
  BY <1>2
<1>4. f \in Forces /\ alive \subseteq Forces
  BY <1>2 DEF CreditTypeOK
<1>5. ASSUME NEW g \in alive \ {f}
      PROVE  ~Awaits("finished", g) /\ ~Awaits("cancelled", g)
  BY <1>1, <1>3 DEF Awaits
<1>6. \A g : ~Awaits("finished", g)' /\ ~Awaits("cancelled", g)'
  BY <1>1 DEF Awaits, NoEvent
<1>7. event'.kind = "none" /\ event'.count \in Nat
  BY <1>1 DEF NoEvent
<1>8. WatchTypeOK'
  BY <1>2 DEF WatchTypeOK
<1>9. CASE ~pendingActive
  <2>1. UNCHANGED <<alive, config, native, record, history, pendingActive, refused>>
    BY <1>9 DEF OnResearchFinished
  <2>2. CreditTypeOK' /\ LedgerTypeOK' /\ Following' /\ RefusedForCause'
    BY <1>1, <1>2, <1>7, <2>1 DEF CreditTypeOK, LedgerTypeOK, Following, RefusedForCause, PendingIn
  <2>3. Kept(f)'
    BY <1>1, <1>4, <1>9, <1>3, <2>1, FinishedUnheard
  <2>4. ASSUME NEW g \in alive \ {f} PROVE Kept(g)'
    <3> QED  BY <1>2, <1>4, <1>5, <1>6, <2>1, KeptFrame
  <2>5. Due'
    BY <1>7, <2>1, <2>3, <2>4 DEF Due
  <2> QED  BY <1>8, <2>2, <2>5 DEF IInv
<1>10. CASE pendingActive /\ Impossible(f)
  <2>1. Refused
    BY <1>10, <1>3 DEF OnResearchFinished
  <2>2. ~Representable(native[f].done)
    BY <1>1, <1>4, <1>10, <1>3, FinishedImpossible
  <2> QED  BY <1>1, <1>2, <1>4, <2>1, <2>2, RefusedKeeps
<1>11. CASE pendingActive /\ ~Impossible(f)
  <2>1. /\ record' = [record EXCEPT ![f] = [r \in Recipes |->
                       IF r \in Advanced(f) THEN Credited(@[r], f, r) ELSE @[r]]]
        /\ native' = [native EXCEPT ![f].credit = [r \in Recipes |->
                       IF r \in Advanced(f) THEN record'[f][r].offset ELSE @[r]]]
        /\ pendingActive' = PendingIn(record', config.listed)
        /\ UNCHANGED <<alive, config, history, refused>>
    <3> DEFINE after == [record EXCEPT ![f] = [r \in Recipes |->
                          IF r \in Advanced(f) THEN Credited(@[r], f, r) ELSE @[r]]]
    <3>1. /\ record' = after
          /\ native' = [native EXCEPT ![f].credit = [r \in Recipes |->
                          IF r \in Advanced(f) THEN after[f][r].offset ELSE @[r]]]
          /\ pendingActive' = PendingIn(after, config.listed)
          /\ UNCHANGED <<alive, config, history, refused>>
      BY <1>3, <1>11 DEF OnResearchFinished
    <3>2. record' = after
      BY <3>1
    <3> HIDE DEF after
    <3>3. /\ native' = [native EXCEPT ![f].credit = [r \in Recipes |->
                          IF r \in Advanced(f) THEN record'[f][r].offset ELSE @[r]]]
          /\ pendingActive' = PendingIn(record', config.listed)
      BY <3>1, <3>2
    <3> QED  BY <3>1, <3>2, <3>3 DEF after
  <2>2. /\ Kept(f)' /\ record' \in [Forces -> Priors] /\ native' \in [Forces -> Natives]
        /\ \A r \in Recipes : record'[f][r] # Nil /\ r \in Family =>
             record'[f][r].offset \in 1 - Limit .. Limit - 1
    BY <1>1, <1>4, <1>11, <1>3, <2>1, FinishedHeard
  <2>3. \A g \in Forces \ {f} : record'[g] = record[g] /\ native'[g] = native[g]
    <3> QED  BY <1>2, <2>1 DEF LedgerTypeOK, CreditTypeOK
  <2>4. CreditTypeOK'
    <3>1. pendingActive' \in BOOLEAN
      BY <2>1 DEF PendingIn
    <3>2. ASSUME NEW g \in Forces, NEW r \in Recipes, record'[g][r] # Nil
          PROVE  /\ record'[g][r] \in Records
                 /\ r \in Family => record'[g][r].offset \in 1 - Limit .. Limit - 1
      <4>1. CASE g = f
        BY <2>2, <3>2, <4>1 DEF Priors
      <4>2. CASE g # f
        BY <1>2, <2>3, <3>2, <4>2, SMTT(30) DEF CreditTypeOK
      <4> QED  BY <4>1, <4>2
    <3> QED  BY <1>2, <2>1, <2>2, <3>1, <3>2 DEF CreditTypeOK
  <2>5. LedgerTypeOK' /\ Following' /\ RefusedForCause'
    BY <1>1, <1>2, <1>7, <2>1, <2>2 DEF LedgerTypeOK, Following, RefusedForCause, PendingIn
  <2>6. ASSUME NEW g \in alive \ {f} PROVE Kept(g)'
    <3>1. record'[g] = record[g] /\ native'[g] = native[g]
      BY <1>4, <2>3
    <3> QED  BY <1>2, <1>4, <1>5, <1>6, <1>11, <2>1, <3>1, KeptFrame
  <2>7. Due'
    BY <1>7, <2>1, <2>2, <2>6 DEF Due
  <2> QED  BY <1>8, <2>4, <2>5, <2>7 DEF IInv
<1> QED  BY <1>9, <1>10, <1>11

LEMMA WithdrawnFields ==
    ASSUME NEW p \in Records, NEW n \in Nat
    PROVE  LET w    == Withdrawn(p, n)
               left == IF p.pending > n THEN p.pending - n ELSE 0
           IN  /\ w \in Records /\ w # Nil /\ w.included = p.included /\ w.private = p.private
               /\ w.offset = p.offset /\ w.completed = p.completed /\ w.pending = left
               /\ w.payable = IF left = 0 THEN p.included ELSE p.payable
<1> DEFINE left    == IF p.pending > n THEN p.pending - n ELSE 0
           payable == IF left = 0 THEN p.included ELSE p.payable
           w       == Withdrawn(p, n)
<1>1. /\ p # Nil /\ p.included \in BOOLEAN /\ p.payable \in BOOLEAN /\ p.pending \in 0 .. MaxQueue
  BY RowFields
<1>2. left \in 0 .. MaxQueue /\ payable \in BOOLEAN
  BY <1>1, CreditAssumption
<1>3. w = [p EXCEPT !.pending = left, !.payable = payable]
  BY <1>1 DEF Withdrawn
<1> HIDE DEF w, left, payable
<1>4. /\ w \in Records /\ w.included = p.included /\ w.private = p.private
      /\ w.offset = p.offset /\ w.completed = p.completed /\ w.pending = left /\ w.payable = payable
  BY <1>2, <1>3 DEF Records
<1> QED  BY <1>4, RowFields DEF w, left, payable

(* What is cancelled is no longer waited for.                                  *)
LEMMA CancelledKept ==
    ASSUME IInv, ~refused, event.kind = "cancelled", NEW f \in Forces, event.force = f,
           event' = NoEvent, pendingActive' => pendingActive,
           \A r \in Recipes : \/ record'[f][r] = record[f][r]
                              \/ /\ r \in config.listed
                                 /\ record'[f][r] = Withdrawn(record[f][r], event.count),
           UNCHANGED <<alive, config, native, history, earned, promise>>
    PROVE  Kept(f)' /\ \A r \in Recipes : record'[f][r] # Nil =>
                         record'[f][r] \in Records /\ record'[f][r].offset = record[f][r].offset
<1> DEFINE n == native[f].done
           q == native[f].queued
<1>1. /\ CreditTypeOK /\ LedgerTypeOK /\ WatchTypeOK /\ Following /\ f \in alive /\ Kept(f)
      /\ event.count \in Nat /\ n \in Nat /\ q \in Nat
  BY NativeFields DEF IInv, Due, LedgerTypeOK
<1>2. /\ ~Awaits("finished", f) /\ Awaits("cancelled", f)
      /\ SeenDone(f) = n /\ SeenQueued(f) = q + event.count
      /\ ~Awaits("finished", f)' /\ SeenDone(f)' = n /\ SeenQueued(f)' = q
      /\ \A r : Included(r)' = Included(r)
  BY <1>1 DEF Awaits, NoEvent, SeenDone, SeenQueued, Included
<1>3. config.listed \subseteq Family /\ Family \subseteq Recipes
  BY <1>1, ConfigFields DEF Recipes
<1>4. ASSUME NEW r \in Recipes, record[f][r] # Nil
      PROVE  LET p == record[f][r]
                 w == record'[f][r]
             IN  /\ w \in Records /\ w # Nil /\ w.included = p.included /\ w.private = p.private
                 /\ w.offset = p.offset /\ w.completed = p.completed
                 /\ p.pending = 0 => w.pending = 0
                 /\ w.pending > 0 => p.pending > 0 /\ w.payable = p.payable
                 /\ w.pending = 0 => w.payable = w.included
                 /\ p.pending <= w.pending + event.count
  <2>1. /\ record[f][r] \in Records /\ record[f][r].pending \in Nat
        /\ record[f][r].pending = 0 => record[f][r].payable = record[f][r].included
    BY <1>1, <1>4, KeptFields, RowFields
  <2>2. CASE record'[f][r] = record[f][r]
    <3> DEFINE p == record[f][r]
               w == record'[f][r]
    <3> HIDE DEF p, w
    <3>1. w = p /\ p \in Records /\ p # Nil /\ p.pending \in Nat
          /\ (p.pending = 0 => p.payable = p.included)
      BY <1>4, <2>1, <2>2 DEF p, w
    <3>2. p.pending <= p.pending + event.count
      BY <1>1, <3>1
    <3> QED  BY <3>1, <3>2 DEF p, w
  <2>3. CASE record'[f][r] = Withdrawn(record[f][r], event.count)
    <3> DEFINE p == record[f][r]
               w == record'[f][r]
    <3> HIDE DEF p, w
    <3>1. w = Withdrawn(p, event.count) /\ p \in Records /\ p.pending \in Nat /\ event.count \in Nat
      BY <1>1, <2>1, <2>3 DEF p, w
    <3> DEFINE left == IF p.pending > event.count THEN p.pending - event.count ELSE 0
    <3>2. /\ w \in Records /\ w # Nil /\ w.included = p.included /\ w.private = p.private
          /\ w.offset = p.offset /\ w.completed = p.completed /\ w.pending = left
          /\ w.payable = IF left = 0 THEN p.included ELSE p.payable
      BY <3>1, WithdrawnFields
    <3>3. /\ left \in Nat
          /\ p.pending = 0 => left = 0
          /\ left > 0 => p.pending > 0 /\ left # 0
          /\ p.pending <= left + event.count
      BY <3>1
    <3> HIDE DEF left
    <3>4. /\ w \in Records /\ w # Nil /\ w.included = p.included /\ w.private = p.private
          /\ w.offset = p.offset /\ w.completed = p.completed
      BY <3>2
    <3>5. /\ p.pending = 0 => w.pending = 0
          /\ w.pending > 0 => p.pending > 0 /\ w.payable = p.payable
          /\ p.pending <= w.pending + event.count
      BY <3>2, <3>3
    <3>6. w.pending = 0 => w.payable = w.included
      BY <3>2
    <3> QED  BY <3>4, <3>5, <3>6 DEF p, w
  <2> QED  BY <2>2, <2>3
<1>5. ASSUME NEW r \in Recipes, record[f][r] = Nil
      PROVE  record'[f][r] = Nil
  BY <1>1, <1>5, KeptFields
<1>6. Recorded(f)'
  <2> SUFFICES ASSUME NEW r \in Recipes
               PROVE  LET p == record'[f][r]
                      IN  IF r \in Family \ config.listed THEN p = Nil /\ native[f].credit[r] = 0
                          ELSE /\ p # Nil /\ p.offset = native[f].credit[r] /\ p.included = Included(r)
                               /\ r \in Family => p.private = config.private
                               /\ ~p.private => p.pending = 0
                               /\ p.pending = 0 => p.payable = p.included
    BY <1>1, <1>2 DEF Recorded, Kept
  <2>1. CASE record[f][r] = Nil
    BY <1>1, <1>5, <2>1, KeptFields
  <2>2. CASE record[f][r] # Nil
    BY <1>1, <1>4, <2>2, KeptFields
  <2> QED  BY <2>1, <2>2
<1>7. Backed(f)'
  <2> SUFFICES ASSUME NEW r \in Recipes
               PROVE  earned[f][r] = Explained(f, r)' + 0 /\ earned[f][r] <= n
    BY <1>2 DEF Backed
  <2>1. earned[f][r] = Explained(f, r) + 0 /\ earned[f][r] <= n
    BY <1>1, <1>2 DEF Kept, Backed
  <2>2. Explained(f, r)' = Explained(f, r)
    BY <1>2, <1>4, <1>5 DEF Explained
  <2> QED  BY <2>1, <2>2
<1>8. Promising(f)'
  <2> SUFFICES ASSUME config.private, q > 0, NEW r \in Family
               PROVE  IF r \notin config.listed THEN promise[f][r] # TRUE
                      ELSE IF record'[f][r].pending > 0
                      THEN promise[f][r] = record'[f][r].payable /\ record'[f][r].pending >= q
                      ELSE promise[f][r] = Nil
    BY <1>2 DEF Promising
  <2>1. IF r \notin config.listed THEN promise[f][r] # TRUE
        ELSE IF record[f][r].pending > 0
        THEN promise[f][r] = record[f][r].payable /\ record[f][r].pending >= SeenQueued(f)
        ELSE promise[f][r] = Nil
    <3>1. SeenQueued(f) > 0
      BY <1>1, <1>2
    <3> QED  BY <1>1, <3>1 DEF Kept, Promising
  <2>2. CASE r \notin config.listed
    BY <2>1, <2>2
  <2>3. CASE r \in config.listed
    <3> DEFINE p == record[f][r]
               w == record'[f][r]
    <3>1. /\ p # Nil /\ p.pending \in Nat /\ w.pending \in Nat
          /\ p.pending = 0 => w.pending = 0
          /\ w.pending > 0 => p.pending > 0 /\ w.payable = p.payable
          /\ p.pending <= w.pending + event.count
      <4>1. p # Nil /\ r \in Recipes
        BY <1>1, <1>3, <2>3, KeptFields
      <4>2. p \in Records /\ w \in Records
        BY <1>1, <1>4, <4>1, KeptFields
      <4> QED  BY <1>4, <4>1, <4>2, RowFields
    <3>2. CASE p.pending > 0
      <4>1. promise[f][r] = p.payable /\ p.pending >= SeenQueued(f)
        BY <2>1, <2>3, <3>2
      <4> HIDE DEF p, w, q
      <4>2. w.pending > 0 /\ w.pending >= q
        <5>1. q > 0
          BY DEF q
        <5> QED  BY <1>1, <1>2, <3>1, <4>1, <5>1
      <4>3. promise[f][r] = w.payable
        BY <3>1, <4>1, <4>2
      <4> QED  BY <2>3, <4>2, <4>3 DEF w, q
    <3>3. CASE ~(p.pending > 0)
      <4>1. promise[f][r] = Nil
        BY <2>1, <2>3, <3>3
      <4>2. ~(w.pending > 0)
        BY <3>1, <3>3
      <4> QED  BY <2>3, <4>1, <4>2
    <3> QED  BY <3>2, <3>3
  <2> QED  BY <2>2, <2>3
<1>9. Counted(f)'
  <2> SUFFICES ASSUME NEW r \in config.listed
               PROVE  /\ record'[f][r].completed <= n
                      /\ pendingActive' => (record'[f][r].pending > 0 => record'[f][r].completed = n)
    BY <1>2 DEF Counted
  <2>1. r \in Recipes /\ record[f][r] # Nil
    BY <1>1, <1>3, KeptFields
  <2> QED  BY <1>1, <1>2, <1>4, <2>1 DEF Kept, Counted
<1> QED  BY <1>4, <1>5, <1>6, <1>7, <1>8, <1>9 DEF Kept

LEMMA CancelledKeeps ==
    ASSUME IInv, OnResearchCancelled, UNCHANGED <<earned, promise, foul>>
    PROVE  IInv'
<1>1. event.kind = "cancelled" /\ event' = NoEvent /\ ~refused
  BY DEF OnResearchCancelled, Takes
<1>2. /\ CreditTypeOK /\ LedgerTypeOK /\ WatchTypeOK /\ Following /\ event.force \in alive
      /\ \A g \in alive : Kept(g)
  BY <1>1 DEF IInv, Due
<1>3. PICK f \in alive : event.force = f
  BY <1>2
<1>4. f \in Forces /\ alive \subseteq Forces
  BY <1>2 DEF CreditTypeOK
<1>5. UNCHANGED <<alive, config, native, history, refused>>
  BY DEF OnResearchCancelled
<1>6. /\ \/ record' = record /\ pendingActive' = pendingActive
         \/ /\ pendingActive
            /\ record' = [record EXCEPT ![f] = [r \in Recipes |->
                 IF r \in config.listed THEN Withdrawn(@[r], event.count) ELSE @[r]]]
            /\ pendingActive' = PendingIn(record', config.listed)
  <2> DEFINE after == [record EXCEPT ![f] = [r \in Recipes |->
                 IF r \in config.listed THEN Withdrawn(@[r], event.count) ELSE @[r]]]
  <2>1. \/ record' = record /\ pendingActive' = pendingActive
        \/ pendingActive /\ record' = after /\ pendingActive' = PendingIn(after, config.listed)
    BY <1>3 DEF OnResearchCancelled
  <2> HIDE DEF after
  <2>2. \/ record' = record /\ pendingActive' = pendingActive
        \/ pendingActive /\ record' = after /\ pendingActive' = PendingIn(record', config.listed)
    BY <2>1
  <2> QED  BY <2>2 DEF after
<1>7. pendingActive' => pendingActive
  BY <1>6
<1>8. /\ \A g \in Forces \ {f} : record'[g] = record[g]
      /\ record' = [g \in Forces |-> record'[g]]
      /\ record'[f] = [r \in Recipes |-> record'[f][r]]
      /\ \A r \in Recipes : \/ record'[f][r] = record[f][r]
                            \/ /\ r \in config.listed
                               /\ record'[f][r] = Withdrawn(record[f][r], event.count)
  BY <1>2, <1>4, <1>6 DEF LedgerTypeOK, Priors
<1>9. /\ Kept(f)'
      /\ \A r \in Recipes : record'[f][r] # Nil =>
           record'[f][r] \in Records /\ record'[f][r].offset = record[f][r].offset
  BY <1>1, <1>3, <1>4, <1>5, <1>7, <1>8, CancelledKept
<1>10. ASSUME NEW g \in alive \ {f} PROVE Kept(g)'
  <2>1. /\ ~Awaits("finished", g) /\ ~Awaits("cancelled", g)
        /\ ~Awaits("finished", g)' /\ ~Awaits("cancelled", g)'
    BY <1>1, <1>3 DEF Awaits, NoEvent
  <2>2. record'[g] = record[g]
    BY <1>4, <1>8
  <2> QED  BY <1>2, <1>4, <1>5, <1>7, <2>1, <2>2, KeptFrame
<1>11. record' \in [Forces -> Priors]
  <2>1. record'[f] \in Priors
    BY <1>8, <1>9 DEF Priors
  <2>2. record \in [Forces -> Priors]
    BY <1>2 DEF LedgerTypeOK
  <2> HIDE DEF Priors
  <2>3. \A g \in Forces : record'[g] \in Priors
    BY <1>8, <2>1, <2>2
  <2> QED  BY <1>8, <2>3
<1>12. LedgerTypeOK' /\ WatchTypeOK' /\ Following' /\ RefusedForCause'
  <2>1. LedgerTypeOK' /\ WatchTypeOK' /\ RefusedForCause'
    BY <1>1, <1>2, <1>5, <1>11 DEF LedgerTypeOK, WatchTypeOK, RefusedForCause, NoEvent
  <2>2. Following'
    BY <1>2, <1>5, <1>6 DEF Following, PendingIn
  <2> QED  BY <2>1, <2>2
<1>13. CreditTypeOK'
  <2>1. pendingActive' \in BOOLEAN
    BY <1>2, <1>6 DEF CreditTypeOK, PendingIn
  <2>2. ASSUME NEW g \in Forces, NEW r \in Recipes, record'[g][r] # Nil
        PROVE  /\ record'[g][r] \in Records
               /\ r \in Family => record'[g][r].offset \in 1 - Limit .. Limit - 1
    <3>1. CASE g = f
      <4>1. record[f][r] # Nil
        BY <1>2, <1>4, <1>8, <2>2, <3>1, KeptFields
      <4> QED  BY <1>2, <1>4, <1>9, <2>2, <3>1, <4>1 DEF CreditTypeOK
    <3>2. CASE g # f
      BY <1>2, <1>8, <2>2, <3>2 DEF CreditTypeOK
    <3> QED  BY <3>1, <3>2
  <2> QED  BY <1>2, <1>5, <2>1, <2>2 DEF CreditTypeOK
<1>14. Due'
  <2>1. event'.kind = "none"
    BY <1>1 DEF NoEvent
  <2> QED  BY <1>5, <1>9, <1>10, <2>1 DEF Due
<1> QED  BY <1>12, <1>13, <1>14 DEF IInv
-----------------------------------------------------------------------------
(* The engine and the players                                                  *)

LEMMA PlayingKept ==
    ASSUME IInv, Playing
    PROVE  /\ CreditTypeOK /\ LedgerTypeOK /\ WatchTypeOK /\ Following /\ RefusedForCause /\ ~refused
           /\ \A g \in alive : Kept(g)
           /\ \A g, k : k # "none" => ~Awaits(k, g)
  BY DEF IInv, Playing, Quiet, Due, NoEvent, Awaits

LEMMA RaisedFields ==
    ASSUME NEW k, NEW f
    PROVE  /\ Raised(k, f).kind = k /\ Raised(k, f).force = f /\ Raised(k, f).count = 0
           /\ \A n : LET e == [Raised(k, f) EXCEPT !.count = n]
                     IN  e.kind = k /\ e.force = f /\ e.count = n
           /\ \A s : LET e == [Raised(k, f) EXCEPT !.source = s]
                     IN  e.kind = k /\ e.force = f /\ e.source = s /\ e.count = 0
           /\ \A o : LET e == [Raised(k, f) EXCEPT !.origin = o]
                     IN  e.kind = k /\ e.force = f /\ e.origin = o /\ e.count = 0
  BY DEF Raised, NoEvent

LEMMA EnqueueKeeps ==
    ASSUME IInv, NEW f \in Forces, Enqueue(f), UNCHANGED <<earned, promise, foul>>
    PROVE  IInv'
<1>1. /\ Playing /\ f \in alive /\ ~config.private /\ native[f].queued < MaxQueue
      /\ native' = [native EXCEPT ![f].queued = @ + 1]
      /\ UNCHANGED <<alive, config, record, history, pendingActive, event, refused>>
  BY DEF Enqueue
<1>2. /\ CreditTypeOK /\ LedgerTypeOK /\ WatchTypeOK /\ Following /\ ~refused
      /\ \A g \in alive : Kept(g)
      /\ \A g, k : k # "none" => ~Awaits(k, g)
  BY <1>1, PlayingKept
<1>3. native' \in [Forces -> Natives]
  BY <1>1, <1>2, NativeFields, CreditAssumption DEF CreditTypeOK, Natives
<1>4. /\ CreditTypeOK' /\ LedgerTypeOK' /\ WatchTypeOK' /\ Following' /\ RefusedForCause'
  BY <1>1, <1>2, <1>3 DEF CreditTypeOK, LedgerTypeOK, WatchTypeOK, Following, RefusedForCause, PendingIn
<1>5. ASSUME NEW g \in alive PROVE Kept(g)'
  <2>1. /\ native'[g].done = native[g].done /\ native'[g].credit = native[g].credit
        /\ g \in Forces /\ Kept(g)
    BY <1>1, <1>2 DEF CreditTypeOK, Natives
  <2>2. /\ ~Awaits("finished", g) /\ ~Awaits("finished", g)'
        /\ SeenDone(g)' = SeenDone(g) /\ \A r : Included(r)' = Included(r)
    BY <1>1, <1>2, <2>1 DEF Awaits, SeenDone, Included
  <2>3. \A r \in Recipes : Explained(g, r)' = Explained(g, r)
    BY <1>1, <2>2 DEF Explained
  <2>4. Recorded(g)' /\ Backed(g)' /\ Counted(g)'
    BY <1>1, <2>1, <2>2, <2>3 DEF Kept, Recorded, Backed, Counted
  <2>5. Promising(g)'
    BY <1>1 DEF Promising
  <2> QED  BY <2>4, <2>5 DEF Kept
<1>6. Due'
  <2>1. event'.kind = "none"
    BY <1>1 DEF Playing, Quiet, NoEvent
  <2> QED  BY <1>1, <1>5, <2>1 DEF Due
<1> QED  BY <1>4, <1>6 DEF IInv

(* An event raised for f is none of another force's.                           *)
LEMMA OthersKept ==
    ASSUME IInv, Playing, NEW f, NEW g \in alive \ {f}, event'.force = f,
           config' = config, pendingActive' = pendingActive,
           native'[g] = native[g], record'[g] = record[g], history'[g] = history[g],
           earned'[g] = earned[g], promise'[g] = promise[g]
    PROVE  Kept(g)'
<1>1. Kept(g) /\ ~Awaits("finished", g) /\ ~Awaits("cancelled", g) /\ g \in Forces
  BY PlayingKept DEF CreditTypeOK
<1>2. ~Awaits("finished", g)' /\ ~Awaits("cancelled", g)'
  BY DEF Awaits
<1> QED  BY <1>1, <1>2, KeptFrame

LEMMA CompleteKeeps ==
    ASSUME IInv, NEW f \in Forces, EComplete(f)
    PROVE  IInv'
<1>1. /\ Playing /\ f \in alive /\ native[f].queued > 0 /\ native[f].done < MaxLevel
      /\ native' = [native EXCEPT ![f].queued = @ - 1, ![f].done = @ + 1]
      /\ event' = Raised("finished", f)
      /\ UNCHANGED <<alive, config, record, history, pendingActive, refused>>
      /\ earned' = [earned EXCEPT ![f] = [r \in Recipes |-> @[r] + Paid(Pays(f, r))]]
      /\ UNCHANGED <<promise, foul>>
  BY DEF EComplete, Complete
<1>2. /\ CreditTypeOK /\ LedgerTypeOK /\ WatchTypeOK /\ Following /\ ~refused
      /\ \A g \in alive : Kept(g)
      /\ \A g, k : k # "none" => ~Awaits(k, g)
  BY <1>1, PlayingKept
<1>3. event'.kind = "finished" /\ event'.force = f /\ event'.count = 0
  BY <1>1, RaisedFields
<1>4. /\ native[f].done \in Nat /\ native[f].queued \in Nat
      /\ native' \in [Forces -> Natives]
      /\ native'[f].done = native[f].done + 1 /\ native'[f].queued = native[f].queued - 1
      /\ native'[f].credit = native[f].credit
      /\ \A g \in Forces \ {f} : native'[g] = native[g]
  BY <1>1, <1>2, NativeFields, CreditAssumption DEF CreditTypeOK, Natives
<1>5. ASSUME NEW r \in Recipes
      PROVE  /\ earned'[f][r] = earned[f][r] + Paid(Pays(f, r)) /\ earned[f][r] \in Nat
             /\ Paid(Pays(f, r)) \in 0 .. 1
  <2>1. Paid(Pays(f, r)) \in 0 .. 1
    BY DEF Paid
  <2> QED  BY <1>1, <1>2, <2>1 DEF WatchTypeOK
<1>6. /\ earned' \in [Forces -> [Recipes -> Nat]]
      /\ \A g \in Forces \ {f} : earned'[g] = earned[g]
  <2>1. [r \in Recipes |-> earned[f][r] + Paid(Pays(f, r))] \in [Recipes -> Nat]
    BY <1>5
  <2> QED  BY <1>1, <1>2, <2>1 DEF WatchTypeOK
<1>7. CreditTypeOK' /\ LedgerTypeOK' /\ WatchTypeOK' /\ Following' /\ RefusedForCause'
  BY <1>1, <1>2, <1>3, <1>4, <1>6
     DEF CreditTypeOK, LedgerTypeOK, WatchTypeOK, Following, RefusedForCause, PendingIn
<1>8. Kept(f)'
  <2>1. /\ Awaits("finished", f)' /\ ~Awaits("cancelled", f)'
        /\ ~Awaits("finished", f) /\ ~Awaits("cancelled", f)
    BY <1>2, <1>3 DEF Awaits
  <2>2. /\ SeenDone(f)' = native[f].done /\ SeenDone(f) = native[f].done
        /\ SeenQueued(f)' = native[f].queued /\ SeenQueued(f) = native[f].queued
    BY <1>4, <2>1 DEF SeenDone, SeenQueued
  <2>3. \A r : Included(r)' = Included(r) /\ Pays(f, r)' = Pays(f, r)
    BY <1>1 DEF Included, Pays
  <2>4. \A r \in Recipes : Explained(f, r)' = Explained(f, r)
    BY <1>1, <2>2 DEF Explained
  <2>5. Recorded(f)'
    BY <1>1, <1>2, <1>4, <2>3 DEF Kept, Recorded
  <2>6. Backed(f)'
    <3> SUFFICES ASSUME NEW r \in Recipes
                 PROVE  /\ earned'[f][r] = Explained(f, r)' + Paid(Pays(f, r)')
                        /\ earned'[f][r] <= native'[f].done
      BY <2>1 DEF Backed
    <3>1. earned[f][r] = Explained(f, r) + 0 /\ earned[f][r] <= native[f].done
      BY <1>1, <1>2, <2>1 DEF Kept, Backed
    <3>2. Explained(f, r) = earned[f][r]
      <4>1. Explained(f, r) \in Int
        <5>1. CASE record[f][r] = Nil
          BY <5>1 DEF Explained
        <5>2. CASE record[f][r] # Nil
          <6>1. record[f][r].offset \in Int /\ record[f][r].included \in BOOLEAN
            BY <1>1, <1>2, <5>2, KeptFields, RowFields
          <6> QED  BY <1>4, <2>2, <5>2, <6>1, PaidTimes DEF Explained
        <5> QED  BY <5>1, <5>2
      <4> QED  BY <3>1, <4>1
    <3>3. earned'[f][r] = Explained(f, r)' + Paid(Pays(f, r)')
      BY <1>5, <2>3, <2>4, <3>2
    <3> QED  BY <1>4, <1>5, <3>1, <3>3
  <2>7. Promising(f)'
    <3>1. Promising(f)
      BY <1>1, <1>2 DEF Kept
    <3> QED  BY <1>1, <2>2, <3>1 DEF Promising
  <2>8. Counted(f)'
    <3>1. Counted(f)
      BY <1>1, <1>2 DEF Kept
    <3> QED  BY <1>1, <2>2, <3>1 DEF Counted
  <2> QED  BY <2>5, <2>6, <2>7, <2>8 DEF Kept
<1>9. ASSUME NEW g \in alive \ {f} PROVE Kept(g)'
  <2>1. g \in Forces
    BY <1>2 DEF CreditTypeOK
  <2> QED  BY <1>1, <1>3, <1>4, <1>6, <2>1, OthersKept
<1>10. Due'
  BY <1>1, <1>3, <1>8, <1>9 DEF Due
<1> QED  BY <1>7, <1>10 DEF IInv

LEMMA CancelKeeps ==
    ASSUME IInv, NEW f \in Forces, NEW n \in 1 .. MaxQueue, Cancel(f, n),
           UNCHANGED <<earned, promise, foul>>
    PROVE  IInv'
<1>1. /\ Playing /\ f \in alive /\ n <= native[f].queued
      /\ native' = [native EXCEPT ![f].queued = @ - n]
      /\ event' = [Raised("cancelled", f) EXCEPT !.count = n]
      /\ UNCHANGED <<alive, config, record, history, pendingActive, refused>>
  BY DEF Cancel
<1>2. /\ CreditTypeOK /\ LedgerTypeOK /\ WatchTypeOK /\ Following /\ ~refused
      /\ \A g \in alive : Kept(g)
      /\ \A g, k : k # "none" => ~Awaits(k, g)
      /\ n \in Nat
  BY <1>1, PlayingKept, CreditAssumption
<1>3. event'.kind = "cancelled" /\ event'.force = f /\ event'.count = n
  BY <1>1, RaisedFields
<1>4. /\ native[f].done \in Nat /\ native[f].queued \in Nat
      /\ native' \in [Forces -> Natives]
      /\ native'[f].done = native[f].done /\ native'[f].queued = native[f].queued - n
      /\ native'[f].credit = native[f].credit
      /\ \A g \in Forces \ {f} : native'[g] = native[g]
  BY <1>1, <1>2, NativeFields, CreditAssumption DEF CreditTypeOK, Natives
<1>5. CreditTypeOK' /\ LedgerTypeOK' /\ WatchTypeOK' /\ Following' /\ RefusedForCause'
  BY <1>1, <1>2, <1>3, <1>4
     DEF CreditTypeOK, LedgerTypeOK, WatchTypeOK, Following, RefusedForCause, PendingIn
<1>6. Kept(f)'
  <2>1. /\ ~Awaits("finished", f)' /\ Awaits("cancelled", f)'
        /\ ~Awaits("finished", f) /\ ~Awaits("cancelled", f)
    BY <1>2, <1>3 DEF Awaits
  <2>2. SeenDone(f)' = SeenDone(f) /\ SeenQueued(f)' = SeenQueued(f)
    BY <1>2, <1>3, <1>4, <2>1 DEF SeenDone, SeenQueued
  <2>3. \A r : Included(r)' = Included(r)
    BY <1>1 DEF Included
  <2>4. \A r \in Recipes : Explained(f, r)' = Explained(f, r)
    BY <1>1, <2>2 DEF Explained
  <2>5. Recorded(f)' /\ Backed(f)' /\ Counted(f)'
    BY <1>1, <1>2, <1>4, <2>1, <2>2, <2>3, <2>4 DEF Kept, Recorded, Backed, Counted
  <2>6. Promising(f)'
    BY <1>1, <1>2, <2>2 DEF Kept, Promising
  <2> QED  BY <2>5, <2>6 DEF Kept
<1>7. ASSUME NEW g \in alive \ {f} PROVE Kept(g)'
  <2>1. g \in Forces
    BY <1>2 DEF CreditTypeOK
  <2> QED  BY <1>1, <1>3, <1>4, <2>1, OthersKept
<1>8. Due'
  BY <1>1, <1>3, <1>6, <1>7 DEF Due
<1> QED  BY <1>5, <1>8 DEF IInv

(* A force that starts over, or is gone.                                       *)
LEMMA ForgottenTypes ==
    ASSUME IInv, Playing, NEW f \in Forces, alive' \subseteq Forces,
           native' = [native EXCEPT ![f] = Unpaid], Forgotten(f), event'.count \in Nat,
           UNCHANGED <<config, record, history, pendingActive, refused>>
    PROVE  /\ CreditTypeOK' /\ LedgerTypeOK' /\ WatchTypeOK' /\ Following' /\ RefusedForCause'
           /\ native'[f] = Unpaid /\ earned'[f] = [r \in Recipes |-> 0]
           /\ promise'[f] = [r \in Family |-> Nil]
           /\ \A g \in Forces \ {f} :
                native'[g] = native[g] /\ earned'[g] = earned[g] /\ promise'[g] = promise[g]
<1>1. /\ CreditTypeOK /\ LedgerTypeOK /\ WatchTypeOK /\ Following /\ ~refused
  BY PlayingKept
<1>2. Unpaid \in Natives
  BY CreditAssumption DEF Unpaid, Natives
<1>3. /\ native' \in [Forces -> Natives] /\ native'[f] = Unpaid
      /\ \A g \in Forces \ {f} : native'[g] = native[g]
  BY <1>1, <1>2 DEF CreditTypeOK
<1>4. /\ earned' = [earned EXCEPT ![f] = [r \in Recipes |-> 0]]
      /\ promise' = [promise EXCEPT ![f] = [r \in Family |-> Nil]]
      /\ foul' = foul
  BY DEF Forgotten
<1>5. [r \in Recipes |-> 0] \in [Recipes -> Nat] /\ [r \in Family |-> Nil] \in [Family -> BOOLEAN \cup {Nil}]
  OBVIOUS
<1>6. /\ earned'[f] = [r \in Recipes |-> 0] /\ promise'[f] = [r \in Family |-> Nil]
      /\ \A g \in Forces \ {f} : earned'[g] = earned[g] /\ promise'[g] = promise[g]
      /\ WatchTypeOK'
  BY <1>1, <1>4, <1>5 DEF WatchTypeOK
<1>7. CreditTypeOK' /\ LedgerTypeOK' /\ Following' /\ RefusedForCause'
  BY <1>1, <1>3 DEF CreditTypeOK, LedgerTypeOK, Following, RefusedForCause, PendingIn
<1> QED  BY <1>3, <1>6, <1>7

LEMMA StartKeeps ==
    ASSUME IInv, NEW f \in Forces, Start(f), Forgotten(f)
    PROVE  IInv'
<1>1. /\ Playing /\ alive' = alive \cup {f}
      /\ native' = [native EXCEPT ![f] = Unpaid] /\ event' = Raised("started", f)
      /\ UNCHANGED <<config, record, history, pendingActive, refused>>
  BY DEF Start
<1>2. event'.kind = "started" /\ event'.force = f /\ event'.count = 0
  BY <1>1, RaisedFields
<1>3. alive \subseteq Forces
  BY <1>1, PlayingKept DEF CreditTypeOK
<1>4. alive' \subseteq Forces /\ event'.count \in Nat
  BY <1>1, <1>2, <1>3
<1>5. /\ CreditTypeOK' /\ LedgerTypeOK' /\ WatchTypeOK' /\ Following' /\ RefusedForCause'
      /\ native'[f] = Unpaid /\ earned'[f] = [r \in Recipes |-> 0]
      /\ promise'[f] = [r \in Family |-> Nil]
      /\ \A g \in Forces \ {f} :
           native'[g] = native[g] /\ earned'[g] = earned[g] /\ promise'[g] = promise[g]
  BY <1>1, <1>4, ForgottenTypes
<1>6. Begun(f)'
  <2>1. Unpaid' = Unpaid
    BY DEF Unpaid
  <2> QED  BY <1>5, <2>1 DEF Begun
<1>7. ASSUME NEW g \in alive \ {f} PROVE Kept(g)'
  BY <1>1, <1>2, <1>3, <1>5, OthersKept
<1>8. Due'
  <2>1. event'.force \in alive' /\ Begun(f)' /\ \A g \in alive' \ {f} : Kept(g)'
    BY <1>1, <1>2, <1>6, <1>7
  <2> QED  BY <1>2, <2>1 DEF Due, Begun
<1> QED  BY <1>5, <1>8 DEF IInv

LEMMA MergeKeeps ==
    ASSUME IInv, NEW s \in Forces, NEW d \in Forces, Merge(s, d), Forgotten(s)
    PROVE  IInv'
<1>1. /\ Playing /\ s \in alive /\ d \in alive /\ d # s /\ alive' = alive \ {s}
      /\ native' = [native EXCEPT ![s] = Unpaid]
      /\ event' = [Raised("merged", d) EXCEPT !.source = s]
      /\ UNCHANGED <<config, record, history, pendingActive, refused>>
  BY DEF Merge
<1>2. event'.kind = "merged" /\ event'.force = d /\ event'.source = s /\ event'.count = 0
  BY <1>1, RaisedFields
<1>3. alive \subseteq Forces
  BY <1>1, PlayingKept DEF CreditTypeOK
<1>4. alive' \subseteq Forces /\ event'.count \in Nat
  BY <1>1, <1>2, <1>3
<1>5. /\ CreditTypeOK' /\ LedgerTypeOK' /\ WatchTypeOK' /\ Following' /\ RefusedForCause'
      /\ \A g \in Forces \ {s} :
           native'[g] = native[g] /\ earned'[g] = earned[g] /\ promise'[g] = promise[g]
  BY <1>1, <1>4, ForgottenTypes
<1>6. ASSUME NEW g \in alive' PROVE Kept(g)'
  <2>1. g \in alive /\ g \in Forces /\ g # s
    BY <1>1, <1>3
  <2>2. /\ Kept(g) /\ ~Awaits("finished", g) /\ ~Awaits("cancelled", g)
    BY <1>1, <2>1, PlayingKept
  <2>3. ~Awaits("finished", g)' /\ ~Awaits("cancelled", g)'
    BY <1>2 DEF Awaits
  <2> QED  BY <1>1, <1>5, <2>1, <2>2, <2>3, KeptFrame
<1>7. Due'
  BY <1>1, <1>2, <1>6 DEF Due
<1> QED  BY <1>5, <1>7 DEF IInv

(* A ledger is kept, or is that of the inputs the save was made under.         *)
LEMMA LoadKeeps ==
    ASSUME ~Strict, IInv, NEW c \in Configs, ELoad(c)
    PROVE  IInv'
<1>1. /\ Playing /\ config' = c
      /\ native' = [f \in Forces |-> [native[f] EXCEPT !.credit =
                      [r \in Recipes |-> IF r \in c.listed \cup Overlaps THEN @[r] ELSE 0]]]
      /\ pendingActive' = PendingIn(record, c.listed)
      /\ event' = IF c = config THEN NoEvent ELSE Raised("configured", Nil)
      /\ UNCHANGED <<alive, record, history, refused>>
      /\ promise' = [f \in Forces |-> [r \in Family |-> Promised(f, r, c)]]
      /\ foul' = (foul \/ ~(config.listed \subseteq c.listed))
      /\ UNCHANGED earned
  BY DEF ELoad, Load
<1>2. /\ CreditTypeOK /\ LedgerTypeOK /\ WatchTypeOK /\ Following /\ ~refused
      /\ \A g \in alive : Kept(g)
      /\ \A g, k : k # "none" => ~Awaits(k, g)
      /\ event = NoEvent
  BY <1>1, PlayingKept DEF Playing, Quiet
<1>3. /\ event'.count = 0
      /\ c = config => event'.kind = "none"
      /\ c # config => event'.kind = "configured"
  BY <1>1, RaisedFields DEF NoEvent
<1>4. \A g : ~Awaits("finished", g)' /\ ~Awaits("cancelled", g)'
  BY <1>3 DEF Awaits
<1>5. /\ c.listed \subseteq Family /\ config.listed \subseteq Family /\ Family \subseteq Recipes
      /\ Family \cap Overlaps = {} /\ Overlaps \subseteq Recipes
      /\ c.private \in BOOLEAN /\ config.private \in BOOLEAN
  BY <1>2, ConfigFields, CreditAssumption DEF Configs, Recipes
<1>6. ASSUME NEW g \in Forces
      PROVE  /\ native'[g] \in Natives
             /\ native'[g].done = native[g].done /\ native'[g].queued = native[g].queued
             /\ \A r \in Recipes : native'[g].credit[r] =
                  IF r \in c.listed \cup Overlaps THEN native[g].credit[r] ELSE 0
  <2> DEFINE credit == [r \in Recipes |-> IF r \in c.listed \cup Overlaps THEN native[g].credit[r] ELSE 0]
  <2>1. native[g] \in Natives /\ credit \in [Recipes -> Int]
    BY <1>2, NativeFields
  <2>2. native'[g] = [native[g] EXCEPT !.credit = credit]
    BY <1>1
  <2>3. credit = [r \in Recipes |-> IF r \in c.listed \cup Overlaps THEN native[g].credit[r] ELSE 0]
    OBVIOUS
  <2> HIDE DEF credit
  <2>4. /\ native'[g] \in Natives /\ native'[g].done = native[g].done
        /\ native'[g].queued = native[g].queued /\ native'[g].credit = credit
    BY <2>1, <2>2 DEF Natives
  <2> QED  BY <2>3, <2>4
<1>7. native' \in [Forces -> Natives]
  BY <1>1, <1>6
<1>8. ASSUME NEW g \in Forces, NEW r \in Family
      PROVE  /\ promise'[g][r] = Promised(g, r, c)
             /\ promise'[g][r] \in BOOLEAN \cup {Nil}
             /\ native[g].queued > 0 /\ c.private =>
                  /\ r \notin config.listed \cap c.listed => promise'[g][r] = Nil
                  /\ r \in config.listed \cap c.listed =>
                       promise'[g][r] = IF config.private THEN promise[g][r] ELSE Included(r)
  <2>1. promise'[g][r] = Promised(g, r, c)
    BY <1>1
  <2>2. promise[g][r] \in BOOLEAN \cup {Nil} /\ Included(r) \in BOOLEAN
    BY <1>2, ConfigFields DEF WatchTypeOK
  <2>3. native[g].queued > 0 => native[g].queued # 0
    BY <1>2, NativeFields
  <2>4. Promised(g, r, c) \in BOOLEAN \cup {Nil}
    BY <2>2 DEF Promised
  <2>5. ASSUME native[g].queued > 0
        PROVE  Promised(g, r, c) = IF r \notin config.listed \cap c.listed THEN Nil
                                   ELSE IF config.private THEN promise[g][r] ELSE Included(r)
    BY <2>3, <2>5 DEF Promised
  <2> QED  BY <2>1, <2>4, <2>5
<1>9. CreditTypeOK' /\ LedgerTypeOK' /\ WatchTypeOK' /\ Following' /\ RefusedForCause'
  <2>1. pendingActive' \in BOOLEAN /\ Following'
    BY <1>1 DEF PendingIn, Following
  <2>2. foul' \in BOOLEAN /\ promise' \in [Forces -> [Family -> BOOLEAN \cup {Nil}]]
    <3>1. promise' = [g \in Forces |-> [r \in Family |-> promise'[g][r]]]
      BY <1>1
    <3>2. \A g \in Forces, r \in Family : promise'[g][r] \in BOOLEAN \cup {Nil}
      BY <1>8
    <3>3. foul' \in BOOLEAN
      BY <1>1
    <3> QED  BY <3>1, <3>2, <3>3
  <2>3. CreditTypeOK'
    BY <1>1, <1>2, <1>7, <2>1 DEF CreditTypeOK
  <2>4. LedgerTypeOK' /\ WatchTypeOK' /\ RefusedForCause'
    BY <1>1, <1>2, <1>3, <2>2 DEF LedgerTypeOK, WatchTypeOK, RefusedForCause
  <2> QED  BY <2>1, <2>3, <2>4
<1>10. ASSUME NEW g \in alive
       PROVE  /\ g \in Forces /\ Kept(g)
              /\ SeenDone(g) = native[g].done /\ SeenDone(g)' = native[g].done
              /\ SeenQueued(g) = native[g].queued /\ SeenQueued(g)' = native[g].queued
              /\ Backed(g)'
  <2>1. g \in Forces /\ Kept(g) /\ ~Awaits("finished", g) /\ ~Awaits("cancelled", g)
    BY <1>2 DEF CreditTypeOK
  <2>2. /\ SeenDone(g) = native[g].done /\ SeenDone(g)' = native[g].done
        /\ SeenQueued(g) = native[g].queued /\ SeenQueued(g)' = native[g].queued
    BY <1>2, <1>4, <1>6, <2>1, NativeFields DEF SeenDone, SeenQueued
  <2>3. \A r \in Recipes : Explained(g, r)' = Explained(g, r)
    BY <1>1, <2>2 DEF Explained
  <2>4. \A r \in Recipes : earned[g][r] = Explained(g, r) + 0 /\ earned[g][r] <= native[g].done
    BY <2>1 DEF Kept, Backed
  <2>5. Backed(g)'
    BY <1>1, <1>4, <1>6, <2>1, <2>3, <2>4 DEF Backed
  <2> QED  BY <2>1, <2>2, <2>5
<1>11. CASE c = config
  <2>1. ASSUME NEW g \in alive PROVE Kept(g)'
    <3>1. /\ g \in Forces /\ Kept(g) /\ Recorded(g) /\ Promising(g) /\ Counted(g) /\ Backed(g)'
          /\ SeenDone(g) = native[g].done /\ SeenDone(g)' = native[g].done
          /\ SeenQueued(g) = native[g].queued /\ SeenQueued(g)' = native[g].queued
      BY <1>10 DEF Kept
    <3>2. \A r : Included(r)' = Included(r)
      BY <1>1, <1>11 DEF Included
    <3>3. \A r \in Recipes : native'[g].credit[r] = native[g].credit[r]
      <4> SUFFICES ASSUME NEW r \in Recipes
                   PROVE  native'[g].credit[r] = native[g].credit[r]
        OBVIOUS
      <4>1. CASE r \in config.listed \cup Overlaps
        BY <1>6, <1>11, <3>1, <4>1
      <4>2. CASE r \in Family \ config.listed
        BY <1>5, <1>6, <1>11, <3>1, <4>2 DEF Recorded
      <4> QED  BY <4>1, <4>2 DEF Recipes
    <3>4. Recorded(g)'
      BY <1>1, <1>11, <3>1, <3>2, <3>3 DEF Recorded
    <3>5. Promising(g)'
      <4> SUFFICES ASSUME c.private, native[g].queued > 0, NEW r \in Family
                   PROVE  IF r \notin c.listed THEN promise'[g][r] # TRUE
                          ELSE IF record[g][r].pending > 0
                          THEN promise'[g][r] = record[g][r].payable
                                 /\ record[g][r].pending >= native[g].queued
                          ELSE promise'[g][r] = Nil
        BY <1>1, <3>1 DEF Promising
      <4>1. IF r \notin c.listed THEN promise[g][r] # TRUE
            ELSE IF record[g][r].pending > 0
            THEN promise[g][r] = record[g][r].payable /\ record[g][r].pending >= native[g].queued
            ELSE promise[g][r] = Nil
        BY <1>11, <3>1 DEF Promising
      <4>2. CASE r \notin c.listed
        <5>1. promise'[g][r] = Nil
          BY <1>8, <3>1, <4>2
        <5> QED  BY <4>2, <5>1, NilAssumption
      <4>3. CASE r \in c.listed
        <5>1. promise'[g][r] = promise[g][r]
          BY <1>8, <1>11, <3>1, <4>3
        <5> QED  BY <4>1, <4>3, <5>1
      <4> QED  BY <4>2, <4>3
    <3>6. pendingActive' = pendingActive
      BY <1>1, <1>2, <1>11 DEF Following
    <3>7. Counted(g)'
      BY <1>1, <1>11, <3>1, <3>6 DEF Counted
    <3> QED  BY <3>1, <3>4, <3>5, <3>7 DEF Kept
  <2>2. Due'
    BY <1>1, <1>3, <1>11, <2>1 DEF Due
  <2> QED  BY <1>9, <2>2 DEF IInv
<1>12. CASE c # config
  <2>1. ASSUME NEW g \in alive PROVE Saved(g)'
    <3>1. /\ g \in Forces /\ Backed(g)'
          /\ ~Awaits("finished", g) /\ ~Awaits("cancelled", g) /\ Kept(g) /\ Saved(g)
          /\ history[g] = config.listed
      BY <1>2, <1>10, KeptIsSaved DEF Kept, Recorded
    <3>2. history'[g] # Nil /\ (foul' \/ history'[g] \subseteq c.listed)
      BY <1>1, <3>1 DEF Saved
    <3>3. ASSUME NEW r \in Recipes
          PROVE  LET p == record[g][r]
                 IN  /\ native'[g].credit[r] = IF p = Nil \/ r \in Family \ c.listed THEN 0 ELSE p.offset
                     /\ p = Nil <=> r \in Family \ history[g]
                     /\ (p # Nil /\ r \in Family) =>
                          /\ p.completed <= native[g].done
                          /\ ~p.private => p.pending = 0
                          /\ p.pending = 0 => p.payable = p.included
                          /\ p.pending > 0 /\ p.payable # p.included => p.completed = native[g].done
      <4>1. native'[g].credit[r] = IF record[g][r] = Nil \/ r \in Family \ c.listed THEN 0
                                   ELSE record[g][r].offset
        <5>1. r \in c.listed \cup Overlaps \/ r \in Family \ c.listed
          BY DEF Recipes
        <5>2. record[g][r] = Nil => native[g].credit[r] = 0
          BY <3>1 DEF Saved
        <5>3. record[g][r] # Nil => native[g].credit[r] = record[g][r].offset
          BY <1>2, <3>1, KeptFields
        <5>4. r \in Family \ c.listed => r \notin c.listed \cup Overlaps
          BY <1>5
        <5> QED  BY <1>6, <3>1, <5>1, <5>2, <5>3, <5>4
      <4> QED  BY <3>1, <4>1 DEF Saved
    <3>4. ASSUME c.private, native[g].queued > 0, NEW r \in Family
          PROVE  LET p == record[g][r]
                 IN  IF r \notin c.listed THEN promise'[g][r] # TRUE
                     ELSE IF p = Nil THEN promise'[g][r] = Nil
                     ELSE IF ~p.private THEN promise'[g][r] = p.included
                     ELSE IF p.pending > 0
                     THEN promise'[g][r] = p.payable /\ p.pending >= native[g].queued
                     ELSE promise'[g][r] = Nil
      <4> DEFINE p == record[g][r]
      <4>1. r \in Recipes
        BY <1>5
      <4>2. p = Nil <=> r \notin config.listed
        BY <3>1, <4>1 DEF Saved
      <4>3. CASE r \notin c.listed \/ p = Nil
        <5>1. promise'[g][r] = Nil
          BY <1>8, <3>1, <3>4, <4>2, <4>3
        <5>2. promise'[g][r] # TRUE
          BY <5>1, NilAssumption
        <5> QED  BY <4>3, <5>1, <5>2
      <4>4. CASE r \in c.listed /\ p # Nil
        <5>1. promise'[g][r] = IF config.private THEN promise[g][r] ELSE Included(r)
          BY <1>8, <3>1, <3>4, <4>2, <4>4
        <5>2. p.private = config.private /\ p.included = Included(r)
          BY <1>2, <3>1, <4>1, <4>4, KeptFields
        <5>3. CASE ~config.private
          BY <4>4, <5>1, <5>2, <5>3
        <5>4. CASE config.private
          <6>1. IF p.pending > 0
                THEN promise[g][r] = p.payable /\ p.pending >= native[g].queued
                ELSE promise[g][r] = Nil
            BY <3>1, <3>4, <4>2, <4>4, <5>2, <5>4 DEF Saved
          <6>2. promise'[g][r] = promise[g][r] /\ p.private
            BY <5>1, <5>2, <5>4
          <6> HIDE DEF p
          <6> QED  BY <4>4, <6>1, <6>2 DEF p
        <5> QED  BY <5>3, <5>4
      <4> QED  BY <4>3, <4>4
    <3>5. native'[g].done = native[g].done /\ native'[g].queued = native[g].queued
      BY <1>6, <3>1
    <3>6. Backed(g)' /\ record' = record /\ history' = history /\ config' = c
      BY <1>1, <3>1
    <3> QED  BY <3>2, <3>3, <3>4, <3>5, <3>6 DEF Saved
  <2>2. Due'
    BY <1>1, <1>3, <1>12, <2>1 DEF Due
  <2> QED  BY <1>9, <2>2 DEF IInv
<1> QED  BY <1>11, <1>12
-----------------------------------------------------------------------------
(* The invariant, and what follows from it                                     *)

LEMMA BeginKeeps ==
    ASSUME EInit
    PROVE  IInv
<1>1. /\ config \in Configs /\ alive \in SUBSET Forces
      /\ record = [f \in Forces |-> Blank] /\ history = [f \in Forces |-> Nil]
      /\ pendingActive = FALSE /\ refused = FALSE
  <2>1. alive \in (SUBSET Forces) \ {{}}
    BY DEF EInit, Init
  <2> QED  BY <2>1 DEF EInit, Init
<1>2. /\ event.kind \in {"init", "configured"} /\ event.count = 0
      /\ event.kind = "init" => event.origin = "none"
  <2>1. \/ event = Raised("init", Nil)
        \/ \E o \in Origins : event = [Raised("configured", Nil) EXCEPT !.origin = o]
    BY DEF EInit, Init
  <2>2. Raised("init", Nil).origin = "none"
    BY DEF Raised, NoEvent
  <2>3. CASE event = Raised("init", Nil)
    BY <2>2, <2>3, RaisedFields
  <2>4. CASE \E o \in Origins : event = [Raised("configured", Nil) EXCEPT !.origin = o]
    BY <2>4, RaisedFields
  <2> QED  BY <2>1, <2>3, <2>4
<1>3. ASSUME NEW f \in Forces
      PROVE  /\ native[f] \in Natives /\ native[f].done \in Nat
             /\ \A r \in Recipes : native[f].credit[r] = 0
             /\ f \in alive /\ event.kind = "init" => native[f] = Unpaid
  <2>1. Unpaid.credit = [r \in Recipes |-> 0]
    BY DEF Unpaid
  <2>2. native[f] \in [done : 0 .. MaxLevel, queued : 0 .. MaxQueue, credit : {Unpaid.credit}]
    BY DEF EInit, Init
  <2>3. [r \in Recipes |-> 0] \in [Recipes -> Int] /\ 0 .. MaxLevel \subseteq Nat
    BY CreditAssumption
  <2>4. f \in alive /\ event.kind = "init" => native[f] = Unpaid
    BY DEF EInit, Init
  <2> QED  BY <2>1, <2>2, <2>3, <2>4 DEF Natives
<1>4. native \in [Forces -> Natives]
  <2>1. native = [f \in Forces |-> native[f]]
    BY DEF EInit, Init
  <2> QED  BY <1>3, <2>1
<1>5. \A f \in Forces : record[f] = Blank /\ history[f] = Nil /\ \A r \in Recipes : record[f][r] = Nil
  BY <1>1, BlankPrior
<1>6. CreditTypeOK
  BY <1>1, <1>4, <1>5 DEF CreditTypeOK
<1>7. LedgerTypeOK
  BY <1>1, <1>2, BlankPrior DEF LedgerTypeOK
<1>8. /\ Following /\ RefusedForCause
  <2>1. config.listed \subseteq Recipes
    BY <1>6, ConfigFields DEF Recipes
  <2>2. ~PendingIn(record, config.listed)
    BY <1>5, <2>1 DEF PendingIn
  <2> QED  BY <1>1, <2>2 DEF Following, RefusedForCause, PendingIn
<1>9. ASSUME NEW f \in Forces, NEW r \in Recipes
      PROVE  /\ earned[f][r] = Paid(IF event.origin # "none" /\ r \in Family THEN r \in Published
                                    ELSE Included(r)) * native[f].done
             /\ earned[f][r] \in Nat
  <2>1. earned[f][r] = IF event.origin # "none" /\ r \in Family
                       THEN Paid(r \in Published) * native[f].done
                       ELSE Paid(Included(r)) * native[f].done
    BY DEF EInit
  <2>2. CASE event.origin # "none" /\ r \in Family
    <3>1. earned[f][r] = Paid(r \in Published) * native[f].done
      BY <2>1, <2>2
    <3>2. earned[f][r] \in Nat
      BY <1>3, <3>1 DEF Paid
    <3> QED  BY <2>2, <3>1, <3>2
  <2>3. CASE ~(event.origin # "none" /\ r \in Family)
    <3>1. earned[f][r] = Paid(Included(r)) * native[f].done
      BY <2>1, <2>3
    <3>2. earned[f][r] \in Nat
      BY <1>3, <3>1 DEF Paid
    <3> QED  BY <2>3, <3>1, <3>2
  <2> QED  BY <2>2, <2>3
<1>10. WatchTypeOK
  <2>1. earned \in [Forces -> [Recipes -> Nat]]
    <3>1. earned = [f \in Forces |-> [r \in Recipes |-> earned[f][r]]]
      BY DEF EInit
    <3> QED  BY <1>9, <3>1
  <2>2. promise \in [Forces -> [Family -> BOOLEAN \cup {Nil}]]
    <3>1. \A r : (r \in Published) \in BOOLEAN
      OBVIOUS
    <3> QED  BY <3>1 DEF EInit
  <2>3. foul \in BOOLEAN
    BY DEF EInit
  <2> QED  BY <2>1, <2>2, <2>3 DEF WatchTypeOK
<1>11. ASSUME event.kind = "init", NEW g \in alive PROVE Begun(g)
  <2>1. g \in Forces /\ native[g] = Unpaid /\ event.origin = "none"
    BY <1>1, <1>2, <1>3, <1>11
  <2>2. native[g].done = 0
    BY <2>1 DEF Unpaid
  <2>3. earned[g] = [r \in Recipes |-> 0]
    <3>1. \A r \in Recipes : earned[g][r] = 0
      <4> SUFFICES ASSUME NEW r \in Recipes PROVE earned[g][r] = 0
        OBVIOUS
      <4>1. earned[g][r] = Paid(Included(r)) * 0
        BY <1>9, <2>1, <2>2
      <4> QED  BY <4>1 DEF Paid
    <3>2. earned[g] = [r \in Recipes |-> earned[g][r]]
      BY <1>10, <2>1 DEF WatchTypeOK
    <3> QED  BY <3>1, <3>2
  <2>4. promise[g] = [r \in Family |-> Nil]
    BY <2>1 DEF EInit
  <2> QED  BY <2>1, <2>3, <2>4 DEF Begun
<1>12. ASSUME event.kind = "configured", NEW g \in alive PROVE Unexplained(g)
  <2>1. g \in Forces
    BY <1>1
  <2>2. \A r \in Family : promise[g][r] = IF event.origin # "none" THEN r \in Published ELSE Nil
    BY <2>1 DEF EInit
  <2>3. event.origin \in {"none", IF config.private THEN "public" ELSE "private"}
          \/ ~(Published \subseteq config.listed) => foul
    BY <1>12 DEF EInit
  <2> QED  BY <1>3, <1>5, <1>9, <2>1, <2>2, <2>3 DEF Unexplained
<1>13. Due
  BY <1>2, <1>11, <1>12 DEF Due
<1> QED  BY <1>6, <1>7, <1>8, <1>10, <1>13 DEF IInv

LEMMA NextKeeps ==
    ASSUME ~Strict, IInv, [ENext]_evars
    PROVE  IInv'
<1>1. CASE MirNext /\ UNCHANGED <<earned, promise, foul>>
  BY <1>1, InitKeeps, ConfigurationKeeps, StartedKeeps, MergedKeeps, FinishedKeeps, CancelledKeeps
     DEF MirNext
<1>2. ASSUME NEW f \in Forces, Enqueue(f), UNCHANGED <<earned, promise, foul>> PROVE IInv'
  BY <1>2, EnqueueKeeps
<1>3. ASSUME NEW f \in Forces, EComplete(f) PROVE IInv'
  BY <1>3, CompleteKeeps
<1>4. ASSUME NEW f \in Forces, Start(f), Forgotten(f) PROVE IInv'
  BY <1>4, StartKeeps
<1>5. ASSUME NEW f \in Forces, NEW n \in 1 .. MaxQueue, Cancel(f, n),
             UNCHANGED <<earned, promise, foul>>
      PROVE  IInv'
  BY <1>5, CancelKeeps
<1>6. ASSUME NEW f \in Forces, NEW s \in Forces, Merge(s, f), Forgotten(s) PROVE IInv'
  BY <1>6, MergeKeeps
<1>7. ASSUME NEW c \in Configs, ELoad(c) PROVE IInv'
  BY <1>7, LoadKeeps
<1>8. CASE UNCHANGED evars
  <2>1. /\ CreditTypeOK' = CreditTypeOK /\ LedgerTypeOK' = LedgerTypeOK /\ WatchTypeOK' = WatchTypeOK
        /\ Following' = Following /\ RefusedForCause' = RefusedForCause
    BY <1>8 DEF evars, cvars, CreditTypeOK, LedgerTypeOK, WatchTypeOK, Following, RefusedForCause,
                PendingIn
  <2>2. Due' = Due
    BY <1>8 DEF evars, cvars, Due, Begun, Unexplained, Saved, Kept, Recorded, Backed, Promising, Counted,
                Explained, Awaits, SeenDone, SeenQueued, Included, Pays
  <2> QED  BY <1>8, <2>1, <2>2 DEF IInv, evars, cvars
<1> QED  BY <1>1, <1>2, <1>3, <1>4, <1>5, <1>6, <1>7, <1>8 DEF ENext

(* A kept force has in effect what it earned, and its owed work is heard.      *)
LEMMA KeptShows ==
    ASSUME IInv, Playing, NEW f \in alive
    PROVE  /\ \A r \in Recipes : Effect(f, r) = earned[f][r]
           /\ config.private => \A r \in config.listed :
                (native[f].queued > 0 /\ Pays(f, r) # Included(r)) => pendingActive
<1>1. /\ CreditTypeOK /\ LedgerTypeOK /\ WatchTypeOK /\ Following /\ Kept(f) /\ f \in Forces
      /\ ~Awaits("finished", f) /\ ~Awaits("cancelled", f)
  BY PlayingKept DEF CreditTypeOK
<1>2. /\ SeenDone(f) = native[f].done /\ SeenQueued(f) = native[f].queued
      /\ native[f].done \in Nat /\ native[f].queued \in Nat
  BY <1>1, NativeFields DEF SeenDone, SeenQueued
<1>3. ASSUME NEW r \in Recipes PROVE Effect(f, r) = earned[f][r]
  <2>1. earned[f][r] = Explained(f, r) + 0 /\ Included(r) \in BOOLEAN
    BY <1>1, ConfigFields DEF Kept, Backed
  <2>2. CASE record[f][r] = Nil
    <3>1. native[f].credit[r] = 0 /\ ~Included(r)
      BY <1>1, <2>2, KeptFields, ConfigFields
    <3> QED  BY <1>2, <2>1, <2>2, <3>1 DEF Effect, Explained, Paid
  <2>3. CASE record[f][r] # Nil
    <3>1. /\ record[f][r].offset = native[f].credit[r] /\ record[f][r].included = Included(r)
          /\ record[f][r].offset \in Int
      BY <1>1, <2>3, KeptFields, RowFields
    <3>2. Paid(Included(r)) * native[f].done \in Int
      BY <1>2, <2>1, PaidTimes
    <3> QED  BY <1>2, <2>1, <2>3, <3>1, <3>2 DEF Effect, Explained
  <2> QED  BY <2>2, <2>3
<1>4. ASSUME config.private, NEW r \in config.listed, native[f].queued > 0, Pays(f, r) # Included(r)
      PROVE  pendingActive
  <2>1. r \in Family /\ r \in Recipes
    BY <1>1, ConfigFields DEF Recipes
  <2>2. promise[f][r] # Nil /\ Pays(f, r) = promise[f][r]
    BY <1>4 DEF Pays
  <2>3. IF record[f][r].pending > 0
        THEN promise[f][r] = record[f][r].payable /\ record[f][r].pending >= native[f].queued
        ELSE promise[f][r] = Nil
    BY <1>1, <1>2, <1>4, <2>1 DEF Kept, Promising
  <2>4. record[f][r].pending > 0 /\ promise[f][r] = record[f][r].payable
    BY <2>2, <2>3
  <2>5. record[f][r].included = Included(r)
    BY <1>1, <2>1, KeptFields
  <2>6. record[f][r].payable # record[f][r].included
    BY <1>4, <2>2, <2>4, <2>5
  <2> QED  BY <1>1, <2>4, <2>6, KeptOwed
<1> QED  BY <1>3, <1>4

LEMMA InvHolds == ASSUME ~Strict PROVE ESpec => []IInv
<1>1. EInit => IInv
  BY BeginKeeps
<1>2. IInv /\ [ENext]_evars => IInv'
  BY NextKeeps
<1> QED  BY <1>1, <1>2, PTL DEF ESpec

(* Records and native levels keep their shape, and the carriers of a family    *)
(* the range the native number can hold (preflight_family_transition,          *)
(* on_research_finished).                                                      *)
THEOREM CreditTypeCorrect == ASSUME ~Strict PROVE ESpec => []CreditTypeOK
<1>1. IInv => CreditTypeOK
  BY DEF IInv
<1> QED  BY <1>1, InvHolds, PTL

(* Every recipe has in effect exactly the levels it earned, whatever is        *)
(* included, left out, hidden and put back while work is queued, completed,    *)
(* cancelled, reset or merged (native_credits.lua).                            *)
THEOREM EarnedLevelsKept == ASSUME ~Strict PROVE ESpec => []EarnedKept
<1>1. IInv => EarnedKept
  BY KeptShows DEF EarnedKept
<1> QED  BY <1>1, InvHolds, PTL

(* Only dropped recipes, an unexplained save or a count no carrier holds stop  *)
(* the game (family_failure).                                                  *)
THEOREM RefusalsHaveCause == ASSUME ~Strict PROVE ESpec => []RefusedForCause
<1>1. IInv => RefusedForCause
  BY DEF IInv
<1> QED  BY <1>1, InvHolds, PTL

(* While hidden work is owed other pay, MIR looks at completions               *)
(* (refresh_pending, on_load).                                                 *)
THEOREM OwedWorkHeard == ASSUME ~Strict PROVE ESpec => []OwedHeard
<1>1. IInv => OwedHeard
  BY KeptShows DEF OwedHeard
<1> QED  BY <1>1, InvHolds, PTL
=============================================================================
