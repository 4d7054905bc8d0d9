----------------------------- MODULE Translations -----------------------------
(* The labels of the Research Library (runtime/library_translations.lua and    *)
(* the parts of runtime/library.lua that own its caches and ledger).  A label  *)
(* is asked of the engine for one player and answered later, in any order, or  *)
(* never; meanwhile the view is closed, reopened, re-filtered or saved, and    *)
(* the player changes locale or force, leaves, or is replaced by another.      *)
(* A view's scope is an epoch taken from a counter in storage, so a request is *)
(* either of the present epoch (current) or of an older one; the generation of *)
(* a cache moves only with its epoch.                                          *)
EXTENDS Integers, SequencesExt

CONSTANTS
    Players,        \* player indices
    Sites,          \* what a label depends on besides its key: locale and force
    Keys,           \* what labels are asked for
    Catalogue,      \* Catalogue[v], the keys of catalogue view v in order
    LastId,         \* bound: the highest request id, reused once nobody knows it
    Window,         \* outstanding_limit
    Work,           \* dispatch_work_limit
    Batch,          \* refresh_batch
    Expiry,         \* expiry_ticks, in maintenance periods
    Refusable,      \* the keys whose request the engine may refuse
    Nil

RetryLimit == 2     \* retry_limit

Ids == 1 .. LastId  \* what the engine gives a request

ASSUME WindowAssumption == {Window, Work, Batch, Expiry, LastId} \subseteq Nat \ {0}
ASSUME CatalogueAssumption ==
    /\ "other" \notin DOMAIN Catalogue
    /\ \A v \in DOMAIN Catalogue :
         Catalogue[v] \in Seq(Keys) /\ IsInjective(Catalogue[v])

VARIABLES
    desk,           \* desk[p], all that concerns one player index
    scheduled       \* the maintenance tick is installed

tvars == <<desk, scheduled>>

Tabs == (DOMAIN Catalogue) \cup {"other"}
Answers == [key : Keys, site : Sites, life : BOOLEAN]
Requests == [id : Ids, key : Keys, current : BOOLEAN]

(* labels[k] is what the engine answered, pending what it was asked; keys not  *)
(* asked yet and keys to ask again form one queue.                             *)
Caches ==
    [site : Sites, view : DOMAIN Catalogue, queue : Seq(Keys), settled : SUBSET Keys,
     labels : [Keys -> Answers \cup {Nil}], tries : [Keys -> Nat],
     fresh : Nat, refresh : BOOLEAN, pending : SUBSET Requests]

ASSUME NilAssumption ==
    Nil \notin Answers /\ Nil \notin Caches /\ \A requests \in SUBSET Requests : Nil # requests

(* The engine's side: present .. age.  MIR's: the view (tab, open, refresh),   *)
(* the working cache, whether storage lists it, and the issued-request ledger  *)
(* of this player (active) and of a removed one (retired).                     *)
Desks ==
    [present : BOOLEAN, connected : BOOLEAN, life : BOOLEAN, site : Sites,
     moved : BOOLEAN, rooted : BOOLEAN, flight : [Ids -> Answers \cup {Nil}],
     age : [Ids -> 0 .. Expiry],
     tab : Tabs, open : BOOLEAN, refresh : BOOLEAN,
     cache : Caches \cup {Nil}, saved : BOOLEAN,
     active : (SUBSET Requests) \cup {Nil}, retired : (SUBSET Requests) \cup {Nil}]

IdsOf(requests) == IF requests = Nil THEN {} ELSE {r.id : r \in requests}
Known(s) == IdsOf(s.active) \cup IdsOf(s.retired)
              \cup (IF s.cache = Nil THEN {} ELSE IdsOf(s.cache.pending))
Rooted(s) == s.present /\ s.connected /\ s.rooted
Ledger(requests) == IF requests = {} THEN Nil ELSE requests
-----------------------------------------------------------------------------
(* The cache                                                                   *)

(* Settling a key asks for a re-render every Batch keys and at the last one.   *)
Settle(c, k, label) ==
    IF k \in c.settled THEN c
    ELSE [c EXCEPT !.settled = @ \cup {k}, !.labels[k] = label,
                   !.fresh = IF @ < Batch THEN @ + 1 ELSE @,
                   !.refresh = @ \/ c.fresh + 1 >= Batch
                                 \/ Cardinality(c.settled) + 1 >= Len(Catalogue[c.view])]

(* The second failure leaves the key without a label.                          *)
Retry(c, k) ==
    LET d == [c EXCEPT !.tries[k] = @ + 1]
    IN  IF d.tries[k] >= RetryLimit THEN Settle(d, k, Nil)
        ELSE IF Contains(d.queue, k) THEN d ELSE [d EXCEPT !.queue = Append(@, k)]

Waiting(c, k) == k \notin c.settled /\ \A r \in c.pending : r.current => r.key # k

Release(requests, id) == {r \in requests : r.id # id}

(* Expired requests are released and, in order of their ids, asked again.      *)
Maintain(s) ==
    LET expired  == {r \in s.cache.pending : s.age[r.id] >= Expiry}
        again(i) == {r \in expired : r.id = i /\ r.current}
        after[i \in 0 .. LastId] ==
          IF i = 0 THEN [s.cache EXCEPT !.pending = @ \ expired]
          ELSE IF again(i) = {} THEN after[i - 1]
          ELSE Retry(after[i - 1], (CHOOSE r \in again(i) : TRUE).key)
    IN  [s EXCEPT !.cache = after[LastId]]
-----------------------------------------------------------------------------
(* The Library's ledger and views                                              *)

Sync(s) == [s EXCEPT !.active = Ledger(s.cache.pending), !.saved = TRUE]

(* Mutant of Discard: storage goes on listing the cache.                       *)
DiscardLocally(s) == IF s.cache = Nil THEN s ELSE [Sync(s) EXCEPT !.cache = Nil]

Discard(s) ==
    IF s.cache = Nil THEN s ELSE [Sync(s) EXCEPT !.saved = FALSE, !.cache = Nil]

(* A new epoch starts the catalogue over and keeps the window of issued ids.   *)
Renewed(s, requests) ==
    [site |-> s.site, view |-> s.tab, queue |-> Catalogue[s.tab], settled |-> {},
     labels |-> [k \in Keys |-> Nil], tries |-> [k \in Keys |-> 0],
     fresh |-> 0, refresh |-> FALSE,
     pending |-> {[r EXCEPT !.current = FALSE] : r \in requests}]

(* Mutant of Opened: a removed player's requests are forgotten.                *)
OpenedAnyway(s) ==
    LET here == s.cache # Nil /\ s.cache.site = s.site
        t    == Discard(s)
    IN  IF here /\ s.cache.view = s.tab THEN s
        ELSE IF here THEN Sync([s EXCEPT !.cache = Renewed(s, @.pending)])
        ELSE [t EXCEPT !.cache = Renewed(t, IF t.active = Nil THEN {} ELSE t.active)]

(* A removed player's unanswered requests hold up the index.                   *)
Opened(s) ==
    LET here == s.cache # Nil /\ s.cache.site = s.site
        t    == Discard(s)
    IN  IF here /\ s.cache.view = s.tab THEN s
        ELSE IF here THEN Sync([s EXCEPT !.cache = Renewed(s, @.pending)])
        ELSE IF t.retired # Nil THEN t
        ELSE [t EXCEPT !.cache = Renewed(t, IF t.active = Nil THEN {} ELSE t.active)]

(* The engine takes a request under an id nobody knows, or refuses it.         *)
FreeIds(s) == {i \in Ids : s.flight[i] = Nil} \ Known(s)

Asked(s, k) ==
    LET id == CHOOSE i \in FreeIds(s) : \A j \in FreeIds(s) : i <= j
    IN  [s EXCEPT !.flight[id] = [key |-> k, site |-> s.site, life |-> s.life],
                  !.age[id] = 0,
                  !.cache.pending = @ \cup {[id |-> id, key |-> k, current |-> TRUE]}]

AskNext(s, failing) ==
    LET waiting == {i \in DOMAIN s.cache.queue : Waiting(s.cache, s.cache.queue[i])}
        n == CHOOSE i \in waiting : \A j \in waiting : i <= j
        k == s.cache.queue[n]
        t == [s EXCEPT !.cache.queue = SubSeq(@, n + 1, Len(@))]
    IN  IF Cardinality(s.cache.pending) >= Window \/ waiting = {} THEN s
        ELSE IF k \in failing \/ FreeIds(s) = {} THEN [t EXCEPT !.cache = Retry(@, k)]
        ELSE Asked(t, k)

Dispatch(s, failing) ==
    IF s.cache = Nil \/ ~Rooted(s) THEN s
    ELSE LET after[n \in 0 .. Work] ==
               IF n = 0 THEN s ELSE AskNext(after[n - 1], failing)
         IN  Sync(after[Work])

(* Tabs without a catalogue retire the cache.                                  *)
Render(s, failing) ==
    LET t == [s EXCEPT !.rooted = TRUE, !.open = TRUE]
    IN  IF t.tab = "other" THEN Discard(t) ELSE Dispatch(Opened(t), failing)

Cleared(s) == [s EXCEPT !.open = FALSE, !.refresh = FALSE]
Closed(s) == Discard([Cleared(s) EXCEPT !.rooted = FALSE])

Resume(s, failing) == IF s.open /\ Rooted(s) THEN Render(s, failing) ELSE s

Invalidate(s, failing) ==
    LET t == Discard(s) IN IF Rooted(t) THEN Render(t, failing) ELSE Cleared(t)

Refreshed(s, failing) == Render([s EXCEPT !.cache.refresh = FALSE, !.cache.fresh = 0], failing)
-----------------------------------------------------------------------------
(* An answer                                                                   *)

(* Mutant of Answered: the answer is believed wherever the player is now.      *)
AnsweredAnyway(s, id, label, failing) ==
    LET r    == CHOOSE x \in s.cache.pending : x.id = id
        open == [s.cache EXCEPT !.pending = Release(@, id)]
        t    == Sync([s EXCEPT !.cache = IF r.current THEN Settle(open, r.key, label) ELSE open])
    IN  IF id \notin IdsOf(s.cache.pending) THEN s
        ELSE IF r.current /\ t.cache.refresh THEN Refreshed(t, failing) ELSE t

Answered(s, id, label, failing) ==
    LET r         == CHOOSE x \in s.cache.pending : x.id = id
        published == r.current /\ s.cache.site = s.site
        open      == [s.cache EXCEPT !.pending = Release(@, id)]
        t == Sync([s EXCEPT !.cache = IF published THEN Settle(open, r.key, label) ELSE open])
    IN  IF id \notin IdsOf(s.cache.pending) THEN s
        ELSE IF published /\ t.cache.refresh THEN Refreshed(t, failing) ELSE t

(* With no cache an answer only releases its slot in the ledger.               *)
ReleasedDurably(s, id, failing) ==
    LET t == [s EXCEPT !.retired = Ledger(Release(@, id))]
    IN  IF s.active # Nil THEN [s EXCEPT !.active = Ledger(Release(@, id))]
        ELSE IF id \notin IdsOf(s.retired) THEN s
        ELSE IF t.retired = Nil THEN Resume(t, failing) ELSE t

(* A cache whose frame has gone unnoticed is discarded first.                  *)
StringTranslated(s, id, label, failing) ==
    IF s.cache # Nil /\ Rooted(s) THEN Answered(s, id, label, failing)
    ELSE ReleasedDurably(IF s.cache = Nil THEN s ELSE Cleared(Discard(s)), id, failing)
-----------------------------------------------------------------------------
(* Maintenance                                                                 *)

Unexpired(s, requests) == Ledger({r \in requests : s.age[r.id] < Expiry})

(* Mutant of MaintainedActive: a closed view's requests never expire.          *)
MaintainedActiveOpen(s, failing) ==
    IF s.active = Nil \/ s.cache = Nil \/ ~Rooted(s) THEN s
    ELSE LET t == Sync(Maintain(s))
         IN  IF t.cache.refresh THEN Refreshed(t, failing) ELSE Dispatch(t, failing)

MaintainedActive(s, failing) ==
    IF s.active = Nil THEN s
    ELSE IF s.cache # Nil /\ Rooted(s)
    THEN LET t == Sync(Maintain(s))
         IN  IF t.cache.refresh THEN Refreshed(t, failing) ELSE Dispatch(t, failing)
    ELSE LET t == IF s.cache = Nil THEN s ELSE Discard(Cleared(s))
         IN  IF t.active = Nil THEN t ELSE [t EXCEPT !.active = Unexpired(t, @)]

MaintainedRetired(s, failing) ==
    IF s.retired = Nil THEN s
    ELSE LET t == [s EXCEPT !.retired = Unexpired(s, @)]
         IN  IF t.retired = Nil /\ t.cache = Nil THEN Resume(t, failing) ELSE t

Maintained(s, failing) == MaintainedRetired(MaintainedActive(s, failing), failing)
-----------------------------------------------------------------------------
(* Handlers.  Each ends with reconcile_translations.                           *)

Needed(desks) == \E p \in Players : desks[p].active # Nil \/ desks[p].retired # Nil

Handled(desks) == desk' = desks /\ scheduled' = Needed(desks)

Handle(p, s) == Handled([desk EXCEPT ![p] = s])

OpenLibrary(p) ==
    /\ desk[p].present /\ desk[p].connected
    /\ \E tab \in Tabs, failing \in SUBSET Refusable :
         Handle(p, Render([desk[p] EXCEPT !.tab = tab], failing))

CloseLibrary(p) == Rooted(desk[p]) /\ Handle(p, Closed(desk[p]))

(* The engine answers, perhaps without a translation.                          *)
OnStringTranslated(p) ==
    \E id \in Ids, failing \in SUBSET Refusable :
      /\ desk[p].flight[id] # Nil
      /\ \E label \in {desk[p].flight[id], Nil} :
           Handle(p, StringTranslated([desk[p] EXCEPT !.flight[id] = Nil], id, label, failing))

OnPlayerMoved(p) ==
    /\ desk[p].moved
    /\ \E failing \in SUBSET Refusable :
         Handle(p, Invalidate([desk[p] EXCEPT !.moved = FALSE], failing))

OnPlayerLeft(p) ==
    /\ desk[p].present /\ desk[p].connected
    /\ Handle(p, Discard(Cleared([desk[p] EXCEPT !.connected = FALSE])))

OnPlayerJoined(p) ==
    /\ desk[p].present /\ ~desk[p].connected
    /\ LET s == [desk[p] EXCEPT !.connected = TRUE]
       IN  IF s.rooted THEN \E failing \in SUBSET Refusable : Handle(p, Render(s, failing))
           ELSE Handle(p, Discard(Cleared(s)))

(* The frame is destroyed before the player is, and the view forgotten.        *)
OnPlayerRemoved(p) ==
    /\ desk[p].present /\ ~desk[p].connected /\ ~desk[p].moved
    /\ LET s == [Closed(desk[p]) EXCEPT !.present = FALSE, !.tab = "other"]
           kept == s.active = Nil \/ s.retired # Nil
       IN  Handle(p, IF kept THEN s ELSE [s EXCEPT !.retired = s.active, !.active = Nil])

(* Research changed: open views are marked and drawn again on the next tick.   *)
OnNativeStateChanged ==
    /\ \E p \in Players : desk[p].open
    /\ Handled([p \in Players |->
         LET s == desk[p]
         IN  IF ~s.open THEN s ELSE IF Rooted(s) THEN [s EXCEPT !.refresh = TRUE]
             ELSE Discard(Cleared(s))])

OnNativeRefreshTick ==
    /\ \E p \in Players : desk[p].open /\ desk[p].refresh
    /\ \E failing \in SUBSET Refusable :
         Handled([p \in Players |->
           LET s == [desk[p] EXCEPT !.refresh = FALSE]
           IN  IF ~desk[p].refresh THEN s
               ELSE IF s.open /\ Rooted(s) THEN Render(s, failing)
               ELSE Discard([s EXCEPT !.open = FALSE])])

(* One maintenance period passes; the handler runs if it is installed.         *)
Older(s) ==
    LET used == {i \in Ids : s.flight[i] # Nil} \cup Known(s)
    IN  [s EXCEPT !.age = [i \in Ids |-> IF i \notin used THEN 0
                                         ELSE IF @[i] < Expiry THEN @[i] + 1 ELSE Expiry]]

OnTranslationMaintenance ==
    IF scheduled
    THEN \E failing \in SUBSET Refusable :
           Handled([p \in Players |-> Maintained(Older(desk[p]), failing)])
    ELSE desk' = [p \in Players |-> Older(desk[p])] /\ UNCHANGED scheduled

(* Caches are rebuilt from what storage lists, the subscription from the       *)
(* ledger.                                                                     *)
Reconnected(s) == IF s.saved THEN s ELSE [s EXCEPT !.cache = Nil]

(* Mutant of Load: register's state is left in place.                          *)
LoadUnscheduled == desk' = [p \in Players |-> Reconnected(desk[p])] /\ scheduled' = FALSE

Load == Handled([p \in Players |-> Reconnected(desk[p])])

OnConfigurationChanged ==
    \E failing \in SUBSET Refusable :
      Handled([p \in Players |->
        LET s == Reconnected(desk[p])
            t == [s EXCEPT !.open = Rooted(s), !.refresh = Rooted(s)]
        IN  IF t.cache = Nil THEN t ELSE Invalidate(t, failing)])
-----------------------------------------------------------------------------
(* The engine, the players and the other mods                                  *)

World(p, s) == desk' = [desk EXCEPT ![p] = s] /\ UNCHANGED scheduled

(* Locale or force change before MIR hears of it; each change is heard of      *)
(* before the next.                                                            *)
Move(p) ==
    /\ desk[p].present /\ ~desk[p].moved
    /\ \E site \in Sites \ {desk[p].site} :
         World(p, [desk[p] EXCEPT !.site = site, !.moved = TRUE])

LoseFrame(p) == desk[p].rooted /\ World(p, [desk[p] EXCEPT !.rooted = FALSE])

NeverAnswer(p) ==
    \E id \in Ids : desk[p].flight[id] # Nil /\ World(p, [desk[p] EXCEPT !.flight[id] = Nil])

(* Another player is given the index of a removed one.                         *)
ReuseIndex(p) ==
    /\ ~desk[p].present
    /\ \E site \in Sites :
         World(p, [desk[p] EXCEPT !.present = TRUE, !.connected = TRUE, !.life = ~@, !.site = site])

Init ==
    /\ desk \in [Players -> {[present |-> TRUE, connected |-> TRUE, life |-> TRUE, site |-> s,
                              moved |-> FALSE, rooted |-> FALSE,
                              flight |-> [i \in Ids |-> Nil], age |-> [i \in Ids |-> 0],
                              tab |-> "other", open |-> FALSE, refresh |-> FALSE,
                              cache |-> Nil, saved |-> FALSE, active |-> Nil, retired |-> Nil]
                             : s \in Sites}]
    /\ scheduled = FALSE

Next ==
    \/ \E p \in Players :
         \/ OpenLibrary(p) \/ CloseLibrary(p) \/ OnStringTranslated(p) \/ OnPlayerMoved(p)
         \/ OnPlayerLeft(p) \/ OnPlayerJoined(p) \/ OnPlayerRemoved(p)
         \/ Move(p) \/ LoseFrame(p) \/ NeverAnswer(p) \/ ReuseIndex(p)
    \/ OnNativeStateChanged \/ OnNativeRefreshTick \/ OnTranslationMaintenance
    \/ Load \/ OnConfigurationChanged

Spec == Init /\ [][Next]_tvars
-----------------------------------------------------------------------------
(* Properties                                                                  *)

(* However the view is closed, reopened, re-filtered, moved, saved or handed   *)
(* to another player, the engine never has more than Window requests of one    *)
(* player index to answer, unanswered ones past their expiry aside.            *)
WindowKept ==
    \A p \in Players :
      Cardinality({i \in Ids : desk[p].flight[i] # Nil /\ desk[p].age[i] < Expiry}) <= Window

(* A label on show answers a request for that very key, made in the locale and *)
(* force the cache is for, by the player who is there now.                     *)
LabelsFresh ==
    \A p \in Players :
      LET s == desk[p]
      IN  s.cache # Nil =>
            \A k \in Keys : s.cache.labels[k] # Nil =>
              s.cache.labels[k] = [key |-> k, site |-> s.cache.site, life |-> s.life]

(* A client that joins rebuilds its caches from storage: it must find exactly  *)
(* those the others hold, and the same issued requests.                        *)
JoinerAgrees ==
    \A p \in Players :
      LET s == desk[p]
      IN  /\ s.saved <=> s.cache # Nil
          /\ s.cache # Nil => s.active = Ledger(s.cache.pending)

(* The maintenance tick is installed exactly while requests are outstanding,   *)
(* on a client that just joined as on one that has played on.                  *)
Subscribed == scheduled <=> Needed(desk)

(* After a maintenance pass no request past its expiry holds a slot, whether   *)
(* its view is open, closed or its player gone.                                *)
ExpiredReleased ==
    [][OnTranslationMaintenance =>
         \A p \in Players : \A i \in Known(desk[p])' : desk'[p].age[i] < Expiry]_tvars

(* Stale records reserve only the window, until their callback or expiry       *)
(* (library_translations.lua, hydrate_pending): while an open view still has   *)
(* keys to ask, something is left that will ask them.                          *)
NotStranded ==
    \A p \in Players :
      LET s == desk[p]
      IN  (s.open /\ Rooted(s) /\ ~s.moved /\ s.cache # Nil /\ s.cache.queue # <<>>)
            => scheduled \/ s.refresh
=============================================================================
