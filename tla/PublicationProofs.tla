------------------------- MODULE PublicationProofs --------------------------
(***************************************************************************)
(* What readers are given, for every value of the constants: cached pages  *)
(* and live events, and the published monthly forecast.                    *)
(***************************************************************************)
EXTENDS LiveEvents, ForecastLifecycle, FiniteSetTheorems, TLAPS

-----------------------------------------------------------------------------
(***************************************************************************)
(* For every number of readers, writers and streams: cached reads are      *)
(* fresh, and live streams miss no change.                                 *)
(*                                                                         *)
(* The two have one reason.  A stored payload, a payload about to be       *)
(* stored and the namespace a stream announced last are all items: data as *)
(* of some moment under a version and a set of markers.  An item is        *)
(* current when it is made, and every later write that leaves it stale also *)
(* leaves a marker that nobody may delete before the version has been      *)
(* rotated (StaleIsMarked).  So a reader that finds no marker finds no     *)
(* stale item under the version it is going to get (FoundIsFresh).         *)
(***************************************************************************)

Steps == {"idle", "mark", "rotate", "clean", "version", "lookup", "build", "store", "done", "lost"}

ItemType == [version : Nat \ {0}, markers : SUBSET Writers, value : Nat]

\* Payloads that exist, that are about to be stored, and what streams announced.
Building ==
    {[version |-> mine[r], markers |-> seen[r], value |-> value[r]] :
        r \in {q \in Readers : pc[q] = "store" /\ mine[q] # Private}}
Announced ==
    {[version |-> sent[t][1], markers |-> sent[t][2], value |-> known[t]] :
        t \in {u \in Streams : sent[u] \notin {Closed, Opened, Unique}}}
Items == payloads \union Building \union Announced

\* A marker that its writer or a reader that saw it may delete now.
Removable(w) ==
    \/ pc[w] = "clean"
    \/ \E r \in Readers : pc[r] = "clean" /\ w \in seen[r]

AllMarked == \A w \in Writers : pc[w] \notin {"mark", "lost"}

CacheTypes ==
    /\ db \in Nat
    /\ pending \subseteq Writers
    /\ tokens \in Nat \ {0}
    /\ version \in 0..(tokens - 1)
    /\ pc \in [Readers \union Writers -> Steps]
    /\ seen \in [Readers -> SUBSET Writers]
    /\ mine \in [Readers -> Private..(tokens - 1)]
    /\ crowded \in [Readers -> BOOLEAN]
    /\ value \in [Readers -> 0..db]
    /\ asOf \in [Readers -> 0..db]
    /\ unmarked \in [Readers -> {"none", "coming", "lost"}]
    /\ payloads \subseteq ItemType
    /\ sent \in [Streams -> {Closed, Opened, Unique} \union ((1..(tokens - 1)) \X SUBSET Writers)]
    /\ known \in [Streams -> 0..db]
    /\ checks \in [Streams -> Nat]
    /\ missed \in BOOLEAN

\* Items carry versions that were given out and data that was committed.
ItemsTyped == \A i \in Items : i \in ItemType /\ i.version < tokens /\ i.value <= db

\* A reader has a namespace when it looks something up.
ReadersStand ==
    \A r \in Readers :
        /\ pc[r] \in {"clean", "lookup", "build", "store"} => mine[r] # NoVersion
        /\ pc[r] = "version" => seen[r] = {}
        /\ pc[r] = "store" => value[r] >= asOf[r]

\* A marker is nowhere before its write has made it.
MarkersNew ==
    \A w \in Writers : pc[w] \in {"idle", "mark"} =>
        w \notin pending /\ \A r \in Readers : w \notin seen[r]

StaleIsMarked ==
    AllMarked =>
        \A i \in Items : i.version = version /\ i.markers = {} /\ i.value < db =>
            \E w \in pending : ~Removable(w)

\* What reader r is going to find is no older than its start.
Found(r) ==
    unmarked[r] = "none" =>
        /\ pc[r] = "version" =>
             \A i \in Items : i.version = version /\ i.markers = {} => i.value >= asOf[r]
        /\ pc[r] \in {"clean", "lookup"} =>
             \A i \in Items : i.version = mine[r] /\ i.markers = seen[r] => i.value >= asOf[r]

FoundIsFresh == \A r \in Readers : Found(r)

CacheInv ==
    /\ CacheTypes
    /\ ItemsTyped
    /\ ReadersStand
    /\ MarkersNew
    /\ StaleIsMarked
    /\ FoundIsFresh
    /\ MarkedReadFresh
    /\ NoChangeMissed

-----------------------------------------------------------------------------
\* What the assumptions say of the actors and of the two special versions.
LEMMA CacheFacts ==
    /\ Readers \intersect Writers = {} /\ Streams \subseteq Readers
    /\ RECOVERY_BATCH_SIZE \in Nat \ {0}
    /\ Private = -1 /\ NoVersion = 0
BY CacheAssumption, StreamAssumption DEF Private, NoVersion

\* No namespace is one of the three words.
LEMMA NamespaceFacts ==
    \A v, M : <<v, M>> \notin {Closed, Opened, Unique} /\ <<v, M>>[1] = v /\ <<v, M>>[2] = M
BY DEF Closed, Opened, Unique

\* Ranges of versions and of committed writes only grow.
LEMMA IntervalGrows ==
    ASSUME NEW a \in Int, NEW m \in Int, NEW n \in Int, m <= n
    PROVE  a..m \subseteq a..n /\ (a..(m - 1)) \subseteq (a..(n - 1))
OBVIOUS

\* Nothing is stored or announced at first.
LEMMA InitCacheInv == StreamInit => CacheInv
<1> SUFFICES ASSUME StreamInit PROVE CacheInv
    OBVIOUS
<1> USE CacheFacts
<1>1. CacheTypes
  <2>1. sent \in [Streams -> {Closed, Opened, Unique} \union ((1..(tokens - 1)) \X SUBSET Writers)]
      BY DEF StreamInit
  <2>2. /\ mine \in [Readers -> Private..(tokens - 1)] /\ value \in [Readers -> 0..db]
        /\ asOf \in [Readers -> 0..db] /\ seen \in [Readers -> SUBSET Writers]
        /\ crowded \in [Readers -> BOOLEAN] /\ unmarked \in [Readers -> {"none", "coming", "lost"}]
      BY DEF StreamInit, Init
  <2>3. /\ pc \in [Readers \union Writers -> Steps] /\ known \in [Streams -> 0..db]
        /\ checks \in [Streams -> Nat]
      BY DEF StreamInit, Init, Steps
  <2>4. /\ db \in Nat /\ pending \subseteq Writers /\ tokens \in Nat \ {0}
        /\ version \in 0..(tokens - 1) /\ payloads \subseteq ItemType
      BY DEF StreamInit, Init
  <2>5. missed \in BOOLEAN
      BY DEF StreamInit
  <2> QED
      BY <2>1, <2>2, <2>3, <2>4, <2>5 DEF CacheTypes
<1>2. Items = {}
  <2>1. payloads = {} /\ Building = {} /\ Announced = {}
      BY DEF StreamInit, Init, Building, Announced
  <2> QED
      BY <2>1 DEF Items
<1>3. ItemsTyped /\ StaleIsMarked
    BY <1>2 DEF ItemsTyped, StaleIsMarked
<1>4. ReadersStand /\ MarkersNew /\ MarkedReadFresh /\ NoChangeMissed
    BY DEF StreamInit, Init, ReadersStand, MarkersNew, MarkedReadFresh, NoChangeMissed
<1>5. FoundIsFresh
    BY <1>2 DEF FoundIsFresh, Found
<1> QED
    BY <1>1, <1>3, <1>4, <1>5 DEF CacheInv

\* What a reader holds, and what everybody else holds, stays as it is.
Apart(r) ==
    \A q \in Readers : q # r =>
        /\ pc'[q] = pc[q] /\ mine'[q] = mine[q] /\ seen'[q] = seen[q] /\ value'[q] = value[q]
        /\ asOf'[q] = asOf[q] /\ unmarked'[q] = unmarked[q]

\* A reader that is not about to store adds no item.
LEMMA BuildingStands ==
    ASSUME NEW r, Apart(r), r \in Readers => pc'[r] # "store"
    PROVE  Building' \subseteq Building
BY DEF Apart, Building

\* New items are made of current data, and none while the data changes.
ItemsGrow ==
    /\ \A i \in Items' : i \in Items \/ (i \in ItemType /\ i.version < tokens /\ i.value = db)
    /\ db' = db \/ (db' = db + 1 /\ Items' \subseteq Items)
    /\ tokens' >= tokens

\* The three parts of the invariant about items, from what a step does to the
\* version, the markers and the readers.
LEMMA ItemsStayTyped ==
    ASSUME CacheInv, CacheTypes', ItemsGrow
    PROVE  ItemsTyped'
<1>1. db \in Nat /\ db' \in Nat /\ tokens \in Nat /\ tokens' \in Nat
    BY DEF CacheInv, CacheTypes
<1> SUFFICES ASSUME NEW i \in Items'
             PROVE  i \in ItemType /\ i.version < tokens' /\ i.value <= db'
    BY DEF ItemsTyped
<1>2. i \in ItemType /\ i.version < tokens /\ i.value <= db
    BY <1>1 DEF ItemsGrow, CacheInv, ItemsTyped
<1>3. i.version \in Nat /\ i.value \in Nat
    BY <1>2 DEF ItemType
<1> QED
    BY <1>1, <1>2, <1>3 DEF ItemsGrow

\* Items that were guarded stay so, and new ones are not stale.
LEMMA StaleStands ==
    ASSUME CacheInv, ItemsGrow, version' = version, db' = db, AllMarked' => AllMarked,
           (\E w \in pending : ~Removable(w)) => (\E w \in pending' : ~Removable(w)')
    PROVE  StaleIsMarked'
<1> SUFFICES ASSUME AllMarked', NEW i \in Items', i.version = version, i.markers = {}, i.value < db
             PROVE  \E w \in pending' : ~Removable(w)'
    BY DEF StaleIsMarked
<1>1. i \in Items
    BY DEF ItemsGrow, CacheInv, CacheTypes
<1> QED
    BY <1>1 DEF CacheInv, StaleIsMarked

\* A new version has no item yet, and the lost one has none.
LEMMA StaleRetired ==
    ASSUME CacheInv, ItemsGrow, version' \in {tokens, NoVersion}
    PROVE  \A i \in Items' : i.version # version'
<1> SUFFICES ASSUME NEW i \in Items' PROVE i.version # version'
    OBVIOUS
<1>1. i \in ItemType /\ i.version < tokens
    BY DEF ItemsGrow, CacheInv, ItemsTyped
<1>2. i.version \in Nat \ {0} /\ tokens \in Nat
    BY <1>1 DEF ItemType, CacheInv, CacheTypes
<1> QED
    BY <1>1, <1>2 DEF NoVersion

\* The others keep finding what is fresh for them.
LEMMA OthersFind ==
    ASSUME CacheInv, ItemsGrow, NEW r, Apart(r), version' \in {version, tokens, NoVersion},
           NEW q \in Readers, q # r
    PROVE  Found(q)'
<1>1. \A i \in Items' : i \notin Items => i.value >= asOf[q]
  <2>1. db \in Nat /\ asOf[q] \in 0..db
      BY DEF CacheInv, CacheTypes
  <2> QED
      BY <2>1 DEF ItemsGrow
<1>2. /\ pc'[q] = pc[q] /\ mine'[q] = mine[q] /\ seen'[q] = seen[q]
      /\ asOf'[q] = asOf[q] /\ unmarked'[q] = unmarked[q]
    BY DEF Apart
<1>3. Found(q)
    BY DEF CacheInv, FoundIsFresh
<1>4. CASE version' = version
    BY <1>1, <1>2, <1>3, <1>4 DEF Found
<1>5. CASE version' \in {tokens, NoVersion}
  <2>1. \A i \in Items' : i.version # version'
      BY <1>5, StaleRetired
  <2> QED
      BY <1>1, <1>2, <1>3, <2>1 DEF Found
<1> QED
    BY <1>4, <1>5

\* A write, its marker, its rotation and its clean-up.
LEMMA WriteInv ==
    ASSUME CacheInv, NEW w \in Writers, Write(w), UNCHANGED streamVars
    PROVE  CacheInv'
<1> USE CacheFacts
<1>0. CacheTypes /\ ItemsTyped /\ ReadersStand /\ MarkersNew
    BY DEF CacheInv
<1>1. /\ UNCHANGED <<payloads, seen, mine, crowded, value, asOf, unmarked, outdated, sent, known, missed, checks>>
      /\ \A a \in Readers \union Writers : a # w => pc'[a] = pc[a]
      /\ pc' \in [Readers \union Writers -> Steps]
    BY <1>0 DEF Write, CommitWrite, SaveRow, CreateMarker, RotateAfterCommit, RemoveMarker, Die,
                Goto, readVars, streamVars, CacheTypes, Steps
<1>2. Apart(w)
    BY <1>1 DEF Apart
<1>3. /\ db' = db \/ db' = db + 1
      /\ \/ UNCHANGED <<version, tokens>>
         \/ Rotate
      /\ pending' \subseteq Writers
    BY <1>0 DEF Write, CommitWrite, SaveRow, CreateMarker, RotateAfterCommit, RemoveMarker, Die,
                RotateFails, CacheTypes
<1>4. tokens' \in Nat \ {0} /\ version' \in 0..(tokens' - 1) /\ tokens' >= tokens
    BY <1>0, <1>3 DEF Rotate, CacheTypes
<1>5. Items' \subseteq Items
  <2>1. Building' \subseteq Building /\ Announced' = Announced
      BY <1>1, <1>2, BuildingStands DEF Announced
  <2> QED
      BY <1>1, <2>1 DEF Items
<1>6. ItemsGrow
    BY <1>3, <1>4, <1>5 DEF ItemsGrow
<1>7. CacheTypes'
  <2>0. db \in Nat /\ tokens \in Nat \ {0}
      BY <1>0 DEF CacheTypes
  <2>1. db' \in Nat /\ db <= db' /\ tokens' \in Nat /\ tokens <= tokens'
      BY <2>0, <1>3, <1>4
  <2>2. /\ 0..db \subseteq 0..db'
        /\ Private..(tokens - 1) \subseteq Private..(tokens' - 1)
        /\ 1..(tokens - 1) \subseteq 1..(tokens' - 1)
    <3>1. 0 \in Int /\ 1 \in Int /\ Private \in Int /\ db \in Int /\ db' \in Int
          /\ tokens \in Int /\ tokens' \in Int
        BY <2>0, <2>1
    <3>2. 0..db \subseteq 0..db'
        BY <2>1, <3>1, IntervalGrows
    <3>3. \A a \in Int : (a..(tokens - 1)) \subseteq (a..(tokens' - 1))
        BY <2>1, <3>1, IntervalGrows
    <3> QED
        BY <3>1, <3>2, <3>3
  <2>3. /\ mine' \in [Readers -> Private..(tokens' - 1)] /\ value' \in [Readers -> 0..db']
        /\ asOf' \in [Readers -> 0..db'] /\ known' \in [Streams -> 0..db']
      BY <1>0, <1>1, <2>2 DEF CacheTypes
  <2>4. sent' \in [Streams -> {Closed, Opened, Unique} \union ((1..(tokens' - 1)) \X SUBSET Writers)]
      BY <1>0, <1>1, <2>2 DEF CacheTypes
  <2> QED
      BY <1>0, <1>1, <1>3, <1>4, <2>1, <2>3, <2>4 DEF CacheTypes
<1>8. ItemsTyped'
    BY <1>6, <1>7, ItemsStayTyped
<1>9. ReadersStand' /\ MarkedReadFresh' /\ NoChangeMissed'
    BY <1>0, <1>1 DEF ReadersStand, MarkedReadFresh, NoChangeMissed, CacheInv
<1>10. FoundIsFresh'
    BY <1>2, <1>3, <1>6, OthersFind DEF FoundIsFresh, Rotate
<1>11. MarkersNew' /\ StaleIsMarked'
  <2>1. ASSUME NEW v \in Writers, v # w PROVE pc'[v] = pc[v] /\ (Removable(v)' <=> Removable(v))
      BY <1>1, <2>1 DEF Removable
  <2>2. CASE CommitWrite(w) \/ CreateMarker(w)
    <3>1. pending' = pending \union {w} /\ pc[w] \in {"idle", "mark"} /\ pc'[w] = "rotate"
        BY <2>2, <1>0 DEF CommitWrite, CreateMarker, Goto, CacheTypes
    <3>2. ~Removable(w)'
        BY <1>0, <1>1, <3>1 DEF Removable, MarkersNew
    <3> QED
        BY <1>0, <1>1, <2>1, <3>1, <3>2 DEF MarkersNew, StaleIsMarked
  <2>3. CASE SaveRow(w)
    <3>1. pc[w] = "idle" /\ pc'[w] = "mark" /\ pending' = pending
        BY <2>3, <1>0 DEF SaveRow, Goto, CacheTypes
    <3> QED
        BY <1>0, <1>1, <2>1, <3>1 DEF MarkersNew, StaleIsMarked, AllMarked
  <2>4. CASE RotateAfterCommit(w)
    <3>1. pc[w] = "rotate" /\ pc'[w] \in {"clean", "done"} /\ pending' = pending /\ db' = db
        BY <2>4, <1>0 DEF RotateAfterCommit, Goto, CacheTypes
    <3>2. MarkersNew'
        BY <1>0, <1>1, <2>1, <3>1 DEF MarkersNew
    <3>3. CASE Rotate
        BY <3>2, <3>3, <1>6, StaleRetired DEF Rotate, StaleIsMarked
    <3>4. CASE UNCHANGED <<version, tokens>> /\ pc'[w] = "done"
      <4>1. Removable(w)' => Removable(w)
          BY <3>4, <1>1 DEF Removable
      <4>2. AllMarked' => AllMarked
          BY <3>1, <2>1 DEF AllMarked
      <4>3. \A v \in Writers : Removable(v)' => Removable(v)
          BY <4>1, <2>1
      <4> QED
          BY <3>1, <3>2, <3>4, <4>2, <4>3, <1>0, <1>6, StaleStands DEF CacheTypes
    <3> QED
        BY <2>4, <3>3, <3>4, <1>0 DEF RotateAfterCommit, RotateFails, Goto, CacheTypes
  <2>5. CASE RemoveMarker(w)
    <3>1. /\ pc[w] = "clean" /\ pc'[w] = "done" /\ pending' \in {pending, pending \ {w}}
          /\ db' = db /\ version' = version
        BY <2>5, <1>0 DEF RemoveMarker, Goto, CacheTypes
    <3>2. MarkersNew'
        BY <1>0, <1>1, <2>1, <3>1 DEF MarkersNew
    <3>3. AllMarked' => AllMarked
        BY <3>1, <2>1 DEF AllMarked
    <3>4. Removable(w)
        BY <3>1 DEF Removable
    <3> QED
        BY <3>1, <3>2, <3>3, <3>4, <2>1, <1>0, <1>6, StaleStands DEF CacheTypes
  <2>6. CASE Die(w)
    <3>1. /\ pc[w] \in {"mark", "rotate", "clean"} /\ pc'[w] = (IF pc[w] = "mark" THEN "lost" ELSE "done")
          /\ pending' = pending /\ db' = db /\ version' = version
        BY <2>6, <1>0 DEF Die, Goto, CacheTypes
    <3>2. MarkersNew'
        BY <1>0, <1>1, <2>1, <3>1 DEF MarkersNew
    <3>3. AllMarked' => AllMarked
        BY <3>1, <2>1 DEF AllMarked
    <3>4. Removable(w)' => Removable(w)
        BY <3>1, <1>1 DEF Removable
    <3> QED
        BY <3>1, <3>2, <3>3, <3>4, <2>1, <1>0, <1>6, StaleStands DEF CacheTypes
  <2> QED
      BY <2>2, <2>3, <2>4, <2>5, <2>6 DEF Write
<1> QED
    BY <1>7, <1>8, <1>9, <1>10, <1>11 DEF CacheInv

\* What a step of reader r has to show for itself; the rest follows.
LEMMA ReaderStep ==
    ASSUME CacheInv, NEW r \in Readers, Apart(r), \A w \in Writers : pc'[w] = pc[w],
           db' = db, CacheTypes', ItemsGrow,
           pending' \subseteq pending, seen'[r] \subseteq seen[r] \union pending,
           \/ version' \in {tokens, NoVersion}
           \/ /\ version' = version
              /\ (\E w \in pending : ~Removable(w)) => (\E w \in pending' : ~Removable(w)'),
           pc'[r] \in {"clean", "lookup", "build", "store"} => mine'[r] # NoVersion,
           pc'[r] = "version" => seen'[r] = {},
           pc'[r] = "store" => value'[r] >= asOf'[r],
           Found(r)', MarkedReadFresh', NoChangeMissed'
    PROVE  CacheInv'
<1>1. ItemsTyped'
    BY ItemsStayTyped
<1>2. ReadersStand'
    BY DEF CacheInv, ReadersStand, Apart
<1>3. MarkersNew'
    BY DEF CacheInv, MarkersNew, Apart
<1>4. StaleIsMarked'
  <2>1. AllMarked' => AllMarked
      BY DEF AllMarked
  <2>2. CASE version' \in {tokens, NoVersion}
      BY <2>2, StaleRetired DEF StaleIsMarked
  <2>3. CASE version' = version /\
             ((\E w \in pending : ~Removable(w)) => (\E w \in pending' : ~Removable(w)'))
      BY <2>1, <2>3, StaleStands
  <2> QED
      BY <2>2, <2>3
<1>5. FoundIsFresh'
  <2>1. version' \in {version, tokens, NoVersion}
      OBVIOUS
  <2> QED
      BY <2>1, OthersFind DEF FoundIsFresh
<1> QED
    BY <1>1, <1>2, <1>3, <1>4, <1>5 DEF CacheInv

\* A reader that does not come to clean, and leaves the markers, endangers none.
LEMMA GuardsStand ==
    ASSUME NEW r \in Readers, Apart(r), \A w \in Writers : pc'[w] = pc[w], pending \subseteq Writers,
           pc'[r] # "clean", pending' = pending
    PROVE  (\E w \in pending : ~Removable(w)) => (\E w \in pending' : ~Removable(w)')
<1>1. \A w \in Writers : Removable(w)' => Removable(w)
    BY DEF Removable, Apart
<1> QED
    BY <1>1

\* The step of a reader, as far as types go.
LEMMA ReaderTypes ==
    ASSUME CacheInv, NEW r \in Readers, db' = db, pending' \subseteq pending,
           tokens' \in {tokens, tokens + 1}, version' \in 0..(tokens' - 1),
           pc' \in [Readers \union Writers -> Steps], seen' \in [Readers -> SUBSET Writers],
           \E m \in Private..(tokens' - 1) : mine' = [mine EXCEPT ![r] = m],
           crowded' \in [Readers -> BOOLEAN],
           \E x \in 0..db : value' = [value EXCEPT ![r] = x],
           \E x \in 0..db : asOf' = [asOf EXCEPT ![r] = x],
           unmarked' \in [Readers -> {"none", "coming", "lost"}],
           payloads' \subseteq ItemType, UNCHANGED <<sent, known, missed>>, checks' \in [Streams -> Nat]
    PROVE  CacheTypes'
<1> USE CacheFacts
<1>0. CacheTypes
    BY DEF CacheInv
<1>1. db \in Nat /\ tokens \in Nat \ {0} /\ tokens' \in Nat \ {0} /\ tokens \in Int /\ tokens' \in Int
      /\ tokens <= tokens'
    BY <1>0 DEF CacheTypes
<1>2. \A a \in Int : (a..(tokens - 1)) \subseteq (a..(tokens' - 1))
    BY <1>1, IntervalGrows
<1>3. /\ Private..(tokens - 1) \subseteq Private..(tokens' - 1)
      /\ 1..(tokens - 1) \subseteq 1..(tokens' - 1)
    BY <1>2
<1>4. mine' \in [Readers -> Private..(tokens' - 1)]
  <2>1. PICK m \in Private..(tokens' - 1) : mine' = [mine EXCEPT ![r] = m]
      OBVIOUS
  <2>2. mine \in [Readers -> Private..(tokens' - 1)]
      BY <1>0, <1>3 DEF CacheTypes
  <2> QED
      BY <2>1, <2>2
<1>5. value' \in [Readers -> 0..db'] /\ asOf' \in [Readers -> 0..db']
    BY <1>0 DEF CacheTypes
<1>6. sent' \in [Streams -> {Closed, Opened, Unique} \union ((1..(tokens' - 1)) \X SUBSET Writers)]
    BY <1>0, <1>3 DEF CacheTypes
<1>7. pending' \subseteq Writers /\ known' \in [Streams -> 0..db'] /\ missed' \in BOOLEAN
    BY <1>0 DEF CacheTypes
<1> QED
    BY <1>1, <1>4, <1>5, <1>6, <1>7 DEF CacheTypes

\* A reader that holds nothing to store, while the streams stay, adds no item.
LEMMA NoNewItem ==
    ASSUME CacheInv, NEW r \in Readers, Apart(r), pc'[r] # "store", payloads' \subseteq Items,
           UNCHANGED <<sent, known>>
    PROVE  Items' \subseteq Items
<1>1. Building' \subseteq Building /\ Announced' = Announced
    BY BuildingStands DEF Announced
<1> QED
    BY <1>1 DEF Items

\* ReadPending: when it finds no marker, nothing under the version is stale.
LEMMA ReadPendingInv ==
    ASSUME CacheInv, NEW r \in Readers, ReadPending(r), UNCHANGED <<sent, known, missed>>,
           checks' \in [Streams -> Nat]
    PROVE  CacheInv'
<1> USE CacheFacts
<1>0. CacheTypes
    BY DEF CacheInv
<1>1. PICK S \in SUBSET pending : seen' = [seen EXCEPT ![r] = S]
    BY DEF ReadPending, kSubset
<1>2. /\ pc' = [pc EXCEPT ![r] = IF pending = {} THEN "version" ELSE "rotate"]
      /\ asOf' = [asOf EXCEPT ![r] = db] /\ unmarked' = [unmarked EXCEPT ![r] = UnmarkedWrites]
      /\ UNCHANGED <<db, pending, version, payloads, tokens, mine, value, outdated>>
      /\ crowded' \in {crowded, [crowded EXCEPT ![r] = TRUE]}
    BY DEF ReadPending, Goto
<1>3. Apart(r) /\ \A w \in Writers : pc'[w] = pc[w]
    BY <1>0, <1>1, <1>2 DEF Apart, CacheTypes
<1>4. /\ pc'[r] = (IF pending = {} THEN "version" ELSE "rotate") /\ seen'[r] = S
      /\ asOf'[r] = db /\ unmarked'[r] = UnmarkedWrites
    BY <1>0, <1>1, <1>2 DEF CacheTypes
<1>5. Items' \subseteq Items
    BY <1>2, <1>3, <1>4, NoNewItem DEF Items
<1>6. CacheTypes'
  <2>1. db \in Nat /\ tokens \in Nat \ {0} /\ version \in 0..(tokens - 1) /\ payloads \subseteq ItemType
        /\ pending \subseteq Writers /\ mine[r] \in Private..(tokens - 1) /\ value[r] \in 0..db /\ db \in 0..db
        /\ mine = [mine EXCEPT ![r] = mine[r]] /\ value = [value EXCEPT ![r] = value[r]]
      BY <1>0 DEF CacheTypes
  <2>2. pc' \in [Readers \union Writers -> Steps]
      BY <1>0, <1>2 DEF CacheTypes, Steps
  <2>3. seen' \in [Readers -> SUBSET Writers] /\ crowded' \in [Readers -> BOOLEAN]
      BY <1>0, <1>1, <1>2, <2>1 DEF CacheTypes
  <2>4. unmarked' \in [Readers -> {"none", "coming", "lost"}]
      BY <1>0, <1>2 DEF CacheTypes, UnmarkedWrites
  <2> QED
      BY <1>2, <2>1, <2>2, <2>3, <2>4, ReaderTypes
<1>7. Found(r)'
  <2> SUFFICES ASSUME UnmarkedWrites = "none", pending = {}, NEW i \in Items, i.version = version, i.markers = {}
               PROVE  i.value >= db
      BY <1>2, <1>4, <1>5 DEF Found
  <2>1. AllMarked
      BY DEF UnmarkedWrites, AllMarked
  <2>2. ~(i.value < db)
      BY <2>1 DEF CacheInv, StaleIsMarked
  <2>3. i.value \in Nat /\ db \in Nat
      BY <1>0 DEF CacheInv, ItemsTyped, ItemType, CacheTypes
  <2> QED
      BY <2>2, <2>3
<1>8. (\E w \in pending : ~Removable(w)) => (\E w \in pending' : ~Removable(w)')
    BY <1>0, <1>2, <1>3, <1>4, GuardsStand DEF CacheTypes
<1>9. ItemsGrow
    BY <1>0, <1>2, <1>5 DEF ItemsGrow, CacheTypes
<1>10. MarkedReadFresh' /\ NoChangeMissed'
    BY <1>2 DEF CacheInv, MarkedReadFresh, NoChangeMissed
<1> QED
    BY <1>1, <1>2, <1>3, <1>4, <1>6, <1>7, <1>8, <1>9, <1>10, ReaderStep

\* RotateOnRead: nothing was ever stored under a new version, or a private one.
LEMMA RotateOnReadInv ==
    ASSUME CacheInv, NEW r \in Readers, RotateOnRead(r), UNCHANGED streamVars
    PROVE  CacheInv'
<1> USE CacheFacts
<1>0. CacheTypes
    BY DEF CacheInv
<1>1. PICK m \in {Private, tokens}, p \in {"clean", "lookup"} :
        /\ mine' = [mine EXCEPT ![r] = m] /\ pc' = [pc EXCEPT ![r] = p]
        /\ \/ Rotate
           \/ p = "lookup" /\ m = Private /\ UNCHANGED <<version, tokens>>
    BY DEF RotateOnRead, RotateFails, Goto
<1>2. UNCHANGED <<db, pending, payloads, seen, crowded, value, asOf, unmarked, outdated, sent, known, missed, checks>>
    BY DEF RotateOnRead, streamVars
<1>3. Apart(r) /\ (\A w \in Writers : pc'[w] = pc[w]) /\ pc'[r] = p /\ mine'[r] = m
    BY <1>0, <1>1, <1>2 DEF Apart, CacheTypes
<1>4. Items' \subseteq Items
    BY <1>2, <1>3, NoNewItem DEF Items
<1>5. tokens \in Nat \ {0} /\ tokens' \in {tokens, tokens + 1} /\ version' \in 0..(tokens' - 1)
      /\ m \in Private..(tokens' - 1)
  <2>1. CASE Rotate
      BY <1>0, <2>1 DEF Rotate, CacheTypes
  <2>2. CASE m = Private /\ UNCHANGED <<version, tokens>>
      BY <1>0, <2>2 DEF CacheTypes
  <2> QED
      BY <1>1, <2>1, <2>2
<1>6. CacheTypes'
  <2>1. /\ payloads \subseteq ItemType /\ value[r] \in 0..db /\ asOf[r] \in 0..db
        /\ value = [value EXCEPT ![r] = value[r]] /\ asOf = [asOf EXCEPT ![r] = asOf[r]]
        /\ seen \in [Readers -> SUBSET Writers] /\ crowded \in [Readers -> BOOLEAN]
        /\ unmarked \in [Readers -> {"none", "coming", "lost"}] /\ checks \in [Streams -> Nat]
      BY <1>0 DEF CacheTypes
  <2>2. pc' \in [Readers \union Writers -> Steps]
      BY <1>0, <1>1 DEF CacheTypes, Steps
  <2> QED
      BY <1>1, <1>2, <1>5, <2>1, <2>2, ReaderTypes
<1>7. \A i \in Items' : i.version # m
  <2>1. \A i \in Items : i.version \in Nat \ {0} /\ i.version < tokens
      BY DEF CacheInv, ItemsTyped, ItemType
  <2> QED
      BY <1>4, <1>5, <2>1
<1>8. Found(r)'
    BY <1>3, <1>7 DEF Found
<1>9. \/ version' \in {tokens, NoVersion}
      \/ /\ version' = version
         /\ (\E w \in pending : ~Removable(w)) => (\E w \in pending' : ~Removable(w)')
  <2>1. CASE Rotate
      BY <2>1 DEF Rotate
  <2>2. CASE p = "lookup" /\ version' = version
      BY <1>0, <1>2, <1>3, <2>2, GuardsStand DEF CacheTypes
  <2> QED
      BY <1>1, <2>1, <2>2
<1>10. ItemsGrow
    BY <1>2, <1>4, <1>5 DEF ItemsGrow
<1>11. MarkedReadFresh' /\ NoChangeMissed'
    BY <1>2 DEF CacheInv, MarkedReadFresh, NoChangeMissed
<1>12. m # NoVersion
    BY <1>5
<1> QED
    BY <1>2, <1>3, <1>6, <1>8, <1>9, <1>10, <1>11, <1>12, ReaderStep

\* RemoveObserved: what guards a stale item was not observed.
LEMMA RemoveObservedInv ==
    ASSUME CacheInv, NEW r \in Readers, RemoveObserved(r), UNCHANGED streamVars
    PROVE  CacheInv'
<1> USE CacheFacts
<1>0. CacheTypes
    BY DEF CacheInv
<1>1. /\ pc[r] = "clean" /\ pc' = [pc EXCEPT ![r] = "lookup"] /\ pending' \in {pending, pending \ seen[r]}
      /\ UNCHANGED <<db, version, tokens, payloads, seen, mine, crowded, value, asOf, unmarked, outdated,
                     sent, known, missed, checks>>
    BY DEF RemoveObserved, streamVars, readVars, Goto
<1>2. Apart(r) /\ (\A w \in Writers : pc'[w] = pc[w]) /\ pc'[r] = "lookup" /\ pending' \subseteq pending
    BY <1>0, <1>1 DEF Apart, CacheTypes
<1>3. Items' \subseteq Items
    BY <1>1, <1>2, NoNewItem DEF Items
<1>4. CacheTypes'
    BY <1>0, <1>1 DEF CacheTypes, Steps
<1>5. Found(r)'
    BY <1>1, <1>2, <1>3 DEF CacheInv, FoundIsFresh, Found
<1>6. (\E w \in pending : ~Removable(w)) => (\E w \in pending' : ~Removable(w)')
  <2> SUFFICES ASSUME NEW w \in pending, ~Removable(w) PROVE w \in pending' /\ ~Removable(w)'
      OBVIOUS
  <2>1. w \notin seen[r] /\ w \in Writers
      BY <1>0, <1>1 DEF Removable, CacheTypes
  <2> QED
      BY <1>1, <1>2, <2>1 DEF Removable, Apart
<1>7. ItemsGrow
    BY <1>0, <1>1, <1>3 DEF ItemsGrow, CacheTypes
<1>8. MarkedReadFresh' /\ NoChangeMissed' /\ mine'[r] # NoVersion
    BY <1>1 DEF CacheInv, MarkedReadFresh, NoChangeMissed, ReadersStand
<1> QED
    BY <1>1, <1>2, <1>4, <1>5, <1>6, <1>7, <1>8, ReaderStep

\* GetVersion: the version that was going to be found, or one without items.
LEMMA GetVersionInv ==
    ASSUME CacheInv, NEW r \in Readers, GetVersion(r), UNCHANGED streamVars
    PROVE  CacheInv'
<1> USE CacheFacts
<1>0. CacheTypes
    BY DEF CacheInv
<1>1. PICK m \in {version, tokens, Private} :
        /\ mine' = [mine EXCEPT ![r] = m] /\ pc' = [pc EXCEPT ![r] = "lookup"]
        /\ \/ m = version /\ version # NoVersion /\ UNCHANGED <<version, tokens>>
           \/ m = tokens /\ Rotate
           \/ m = Private /\ UNCHANGED <<version, tokens>>
    BY DEF GetVersion, Goto
<1>2. /\ UNCHANGED <<db, pending, payloads, seen, crowded, value, asOf, unmarked, outdated, sent, known, missed, checks>>
      /\ pc[r] = "version"
    BY DEF GetVersion, streamVars
<1>3. Apart(r) /\ (\A w \in Writers : pc'[w] = pc[w]) /\ pc'[r] = "lookup" /\ mine'[r] = m
    BY <1>0, <1>1, <1>2 DEF Apart, CacheTypes
<1>4. Items' \subseteq Items
    BY <1>2, <1>3, NoNewItem DEF Items
<1>5. tokens \in Nat \ {0} /\ tokens' \in {tokens, tokens + 1} /\ version' \in 0..(tokens' - 1)
      /\ m \in Private..(tokens' - 1) /\ m # NoVersion
  <2>1. CASE m = tokens /\ Rotate
      BY <1>0, <2>1 DEF Rotate, CacheTypes
  <2>2. CASE m \in {Private, version} /\ m # NoVersion /\ UNCHANGED <<version, tokens>>
      BY <1>0, <2>2 DEF CacheTypes
  <2> QED
      BY <1>1, <2>1, <2>2
<1>6. CacheTypes'
  <2>1. /\ payloads \subseteq ItemType /\ value[r] \in 0..db /\ asOf[r] \in 0..db
        /\ value = [value EXCEPT ![r] = value[r]] /\ asOf = [asOf EXCEPT ![r] = asOf[r]]
        /\ seen \in [Readers -> SUBSET Writers] /\ crowded \in [Readers -> BOOLEAN]
        /\ unmarked \in [Readers -> {"none", "coming", "lost"}] /\ checks \in [Streams -> Nat]
      BY <1>0 DEF CacheTypes
  <2>2. pc' \in [Readers \union Writers -> Steps]
      BY <1>0, <1>1 DEF CacheTypes, Steps
  <2> QED
      BY <1>1, <1>2, <1>5, <2>1, <2>2, ReaderTypes
<1>7. Found(r)'
  <2>1. CASE m = version
    <3>1. seen[r] = {}
        BY <1>2 DEF CacheInv, ReadersStand
    <3> QED
        BY <1>2, <1>3, <1>4, <2>1, <3>1 DEF CacheInv, FoundIsFresh, Found
  <2>2. CASE m \in {tokens, Private}
    <3>1. \A i \in Items : i.version \in Nat \ {0} /\ i.version < tokens
        BY DEF CacheInv, ItemsTyped, ItemType
    <3>2. \A i \in Items' : i.version # m
        BY <1>4, <1>5, <2>2, <3>1
    <3> QED
        BY <1>3, <3>2 DEF Found
  <2> QED
      BY <2>1, <2>2
<1>8. \/ version' \in {tokens, NoVersion}
      \/ /\ version' = version
         /\ (\E w \in pending : ~Removable(w)) => (\E w \in pending' : ~Removable(w)')
  <2>1. (\E w \in pending : ~Removable(w)) => (\E w \in pending' : ~Removable(w)')
      BY <1>0, <1>2, <1>3, GuardsStand DEF CacheTypes
  <2> QED
      BY <1>1, <2>1 DEF Rotate
<1>9. ItemsGrow
    BY <1>2, <1>4, <1>5 DEF ItemsGrow
<1>10. MarkedReadFresh' /\ NoChangeMissed'
    BY <1>2 DEF CacheInv, MarkedReadFresh, NoChangeMissed
<1> QED
    BY <1>2, <1>3, <1>5, <1>6, <1>7, <1>8, <1>9, <1>10, ReaderStep

\* An answer with data that is no older than the start of the request, whatever
\* of the items it leaves behind.
LEMMA RespondInv ==
    ASSUME CacheInv, NEW r \in Readers, NEW data, Respond(r, data),
           unmarked[r] = "none" => ~(data < asOf[r]),
           payloads' \subseteq Items, payloads' \subseteq ItemType,
           UNCHANGED <<db, pending, version, tokens, streamVars>>
    PROVE  CacheInv'
<1> USE CacheFacts
<1>0. CacheTypes
    BY DEF CacheInv
<1>1. /\ seen' = [seen EXCEPT ![r] = {}] /\ mine' = [mine EXCEPT ![r] = NoVersion]
      /\ crowded' = [crowded EXCEPT ![r] = FALSE] /\ value' = [value EXCEPT ![r] = 0]
      /\ asOf' = [asOf EXCEPT ![r] = 0] /\ unmarked' = [unmarked EXCEPT ![r] = "none"]
      /\ pc' = [pc EXCEPT ![r] = "done"] /\ UNCHANGED <<sent, known, missed, checks>>
    BY DEF Respond, Goto, streamVars
<1>2. Apart(r) /\ (\A w \in Writers : pc'[w] = pc[w]) /\ pc'[r] = "done" /\ seen'[r] = {}
    BY <1>0, <1>1 DEF Apart, CacheTypes
<1>3. Items' \subseteq Items
    BY <1>1, <1>2, NoNewItem
<1>4. db \in Nat /\ tokens \in Nat \ {0} /\ version \in 0..(tokens - 1) /\ 0 \in 0..db
      /\ NoVersion \in Private..(tokens - 1) /\ checks \in [Streams -> Nat]
    BY <1>0 DEF CacheTypes
<1>5. CacheTypes'
  <2>1. pc' \in [Readers \union Writers -> Steps]
      BY <1>0, <1>1 DEF CacheTypes, Steps
  <2>2. seen' \in [Readers -> SUBSET Writers] /\ crowded' \in [Readers -> BOOLEAN]
        /\ unmarked' \in [Readers -> {"none", "coming", "lost"}]
      BY <1>0, <1>1 DEF CacheTypes
  <2> QED
      BY <1>1, <1>4, <2>1, <2>2, ReaderTypes
<1>6. Found(r)'
    BY <1>2 DEF Found
<1>7. (\E w \in pending : ~Removable(w)) => (\E w \in pending' : ~Removable(w)')
    BY <1>0, <1>2, GuardsStand DEF CacheTypes
<1>8. ItemsGrow
    BY <1>3, <1>4 DEF ItemsGrow
<1>9. MarkedReadFresh' /\ NoChangeMissed'
  <2>1. "none" \notin outdated'
      BY DEF Respond, CacheInv, MarkedReadFresh
  <2> QED
      BY <1>1, <2>1 DEF CacheInv, MarkedReadFresh, NoChangeMissed
<1> QED
    BY <1>2, <1>5, <1>6, <1>7, <1>8, <1>9, ReaderStep

\* Lookup: a hit is one of the items the request was going to find.
LEMMA LookupInv ==
    ASSUME CacheInv, NEW r \in Readers, Lookup(r), UNCHANGED streamVars
    PROVE  CacheInv'
<1> USE CacheFacts
<1>0. CacheTypes
    BY DEF CacheInv
<1>1. pc[r] = "lookup" /\ UNCHANGED <<db, pending, version, payloads, tokens>>
    BY DEF Lookup
<1>2. ASSUME NEW p \in StoredFor(r), Respond(r, p.value) PROVE CacheInv'
  <2>1. p \in Items /\ p.version = mine[r] /\ p.markers = seen[r]
      BY DEF StoredFor, Items
  <2>2. p.value \in Nat /\ asOf[r] \in Nat
      BY <1>0, <2>1 DEF CacheInv, ItemsTyped, ItemType, CacheTypes
  <2>3. unmarked[r] = "none" => p.value >= asOf[r]
      BY <1>1, <2>1 DEF CacheInv, FoundIsFresh, Found
  <2>4. payloads' \subseteq Items /\ payloads' \subseteq ItemType
      BY <1>0, <1>1 DEF Items, CacheTypes
  <2> QED
      BY <1>1, <1>2, <2>2, <2>3, <2>4, RespondInv
<1>3. ASSUME Goto(r, "build"), UNCHANGED readVars PROVE CacheInv'
  <2>1. /\ pc' = [pc EXCEPT ![r] = "build"]
        /\ UNCHANGED <<seen, mine, crowded, value, asOf, unmarked, outdated, sent, known, missed, checks>>
      BY <1>3 DEF Goto, readVars, streamVars
  <2>2. Apart(r) /\ (\A w \in Writers : pc'[w] = pc[w]) /\ pc'[r] = "build"
      BY <1>0, <2>1 DEF Apart, CacheTypes
  <2>3. Items' \subseteq Items
      BY <1>1, <2>1, <2>2, NoNewItem DEF Items
  <2>4. CacheTypes'
      BY <1>0, <1>1, <2>1 DEF CacheTypes, Steps
  <2>5. Found(r)'
      BY <2>2 DEF Found
  <2>6. (\E w \in pending : ~Removable(w)) => (\E w \in pending' : ~Removable(w)')
      BY <1>0, <1>1, <2>2, GuardsStand DEF CacheTypes
  <2>7. ItemsGrow
      BY <1>0, <1>1, <2>3 DEF ItemsGrow, CacheTypes
  <2>8. MarkedReadFresh' /\ NoChangeMissed' /\ mine'[r] # NoVersion
      BY <1>1, <2>1 DEF CacheInv, MarkedReadFresh, NoChangeMissed, ReadersStand
  <2> QED
      BY <1>1, <2>1, <2>2, <2>4, <2>5, <2>6, <2>7, <2>8, ReaderStep
<1> QED
    BY <1>2, <1>3 DEF Lookup

\* Build: the only new item, made of the data of now.
LEMMA BuildInv ==
    ASSUME CacheInv, NEW r \in Readers, Build(r), UNCHANGED streamVars
    PROVE  CacheInv'
<1> USE CacheFacts
<1>0. CacheTypes
    BY DEF CacheInv
<1>1. /\ pc[r] = "build" /\ pc' = [pc EXCEPT ![r] = "store"] /\ value' = [value EXCEPT ![r] = db]
      /\ UNCHANGED <<db, pending, version, payloads, tokens, seen, mine, crowded, asOf, unmarked, outdated,
                     sent, known, missed, checks>>
    BY DEF Build, Goto, streamVars
<1>2. Apart(r) /\ (\A w \in Writers : pc'[w] = pc[w]) /\ pc'[r] = "store" /\ value'[r] = db
    BY <1>0, <1>1 DEF Apart, CacheTypes
<1>3. db \in Nat /\ tokens \in Nat \ {0} /\ asOf[r] \in 0..db /\ seen[r] \subseteq Writers
      /\ mine[r] \in Private..(tokens - 1) /\ mine[r] # NoVersion
    BY <1>0, <1>1 DEF CacheTypes, CacheInv, ReadersStand
<1>4. ItemsGrow
  <2>1. ASSUME NEW i \in Building', i \notin Building
        PROVE  i \in ItemType /\ i.version < tokens /\ i.value = db
    <3>1. mine[r] # Private /\ i = [version |-> mine[r], markers |-> seen[r], value |-> db]
        BY <1>1, <1>2, <2>1 DEF Building, Apart
    <3>2. mine[r] \in Nat \ {0} /\ mine[r] < tokens
        BY <1>3, <3>1
    <3> QED
        BY <1>3, <3>1, <3>2 DEF ItemType
  <2>2. Announced' = Announced /\ payloads' = payloads
      BY <1>1 DEF Announced
  <2> QED
      BY <1>1, <1>3, <2>1, <2>2 DEF ItemsGrow, Items
<1>5. CacheTypes'
    BY <1>0, <1>1, <1>3 DEF CacheTypes, Steps
<1>6. Found(r)'
    BY <1>2 DEF Found
<1>7. (\E w \in pending : ~Removable(w)) => (\E w \in pending' : ~Removable(w)')
    BY <1>0, <1>1, <1>2, GuardsStand DEF CacheTypes
<1>8. MarkedReadFresh' /\ NoChangeMissed' /\ mine'[r] # NoVersion /\ value'[r] >= asOf'[r]
    BY <1>1, <1>2, <1>3 DEF CacheInv, MarkedReadFresh, NoChangeMissed
<1> QED
    BY <1>1, <1>2, <1>4, <1>5, <1>6, <1>7, <1>8, ReaderStep

\* Store: what is stored was an item already.
LEMMA StoreInv ==
    ASSUME CacheInv, NEW r \in Readers, Store(r), UNCHANGED streamVars
    PROVE  CacheInv'
<1>0. CacheTypes
    BY DEF CacheInv
<1>1. pc[r] = "store" /\ Respond(r, value[r]) /\ UNCHANGED <<db, pending, version, tokens>>
    BY DEF Store
<1>2. payloads' \subseteq Items
  <2>1. mine[r] # Private => [version |-> mine[r], markers |-> seen[r], value |-> value[r]] \in Building
      BY <1>1 DEF Building
  <2> QED
      BY <2>1 DEF Store, Items
<1>3. payloads' \subseteq ItemType
    BY <1>2 DEF CacheInv, ItemsTyped
<1>4. ~(value[r] < asOf[r])
    BY <1>0, <1>1 DEF CacheInv, ReadersStand, CacheTypes
<1> QED
    BY <1>1, <1>2, <1>3, <1>4, RespondInv

-----------------------------------------------------------------------------
\* A check that is over, or cut short: what the stream announced is current, or
\* was announced before.
LEMMA ResetInv ==
    ASSUME CacheInv, NEW t \in Streams, ResetCheck(t), NoChangeMissed', missed' \in BOOLEAN,
           sent' \in [Streams -> {Closed, Opened, Unique} \union ((1..(tokens - 1)) \X SUBSET Writers)],
           known' \in [Streams -> 0..db], UNCHANGED checks,
           \A i \in Announced' : i \in Announced \/ (i \in ItemType /\ i.version < tokens /\ i.value = db)
    PROVE  CacheInv'
<1> USE CacheFacts
<1>0. CacheTypes /\ t \in Readers
    BY DEF CacheInv
<1>1. /\ seen' = [seen EXCEPT ![t] = {}] /\ mine' = [mine EXCEPT ![t] = NoVersion]
      /\ crowded' = [crowded EXCEPT ![t] = FALSE]
      /\ asOf' = [asOf EXCEPT ![t] = 0] /\ unmarked' = [unmarked EXCEPT ![t] = "none"]
      /\ pc' = [pc EXCEPT ![t] = "idle"]
      /\ UNCHANGED <<db, pending, version, payloads, tokens, value, outdated>>
    BY DEF ResetCheck, Goto
<1>2. Apart(t) /\ (\A w \in Writers : pc'[w] = pc[w]) /\ pc'[t] = "idle" /\ seen'[t] = {}
    BY <1>0, <1>1 DEF Apart, CacheTypes
<1>3. db \in Nat /\ tokens \in Nat \ {0} /\ 0 \in 0..db /\ NoVersion \in Private..(tokens - 1)
    BY <1>0 DEF CacheTypes
<1>4. ItemsGrow
  <2>1. Building' \subseteq Building
      BY <1>2, BuildingStands
  <2> QED
      BY <1>1, <1>3, <2>1 DEF ItemsGrow, Items
<1>5. CacheTypes'
  <2>1. pc' \in [Readers \union Writers -> Steps]
      BY <1>0, <1>1 DEF CacheTypes, Steps
  <2>2. seen' \in [Readers -> SUBSET Writers] /\ crowded' \in [Readers -> BOOLEAN]
        /\ unmarked' \in [Readers -> {"none", "coming", "lost"}]
      BY <1>0, <1>1 DEF CacheTypes
  <2>3. mine' \in [Readers -> Private..(tokens - 1)] /\ asOf' \in [Readers -> 0..db]
      BY <1>0, <1>1, <1>3 DEF CacheTypes
  <2> QED
      BY <1>0, <1>1, <2>1, <2>2, <2>3 DEF CacheTypes
<1>6. Found(t)'
    BY <1>2 DEF Found
<1>7. (\E w \in pending : ~Removable(w)) => (\E w \in pending' : ~Removable(w)')
    BY <1>0, <1>1, <1>2, GuardsStand DEF CacheTypes
<1>8. MarkedReadFresh'
    BY <1>1 DEF CacheInv, MarkedReadFresh
<1> QED
    BY <1>0, <1>1, <1>2, <1>4, <1>5, <1>6, <1>7, <1>8, ReaderStep

\* A stream whose event changes: the other announcements stay.
LEMMA AnnouncedGrows ==
    ASSUME NEW t \in Streams, NEW n, NEW k, DOMAIN sent = Streams, DOMAIN known = Streams,
           sent' = [sent EXCEPT ![t] = n], known' \in {known, [known EXCEPT ![t] = k]},
           n \in {Closed, Opened, Unique} \/ known'[t] = k
    PROVE  \A i \in Announced' : i \in Announced \/
             (n \notin {Closed, Opened, Unique} /\ i = [version |-> n[1], markers |-> n[2], value |-> k])
<1> SUFFICES ASSUME NEW u \in Streams, sent'[u] \notin {Closed, Opened, Unique},
                    NEW i, i = [version |-> sent'[u][1], markers |-> sent'[u][2], value |-> known'[u]]
             PROVE  i \in Announced \/
                      (n \notin {Closed, Opened, Unique} /\ i = [version |-> n[1], markers |-> n[2], value |-> k])
    BY DEF Announced
<1>1. CASE u = t
    BY <1>1
<1>2. CASE u # t
  <2>1. sent'[u] = sent[u] /\ known'[u] = known[u]
      BY <1>2
  <2> QED
      BY <2>1 DEF Announced
<1> QED
    BY <1>1, <1>2

\* EndCheck: the namespace that is announced again was announced with data that
\* every read finds fresh, so a heartbeat conceals nothing.
LEMMA EndCheckInv ==
    ASSUME CacheInv, NEW t \in Streams, EndCheck(t)
    PROVE  CacheInv'
<1> USE CacheFacts
<1>0. CacheTypes /\ t \in Readers
    BY DEF CacheInv
<1>1. sent[t] # Closed /\ pc[t] = "lookup" /\ ResetCheck(t) /\ UNCHANGED checks
    BY DEF EndCheck
<1>2. db \in Nat /\ tokens \in Nat \ {0} /\ mine[t] \in Private..(tokens - 1) /\ mine[t] # NoVersion
      /\ seen[t] \in SUBSET Writers /\ known[t] \in 0..db /\ asOf[t] \in 0..db /\ db \in 0..db
    BY <1>0, <1>1 DEF CacheTypes, CacheInv, ReadersStand
<1>3. CASE IsNews(t)
  <2>1. sent' = [sent EXCEPT ![t] = Namespace(t)] /\ known' = [known EXCEPT ![t] = db] /\ missed' = missed
      BY <1>3 DEF EndCheck
  <2>2. \/ Namespace(t) = Unique
        \/ /\ Namespace(t) = <<mine[t], seen[t]>> /\ mine[t] \in 1..(tokens - 1)
      BY <1>2 DEF Namespace
  <2>3. sent' \in [Streams -> {Closed, Opened, Unique} \union ((1..(tokens - 1)) \X SUBSET Writers)]
      BY <1>0, <1>2, <2>1, <2>2 DEF CacheTypes
  <2>4. known' \in [Streams -> 0..db] /\ known'[t] = db /\ DOMAIN sent = Streams /\ DOMAIN known = Streams
      BY <1>0, <1>2, <2>1 DEF CacheTypes
  <2>5. ASSUME NEW i \in Announced', i \notin Announced
        PROVE  i \in ItemType /\ i.version < tokens /\ i.value = db
    <3>1. /\ Namespace(t) \notin {Closed, Opened, Unique}
          /\ i = [version |-> Namespace(t)[1], markers |-> Namespace(t)[2], value |-> db]
        BY <2>1, <2>4, <2>5, AnnouncedGrows
    <3>2. Namespace(t)[1] = mine[t] /\ Namespace(t)[2] = seen[t] /\ mine[t] \in 1..(tokens - 1)
        BY <2>2, <3>1, NamespaceFacts
    <3> QED
        BY <1>2, <3>1, <3>2 DEF ItemType
  <2>6. NoChangeMissed' /\ missed' \in BOOLEAN
      BY <1>0, <2>1 DEF CacheInv, NoChangeMissed, CacheTypes
  <2> QED
      BY <1>1, <2>3, <2>4, <2>5, <2>6, ResetInv
<1>4. CASE ~IsNews(t)
  <2>1. UNCHANGED <<sent, known>> /\ missed' = (missed \/ (unmarked[t] = "none" /\ known[t] < asOf[t]))
      BY <1>4 DEF EndCheck
  <2>2. sent[t] = <<mine[t], seen[t]>>
      BY <1>4 DEF IsNews, Namespace
  <2>3. [version |-> mine[t], markers |-> seen[t], value |-> known[t]] \in Items
    <3>1. sent[t] \notin {Closed, Opened, Unique} /\ sent[t][1] = mine[t] /\ sent[t][2] = seen[t]
        BY <2>2, NamespaceFacts
    <3> QED
        BY <3>1 DEF Announced, Items
  <2>4. unmarked[t] = "none" => known[t] >= asOf[t]
      BY <1>0, <1>1, <2>3 DEF CacheInv, FoundIsFresh, Found
  <2>5. ~(unmarked[t] = "none" /\ known[t] < asOf[t])
      BY <1>2, <2>4
  <2>6. NoChangeMissed' /\ missed' \in BOOLEAN
      BY <2>1, <2>5 DEF CacheInv, NoChangeMissed
  <2>7. Announced' = Announced
      BY <2>1 DEF Announced
  <2> QED
      BY <1>0, <1>1, <2>1, <2>6, <2>7, ResetInv DEF CacheTypes
<1> QED
    BY <1>3, <1>4

\* CloseStream announces nothing.
LEMMA CloseStreamInv ==
    ASSUME CacheInv, NEW t \in Streams, CloseStream(t)
    PROVE  CacheInv'
<1>0. CacheTypes
    BY DEF CacheInv
<1>1. sent' = [sent EXCEPT ![t] = Closed] /\ ResetCheck(t) /\ UNCHANGED <<known, missed, checks>>
    BY DEF CloseStream
<1>2. \A i \in Announced' : i \in Announced
    BY <1>0, <1>1, AnnouncedGrows DEF CacheTypes
<1>3. sent' \in [Streams -> {Closed, Opened, Unique} \union ((1..(tokens - 1)) \X SUBSET Writers)]
    BY <1>0, <1>1 DEF CacheTypes
<1>4. NoChangeMissed' /\ missed' \in BOOLEAN /\ known' \in [Streams -> 0..db]
    BY <1>0, <1>1 DEF CacheInv, NoChangeMissed, CacheTypes
<1> QED
    BY <1>1, <1>2, <1>3, <1>4, ResetInv

\* A step of nobody: a stream opens, the cache loses its version, or nothing.
LEMMA QuietInv ==
    ASSUME CacheInv, CacheTypes', Items' \subseteq Items, version' \in {version, NoVersion},
           UNCHANGED <<db, pending, tokens, pc, seen, mine, value, asOf, unmarked, outdated, missed>>
    PROVE  CacheInv'
<1>1. ItemsGrow
    BY DEF ItemsGrow, CacheInv, CacheTypes
<1>2. ItemsTyped'
    BY <1>1, ItemsStayTyped
<1>3. FoundIsFresh'
  <2> SUFFICES ASSUME NEW q \in Readers PROVE Found(q)'
      BY DEF FoundIsFresh
  <2>1. PICK x \in {{}, {{}}} : q # x
      OBVIOUS
  <2>2. Apart(x)
      BY DEF Apart
  <2> QED
      BY <1>1, <2>1, <2>2, OthersFind
<1>4. StaleIsMarked'
  <2>1. CASE version' = NoVersion
      BY <1>1, <2>1, StaleRetired DEF StaleIsMarked
  <2>2. CASE version' = version
    <3>1. (AllMarked' => AllMarked) /\ \A w : Removable(w)' <=> Removable(w)
        BY DEF AllMarked, Removable
    <3> QED
        BY <1>1, <2>2, <3>1, StaleStands
  <2> QED
      BY <2>1, <2>2
<1>5. ReadersStand' /\ MarkersNew' /\ MarkedReadFresh' /\ NoChangeMissed'
    BY DEF CacheInv, ReadersStand, MarkersNew, MarkedReadFresh, NoChangeMissed
<1> QED
    BY <1>2, <1>3, <1>4, <1>5 DEF CacheInv

\* The cache loses the version: nothing is ever stored under none.
LEMMA LoseVersionInv ==
    ASSUME CacheInv, LoseVersion, UNCHANGED streamVars
    PROVE  CacheInv'
<1>0. CacheTypes
    BY DEF CacheInv
<1>1. /\ version' = NoVersion
      /\ UNCHANGED <<db, pending, payloads, tokens, pc, seen, mine, crowded, value, asOf, unmarked, outdated,
                     sent, known, missed, checks>>
    BY DEF LoseVersion, readVars, streamVars
<1>2. Items' = Items
    BY <1>1 DEF Items, Building, Announced
<1>3. CacheTypes'
    BY <1>0, <1>1 DEF CacheTypes, NoVersion
<1> QED
    BY <1>1, <1>2, <1>3, QuietInv

\* A stream that has sent nothing announces nothing.
LEMMA OpenStreamInv ==
    ASSUME CacheInv, NEW t \in Streams, OpenStream(t)
    PROVE  CacheInv'
<1>0. CacheTypes
    BY DEF CacheInv
<1>1. /\ sent' = [sent EXCEPT ![t] = Opened]
      /\ UNCHANGED <<db, pending, version, payloads, tokens, pc, seen, mine, crowded, value, asOf, unmarked, outdated,
                     known, missed, checks>>
    BY DEF OpenStream, vars, readVars
<1>2. Announced' \subseteq Announced
    BY <1>0, <1>1, AnnouncedGrows DEF CacheTypes
<1>3. Items' \subseteq Items
    BY <1>1, <1>2 DEF Items, Building
<1>4. CacheTypes'
  <2>1. sent' \in [Streams -> {Closed, Opened, Unique} \union ((1..(tokens - 1)) \X SUBSET Writers)]
      BY <1>0, <1>1 DEF CacheTypes
  <2> QED
      BY <1>0, <1>1, <2>1 DEF CacheTypes
<1> QED
    BY <1>1, <1>3, <1>4, QuietInv

\* A step that changes nothing.
LEMMA StutterInv ==
    ASSUME CacheInv, UNCHANGED allVars
    PROVE  CacheInv'
<1>0. CacheTypes
    BY DEF CacheInv
<1>1. UNCHANGED <<db, pending, version, payloads, tokens, pc, seen, mine, crowded, value, asOf, unmarked, outdated,
                  sent, known, missed, checks>>
    BY DEF allVars, vars, readVars, streamVars
<1>2. Items' = Items
    BY <1>1 DEF Items, Building, Announced
<1>3. CacheTypes'
    BY <1>0, <1>1 DEF CacheTypes
<1> QED
    BY <1>1, <1>2, <1>3, QuietInv

\* Every step keeps the invariant.
LEMMA CacheStep == CacheInv /\ [StreamNext]_allVars => CacheInv'
<1> SUFFICES ASSUME CacheInv, [StreamNext]_allVars PROVE CacheInv'
    OBVIOUS
<1> USE CacheFacts
<1>1. ASSUME NEW w \in Writers, Write(w), UNCHANGED streamVars PROVE CacheInv'
    BY <1>1, WriteInv
<1>2. ASSUME NEW r \in Readers, Read(r), UNCHANGED streamVars PROVE CacheInv'
  <2>1. CASE ReadPending(r)
    <3>1. UNCHANGED <<sent, known, missed>> /\ checks' \in [Streams -> Nat]
        BY <1>2 DEF streamVars, CacheInv, CacheTypes
    <3> QED
        BY <2>1, <3>1, ReadPendingInv
  <2>2. CASE RotateOnRead(r)
      BY <1>2, <2>2, RotateOnReadInv
  <2>3. CASE RemoveObserved(r)
      BY <1>2, <2>3, RemoveObservedInv
  <2>4. CASE GetVersion(r)
      BY <1>2, <2>4, GetVersionInv
  <2>5. CASE Lookup(r)
      BY <1>2, <2>5, LookupInv
  <2>6. CASE Build(r)
      BY <1>2, <2>6, BuildInv
  <2>7. CASE Store(r)
      BY <1>2, <2>7, StoreInv
  <2> QED
      BY <1>2, <2>1, <2>2, <2>3, <2>4, <2>5, <2>6, <2>7 DEF Read
<1>3. ASSUME LoseVersion, UNCHANGED streamVars PROVE CacheInv'
    BY <1>3, LoseVersionInv
<1>4. ASSUME NEW t \in Streams, StartCheck(t) PROVE CacheInv'
  <2>1. ReadPending(t) /\ UNCHANGED <<sent, known, missed>> /\ t \in Readers
      BY <1>4 DEF StartCheck
  <2>2. checks' \in [Streams -> Nat]
      BY <1>4 DEF StartCheck, CacheInv, CacheTypes
  <2> QED
      BY <2>1, <2>2, ReadPendingInv
<1>5. ASSUME NEW t \in Streams, Resolve(t) PROVE CacheInv'
    BY <1>5, <1>2 DEF Resolve, Read
<1>6. ASSUME NEW t \in Streams, OpenStream(t) \/ EndCheck(t) \/ CloseStream(t) PROVE CacheInv'
    BY <1>6, OpenStreamInv, EndCheckInv, CloseStreamInv
<1>7. CASE UNCHANGED allVars
    BY <1>7, StutterInv
<1>8. CASE StreamNext
    BY <1>8, <1>1, <1>2, <1>3, <1>4, <1>5, <1>6 DEF StreamNext
<1> QED
    BY <1>7, <1>8

-----------------------------------------------------------------------------
\* With no marker pending nothing guards a stale item, so there is none.
LEMMA NothingStaleUnmarked == CacheInv => CurrentPayloadFresh
<1> SUFFICES ASSUME CacheInv, pending = {}, UnmarkedWrites = "none",
                    NEW p \in payloads, p.version = version, p.markers = {}
             PROVE  p.value = db
    BY DEF CurrentPayloadFresh
<1>1. p \in Items /\ AllMarked
    BY DEF Items, UnmarkedWrites, AllMarked
<1>2. ~(p.value < db)
    BY <1>1 DEF CacheInv, StaleIsMarked
<1>3. p.value \in Nat /\ db \in Nat /\ p.value <= db
    BY <1>1 DEF CacheInv, ItemsTyped, ItemType, CacheTypes
<1> QED
    BY <1>2, <1>3

\* cache_namespace, get_payload and set_payload: for any number of readers,
\* writers and streams, whatever the cache, the database and the workers lose, a
\* request is never answered with data older than the marked commits before it,
\* and with no marker pending the stored payload is current.
THEOREM ReadsAlwaysFresh == StreamSpec => []ReadsFresh
<1>1. CacheInv => ReadsFresh
    BY NothingStaleUnmarked DEF CacheInv, ReadsFresh
<1> QED
    BY <1>1, InitCacheInv, CacheStep, PTL DEF StreamSpec

\* change_stream: no check of a stream ends with a heartbeat that conceals a
\* change committed, with its marker, before the check began.
THEOREM NoChangeEverMissed == StreamSpec => []NoChangeMissed
<1>1. CacheInv => NoChangeMissed
    BY DEF CacheInv
<1> QED
    BY <1>1, InitCacheInv, CacheStep, PTL DEF StreamSpec

-----------------------------------------------------------------------------
(***************************************************************************)
(* For every number of refreshers, months and revisions: what is published *)
(* stays, what counts as evidence is current, and what is deployed was     *)
(* trained on the ledger of its deployment.                                *)
(*                                                                         *)
(* PublishedNeverChanges is not inductive: two amounts are kept apart only *)
(* because whatever was shown is the amount of the one issue of its month  *)
(* (ShownIsIssued), and a month is shown only with an issue because no     *)
(* saved run has a status of that name (RunsTyped).                        *)
(***************************************************************************)

RunStates == {"insufficient_history", "accurate", "candidate", "failed"}

\* The rows are functions of the months, and runs end as train lets them.
RunsTyped ==
    /\ issued = [m \in Months |-> issued[m]]
    /\ published = [m \in Months |-> published[m]]
    /\ job = [r \in Refreshers |-> job[r]]
    /\ \A run \in runs : run.status \in RunStates
    /\ \A r \in Refreshers : job[r] # None => job[r].run.status \in RunStates

\* Whatever was shown for a month is the amount of its issue.
ShownIsIssued ==
    \A m \in Months : published[m] \subseteq (IF issued[m] = None THEN {} ELSE {issued[m].value})

\* A score holds the revenue of the revision it names.
ScoresKept == \A s \in scores : s.actual = s.revision

LifecycleInv ==
    /\ RunsTyped
    /\ ShownIsIssued
    /\ ScoresKept

-----------------------------------------------------------------------------
\* train leaves one of its own statuses.
LEMMA TrainStatus ==
    ASSUME NEW key, NEW result \in FitResults
    PROVE  Train(key, result).status \in RunStates
<1>1. result \in RunStates /\ "insufficient_history" \in RunStates
    BY LifecycleAssumption DEF RunStates
<1> QED
    BY <1>1 DEF Train

\* Nothing is issued, shown or scored at first.
LEMMA InitLifecycleInv == LifecycleInit => LifecycleInv
BY DEF LifecycleInit, LifecycleInv, RunsTyped, ShownIsIssued, ScoresKept

\* The approved forecast is shown only where there is an issue.
LEMMA ReadyIsIssued ==
    ASSUME LifecycleInv, ModelStatus = "ready"
    PROVE  issued[month] # None
<1>1. CurrentRuns # {}
    BY DEF ModelStatus
<1> DEFINE run == CHOOSE run \in CurrentRuns : TRUE
<1>2. run \in CurrentRuns
    BY <1>1
<1>3. run.status # "ready"
    BY <1>2 DEF CurrentRuns, RunsFor, LifecycleInv, RunsTyped, RunStates
<1>4. \/ run.status = "ready"
      \/ issued[month] # None
    BY <1>1 DEF ModelStatus
<1> QED
    BY <1>3, <1>4

\* _promote deploys the run it was called with, or leaves everything.
LEMMA PromoteDeploys ==
    ASSUME NEW run, NEW rows, Promote(run, rows)
    PROVE  deployed' \in {deployed, run}
BY DEF Promote

\* A commit of refresh_models: no issue is replaced, and scores are exact.
LEMMA CommitLifecycleInv ==
    ASSUME LifecycleInv, NEW r \in Refreshers, RefreshCommits(r)
    PROVE  LifecycleInv'
<1>0. RunsTyped /\ ShownIsIssued /\ ScoresKept
    BY DEF LifecycleInv
<1>1. job[r] # None /\ job' = [job EXCEPT ![r] = None] /\ published' = published
    BY DEF RefreshCommits
<1>2. CASE UNCHANGED rowVars
    BY <1>0, <1>1, <1>2 DEF LifecycleInv, RunsTyped, ShownIsIssued, ScoresKept, rowVars
<1>3. CASE ~UNCHANGED rowVars
  <2>1. PICK run \in IF RunsFor(KeyOf(job[r].run)) = {} THEN {job[r].run} ELSE RunsFor(KeyOf(job[r].run)) :
          /\ runs' = runs \union {run}
          /\ scores' = ScoreIssued(run.src, run.cov)
          /\ issued' = IF MayIssue(job[r], run) THEN IssueOnce(month, Forecast(run)) ELSE issued
      BY <1>3 DEF RefreshCommits
  <2>2. run.status \in RunStates
      BY <1>0, <1>1, <2>1 DEF RunsFor, RunsTyped
  <2>3. issued' = issued \/ (issued[month] = None /\ issued' = [issued EXCEPT ![month] = Forecast(run)])
      BY <2>1 DEF IssueOnce
  <2>4. RunsTyped'
      BY <1>0, <1>1, <2>1, <2>2, <2>3 DEF RunsTyped
  <2>5. ShownIsIssued'
      BY <1>0, <1>1, <2>3 DEF ShownIsIssued, RunsTyped
  <2>6. ScoresKept'
      BY <1>0, <2>1 DEF ScoresKept, ScoreIssued
  <2> QED
      BY <2>4, <2>5, <2>6 DEF LifecycleInv
<1> QED
    BY <1>2, <1>3

\* Every step keeps the invariant.
LEMMA NextLifecycleInv == LifecycleInv /\ [LifecycleNext]_lifecycleVars => LifecycleInv'
<1> SUFFICES ASSUME LifecycleInv, [LifecycleNext]_lifecycleVars PROVE LifecycleInv'
    OBVIOUS
<1> USE DEF LifecycleInv
<1>1. ASSUME UNCHANGED <<runs, issued, scores, job, published>> PROVE LifecycleInv'
    BY <1>1 DEF RunsTyped, ShownIsIssued, ScoresKept
<1>2. CASE TimePasses
    BY <1>1, <1>2 DEF TimePasses, rowVars
<1>3. ASSUME NEW m \in Months, NEW x \in Amounts, LedgerChange(m, x) PROVE LifecycleInv'
    BY <1>1, <1>3 DEF LedgerChange, rowVars
<1>4. ASSUME NEW m \in Months, AttestCoverage(m) PROVE LifecycleInv'
    BY <1>1, <1>4 DEF AttestCoverage
<1>5. ASSUME NEW r \in Refreshers, RefreshReads(r) PROVE LifecycleInv'
  <2>1. PICK run \in IF RunsFor(Key(month)) # {} THEN RunsFor(Key(month))
                     ELSE {Train(Key(month), result) : result \in FitResults} :
          job' = [job EXCEPT ![r] = [run |-> run, month |-> month, first |-> first]]
      BY <1>5 DEF RefreshReads
  <2>2. UNCHANGED <<runs, issued, scores, published>>
      BY <1>5 DEF RefreshReads, rowVars
  <2>3. run.status \in RunStates
      BY TrainStatus DEF RunsFor, RunsTyped
  <2> QED
      BY <2>1, <2>2, <2>3 DEF RunsTyped, ShownIsIssued, ScoresKept
<1>6. ASSUME NEW r \in Refreshers, RefreshCommits(r) PROVE LifecycleInv'
    BY <1>6, CommitLifecycleInv
<1>7. ASSUME NEW run \in runs, ActivateModel(run) PROVE LifecycleInv'
    BY <1>1, <1>7 DEF ActivateModel
<1>8. CASE Serve
  <2>1. issued[month] # None
      BY <1>8, ReadyIsIssued DEF Serve
  <2>2. /\ published' = [published EXCEPT ![month] = @ \union {issued[month].value}]
        /\ UNCHANGED <<runs, issued, scores, job>>
      BY <1>8 DEF Serve, rowVars
  <2> QED
      BY <2>1, <2>2 DEF RunsTyped, ShownIsIssued, ScoresKept
<1>9. CASE UNCHANGED lifecycleVars
    BY <1>1, <1>9 DEF lifecycleVars, rowVars
<1> QED
    BY <1>2, <1>3, <1>4, <1>5, <1>6, <1>7, <1>8, <1>9 DEF LifecycleNext

-----------------------------------------------------------------------------
\* model_context and get_or_create: no month is ever served with two amounts as
\* its approved forecast, whatever is corrected, refitted or promoted between.
THEOREM PublishedForecastStands == LifecycleSpec => []PublishedNeverChanges
<1>1. LifecycleInv => PublishedNeverChanges
  <2> SUFFICES ASSUME LifecycleInv, NEW m \in Months PROVE Cardinality(published[m]) <= 1
      BY DEF PublishedNeverChanges
  <2>1. published[m] = {} \/ published[m] = {issued[m].value}
      BY DEF LifecycleInv, ShownIsIssued
  <2>2. Cardinality({}) = 0 /\ Cardinality({issued[m].value}) = 1
      BY FS_EmptySet, FS_Singleton
  <2> QED
      BY <2>1, <2>2
<1> QED
    BY <1>1, InitLifecycleInv, NextLifecycleInv, PTL DEF LifecycleSpec

\* prospective_evidence: what the gate counts was reviewed as it is, forecast
\* before its month and scored against the revenue recorded now.
THEOREM EvidenceAlwaysCurrent == LifecycleSpec => []EvidenceIsCurrent
<1>1. LifecycleInv => EvidenceIsCurrent
  <2> SUFFICES ASSUME LifecycleInv, NEW m \in EvidenceOf(scores, ValidCoverage(month))
               PROVE  /\ <<m, revenue[m]>> \in reviewed
                      /\ issued[m].run.cutoff <= m
                      /\ \E s \in scores : s.target = m /\ s.verified /\ s.actual = revenue[m]
      BY DEF EvidenceIsCurrent
  <2>1. m \in Int /\ <<m, revenue[m]>> \in reviewed
      BY DEF EvidenceOf, ValidCoverage
  <2>2. issued[m].run.cutoff = m
      BY DEF EvidenceOf, ProspectiveIssue
  <2>3. PICK s \in scores : s.target = m /\ s.verified /\ s.revision = revenue[m]
      BY DEF EvidenceOf, Scored
  <2> QED
      BY <2>1, <2>2, <2>3 DEF LifecycleInv, ScoresKept
<1> QED
    BY <1>1, InitLifecycleInv, NextLifecycleInv, PTL DEF LifecycleSpec

\* refresh_models and activate_model: whatever changed while a model was fitted,
\* it is deployed only on the ledger and the reviews it was trained on.
THEOREM DeployedOnItsLedger == LifecycleSpec => DeployedFromCurrentLedger
<1>1. [LifecycleNext]_lifecycleVars => [deployed' # deployed => KeyOf(deployed') = Key(deployed'.cutoff)]_lifecycleVars
  <2> SUFFICES ASSUME LifecycleNext, deployed' # deployed
               PROVE  KeyOf(deployed') = Key(deployed'.cutoff)
      OBVIOUS
  <2>1. ASSUME NEW r \in Refreshers, RefreshCommits(r)
        PROVE  KeyOf(deployed') = Key(deployed'.cutoff)
    <3>1. SourceUnchanged(job[r].run)
        BY <2>1 DEF RefreshCommits, rowVars
    <3>2. PICK run \in IF RunsFor(KeyOf(job[r].run)) = {} THEN {job[r].run} ELSE RunsFor(KeyOf(job[r].run)) :
            Promote(run, scores')
        BY <2>1, <3>1 DEF RefreshCommits
    <3>3. KeyOf(run) = KeyOf(job[r].run)
        BY <3>2 DEF RunsFor
    <3>4. run.cutoff = job[r].run.cutoff
        BY <3>3 DEF KeyOf
    <3>5. deployed' = run
        BY <3>2, PromoteDeploys
    <3> QED
        BY <3>1, <3>3, <3>4, <3>5 DEF SourceUnchanged
  <2>2. ASSUME NEW run \in runs, ActivateModel(run)
        PROVE  KeyOf(deployed') = Key(deployed'.cutoff)
    <3>1. deployed' = run /\ KeyOf(run) = Key(month)
        BY <2>2, PromoteDeploys DEF ActivateModel
    <3>2. run.cutoff = month
        BY <3>1 DEF KeyOf, Key
    <3> QED
        BY <3>1, <3>2
  <2> QED
      BY <2>1, <2>2 DEF LifecycleNext, TimePasses, LedgerChange, AttestCoverage, RefreshReads, Serve, rowVars
<1> QED
    BY <1>1, PTL DEF LifecycleSpec, DeployedFromCurrentLedger
=============================================================================
