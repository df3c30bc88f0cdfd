---------------------------- MODULE CacheCoherence ----------------------------
(***************************************************************************)
(* Cached API payloads, reports and runtime settings, and their            *)
(* invalidation through durable markers (config.cache_invalidation).       *)
(*                                                                         *)
(* A business write leaves a CacheInvalidation row, the marker, and after  *)
(* its commit rotates the shared version and deletes the marker.  A read   *)
(* looks at the pending markers, rotates the version itself when there are *)
(* some, and keys its payload by the version and the markers it saw.  The  *)
(* cache may refuse any call, may apply a rotation and lose the answer, and*)
(* may lose the version; a worker may die at any point; the database may   *)
(* refuse the deletion of a marker.                                        *)
(***************************************************************************)
EXTENDS Integers, FiniteSets, FiniteSetsExt

CONSTANTS
    Readers,            \* read requests
    Writers,            \* business writes
    Autocommit,         \* the writes made outside a transaction
    RECOVERY_BATCH_SIZE,\* markers a read looks at and drains
    MaxLost             \* bound: only the first versions may be lost by the cache

ASSUME CacheAssumption ==
    /\ IsFiniteSet(Writers)
    /\ Readers \intersect Writers = {}
    /\ Autocommit \subseteq Writers
    /\ RECOVERY_BATCH_SIZE \in Nat \ {0}
    /\ MaxLost \in Nat

VARIABLES
    db,         \* number of committed writes: the data a payload is built from
    pending,    \* committed markers, named by their write
    version,    \* the shared version key, NoVersion when it is lost
    payloads,   \* stored payloads, [version, markers, value]
    tokens,     \* uuid4: tokens below this one have been used as version
    pc,         \* pc[a]: next step of a reader or writer
    seen,       \* seen[r]: markers that r saw and will drain, part of its namespace
    mine,       \* mine[r]: the version of its namespace
    crowded,    \* crowded[r]: r saw too many markers, its namespace is private
    value,      \* value[r]: the payload that r built
    asOf,       \* history: db when r started
    unmarked,   \* history: what committed writes without marker there were then
    outdated    \* history: unmarked[r] of the requests r that were answered with
                \*   data older than what was committed when they started

readVars == <<seen, mine, crowded, value, asOf, unmarked, outdated>>
vars     == <<db, pending, version, payloads, tokens, pc, readVars>>

\* Tokens: 0 is no version, Private stands for any uuid4 that is never shared:
\* nobody else finds what is stored under it.
NoVersion == 0
Private   == -1

TypeOK ==
    /\ db \in Nat
    /\ pending \subseteq Writers
    /\ version \in 0..(tokens - 1)
    /\ pc \in [Readers \union Writers ->
                 {"idle", "mark", "rotate", "clean", "version", "lookup", "build", "store", "done", "lost"}]
    /\ \A p \in payloads : p.version \in 1..(tokens - 1) /\ p.value \in 0..db
    /\ \A r \in Readers : mine[r] \in Private..(tokens - 1) /\ seen[r] \subseteq Writers

Init ==
    /\ db = 0
    /\ pending = {}
    /\ version = NoVersion
    /\ payloads = {}
    /\ tokens = 1
    /\ pc = [a \in Readers \union Writers |-> "idle"]
    /\ seen = [r \in Readers |-> {}]
    /\ mine = [r \in Readers |-> NoVersion]
    /\ crowded = [r \in Readers |-> FALSE]
    /\ value = [r \in Readers |-> 0]
    /\ asOf = [r \in Readers |-> 0]
    /\ unmarked = [r \in Readers |-> "none"]
    /\ outdated = {}

Goto(a, step) == pc' = [pc EXCEPT ![a] = step]

\* _rotate: a new shared version.
Rotate ==
    /\ version' = tokens
    /\ tokens' = tokens + 1

\* _rotate raises: the cache refused, or applied the call and lost the answer.
RotateFails == Rotate \/ UNCHANGED <<version, tokens>>

-----------------------------------------------------------------------------
(***************************************************************************)
(* Writes.                                                                 *)
(***************************************************************************)

\* Inside a transaction the marker is committed together with the write.
CommitWrite(w) ==
    /\ w \notin Autocommit
    /\ pc[w] = "idle"
    /\ db' = db + 1
    /\ pending' = pending \union {w}
    /\ Goto(w, "rotate")
    /\ UNCHANGED <<version, payloads, tokens, readVars>>

\* Outside a transaction save() commits the row before post_save is sent ...
SaveRow(w) ==
    /\ w \in Autocommit
    /\ pc[w] = "idle"
    /\ db' = db + 1
    /\ Goto(w, "mark")
    /\ UNCHANGED <<pending, version, payloads, tokens, readVars>>

\* ... and the signal handler then inserts the marker.
CreateMarker(w) ==
    /\ pc[w] = "mark"
    /\ pending' = pending \union {w}
    /\ Goto(w, "rotate")
    /\ UNCHANGED <<db, version, payloads, tokens, readVars>>

\* on_commit: rotate the version; a failure leaves the marker to later reads.
RotateAfterCommit(w) ==
    /\ pc[w] = "rotate"
    /\ \/ Rotate /\ Goto(w, "clean")
       \/ RotateFails /\ Goto(w, "done")
    /\ UNCHANGED <<db, pending, payloads, readVars>>

\* _remove_pending; a DatabaseError retains the marker.
RemoveMarker(w) ==
    /\ pc[w] = "clean"
    /\ pending' \in {pending, pending \ {w}}
    /\ Goto(w, "done")
    /\ UNCHANGED <<db, version, payloads, tokens, readVars>>

\* The worker that serves the write dies.
Die(w) ==
    /\ pc[w] \in {"mark", "rotate", "clean"}
    /\ Goto(w, IF pc[w] = "mark" THEN "lost" ELSE "done")
    /\ UNCHANGED <<db, pending, version, payloads, tokens, readVars>>

-----------------------------------------------------------------------------
(***************************************************************************)
(* Reads: cache_namespace, then get_payload, the handler, set_payload.     *)
(***************************************************************************)

\* Committed writes whose marker does not exist: still to come, or never.
UnmarkedWrites ==
    IF \E w \in Writers : pc[w] = "mark" THEN "coming"
    ELSE IF \E w \in Writers : pc[w] = "lost" THEN "lost" ELSE "none"

\* The pending markers: all of them, or the first ones (in the random order of
\* their keys) when there are too many; the digest is then a fresh uuid4.
ReadPending(r) ==
    /\ pc[r] = "idle"
    /\ IF Cardinality(pending) <= RECOVERY_BATCH_SIZE
       THEN /\ seen' = [seen EXCEPT ![r] = pending]
            /\ UNCHANGED crowded
       ELSE /\ \E first \in kSubset(RECOVERY_BATCH_SIZE, pending) :
                 seen' = [seen EXCEPT ![r] = first]
            /\ crowded' = [crowded EXCEPT ![r] = TRUE]
    /\ Goto(r, IF pending = {} THEN "version" ELSE "rotate")
    /\ asOf' = [asOf EXCEPT ![r] = db]
    /\ unmarked' = [unmarked EXCEPT ![r] = UnmarkedWrites]
    /\ UNCHANGED <<db, pending, version, payloads, tokens, mine, value, outdated>>

\* Markers are pending: retire the namespaces built before them.  When the
\* cache fails the read continues with a version of its own.
RotateOnRead(r) ==
    /\ pc[r] = "rotate"
    /\ \/ /\ Rotate
          /\ mine' = [mine EXCEPT ![r] = IF crowded[r] THEN Private ELSE tokens]
          /\ Goto(r, "clean")
       \/ /\ RotateFails
          /\ mine' = [mine EXCEPT ![r] = Private]
          /\ Goto(r, "lookup")
    /\ UNCHANGED <<db, pending, payloads, seen, crowded, value, asOf, unmarked, outdated>>

\* Mutation: every marker is deleted, also those committed since.
RemoveAllMarkers(r) ==
    /\ pc[r] = "clean"
    /\ pending' = {}
    /\ Goto(r, "lookup")
    /\ UNCHANGED <<db, version, payloads, tokens, readVars>>

\* Only the markers observed before the rotation are deleted.
RemoveObserved(r) ==
    /\ pc[r] = "clean"
    /\ pending' \in {pending, pending \ seen[r]}
    /\ Goto(r, "lookup")
    /\ UNCHANGED <<db, version, payloads, tokens, readVars>>

\* No marker: the shared version, created when it is missing.
GetVersion(r) ==
    /\ pc[r] = "version"
    /\ \/ /\ version # NoVersion
          /\ mine' = [mine EXCEPT ![r] = version]
          /\ UNCHANGED <<version, tokens>>
       \/ /\ version = NoVersion
          /\ mine' = [mine EXCEPT ![r] = tokens]
          /\ Rotate
       \/ /\ mine' = [mine EXCEPT ![r] = Private]
          /\ UNCHANGED <<version, tokens>>
    /\ Goto(r, "lookup")
    /\ UNCHANGED <<db, pending, payloads, seen, crowded, value, asOf, unmarked, outdated>>

\* The answer is sent and the request forgotten.
Respond(r, data) ==
    /\ outdated' = IF data < asOf[r] THEN outdated \union {unmarked[r]} ELSE outdated
    /\ seen' = [seen EXCEPT ![r] = {}]
    /\ mine' = [mine EXCEPT ![r] = NoVersion]
    /\ crowded' = [crowded EXCEPT ![r] = FALSE]
    /\ value' = [value EXCEPT ![r] = 0]
    /\ asOf' = [asOf EXCEPT ![r] = 0]
    /\ unmarked' = [unmarked EXCEPT ![r] = "none"]
    /\ Goto(r, "done")

\* The payload stored in the namespace of r.
StoredFor(r) == {p \in payloads : p.version = mine[r] /\ p.markers = seen[r]}

\* A hit answers the request; a miss or a cache error runs the handler.
Lookup(r) ==
    /\ pc[r] = "lookup"
    /\ \/ \E p \in StoredFor(r) : Respond(r, p.value)
       \/ Goto(r, "build") /\ UNCHANGED readVars
    /\ UNCHANGED <<db, pending, version, payloads, tokens>>

\* The handler reads the database.
Build(r) ==
    /\ pc[r] = "build"
    /\ value' = [value EXCEPT ![r] = db]
    /\ Goto(r, "store")
    /\ UNCHANGED <<db, pending, version, payloads, tokens, seen, mine, crowded, asOf, unmarked, outdated>>

\* set_payload under the namespace captured before the read, unless it fails.
Store(r) ==
    /\ pc[r] = "store"
    /\ \/ /\ mine[r] # Private
          /\ payloads' = (payloads \ StoredFor(r)) \union
                         {[version |-> mine[r], markers |-> seen[r], value |-> value[r]]}
       \/ UNCHANGED payloads
    /\ Respond(r, value[r])
    /\ UNCHANGED <<db, pending, version, tokens>>

\* The cache server restarts without its keys.  Copies of payloads may survive
\* in the memory of the workers, so they are kept here.
LoseVersion ==
    /\ version # NoVersion
    /\ version <= MaxLost
    /\ version' = NoVersion
    /\ UNCHANGED <<db, pending, payloads, tokens, pc, readVars>>

-----------------------------------------------------------------------------
Write(w) ==
    \/ CommitWrite(w)
    \/ SaveRow(w)
    \/ CreateMarker(w)
    \/ RotateAfterCommit(w)
    \/ RemoveMarker(w)
    \/ Die(w)

Read(r) ==
    \/ ReadPending(r)
    \/ RotateOnRead(r)
    \/ RemoveObserved(r)
    \/ GetVersion(r)
    \/ Lookup(r)
    \/ Build(r)
    \/ Store(r)

Next ==
    \/ \E w \in Writers : Write(w)
    \/ \E r \in Readers : Read(r)
    \/ LoseVersion

Spec == Init /\ [][Next]_vars

-----------------------------------------------------------------------------
\* A request that starts after writes were committed with their markers is never
\* answered with data from before them, whatever failed in between: the
\* rotation, the deletion of a marker, the cache, a worker, or another read that
\* was building the old payload all the time (cache_namespace).
MarkedReadFresh == "none" \notin outdated

\* When no marker is pending, the payload a new request would find is current:
\* version and markers together tell every older payload apart, so no late
\* set_payload can bring one back.
CurrentPayloadFresh ==
    pending = {} /\ UnmarkedWrites = "none" =>
        \A p \in payloads : p.version = version /\ p.markers = {} => p.value = db

\* Reads are as new as the marked commits before them, now and for the next
\* request: both of the above.
ReadsFresh == MarkedReadFresh /\ CurrentPayloadFresh
=============================================================================
