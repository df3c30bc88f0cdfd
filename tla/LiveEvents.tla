----------------------------- MODULE LiveEvents -----------------------------
(***************************************************************************)
(* Live change notifications (config.live_events): a stream tells its      *)
(* client to reload when the version of the data changed.                  *)
(*                                                                         *)
(* A stream is a reader of CacheCoherence that asks again and again for    *)
(* the namespace, at each heartbeat or when a publication wakes it.  A     *)
(* publication carries nothing but the wakeup and may be lost, so the      *)
(* model lets a stream check at any time and needs no channel.             *)
(***************************************************************************)
EXTENDS CacheCoherence

CONSTANTS
    Streams,        \* the readers that are event streams
    MaxChecks,      \* bound on the checks of a stream
    MaxBeside       \* bound on the other readers of a behaviour with a stream

ASSUME StreamAssumption == Streams \subseteq Readers /\ MaxChecks \in Nat /\ MaxBeside \in Nat

VARIABLES
    sent,       \* sent[t]: the namespace of the last event, Closed without a stream
    known,      \* known[t]: db when the client was last told to load everything
    missed,     \* history: a check ended without telling what was committed before it
    checks      \* checks[t]: number of checks

streamVars == <<sent, known, missed, checks>>
allVars    == <<vars, streamVars>>

\* No stream, a stream that has sent nothing, a namespace that nothing equals.
Closed == <<"closed">>
Opened == <<"opened">>
Unique == <<"unique">>

StreamInit ==
    /\ Init
    /\ sent = [t \in Streams |-> Closed]
    /\ known = [t \in Streams |-> 0]
    /\ missed = FALSE
    /\ checks = [t \in Streams |-> 0]

\* The readers other than streams that have started, and whether a stream has.
Started  == {r \in Readers \ Streams : pc[r] # "idle"}
Attended == \E t \in Streams : sent[t] # Closed \/ checks[t] > 0

\* The browser connects or reconnects; the subscription is acknowledged before
\* the first version is read.
OpenStream(t) ==
    /\ sent[t] = Closed
    /\ Cardinality(Started) <= MaxBeside
    /\ sent' = [sent EXCEPT ![t] = Opened]
    /\ UNCHANGED <<vars, known, missed, checks>>

\* The namespace as _state returned it.
Namespace(t) == IF mine[t] = Private THEN Unique ELSE <<mine[t], seen[t]>>

\* Forget the finished or interrupted check.
ResetCheck(t) ==
    /\ seen' = [seen EXCEPT ![t] = {}]
    /\ mine' = [mine EXCEPT ![t] = NoVersion]
    /\ crowded' = [crowded EXCEPT ![t] = FALSE]
    /\ asOf' = [asOf EXCEPT ![t] = 0]
    /\ unmarked' = [unmarked EXCEPT ![t] = "none"]
    /\ Goto(t, "idle")
    /\ UNCHANGED <<db, pending, version, payloads, tokens, value, outdated>>

StartCheck(t) ==
    /\ sent[t] # Closed
    /\ checks[t] < MaxChecks
    /\ ReadPending(t)
    /\ checks' = [checks EXCEPT ![t] = @ + 1]
    /\ UNCHANGED <<sent, known, missed>>

\* The steps of cache_namespace, as for every read.
Resolve(t) ==
    /\ RotateOnRead(t) \/ RemoveObserved(t) \/ GetVersion(t)
    /\ UNCHANGED streamVars

\* Mutation: only a shared version that changed is announced, not its markers.
ChangedVersion(t) == sent[t] \in {Opened, Unique} \/ (mine[t] # Private /\ sent[t][1] # mine[t])

\* What a check makes of the namespace: news, or a heartbeat.
IsNews(t) == Namespace(t) = Unique \/ sent[t] # Namespace(t)

\* ready with resync, data_changed, or a heartbeat.
EndCheck(t) ==
    /\ sent[t] # Closed
    /\ pc[t] = "lookup"
    /\ IF IsNews(t)
       THEN /\ sent' = [sent EXCEPT ![t] = Namespace(t)]
            /\ known' = [known EXCEPT ![t] = db]
            /\ UNCHANGED missed
       ELSE /\ missed' = (missed \/ (unmarked[t] = "none" /\ known[t] < asOf[t]))
            /\ UNCHANGED <<sent, known>>
    /\ ResetCheck(t)
    /\ UNCHANGED checks

\* The session expired, Redis failed, the stream was renewed or the browser left;
\* a check under way is cut short.
CloseStream(t) ==
    /\ sent[t] # Closed
    /\ sent' = [sent EXCEPT ![t] = Closed]
    /\ ResetCheck(t)
    /\ UNCHANGED <<known, missed, checks>>

StreamNext ==
    \/ /\ \/ \E w \in Writers : Write(w)
          \/ \E r \in Readers \ Streams :
               /\ Attended => Cardinality(Started \union {r}) <= MaxBeside
               /\ Read(r)
          \/ LoseVersion
       /\ UNCHANGED streamVars
    \/ \E t \in Streams : OpenStream(t) \/ StartCheck(t) \/ Resolve(t) \/ EndCheck(t) \/ CloseStream(t)

StreamSpec == StreamInit /\ [][StreamNext]_allVars

-----------------------------------------------------------------------------
\* No change is missed: when a check ends with a heartbeat, the client has been
\* told to reload since every change that was committed, with its marker, before
\* the check began, also if the publication, the rotation, the version in the
\* cache or the stream itself was lost meanwhile (change_stream).
NoChangeMissed == ~missed
=============================================================================
