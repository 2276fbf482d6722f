----------------------------- MODULE P2pProofs -----------------------------
(***************************************************************************)
(* The event loop of a node, p2p/node.rs.  First its calls, for any number *)
(* of callers and peers: every answer goes to the caller whose command     *)
(* started the query, and no reply sender is left behind in a pending      *)
(* table.  Then its announcements, for any blobs, any room for provider    *)
(* records and any queue: none is lost, and a bootstrap peer that lost its *)
(* records gets them anew.                                                 *)
(***************************************************************************)
EXTENDS P2pCalls, P2pAnnounce, DataFacts

(***************************************************************************)
(* The calls (P2pCalls).                                                   *)
(***************************************************************************)

RecordTables == {"sui_addr_queries", "vault_queries"}

\* The calls that have been made.
Sent == {c \in Caller : call[c].state # "unsent"}

Types ==
    /\ connected \subseteq Peer
    /\ pending \subseteq [table : Table, id : Nat, reply : Caller]
    /\ live \subseteq [behaviour : Behaviour, id : Nat, record : BOOLEAN,
                       caller : Caller]
    /\ next_id \in [Behaviour -> Nat]
    /\ call \in [Caller -> [state : {"unsent", "waiting", "answered", "gone"},
                            from : SUBSET Query]]

\* The ids of a behaviour are handed out in order and name one query each,
\* and there are not more of them than calls.
IdsFresh  == \A q \in live : q.id < next_id[q.behaviour]
IdsUnique ==
    \A q, r \in live : q.behaviour = r.behaviour /\ q.id = r.id => q = r
IdsFew == \A b \in Behaviour : next_id[b] <= Cardinality(Sent)

\* q is the query whose answer the entry e waits for: a query for records
\* exactly when e is in a table for records, which tells the tables of
\* Kademlia apart.
Awaits(e, q) ==
    /\ q.behaviour = BehaviourOf(e.table)
    /\ q.id = e.id
    /\ q.caller = e.reply
    /\ q.record = (e.table \in RecordTables)

RecordsKad == \A q \in live : q.record => q.behaviour = "kad"

EntriesLive == \A e \in pending : \E q \in live : Awaits(e, q)
EntryUnique == \A e, f \in pending : e.reply = f.reply => e = f
EntrySent   == \A e \in pending : call[e.reply].state # "unsent"
EntryThere  ==
    \A c \in Caller : call[c].state = "waiting" =>
        \E e \in pending : e.reply = c

CallsInv ==
    /\ Types
    /\ IdsFresh /\ IdsUnique /\ IdsFew
    /\ RecordsKad /\ EntriesLive /\ EntryUnique /\ EntrySent /\ EntryThere
    /\ AnswersMatch

-----------------------------------------------------------------------------
(* The operators.                                                          *)

\* Every table is keyed by the ids of one of the behaviours.
LEMMA TableBehaviour == \A t \in Table : BehaviourOf(t) \in Behaviour
    BY DEF Table, Behaviour, BehaviourOf

\* The number of any calls is at most the number of all.
LEMMA CallsCounted ==
    ASSUME NEW S \in SUBSET Caller
    PROVE  /\ IsFiniteSet(S)
           /\ Cardinality(S) \in Nat /\ Cardinality(Caller) \in Nat
           /\ Cardinality(S) <= Cardinality(Caller)
    BY CallsAssumption, FS_Subset, FS_CardinalityType

\* The entries that an event of q takes out are those that await q.
AnsweredBy(q) ==
    {t \in Table : BehaviourOf(t) = q.behaviour
                   /\ q.record = (t \in RecordTables)}

LEMMA TakenAwait ==
    ASSUME CallsInv, NEW q \in live
    PROVE  \A e \in pending :
               Awaits(e, q) <=> e.table \in AnsweredBy(q) /\ e.id = q.id
<1> SUFFICES ASSUME NEW e \in pending
             PROVE  Awaits(e, q) <=> e.table \in AnsweredBy(q) /\ e.id = q.id
    OBVIOUS
<1>1. e.table \in Table
    BY DEF CallsInv, Types
<1>2. PICK r \in live : Awaits(e, r)
    BY DEF CallsInv, EntriesLive
<1>3. e.table \in AnsweredBy(q) /\ e.id = q.id => r = q
    BY <1>2 DEF Awaits, AnsweredBy, CallsInv, IdsUnique
<1>4. Awaits(e, q) => e.table \in AnsweredBy(q) /\ e.id = q.id
    BY <1>1 DEF Awaits, AnsweredBy
<1> QED
    BY <1>2, <1>3, <1>4

-----------------------------------------------------------------------------
(* Each kind of step keeps the invariant.                                  *)

\* A command that starts a query.
LEMMA StartKeeps ==
    ASSUME CallsInv, NEW c \in Caller, NEW table \in Table,
           NEW record \in BOOLEAN, record = (table \in RecordTables),
           Start(c, table, record)
    PROVE  CallsInv'
<1> DEFINE b == BehaviourOf(table)
           q == [behaviour |-> b, id |-> next_id[b],
                 record |-> record, caller |-> c]
           e == [table |-> table, id |-> next_id[b], reply |-> c]
<1>1. /\ call[c].state = "unsent"
      /\ live' = live \cup {q}
      /\ next_id' = [next_id EXCEPT ![b] = @ + 1]
      /\ pending' = pending \cup {e}
      /\ call' = [call EXCEPT ![c] = Waiting]
      /\ connected' = connected
    BY DEF Start
<1>2. b \in Behaviour /\ next_id[b] \in Nat
    BY TableBehaviour DEF CallsInv, Types
<1>3. /\ q.behaviour = b /\ q.id = next_id[b] /\ q.caller = c
      /\ q.record = (table \in RecordTables)
      /\ q \in [behaviour : Behaviour, id : Nat, record : BOOLEAN,
                caller : Caller]
    BY <1>2
<1>4. /\ e.table = table /\ e.id = next_id[b] /\ e.reply = c
      /\ e \in [table : Table, id : Nat, reply : Caller]
    BY <1>2
<1>5. \A x \in Behaviour : next_id'[x] = IF x = b THEN next_id[x] + 1
                                         ELSE next_id[x]
    BY <1>1, <1>2 DEF CallsInv, Types
<1>6. /\ call'[c] = Waiting
      /\ \A d \in Caller : d # c => call'[d] = call[d]
      /\ Waiting \in [state : {"unsent", "waiting", "answered", "gone"},
                      from : SUBSET Query]
      /\ Waiting.state = "waiting" /\ Waiting.from = {}
    BY <1>1 DEF CallsInv, Types, Waiting
<1>k. table \in RecordTables => b = "kad"
    BY DEF RecordTables, BehaviourOf
<1>7. \A r \in live : r.behaviour \in Behaviour /\ r.id \in Nat
    BY DEF CallsInv, Types
<1>8. \A f \in pending : f.reply \in Caller
    BY DEF CallsInv, Types
<1> HIDE DEF b, q, e
<1>9. Types'
    BY <1>1, <1>2, <1>3, <1>4, <1>6 DEF CallsInv, Types
<1>10. IdsFresh'
    BY <1>1, <1>2, <1>3, <1>5, <1>7 DEF CallsInv, IdsFresh
<1>11. IdsUnique'
    BY <1>1, <1>2, <1>3, <1>7 DEF CallsInv, IdsFresh, IdsUnique
<1>12. IdsFew'
    <2>1. Sent' = Sent \cup {c} /\ c \notin Sent
        BY <1>1, <1>6 DEF Sent
    <2>2. Sent \in SUBSET Caller
        BY DEF Sent
    <2>3. Cardinality(Sent') = Cardinality(Sent) + 1 /\ Cardinality(Sent) \in Nat
        BY <2>1, <2>2, CallsCounted, FS_AddElement
    <2>4. \A x \in Behaviour : next_id[x] \in Nat /\ next_id[x] <= Cardinality(Sent)
        BY DEF CallsInv, Types, IdsFew
    <2> QED
        BY <1>5, <2>3, <2>4 DEF IdsFew
<1>13. RecordsKad'
    BY <1>1, <1>3, <1>k DEF CallsInv, RecordsKad
<1>14. EntriesLive'
    <2>1. Awaits(e, q)
        BY <1>3, <1>4 DEF Awaits, b
    <2> QED
        BY <1>1, <2>1 DEF CallsInv, EntriesLive, Awaits
<1>15. EntryUnique' /\ EntrySent'
    BY <1>1, <1>4, <1>6, <1>8 DEF CallsInv, EntryUnique, EntrySent
<1>16. EntryThere'
    BY <1>1, <1>4, <1>6 DEF CallsInv, EntryThere
<1>17. AnswersMatch'
    BY <1>6 DEF CallsInv, AnswersMatch
<1> QED
    BY <1>9, <1>10, <1>11, <1>12, <1>13, <1>14, <1>15, <1>16, <1>17 DEF CallsInv

\* A command that is answered in place.
LEMMA InlineKeeps ==
    ASSUME CallsInv, NEW c \in Caller, Inline(c)
    PROVE  CallsInv'
<1>1. /\ call[c].state = "unsent"
      /\ call'[c] = Answered({})
      /\ \A d \in Caller : d # c => call'[d] = call[d]
      /\ UNCHANGED <<connected, pending, live, next_id>>
    BY DEF Inline, CallsInv, Types
<1>2. /\ Answered({}) \in [state : {"unsent", "waiting", "answered", "gone"},
                           from : SUBSET Query]
      /\ Answered({}).state = "answered" /\ Answered({}).from = {}
    BY DEF Answered
<1>3. \A e \in pending : e.reply \in Caller
    BY DEF CallsInv, Types
<1>4. Types'
    BY <1>1, <1>2 DEF Inline, CallsInv, Types
<1>5. IdsFresh' /\ IdsUnique' /\ RecordsKad' /\ EntriesLive' /\ EntryUnique'
    BY <1>1 DEF CallsInv, IdsFresh, IdsUnique, RecordsKad, EntriesLive,
                EntryUnique, Awaits
<1>6. IdsFew'
    <2>1. Sent' = Sent \cup {c} /\ c \notin Sent
        BY <1>1, <1>2 DEF Sent
    <2>2. Sent \in SUBSET Caller
        BY DEF Sent
    <2>3. Cardinality(Sent') = Cardinality(Sent) + 1 /\ Cardinality(Sent) \in Nat
        BY <2>1, <2>2, CallsCounted, FS_AddElement
    <2>4. \A x \in Behaviour : next_id[x] \in Nat /\ next_id[x] <= Cardinality(Sent)
        BY DEF CallsInv, Types, IdsFew
    <2> QED
        BY <1>1, <2>3, <2>4 DEF IdsFew
<1>7. EntrySent' /\ EntryThere' /\ AnswersMatch'
    BY <1>1, <1>2, <1>3 DEF CallsInv, EntrySent, EntryThere, AnswersMatch
<1> QED
    BY <1>4, <1>5, <1>6, <1>7 DEF CallsInv

\* An event that answers q, whether it is the last one or not.
LEMMA AnswerKeeps ==
    ASSUME CallsInv, NEW q \in live, Answer(q, AnsweredBy(q)),
           live' \in {live, live \ {q}}
    PROVE  CallsInv'
<1> DEFINE taken == {e \in pending : e.table \in AnsweredBy(q) /\ e.id = q.id}
<1>1. taken = {e \in pending : Awaits(e, q)}
    BY TakenAwait
<1>2. \A e \in taken : e \in pending /\ e.reply = q.caller
    BY <1>1 DEF Awaits
<1>3. /\ pending' = pending \ taken
      /\ call' = [c \in Caller |->
                    IF (\E e \in taken : e.reply = c) /\ call[c].state = "waiting"
                    THEN Answered({q}) ELSE call[c]]
      /\ UNCHANGED <<connected, next_id>>
    BY DEF Answer
<1> HIDE DEF taken
<1>4. q \in Query
    <2>1. q \in [behaviour : Behaviour, id : Nat, record : BOOLEAN,
                 caller : Caller]
        BY DEF CallsInv, Types
    <2>2. q.id < Cardinality(Sent) /\ Sent \in SUBSET Caller
        BY <2>1, CallsCounted DEF CallsInv, IdsFresh, IdsFew, Sent, Types
    <2>3. q.id \in 0 .. Cardinality(Caller)
        BY <2>1, <2>2, CallsCounted
    <2> QED
        BY <2>1, <2>3 DEF Query
<1>5. /\ Answered({q}).state = "answered" /\ Answered({q}).from = {q}
      /\ Answered({q}) \in [state : {"unsent", "waiting", "answered", "gone"},
                            from : SUBSET Query]
    BY <1>4 DEF Answered
<1>6. \A c \in Caller :
        \/ call'[c] = call[c] /\ ~(call[c].state = "waiting" /\ \E e \in taken : e.reply = c)
        \/ call'[c] = Answered({q}) /\ c = q.caller /\ call[c].state = "waiting"
    BY <1>2, <1>3
<1>7. Types'
    BY <1>3, <1>5 DEF CallsInv, Types
<1>8. IdsFresh' /\ IdsUnique' /\ RecordsKad'
    BY <1>3 DEF CallsInv, IdsFresh, IdsUnique, RecordsKad
<1>9. IdsFew'
    <2>1. Sent' = Sent
        BY <1>5, <1>6 DEF Sent
    <2> QED
        BY <1>3, <2>1 DEF CallsInv, IdsFew
<1>10. EntriesLive'
    <2> SUFFICES ASSUME NEW e \in pending, e \notin taken
                 PROVE  \E r \in live' : Awaits(e, r)
        BY <1>3 DEF EntriesLive, Awaits
    <2>1. PICK r \in live : Awaits(e, r)
        BY DEF CallsInv, EntriesLive
    <2>2. r # q
        BY <1>1, <2>1
    <2> QED
        BY <2>1, <2>2
<1>11. EntryUnique'
    BY <1>3 DEF CallsInv, EntryUnique
<1>12. EntrySent'
    <2>1. \A e \in pending : e.reply \in Caller
        BY DEF CallsInv, Types
    <2> QED
        BY <1>3, <1>5, <1>6, <2>1 DEF CallsInv, EntrySent
<1>13. EntryThere'
    <2> SUFFICES ASSUME NEW c \in Caller, call'[c].state = "waiting"
                 PROVE  \E e \in pending \ taken : e.reply = c
        BY <1>3 DEF EntryThere
    <2>1. call[c].state = "waiting" /\ ~\E e \in taken : e.reply = c
        BY <1>5, <1>6
    <2> QED
        BY <2>1 DEF CallsInv, EntryThere
<1>14. AnswersMatch'
    BY <1>5, <1>6 DEF CallsInv, AnswersMatch
<1> QED
    BY <1>7, <1>8, <1>9, <1>10, <1>11, <1>12, <1>13, <1>14 DEF CallsInv

\* The callers that give up and the connections.
LEMMA OtherKeeps ==
    ASSUME CallsInv,
           \/ \E c \in Caller : GiveUp(c)
           \/ \E p \in Peer : ConnectionChanges(p)
           \/ UNCHANGED callsVars
    PROVE  CallsInv'
<1>1. CASE \E c \in Caller : GiveUp(c)
    <2> PICK c \in Caller : GiveUp(c)
        BY <1>1
    <2>1. /\ call[c].state = "waiting"
          /\ call'[c].state = "gone" /\ call'[c].from = call[c].from
          /\ \A d \in Caller : d # c => call'[d] = call[d]
          /\ UNCHANGED <<connected, pending, live, next_id>>
        BY DEF GiveUp, CallsInv, Types
    <2>2. Types'
        BY DEF GiveUp, CallsInv, Types
    <2>3. Sent' = Sent
        BY <2>1 DEF Sent
    <2>4. \A e \in pending : e.reply \in Caller
        BY DEF CallsInv, Types
    <2>5. EntrySent' /\ EntryThere' /\ AnswersMatch'
        BY <2>1, <2>4 DEF CallsInv, EntrySent, EntryThere, AnswersMatch
    <2> QED
        BY <2>1, <2>2, <2>3, <2>5
           DEF CallsInv, IdsFresh, IdsUnique, IdsFew, RecordsKad, EntriesLive,
               EntryUnique, Awaits
<1>2. CASE (\E p \in Peer : ConnectionChanges(p)) \/ UNCHANGED callsVars
    <2>1. UNCHANGED <<pending, live, next_id, call>>
        BY <1>2 DEF ConnectionChanges, callsVars
    <2>2. connected' \subseteq Peer
        BY <1>2 DEF ConnectionChanges, callsVars, CallsInv, Types
    <2>3. Types' /\ Sent' = Sent
        BY <2>1, <2>2 DEF CallsInv, Types, Sent
    <2> QED
        BY <2>1, <2>3
           DEF CallsInv, IdsFresh, IdsUnique, IdsFew, RecordsKad, EntriesLive,
               EntryUnique, EntrySent, EntryThere, AnswersMatch, Awaits
<1> QED
    BY <1>1, <1>2

\* handle_command: every command starts a query or is answered in place.
LEMMA CommandKeeps ==
    ASSUME CallsInv, NEW c \in Caller, handle_command(c)
    PROVE  CallsInv'
<1>1. \/ \E t \in Table \ RecordTables : Start(c, t, FALSE)
      \/ \E t \in RecordTables : Start(c, t, TRUE)
      \/ Inline(c)
    BY DEF handle_command, FindProviders, FetchBlob, FetchRange, FetchSliver,
           GetPeerSuiAddress, GetPeerVault, QueryPeerAddress, DialKadPeer,
           GetConnectedPeers, Table, RecordTables
<1>2. RecordTables \subseteq Table
    BY DEF RecordTables, Table
<1>3. ASSUME NEW t \in Table \ RecordTables, Start(c, t, FALSE)
      PROVE  CallsInv'
    <2>1. FALSE = (t \in RecordTables)
        OBVIOUS
    <2> QED
        BY <1>3, <2>1, StartKeeps
<1>4. ASSUME NEW t \in RecordTables, Start(c, t, TRUE)
      PROVE  CallsInv'
    <2>1. TRUE = (t \in RecordTables)
        OBVIOUS
    <2> QED
        BY <1>2, <1>4, <2>1, StartKeeps
<1> QED
    BY <1>1, <1>3, <1>4, InlineKeeps

\* handle_behaviour_event: the tables an arm looks at are those the query
\* can have an entry in.
LEMMA EventKeeps ==
    ASSUME CallsInv, NEW q \in live, handle_behaviour_event(q)
    PROVE  CallsInv'
<1>1. q.record \in BOOLEAN /\ (q.record => q.behaviour = "kad")
    BY DEF CallsInv, Types, RecordsKad
<1> DEFINE Of(tables) == Answer(q, tables) /\ live' \in {live, live \ {q}}
<1>2. CASE Providers(q) /\ Of({"finds"})
    <2>1. AnsweredBy(q) = {"finds"}
        BY <1>1, <1>2 DEF Providers, AnsweredBy, Table, BehaviourOf, RecordTables
    <2> QED
        BY <1>2, <2>1, AnswerKeeps
<1>3. CASE Records(q) /\ Of({"sui_addr_queries", "vault_queries"})
    <2>1. AnsweredBy(q) = {"sui_addr_queries", "vault_queries"}
        BY <1>1, <1>3 DEF Records, AnsweredBy, Table, BehaviourOf, RecordTables
    <2> QED
        BY <1>3, <2>1, AnswerKeeps
<1>4. CASE Requested(q, "data") /\ Of({"fetches"})
    <2>1. AnsweredBy(q) = {"fetches"}
        BY <1>1, <1>4 DEF Requested, AnsweredBy, Table, BehaviourOf, RecordTables
    <2> QED
        BY <1>4, <2>1, AnswerKeeps
<1>5. CASE Requested(q, "range") /\ Of({"range_fetches"})
    <2>1. AnsweredBy(q) = {"range_fetches"}
        BY <1>1, <1>5 DEF Requested, AnsweredBy, Table, BehaviourOf, RecordTables
    <2> QED
        BY <1>5, <2>1, AnswerKeeps
<1>6. CASE Requested(q, "sliver") /\ Of({"sliver_fetches"})
    <2>1. AnsweredBy(q) = {"sliver_fetches"}
        BY <1>1, <1>6 DEF Requested, AnsweredBy, Table, BehaviourOf, RecordTables
    <2> QED
        BY <1>6, <2>1, AnswerKeeps
<1>7. CASE Requested(q, "addr") /\ Of({"addr_queries"})
    <2>1. AnsweredBy(q) = {"addr_queries"}
        BY <1>1, <1>7 DEF Requested, AnsweredBy, Table, BehaviourOf, RecordTables
    <2> QED
        BY <1>7, <2>1, AnswerKeeps
<1> QED
    BY <1>2, <1>3, <1>4, <1>5, <1>6, <1>7
       DEF handle_behaviour_event, LastEvent, FoundProviders, FoundRecord,
           GetProvidersEnds, GetRecordEnds, DataEvent, RangeEvent, SliverEvent,
           AddrEvent, Ends

-----------------------------------------------------------------------------

\* The invariant holds in every reachable state of the event loop.
THEOREM CallsInductive == CallsSpec => []CallsInv
<1>1. CallsInit => CallsInv
    <2> SUFFICES ASSUME CallsInit PROVE CallsInv
        OBVIOUS
    <2>1. Types
        BY DEF CallsInit, Types
    <2>2. IdsFew
        <3>1. Sent \in SUBSET Caller
            BY DEF Sent
        <3> QED
            BY <3>1, CallsCounted DEF CallsInit, IdsFew
    <2> QED
        BY <2>1, <2>2
           DEF CallsInit, CallsInv, IdsFresh, IdsUnique, RecordsKad, EntriesLive,
               EntryUnique, EntrySent, EntryThere, AnswersMatch
<1>2. CallsInv /\ [CallsNext]_callsVars => CallsInv'
    BY CommandKeeps, EventKeeps, OtherKeeps DEF CallsNext
<1> QED
    BY <1>1, <1>2, PTL DEF CallsSpec

\* The ids, tables and answers keep their types: no behaviour hands out more
\* ids than there are calls.
THEOREM CallsTypeCorrect == CallsSpec => []CallsTypeOK
<1>1. CallsInv => CallsTypeOK
    <2> SUFFICES ASSUME CallsInv PROVE CallsTypeOK
        OBVIOUS
    <2>1. Sent \in SUBSET Caller
        BY DEF Sent
    <2>2. \A b \in Behaviour : next_id[b] \in 0 .. Cardinality(Caller)
        BY <2>1, CallsCounted DEF CallsInv, Types, IdsFew
    <2>3. \A q \in live : q.id \in 0 .. Cardinality(Caller)
        BY <2>2, CallsCounted DEF CallsInv, Types, IdsFresh
    <2>4. \A e \in pending : e.id \in 0 .. Cardinality(Caller)
        BY <2>3 DEF CallsInv, EntriesLive, Awaits
    <2> QED
        BY <2>2, <2>3, <2>4 DEF CallsInv, Types, CallsTypeOK, Query
<1> QED
    BY <1>1, CallsInductive, PTL

\* The answer a caller gets is that of the query its own command started,
\* although each behaviour numbers its queries from 0 and a query reports
\* more than once.
THEOREM AnswersGoHome == CallsSpec => []AnswersMatch
<1>1. CallsInv => AnswersMatch
    BY DEF CallsInv
<1> QED
    BY <1>1, CallsInductive, PTL

\* No arm of handle_behaviour_event leaves a reply sender behind, takes one
\* that is not its own, or drops one that is still awaited.
THEOREM NoReplyLeftBehind == CallsSpec => []NoOrphans
<1>1. CallsInv => NoOrphans
    <2> SUFFICES ASSUME CallsInv PROVE NoOrphans
        OBVIOUS
    <2>1. \A e \in pending : \E q \in live :
             /\ q.behaviour = BehaviourOf(e.table)
             /\ q.id = e.id
             /\ q.caller = e.reply
        BY DEF CallsInv, EntriesLive, Awaits
    <2>2. ASSUME NEW c \in Caller, call[c].state = "waiting"
          PROVE  Cardinality({e \in pending : e.reply = c}) = 1
        <3>1. PICK e \in pending : e.reply = c
            BY <2>2 DEF CallsInv, EntryThere
        <3>2. {f \in pending : f.reply = c} = {e}
            BY <3>1 DEF CallsInv, EntryUnique
        <3> QED
            BY <3>2, FS_Singleton
    <2> QED
        BY <2>1, <2>2 DEF NoOrphans
<1> QED
    BY <1>1, CallsInductive, PTL

(***************************************************************************)
(* The announcements (P2pAnnounce).                                        *)
(***************************************************************************)

\* Only a process that has bootstrapped knows of a loss.
LossKnown == lost => bootstrap_done

AnnounceInv == TypeOK /\ LossKnown /\ AnnouncementsKept /\ ReannouncedAfterLoss

-----------------------------------------------------------------------------
(* The blobs of the cache in key order.                                    *)

\* list_blob_ids lists the cache, and all of it.
LEMMA CacheListed ==
    ASSUME store \in SUBSET Blob
    PROVE  list_blob_ids \in Seq(Blob) /\ ToSet(list_blob_ids) = store
<1>1. store \in SUBSET Nat /\ IsFiniteSet(store) /\ Cardinality(store) \in Nat
    BY AnnounceAssumption, FS_Subset, FS_CardinalityType DEF AnnounceAssumption
<1>2. \E ids : Enumerates(ids, store)
    BY <1>1, EnumerationExists
<1> DEFINE ids == list_blob_ids
<1>3. Enumerates(ids, store)
    BY <1>2 DEF Enumerates, list_blob_ids
<1> HIDE DEF ids
<1>4. ids \in Seq(store) /\ ToSet(ids) = store
    BY <1>1, <1>3, EnumerationFacts
<1> QED
    BY <1>4 DEF ids

-----------------------------------------------------------------------------
(* Each kind of step keeps the invariant.                                  *)

\* Connected to the bootstrap peer is online.
LEMMA AliveIsOnline ==
    ASSUME AnnounceInv
    PROVE  /\ alive \in Nat /\ conns[Boot] \in Nat /\ conns[Other] \in Nat
           /\ alive <= conns[Boot]
           /\ alive > 0 => Online
<1>1. conns \in [{Boot, Other} -> Nat] /\ alive \in 0 .. conns[Boot]
    BY DEF AnnounceInv, TypeOK
<1>3. conns[Boot] \in Nat /\ conns[Other] \in Nat
    BY <1>1
<1> QED
    BY <1>1, <1>3 DEF Online

\* The records and the history after start_providing.
LEMMA StartFacts ==
    ASSUME AnnounceInv, NEW blobs \in Seq(Blob), NEW online \in BOOLEAN,
           NEW boot \in BOOLEAN, boot => online,
           start_providing(blobs, online, boot)
    PROVE  /\ provided \subseteq provided' /\ provided' \subseteq Blob
           /\ Cardinality(provided') <= MaxProvided
           /\ adding' \subseteq provided'
           /\ tried \subseteq tried' /\ tried' \subseteq provided'
           /\ offered \subseteq offered' /\ offered' \subseteq tried'
           /\ refused' \subseteq Blob \ provided'
           /\ refused \subseteq refused' \cup ToSet(blobs)
           /\ ToSet(blobs) \subseteq provided' \cup refused'
           /\ online => ToSet(blobs) \cap provided' \subseteq tried'
           /\ boot => ToSet(blobs) \cap provided' \subseteq offered'
<1>1. PICK records \in AddProviders(ToSet(blobs)) :
        /\ provided' = records
        /\ adding' = adding \cup (ToSet(blobs) \cap records)
        /\ tried' = IF online THEN tried \cup (ToSet(blobs) \cap records) ELSE tried
        /\ offered' = IF boot THEN offered \cup (ToSet(blobs) \cap records) ELSE offered
        /\ refused' = (refused \cup ToSet(blobs)) \ records
    BY Zenon DEF start_providing
<1>2. /\ provided \in SUBSET Blob /\ adding \subseteq provided
      /\ tried \subseteq provided /\ offered \subseteq tried
      /\ refused \subseteq Blob \ provided
    BY DEF AnnounceInv, TypeOK
<1>3. ToSet(blobs) \subseteq Blob
    BY DEF ToSet
<1>4. /\ provided \subseteq records /\ records \subseteq provided \cup ToSet(blobs)
      /\ Cardinality(records) <= MaxProvided
    BY DEF AddProviders
<1> QED
    BY <1>1, <1>2, <1>3, <1>4

\* The queries of start_providing end: repeated once, or not.
LEMMA OkKeeps ==
    ASSUME AnnounceInv, NEW b \in Blob, StartProvidingOk(b)
    PROVE  AnnounceInv'
<1>1. /\ b \in adding
      /\ remote' = remote
      /\ store' = store /\ untold' = untold /\ channel' = channel /\ conns' = conns
      /\ alive' = alive /\ bootstrap_done' = bootstrap_done
      /\ published' = published /\ pending_announces' = pending_announces
      /\ putting' = putting /\ announced' = announced /\ lost' = lost
    BY DEF StartProvidingOk
<1>2. b \in provided /\ b \notin refused
    BY <1>1 DEF AnnounceInv, TypeOK
<1>3. CASE b \notin announce_retried
    <2>1. /\ announce_retried' = announce_retried \cup {b}
          /\ start_providing(<<b>>, Online, alive > 0)
        BY <1>3 DEF StartProvidingOk
    <2>2. /\ <<b>> \in Seq(Blob) /\ Online \in BOOLEAN /\ (alive > 0) \in BOOLEAN
          /\ ToSet(<<b>>) = {b}
        BY DEF Online, ToSet
    <2>3. (alive > 0) => Online
        BY AliveIsOnline
    <2>4. /\ provided \subseteq provided' /\ provided' \subseteq Blob
          /\ Cardinality(provided') <= MaxProvided
          /\ adding' \subseteq provided'
          /\ tried' \subseteq provided' /\ tried \subseteq tried'
          /\ offered' \subseteq tried' /\ offered \subseteq offered'
          /\ refused' \subseteq Blob \ provided' /\ refused \subseteq refused' \cup {b}
        BY <2>1, <2>2, <2>3, StartFacts
    <2>5. TypeOK'
        BY <1>1, <1>2, <2>1, <2>4 DEF AnnounceInv, TypeOK
    <2>6. refused \subseteq refused'
        BY <1>2, <2>4
    <2>7. AnnouncementsKept' /\ ReannouncedAfterLoss'
        BY <1>1, <2>4, <2>6 DEF AnnounceInv, AnnouncementsKept, ReannouncedAfterLoss
    <2> QED
        BY <1>1, <2>5, <2>7 DEF AnnounceInv, LossKnown
<1>4. CASE b \in announce_retried
    <2>1. /\ adding' = adding \ {b} /\ announce_retried' = announce_retried
          /\ provided' = provided /\ tried' = tried /\ offered' = offered
          /\ refused' = refused
        BY <1>4 DEF StartProvidingOk
    <2>2. TypeOK'
        BY <1>1, <1>2, <2>1 DEF AnnounceInv, TypeOK
    <2> QED
        BY <1>1, <2>1, <2>2
           DEF AnnounceInv, LossKnown, AnnouncementsKept, ReannouncedAfterLoss
<1> QED
    BY <1>3, <1>4

\* Steps that touch neither the records of the node nor its history.
LEMMA SameRecords ==
    ASSUME AnnounceInv, TypeOK',
           tried' = tried, refused' = refused, offered' = offered,
           announced' = announced, pending_announces' = pending_announces,
           lost' = lost, bootstrap_done' = bootstrap_done,
           alive' > 0 => alive > 0,
           channel \subseteq channel',
           \A b \in store' \ untold' : b \in store \ untold \/ b \in channel'
    PROVE  AnnounceInv'
<1>1. AnnouncementsKept'
    BY DEF AnnounceInv, AnnouncementsKept
<1>2. ReannouncedAfterLoss'
    BY DEF AnnounceInv, ReannouncedAfterLoss
<1> QED
    BY <1>1, <1>2 DEF AnnounceInv, LossKnown

\* A command AnnounceBlob: its query is started, and it is queued if the
\* node is offline.
LEMMA AnnounceKeeps ==
    ASSUME AnnounceInv, NEW b \in Blob, AnnounceBlob(b)
    PROVE  AnnounceInv'
<1>1. /\ b \in channel /\ Len(pending_announces) < MaxQueue
      /\ channel' = channel \ {b}
      /\ start_providing(<<b>>, Online, alive > 0)
      /\ pending_announces' = IF Online THEN pending_announces
                              ELSE Append(pending_announces, b)
      /\ announced' = announced \cup {b} /\ untold' = untold
      /\ store' = store /\ conns' = conns /\ remote' = remote
      /\ alive' = alive /\ bootstrap_done' = bootstrap_done
      /\ published' = published /\ announce_retried' = announce_retried
      /\ putting' = putting /\ lost' = lost
    BY DEF AnnounceBlob
<1>2. /\ <<b>> \in Seq(Blob) /\ Online \in BOOLEAN /\ (alive > 0) \in BOOLEAN
      /\ ToSet(<<b>>) = {b}
    BY DEF Online, ToSet
<1>3. (alive > 0) => Online
    BY AliveIsOnline
<1>4. /\ provided \subseteq provided' /\ provided' \subseteq Blob
      /\ Cardinality(provided') <= MaxProvided
      /\ adding' \subseteq provided'
      /\ tried' \subseteq provided' /\ tried \subseteq tried'
      /\ offered' \subseteq tried' /\ offered \subseteq offered'
      /\ refused' \subseteq Blob \ provided' /\ refused \subseteq refused' \cup {b}
      /\ b \in provided' \/ b \in refused'
      /\ Online /\ b \in provided' => b \in tried'
      /\ alive > 0 /\ b \in provided' => b \in offered'
    BY <1>1, <1>2, <1>3, StartFacts
<1>5. pending_announces \in Seq(Blob) /\ MaxQueue \in Nat
    BY AnnounceAssumption DEF AnnounceInv, TypeOK, AnnounceAssumption
<1>6. /\ pending_announces' \in Seq(Blob) /\ Len(pending_announces') <= MaxQueue
      /\ ToSet(pending_announces) \subseteq ToSet(pending_announces')
      /\ ~Online => b \in ToSet(pending_announces')
    <2>1. CASE Online
        BY <1>1, <1>5, <2>1
    <2>2. CASE ~Online
        <3> DEFINE q == pending_announces
                   r == Append(q, b)
        <3>1. /\ r \in Seq(Blob) /\ Len(q) \in Nat /\ Len(r) = Len(q) + 1
              /\ DOMAIN q = 1 .. Len(q) /\ DOMAIN r = 1 .. Len(q) + 1
              /\ r[Len(q) + 1] = b /\ \A i \in 1 .. Len(q) : r[i] = q[i]
            BY <1>5
        <3>2. pending_announces' = r
            BY <1>1, <2>2
        <3> HIDE DEF r
        <3>3. Len(r) <= MaxQueue
            BY <1>1, <1>5, <3>1
        <3>4. Len(q) + 1 \in DOMAIN r /\ DOMAIN q \subseteq DOMAIN r
            BY <3>1
        <3>5. b \in ToSet(r) /\ ToSet(q) \subseteq ToSet(r)
            BY <3>1, <3>4 DEF ToSet
        <3> QED
            BY <3>1, <3>2, <3>3, <3>5
    <2> QED
        BY <2>1, <2>2
<1>7. TypeOK'
    BY <1>1, <1>4, <1>6 DEF AnnounceInv, TypeOK
<1>8. AnnouncementsKept'
    BY <1>1, <1>4, <1>6 DEF AnnounceInv, AnnouncementsKept
<1>9. ReannouncedAfterLoss'
    BY <1>1, <1>4 DEF AnnounceInv, ReannouncedAfterLoss
<1> QED
    BY <1>1, <1>7, <1>8, <1>9 DEF AnnounceInv, LossKnown

\* A connection: the queue is flushed, and the bootstrap peer gets the whole
\* cache if this process had bootstrapped from it before.
LEMMA ConnectKeeps ==
    ASSUME AnnounceInv, NEW p \in {Boot, Other}, NEW listed \in BOOLEAN,
           ConnectionEstablished(p, listed)
    PROVE  AnnounceInv'
<1> DEFINE blobs == Reannounced(p, listed) \o pending_announces
<1>1. /\ conns[p] < MaxConns[p]
      /\ conns' = [conns EXCEPT ![p] = @ + 1]
      /\ alive' = IF p = Boot THEN alive + 1 ELSE alive
      /\ putting' = putting \cup (Record \ published)
      /\ published' = Record
      /\ bootstrap_done' = (bootstrap_done \/ p = Boot)
      /\ start_providing(blobs, TRUE, alive' > 0)
      /\ pending_announces' = <<>>
      /\ store' = store /\ channel' = channel /\ remote' = remote
      /\ announce_retried' = announce_retried
      /\ announced' = announced /\ lost' = lost
      /\ untold' = IF Reconnected(p) THEN (IF listed THEN {} ELSE store) ELSE untold
    BY DEF ConnectionEstablished, publish
<1>2. /\ Reannounced(p, listed) \in Seq(Blob) /\ pending_announces \in Seq(Blob)
      /\ Reconnected(p) /\ listed => ToSet(Reannounced(p, listed)) = store
    BY CacheListed DEF Reannounced, AnnounceInv, TypeOK
<1>3. /\ blobs \in Seq(Blob)
      /\ ToSet(Reannounced(p, listed)) \subseteq ToSet(blobs)
      /\ ToSet(pending_announces) \subseteq ToSet(blobs)
    <2> DEFINE a == Reannounced(p, listed)
               q == pending_announces
    <2>1. /\ blobs \in Seq(Blob)
          /\ Len(a) \in Nat /\ Len(q) \in Nat
          /\ DOMAIN a = 1 .. Len(a) /\ DOMAIN q = 1 .. Len(q)
          /\ DOMAIN blobs = 1 .. Len(a) + Len(q)
          /\ \A i \in 1 .. Len(a) : blobs[i] = a[i]
          /\ \A i \in 1 .. Len(q) : blobs[Len(a) + i] = q[i]
        BY <1>2
    <2> HIDE DEF a, q, blobs
    <2>2. \A i \in DOMAIN a : i \in DOMAIN blobs /\ blobs[i] = a[i]
        BY <2>1
    <2>3. \A i \in DOMAIN q : Len(a) + i \in DOMAIN blobs /\ blobs[Len(a) + i] = q[i]
        BY <2>1
    <2>4. ToSet(a) \subseteq ToSet(blobs) /\ ToSet(q) \subseteq ToSet(blobs)
        BY <2>2, <2>3 DEF ToSet
    <2> QED
        BY <2>1, <2>4 DEF a, q
<1>4. (alive' > 0) \in BOOLEAN
    OBVIOUS
<1> HIDE DEF blobs
<1>5. /\ provided \subseteq provided' /\ provided' \subseteq Blob
      /\ Cardinality(provided') <= MaxProvided
      /\ adding' \subseteq provided'
      /\ tried' \subseteq provided' /\ tried \subseteq tried'
      /\ offered' \subseteq tried' /\ offered \subseteq offered'
      /\ refused' \subseteq Blob \ provided'
      /\ refused \subseteq refused' \cup ToSet(blobs)
      /\ ToSet(blobs) \subseteq provided' \cup refused'
      /\ ToSet(blobs) \cap provided' \subseteq tried'
      /\ alive' > 0 => ToSet(blobs) \cap provided' \subseteq offered'
    BY <1>1, <1>3, <1>4, StartFacts
<1>6. /\ conns' \in [{Boot, Other} -> Nat]
      /\ \A q \in {Boot, Other} : conns'[q] <= MaxConns[q]
      /\ alive' \in 0 .. conns'[Boot]
    <2>1. /\ alive \in Nat /\ conns[Boot] \in Nat /\ conns[Other] \in Nat
          /\ alive <= conns[Boot] /\ MaxConns \in [{Boot, Other} -> Nat]
          /\ conns \in [{Boot, Other} -> Nat]
          /\ \A q \in {Boot, Other} : conns[q] <= MaxConns[q]
        BY AliveIsOnline, AnnounceAssumption DEF AnnounceAssumption, AnnounceInv, TypeOK
    <2> QED
        BY <1>1, <2>1
<1>7. TypeOK'
    <2>1. Len(<<>>) <= MaxQueue /\ <<>> \in Seq(Blob)
        BY AnnounceAssumption DEF AnnounceAssumption
    <2>2. bootstrap_done' \in BOOLEAN
        BY <1>1 DEF AnnounceInv, TypeOK
    <2>3. untold' \subseteq store'
        BY <1>1 DEF AnnounceInv, TypeOK
    <2> QED
        BY <1>1, <1>5, <1>6, <2>1, <2>2, <2>3 DEF AnnounceInv, TypeOK
<1>8. untold' \subseteq store' /\ \A b \in ToSet(blobs) : b \in tried' \/ b \in refused'
    BY <1>1, <1>5 DEF AnnounceInv, TypeOK
<1>9. AnnouncementsKept'
    BY <1>1, <1>3, <1>5, <1>8 DEF AnnounceInv, AnnouncementsKept
<1>10. ReannouncedAfterLoss'
    <2>1. CASE Reconnected(p) /\ listed
        BY <1>1, <1>2, <1>3, <1>5, <2>1 DEF ReannouncedAfterLoss
    <2>2. CASE Reconnected(p) /\ ~listed
        BY <1>1, <2>2 DEF ReannouncedAfterLoss
    <2>3. CASE ~Reconnected(p) /\ p = Boot
        BY <1>1, <2>3 DEF AnnounceInv, LossKnown, ReannouncedAfterLoss, Reconnected
    <2>4. CASE p # Boot
        <3>1. untold' = untold /\ alive' = alive
            BY <1>1, <2>4 DEF Reconnected
        <3>2. ASSUME lost, alive > 0, NEW b \in store \ untold
              PROVE  b \in offered' \/ b \in channel' \/ b \in refused'
            <4>1. b \in offered \/ b \in channel \/ b \in refused
                BY <3>2 DEF AnnounceInv, ReannouncedAfterLoss
            <4>2. CASE b \in ToSet(blobs)
                BY <1>5, <3>1, <3>2, <4>2
            <4>3. CASE b \notin ToSet(blobs)
                BY <1>1, <1>5, <4>1, <4>3
            <4> QED
                BY <4>2, <4>3
        <3> QED
            BY <1>1, <3>1, <3>2 DEF ReannouncedAfterLoss
    <2> QED
        BY <2>1, <2>2, <2>3, <2>4
<1>11. LossKnown'
    BY <1>1 DEF AnnounceInv, LossKnown, TypeOK
<1> QED
    BY <1>7, <1>9, <1>10, <1>11 DEF AnnounceInv

\* A connection closes, a dead or a live one.
LEMMA CloseKeeps ==
    ASSUME AnnounceInv, NEW p \in {Boot, Other}, ConnectionClosed(p)
    PROVE  AnnounceInv'
<1>1. /\ conns[p] > 0 /\ conns' = [conns EXCEPT ![p] = @ - 1]
      /\ store' = store /\ untold' = untold /\ channel' = channel /\ remote' = remote
      /\ bootstrap_done' = bootstrap_done /\ published' = published
      /\ pending_announces' = pending_announces
      /\ announce_retried' = announce_retried /\ provided' = provided
      /\ adding' = adding /\ putting' = putting /\ tried' = tried
      /\ offered' = offered /\ announced' = announced /\ refused' = refused
      /\ lost' = lost
    BY DEF ConnectionClosed, node
<1>2. IF p = Boot THEN \/ alive > 0 /\ alive' = alive - 1
                       \/ alive < conns[Boot] /\ alive' = alive
      ELSE alive' = alive
    BY DEF ConnectionClosed
<1>3. /\ alive \in Nat /\ conns[Boot] \in Nat /\ conns[Other] \in Nat
      /\ alive <= conns[Boot] /\ MaxConns \in [{Boot, Other} -> Nat] /\ Boot # Other
      /\ conns \in [{Boot, Other} -> Nat]
      /\ \A q \in {Boot, Other} : conns[q] <= MaxConns[q]
    BY AliveIsOnline, AnnounceAssumption DEF AnnounceAssumption, AnnounceInv, TypeOK
<1>4. /\ conns' \in [{Boot, Other} -> Nat] /\ alive' \in 0 .. conns'[Boot]
      /\ \A q \in {Boot, Other} : conns'[q] <= MaxConns[q]
    BY <1>1, <1>2, <1>3
<1>5. alive' > 0 => alive > 0
    BY <1>2, <1>3
<1>6. TypeOK'
    BY <1>1, <1>4 DEF AnnounceInv, TypeOK
<1> QED
    BY <1>1, <1>5, <1>6, SameRecords

\* Kademlia repeats its provider records.
LEMMA RepublishKeeps ==
    ASSUME AnnounceInv, RepublishProviders
    PROVE  AnnounceInv'
<1>1. /\ adding' = provided
      /\ tried' = IF Online THEN provided ELSE tried
      /\ offered' = IF alive > 0 THEN provided ELSE offered
      /\ store' = store /\ untold' = untold /\ channel' = channel /\ conns' = conns
      /\ remote' = remote /\ alive' = alive /\ refused' = refused
      /\ bootstrap_done' = bootstrap_done /\ published' = published
      /\ pending_announces' = pending_announces
      /\ announce_retried' = announce_retried /\ provided' = provided
      /\ putting' = putting /\ announced' = announced /\ lost' = lost
    BY DEF RepublishProviders
<1>2. /\ tried \subseteq provided /\ offered \subseteq tried
      /\ alive > 0 => Online
    BY AliveIsOnline DEF AnnounceInv, TypeOK
<1>3. /\ tried \subseteq tried' /\ tried' \subseteq provided
      /\ offered \subseteq offered' /\ offered' \subseteq tried'
    BY <1>1, <1>2
<1>4. TypeOK'
    BY <1>1, <1>3 DEF AnnounceInv, TypeOK
<1>5. AnnouncementsKept' /\ ReannouncedAfterLoss'
    BY <1>1, <1>3 DEF AnnounceInv, AnnouncementsKept, ReannouncedAfterLoss
<1> QED
    BY <1>1, <1>4, <1>5 DEF AnnounceInv, LossKnown

\* A process that has just started: no connection, no record, no queue.
LEMMA NothingTyped ==
    LET none == [p \in {Boot, Other} |-> 0]
    IN  /\ none \in [{Boot, Other} -> Nat] /\ 0 \in 0 .. none[Boot]
        /\ \A p \in {Boot, Other} : none[p] <= MaxConns[p]
        /\ <<>> \in Seq(Blob) /\ Len(<<>>) <= MaxQueue
        /\ Cardinality({}) <= MaxProvided
    BY AnnounceAssumption, FS_EmptySet DEF AnnounceAssumption

\* The node or the bootstrap peer restarts: nothing is announced, or the
\* bootstrap peer is not connected.
LEMMA RestartKeeps ==
    ASSUME AnnounceInv, NodeRestarts \/ BootRestarts
    PROVE  AnnounceInv'
<1>1. CASE NodeRestarts
    <2>1. /\ conns' = [p \in {Boot, Other} |-> 0] /\ alive' = 0
          /\ channel' = {} /\ bootstrap_done' = FALSE /\ published' = {}
          /\ pending_announces' = <<>> /\ announce_retried' = {}
          /\ provided' = {} /\ adding' = {} /\ putting' = {} /\ tried' = {}
          /\ offered' = {} /\ announced' = {} /\ lost' = FALSE
          /\ store' = store /\ untold' = untold /\ remote' = remote
          /\ refused' = {}
        BY <1>1 DEF NodeRestarts
    <2>2. TypeOK'
        BY <2>1, NothingTyped DEF AnnounceInv, TypeOK
    <2> QED
        BY <2>1, <2>2
           DEF AnnounceInv, LossKnown, AnnouncementsKept, ReannouncedAfterLoss
<1>2. CASE BootRestarts
    <2>1. /\ remote' = {} /\ alive' = 0 /\ offered' = {} /\ lost' = bootstrap_done
          /\ store' = store /\ channel' = channel /\ conns' = conns
          /\ bootstrap_done' = bootstrap_done /\ published' = published
          /\ pending_announces' = pending_announces
          /\ announce_retried' = announce_retried /\ provided' = provided
          /\ adding' = adding /\ putting' = putting /\ tried' = tried
          /\ announced' = announced /\ untold' = untold /\ refused' = refused
        BY <1>2 DEF BootRestarts
    <2>2. 0 \in 0 .. conns[Boot]
        BY AliveIsOnline
    <2>3. TypeOK'
        BY <2>1, <2>2 DEF AnnounceInv, TypeOK
    <2>4. AnnouncementsKept'
        BY <2>1 DEF AnnounceInv, AnnouncementsKept
    <2> QED
        BY <2>1, <2>3, <2>4 DEF AnnounceInv, LossKnown, ReannouncedAfterLoss
<1> QED
    BY <1>1, <1>2

LEMMA InitEstablishes == Init => AnnounceInv
<1> SUFFICES ASSUME Init PROVE AnnounceInv
    OBVIOUS
<1>1. TypeOK
    BY NothingTyped DEF Init, TypeOK
<1> QED
    BY <1>1 DEF Init, AnnounceInv, LossKnown, AnnouncementsKept, ReannouncedAfterLoss

-----------------------------------------------------------------------------
(* The theorems.                                                           *)

\* The inductive invariant of the announcements.
THEOREM AnnounceInductive == Spec => []AnnounceInv
<1>1. AnnounceInv /\ [Next]_vars => AnnounceInv'
    <2> SUFFICES ASSUME AnnounceInv, [Next]_vars PROVE AnnounceInv'
        OBVIOUS
    <2>1. ASSUME NEW b \in Blob, Put(b) \/ SendAnnounce(b) PROVE AnnounceInv'
        <3>1. TypeOK'
            BY <2>1 DEF Put, SendAnnounce, AnnounceInv, TypeOK, node
        <3> QED
            BY <2>1, <3>1, SameRecords DEF Put, SendAnnounce, node
    <2>2. ASSUME NEW b \in Blob, Evict(b) PROVE AnnounceInv'
        <3>1. TypeOK'
            BY <2>2 DEF Evict, AnnounceInv, TypeOK, node
        <3> QED
            BY <2>2, <3>1, SameRecords DEF Evict, node
    <2>3. ASSUME NEW b \in Blob, AnnounceBlob(b) PROVE AnnounceInv'
        BY <2>3, AnnounceKeeps
    <2>4. ASSUME NEW b \in Blob, StartProvidingErr(b) PROVE AnnounceInv'
        <3>1. TypeOK'
            BY <2>4 DEF StartProvidingErr, AnnounceInv, TypeOK
        <3> QED
            BY <2>4, <3>1, SameRecords DEF StartProvidingErr
    <2>5. ASSUME NEW b \in Blob, StartProvidingOk(b) PROVE AnnounceInv'
        BY <2>5, OkKeeps
    <2>6. ASSUME NEW r \in Record, NEW sent \in BOOLEAN, PutRecordEnds(r, sent)
          PROVE  AnnounceInv'
        <3>1. TypeOK'
            BY <2>6 DEF PutRecordEnds, AnnounceInv, TypeOK
        <3> QED
            BY <2>6, <3>1, SameRecords DEF PutRecordEnds
    <2>7. ASSUME NEW p \in {Boot, Other}, NEW listed \in BOOLEAN,
                 ConnectionEstablished(p, listed)
          PROVE  AnnounceInv'
        BY <2>7, ConnectKeeps
    <2>8. ASSUME NEW p \in {Boot, Other}, ConnectionClosed(p) PROVE AnnounceInv'
        BY <2>8, CloseKeeps
    <2>9. CASE RepublishTick
        <3>1. TypeOK'
            BY <2>9 DEF RepublishTick, publish, AnnounceInv, TypeOK
        <3> QED
            BY <2>9, <3>1, SameRecords DEF RepublishTick
    <2>10. CASE RepublishProviders
        BY <2>10, RepublishKeeps
    <2>11. CASE NodeRestarts \/ BootRestarts
        BY <2>11, RestartKeeps
    <2>12. CASE UNCHANGED vars
        <3>1. TypeOK'
            BY <2>12 DEF vars, node, AnnounceInv, TypeOK
        <3> QED
            BY <2>12, <3>1, SameRecords DEF vars, node
    <2> QED
        BY <2>1, <2>2, <2>3, <2>4, <2>5, <2>6, <2>7, <2>8, <2>9, <2>10, <2>11,
           <2>12 DEF Next
<1> QED
    BY InitEstablishes, <1>1, PTL DEF Spec

\* Type correctness: among others, the local MemoryStore never holds more
\* than max_provided_keys records, and whatever was tried, offered or
\* repeated has one.
THEOREM AnnounceTypeCorrect == Spec => []TypeOK
<1>1. AnnounceInv => TypeOK
    BY DEF AnnounceInv
<1> QED
    BY <1>1, AnnounceInductive, PTL

\* AnnounceBlob and ConnectionEstablished (p2p/node.rs): no announcement is
\* lost between a node that is offline and its next connection.
THEOREM NoAnnouncementLost == Spec => []AnnouncementsKept
<1>1. AnnounceInv => AnnouncementsKept
    BY DEF AnnounceInv
<1> QED
    BY <1>1, AnnounceInductive, PTL

\* ConnectionEstablished: connected again, a bootstrap peer that lost its
\* records has been told of the whole cache, but for what a request has put
\* since without announcing it.
THEOREM CacheReannounced == Spec => []ReannouncedAfterLoss
<1>1. AnnounceInv => ReannouncedAfterLoss
    BY DEF AnnounceInv
<1> QED
    BY <1>1, AnnounceInductive, PTL

=============================================================================
