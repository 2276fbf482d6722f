------------------------------ MODULE P2pCalls ------------------------------
(***************************************************************************)
(* The calls of the P2P event loop (p2p/node.rs): a command that carries a *)
(* oneshot reply starts a libp2p query or request, its reply sender is     *)
(* kept in a pending table under the id libp2p returned, and the event     *)
(* that mentions the id takes it out and answers.                          *)
(*                                                                         *)
(* Each libp2p behaviour numbers its own requests, so the same id is in    *)
(* use in several behaviours at once; Kademlia numbers its queries once    *)
(* for all kinds.  A Kademlia query reports any number of times before it  *)
(* ends; a request ends with one response or one failure.  What an answer  *)
(* contains is left out: whose answer it is, is kept.                      *)
(***************************************************************************)
EXTENDS Integers, FiniteSets

CONSTANTS
    Caller,   \* calls: each task that sends one command and awaits the reply
    Peer      \* remote peers

ASSUME CallsAssumption == IsFiniteSet(Caller)

Behaviour == {"kad", "data", "range", "sliver", "addr"}

Table == {"finds", "fetches", "range_fetches", "sliver_fetches",
          "addr_queries", "sui_addr_queries", "vault_queries"}

\* The behaviour whose ids key a table.
BehaviourOf(table) ==
    CASE table = "fetches"        -> "data"
      [] table = "range_fetches"  -> "range"
      [] table = "sliver_fetches" -> "sliver"
      [] table = "addr_queries"   -> "addr"
      [] table \in {"finds", "sui_addr_queries", "vault_queries"} -> "kad"

VARIABLES
    connected,       \* swarm.connected_peers()
    pending,         \* the pending tables: [table, id, reply]
    live,            \* libp2p: the queries and requests that have not ended
    next_id,         \* libp2p: the next id of each behaviour
    call             \* per caller: whether its reply came, and from where

callsVars == <<connected, pending, live, next_id, call>>

\* A query or request; `caller` is the call that started it (a history
\* field: libp2p does not know it).
Query == [behaviour : Behaviour, id : 0 .. Cardinality(Caller),
          record : BOOLEAN, caller : Caller]

Waiting == [state |-> "waiting", from |-> {}]
Answered(from) == [state |-> "answered", from |-> from]

CallsTypeOK ==
    /\ connected \subseteq Peer
    /\ pending \subseteq [table : Table, id : 0 .. Cardinality(Caller),
                          reply : Caller]
    /\ live \subseteq Query
    /\ next_id \in [Behaviour -> 0 .. Cardinality(Caller)]
    /\ call \in [Caller -> [state : {"unsent", "waiting", "answered", "gone"},
                            from : SUBSET Query]]

-----------------------------------------------------------------------------
(* handle_command.                                                         *)

\* Mutant: a caller that waits sends its command again.
StartAgain(c, table, record) ==
    LET behaviour == BehaviourOf(table)
        id == next_id[behaviour]
    IN  /\ call[c].state \in {"unsent", "waiting"}
        /\ live' = live \cup {[behaviour |-> behaviour, id |-> id,
                               record |-> record, caller |-> c]}
        /\ next_id' = [next_id EXCEPT ![behaviour] = @ + 1]
        /\ pending' = pending \cup {[table |-> table, id |-> id, reply |-> c]}
        /\ call' = [call EXCEPT ![c] = Waiting]
        /\ UNCHANGED connected

\* The command starts a query or request and files its reply sender.
Start(c, table, record) ==
    LET behaviour == BehaviourOf(table)
        id == next_id[behaviour]
    IN  /\ call[c].state = "unsent"
        /\ live' = live \cup {[behaviour |-> behaviour, id |-> id,
                               record |-> record, caller |-> c]}
        /\ next_id' = [next_id EXCEPT ![behaviour] = @ + 1]
        /\ pending' = pending \cup {[table |-> table, id |-> id, reply |-> c]}
        /\ call' = [call EXCEPT ![c] = Waiting]
        /\ UNCHANGED connected

\* The command is answered in place.
Inline(c) ==
    /\ call[c].state = "unsent"
    /\ call' = [call EXCEPT ![c] = Answered({})]
    /\ UNCHANGED <<connected, pending, live, next_id>>

FindProviders(c)     == Start(c, "finds", FALSE)
FetchBlob(c)         == Start(c, "fetches", FALSE)
FetchRange(c)        == Start(c, "range_fetches", FALSE)
FetchSliver(c)       == Start(c, "sliver_fetches", FALSE)
GetPeerSuiAddress(c) == Start(c, "sui_addr_queries", TRUE)
GetPeerVault(c)      == Start(c, "vault_queries", TRUE)

\* Mutant: with nobody to ask, the reply sender is filed all the same.
QueryPeerAddressUnasked(c) ==
    IF connected # {}
    THEN Start(c, "addr_queries", FALSE)
    ELSE /\ call[c].state = "unsent"
         /\ pending' = pending \cup {[table |-> "addr_queries",
                                      id |-> next_id["addr"], reply |-> c]}
         /\ call' = [call EXCEPT ![c] = Waiting]
         /\ UNCHANGED <<connected, live, next_id>>

\* Asks the first connected peer; without one the answer is empty.
QueryPeerAddress(c) ==
    IF connected # {}
    THEN Start(c, "addr_queries", FALSE)
    ELSE Inline(c)

\* Dials the given addresses or the known ones and answers whether a dial
\* could be started; the connection comes later, or not.
DialKadPeer(c) == Inline(c)

GetConnectedPeers(c) == Inline(c)

-----------------------------------------------------------------------------
(* handle_behaviour_event.                                                 *)

\* The senders filed under the id of q in one of the tables are taken out
\* and sent an answer, which is lost if the receiver is gone.
Answer(q, tables) ==
    LET taken == {e \in pending : e.table \in tables /\ e.id = q.id}
    IN  /\ pending' = pending \ taken
        /\ call' = [c \in Caller |->
                        IF /\ \E e \in taken : e.reply = c
                           /\ call[c].state = "waiting"
                        THEN Answered({q})
                        ELSE call[c]]
        /\ UNCHANGED <<connected, next_id>>

Ends(q) == live' = live \ {q}

Providers(q) == q \in live /\ q.behaviour = "kad" /\ ~q.record
Records(q)   == q \in live /\ q.behaviour = "kad" /\ q.record
Requested(q, behaviour) == q \in live /\ q.behaviour = behaviour

\* FoundProviders, any number of times: the first one answers.
FoundProviders(q) ==
    /\ Providers(q)
    /\ Answer(q, {"finds"})
    /\ UNCHANGED live

\* Mutant: the end of a query is only logged.
GetProvidersEndsUnanswered(q) ==
    /\ Providers(q)
    /\ Ends(q)
    /\ UNCHANGED <<connected, pending, next_id, call>>

\* FinishedWithNoAdditionalRecord, or an error (a timeout).
GetProvidersEnds(q) ==
    /\ Providers(q)
    /\ Answer(q, {"finds"})
    /\ Ends(q)

\* FoundRecord, any number of times.
FoundRecord(q) ==
    /\ Records(q)
    /\ Answer(q, {"sui_addr_queries", "vault_queries"})
    /\ UNCHANGED live

GetRecordEnds(q) ==
    /\ Records(q)
    /\ Answer(q, {"sui_addr_queries", "vault_queries"})
    /\ Ends(q)

\* Response or OutboundFailure of the data, range, sliver and addr protocols.
DataEvent(q) ==
    /\ Requested(q, "data")
    /\ Answer(q, {"fetches"})
    /\ Ends(q)

\* Mutant: the arm of the data protocol, copied.
RangeEventCopied(q) ==
    /\ Requested(q, "range")
    /\ Answer(q, {"fetches"})
    /\ Ends(q)

RangeEvent(q) ==
    /\ Requested(q, "range")
    /\ Answer(q, {"range_fetches"})
    /\ Ends(q)

SliverEvent(q) ==
    /\ Requested(q, "sliver")
    /\ Answer(q, {"sliver_fetches"})
    /\ Ends(q)

AddrEvent(q) ==
    /\ Requested(q, "addr")
    /\ Answer(q, {"addr_queries"})
    /\ Ends(q)

-----------------------------------------------------------------------------
(* The callers and the network.                                            *)

\* The caller's timeout fires and it drops its receiver; the event loop is
\* not told.
GiveUp(c) ==
    /\ call[c].state = "waiting"
    /\ call' = [call EXCEPT ![c].state = "gone"]
    /\ UNCHANGED <<connected, pending, live, next_id>>

\* Connections come and go (by themselves, or by Dial and Disconnect).
ConnectionChanges(p) ==
    /\ connected' = IF p \in connected THEN connected \ {p}
                    ELSE connected \cup {p}
    /\ UNCHANGED <<pending, live, next_id, call>>

-----------------------------------------------------------------------------

CallsInit ==
    /\ connected = {}
    /\ pending = {}
    /\ live = {}
    /\ next_id = [b \in Behaviour |-> 0]
    /\ call = [c \in Caller |-> [state |-> "unsent", from |-> {}]]

handle_command(c) ==
    \/ FindProviders(c) \/ FetchBlob(c) \/ FetchRange(c) \/ FetchSliver(c)
    \/ GetPeerSuiAddress(c) \/ GetPeerVault(c) \/ QueryPeerAddress(c)
    \/ DialKadPeer(c) \/ GetConnectedPeers(c)

\* The last event of q.
LastEvent(q) ==
    \/ GetProvidersEnds(q) \/ GetRecordEnds(q)
    \/ DataEvent(q) \/ RangeEvent(q) \/ SliverEvent(q) \/ AddrEvent(q)

handle_behaviour_event(q) == FoundProviders(q) \/ FoundRecord(q) \/ LastEvent(q)

CallsNext ==
    \/ \E c \in Caller : handle_command(c) \/ GiveUp(c)
    \/ \E q \in live : handle_behaviour_event(q)
    \/ \E p \in Peer : ConnectionChanges(p)

\* Every query and request of libp2p ends (the request timeouts of 30 and
\* 10 seconds, Kademlia's query timeout), and the event loop takes every
\* event.  Nothing makes a query report before it ends, nor a caller give up.
CallsFairness ==
    \A b \in Behaviour : \A id \in 0 .. Cardinality(Caller) - 1 :
        WF_callsVars(\E q \in live : q.behaviour = b /\ q.id = id /\ LastEvent(q))

CallsSpec == CallsInit /\ [][CallsNext]_callsVars /\ CallsFairness

-----------------------------------------------------------------------------
(* Properties.                                                             *)

\* Every answer comes from the query that the caller's own command started,
\* although ids repeat across behaviours, queries report several times and
\* late events come after the caller has given up.
AnswersMatch ==
    \A c \in Caller : \A q \in call[c].from : q.caller = c

\* No reply sender is left behind: an entry of a table is that of a query
\* which has not ended, under its own caller, and a caller that waits has
\* exactly one entry.
NoOrphans ==
    /\ \A e \in pending : \E q \in live :
            /\ q.behaviour = BehaviourOf(e.table)
            /\ q.id = e.id
            /\ q.caller = e.reply
    /\ \A c \in Caller : call[c].state = "waiting"
            => Cardinality({e \in pending : e.reply = c}) = 1

\* Every call returns, without the help of the caller's timeout.
CallsReturn ==
    \A c \in Caller : call[c].state = "waiting" ~> call[c].state # "waiting"

=============================================================================
