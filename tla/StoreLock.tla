----------------------------- MODULE StoreLock -----------------------------
(***************************************************************************)
(* The RwLock around the blob store and the command channel of the P2P     *)
(* event loop, shared by the event loop and the tasks of the node: who     *)
(* waits for whom.                                                         *)
(*                                                                         *)
(* The store lock is tokio's RwLock: requests are served in FIFO order, so *)
(* a reader waits behind a writer that waits.  The command channel is a    *)
(* bounded mpsc channel: send waits while it is full.  The event loop is   *)
(* one task: while a handler of it waits for the store lock, it neither    *)
(* takes commands nor answers them.  Readers whose guard is gone before    *)
(* they await anything else (resolve's look at the cache, the lists of     *)
(* blobs) delay nobody for good and are left out.                          *)
(***************************************************************************)
EXTENDS Integers, Sequences, FiniteSets, SequencesExt

CONSTANTS
    Dashboard,   \* get_dashboard calls of the desktop app
    Stream,      \* resolve_blob_with_progress calls that hit the cache
    Writer,      \* requests that store or delete a blob
    Loop,        \* the event loop
    ChannelSize  \* capacity of the command channel (256)

ASSUME LockAssumption ==
    /\ ChannelSize \in Nat \ {0}
    /\ Loop \notin Dashboard \cup Stream \cup Writer
    /\ Writer \cap (Dashboard \cup Stream) = {} /\ Dashboard \cap Stream = {}

Task == Dashboard \cup Stream \cup Writer \cup {Loop}

VARIABLES
    pc,       \* where each task is
    waiting,  \* the queue at the store lock
    readers,  \* the tasks that hold the store lock for reading
    writer,   \* the tasks (at most one) that hold it for writing
    channel   \* the commands sent and not yet received

lockVars == <<pc, waiting, readers, writer, channel>>

Command == [kind : {"GetConnectedPeers", "AnnounceBlob"}, from : Task]

LockTypeOK ==
    /\ pc \in [Task -> {"idle", "lock", "locked", "send", "reply"}]
    /\ waiting \in Seq(Task)
    /\ readers \subseteq Task
    /\ writer \subseteq Writer
    /\ channel \in Seq(Command) /\ Len(channel) <= ChannelSize

-----------------------------------------------------------------------------
(* The lock (tokio::sync::RwLock).                                         *)

\* The request at the head of the queue can be granted.
Grantable(t) ==
    /\ waiting # <<>>
    /\ t = Head(waiting)
    /\ writer = {}
    /\ t \in Writer => readers = {}

\* The lock is granted: the task goes on with the guard in its hands.
Grant(t) ==
    /\ Grantable(t)
    /\ pc[t] = "lock"
    /\ waiting' = Tail(waiting)
    /\ IF t \in Writer
       THEN writer' = writer \cup {t} /\ UNCHANGED readers
       ELSE readers' = readers \cup {t} /\ UNCHANGED writer
    /\ pc' = [pc EXCEPT ![t] = "locked"]
    /\ UNCHANGED channel

Request(t) ==
    /\ pc' = [pc EXCEPT ![t] = "lock"]
    /\ waiting' = Append(waiting, t)
    /\ UNCHANGED <<readers, writer, channel>>

\* The guard is dropped.
Release(t) ==
    /\ readers' = readers \ {t}
    /\ writer' = writer \ {t}

-----------------------------------------------------------------------------
(* The event loop.                                                         *)

\* select! takes an inbound blob, range or sliver request, or a reconnection
\* of a bootstrap peer: the handler asks for the store.
LoopEvent ==
    /\ pc[Loop] = "idle"
    /\ Request(Loop)

\* Mutant: the guard is not dropped.
LoopServesLeaking ==
    /\ pc[Loop] = "locked"
    /\ pc' = [pc EXCEPT ![Loop] = "idle"]
    /\ UNCHANGED <<waiting, readers, writer, channel>>

\* The handler reads the store, drops the guard and answers the peer.
LoopServes ==
    /\ pc[Loop] = "locked"
    /\ Release(Loop)
    /\ pc' = [pc EXCEPT ![Loop] = "idle"]
    /\ UNCHANGED <<waiting, channel>>

\* select! takes a command.  GetConnectedPeers is answered at once: the
\* caller, with the guard it has held since before the call, returns.
LoopCommand ==
    /\ pc[Loop] = "idle"
    /\ channel # <<>>
    /\ channel' = Tail(channel)
    /\ LET cmd == Head(channel)
       IN  IF cmd.kind = "GetConnectedPeers"
           THEN /\ pc' = [pc EXCEPT ![cmd.from] = "idle"]
                /\ Release(cmd.from)
           ELSE UNCHANGED <<pc, readers, writer>>
    /\ UNCHANGED waiting

-----------------------------------------------------------------------------
(* The tasks.                                                              *)

\* get_dashboard, resolve_blob_with_progress, finalize_l1_fetch,
\* resolve_from_walrus and delete_blob ask for the lock.
Call(t) ==
    /\ t # Loop
    /\ pc[t] = "idle"
    /\ Request(t)

\* Mutant: the channel is unbounded.
DashboardSendsUnbounded(t) ==
    /\ t \in Dashboard
    /\ pc[t] = "locked"
    /\ channel' = Append(channel, [kind |-> "GetConnectedPeers", from |-> t])
    /\ pc' = [pc EXCEPT ![t] = "reply"]
    /\ UNCHANGED <<waiting, readers, writer>>

\* get_dashboard sends GetConnectedPeers with the read guard in scope, and
\* waits for the reply with it.
DashboardSends(t) ==
    /\ t \in Dashboard
    /\ pc[t] = "locked"
    /\ Len(channel) < ChannelSize
    /\ channel' = Append(channel, [kind |-> "GetConnectedPeers", from |-> t])
    /\ pc' = [pc EXCEPT ![t] = "reply"]
    /\ UNCHANGED <<waiting, readers, writer>>

\* A cache hit of resolve_blob_with_progress announces the blob with the
\* read guard in scope, then returns.
StreamAnnounces(t) ==
    /\ t \in Stream
    /\ pc[t] = "locked"
    /\ Len(channel) < ChannelSize
    /\ channel' = Append(channel, [kind |-> "AnnounceBlob", from |-> t])
    /\ pc' = [pc EXCEPT ![t] = "idle"]
    /\ Release(t)
    /\ UNCHANGED waiting

\* put or delete; the guard's block ends before anything is awaited.  A
\* request that stored a blob announces it next, delete_blob returns.
WriterWrites(t) ==
    /\ t \in Writer
    /\ pc[t] = "locked"
    /\ Release(t)
    /\ \E next \in {"send", "idle"} : pc' = [pc EXCEPT ![t] = next]
    /\ UNCHANGED <<waiting, channel>>

\* The request announces its blob without the lock.
WriterAnnounces(t) ==
    /\ t \in Writer
    /\ pc[t] = "send"
    /\ Len(channel) < ChannelSize
    /\ channel' = Append(channel, [kind |-> "AnnounceBlob", from |-> t])
    /\ pc' = [pc EXCEPT ![t] = "idle"]
    /\ UNCHANGED <<waiting, readers, writer>>

-----------------------------------------------------------------------------

LockInit ==
    /\ pc = [t \in Task |-> "idle"]
    /\ waiting = <<>>
    /\ readers = {}
    /\ writer = {}
    /\ channel = <<>>

Send(t) == DashboardSends(t) \/ StreamAnnounces(t) \/ WriterAnnounces(t)

LockNext ==
    \/ LoopEvent \/ LoopServes \/ LoopCommand
    \/ \E t \in Task : Call(t) \/ Grant(t) \/ WriterWrites(t) \/ Send(t)

\* A ready task is polled, and the lock goes to the head of its queue.
\* select! picks among its ready branches at random, so a command that is
\* ready again and again is taken; senders at a full channel are served in
\* FIFO order, so a sender that finds room again and again gets it.
LockFairness ==
    /\ WF_lockVars(LoopServes)
    /\ WF_lockVars(\E t \in Task : Grant(t))
    /\ WF_lockVars(\E t \in Writer : WriterWrites(t))
    /\ SF_lockVars(LoopCommand)
    /\ \A t \in Task \ {Loop} : SF_lockVars(Send(t))

LockSpec == LockInit /\ [][LockNext]_lockVars /\ LockFairness

-----------------------------------------------------------------------------
(* Properties.                                                             *)

\* A task that keeps the store's read guard while it waits for the event
\* loop: for room in its channel or for its answer.
HeldAcrossLoop(t) == t \in readers /\ pc[t] \in {"locked", "reply"} /\ t # Loop

\* If the event loop is stalled at the lock for a reason other than a writer
\* at work, a waiting writer is ahead of it and a task holds the read guard
\* across a call to the event loop: the one wait cycle of the node.
OnlyStall ==
    (pc[Loop] = "lock" /\ writer = {} /\ ~Grantable(Head(waiting)))
    => /\ Head(waiting) \in Writer
       /\ \E t \in Task : HeldAcrossLoop(t)

\* Guards held across a call to the event loop are the only obstacle: if
\* again and again nobody holds one, every store and delete gets through.
WritersProgress ==
    ([]<>(\A t \in Task : ~HeldAcrossLoop(t)))
    => \A t \in Writer : pc[t] = "lock" ~> pc[t] = "idle"

\* The desktop design: the dashboard tab "Polls every 2 seconds"; a poll
\* that has begun returns.
DashboardReturns ==
    \A t \in Dashboard : pc[t] # "idle" ~> pc[t] = "idle"

=============================================================================
