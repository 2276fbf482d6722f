---------------------------- MODULE StoreProofs ----------------------------
(***************************************************************************)
(* The blob store of a node.  First the lock around it and the command     *)
(* channel, for any number of tasks of each kind and any channel: the lock *)
(* is held as its guards say, and a stall of the event loop has one cause. *)
(* Then what is in it, for any blobs, sizes, budget and requests: a run    *)
(* evicts no blob that stays pinned, and the last request leaves the cache *)
(* within its budget or with pinned blobs only.                            *)
(***************************************************************************)
EXTENDS StoreLock, BlobCache, DataFacts

(***************************************************************************)
(* The lock and the channel (StoreLock).                                   *)
(***************************************************************************)

\* The queue at the lock holds each task that waits for it, once.
QueueExact ==
    /\ \A i, j \in 1 .. Len(waiting) : waiting[i] = waiting[j] => i = j
    /\ \A i \in 1 .. Len(waiting) : pc[waiting[i]] = "lock"
    /\ \A t \in Task : pc[t] = "lock" =>
            \E i \in 1 .. Len(waiting) : waiting[i] = t

\* A guard is held exactly while its task is in the guard's scope.
ReadGuards  == readers = {t \in Task \ Writer : pc[t] \in {"locked", "reply"}}
WriteGuards == writer = {t \in Writer : pc[t] = "locked"}

\* Readers and a writer, or two writers, never hold the lock at once.
Exclusive ==
    /\ writer # {} => readers = {}
    /\ \A t, u \in writer : t = u

\* Who waits for an answer is a dashboard, with its one command in the
\* channel.
RepliesDue ==
    /\ \A t \in Task : pc[t] = "reply" => t \in Dashboard
    /\ \A i \in 1 .. Len(channel) : channel[i].kind = "GetConnectedPeers" =>
            pc[channel[i].from] = "reply"
    /\ \A i, j \in 1 .. Len(channel) :
            /\ channel[i].kind = "GetConnectedPeers"
            /\ channel[j].kind = "GetConnectedPeers"
            /\ channel[i].from = channel[j].from
            => i = j

LockInv ==
    LockTypeOK /\ QueueExact /\ ReadGuards /\ WriteGuards /\ Exclusive /\ RepliesDue

-----------------------------------------------------------------------------
(* Queues.                                                                 *)

\* A command comes from a task.
LEMMA SendersAreTasks ==
    ASSUME LockInv
    PROVE  \A i \in 1 .. Len(channel) : channel[i].from \in Task
<1>1. \A i \in 1 .. Len(channel) : channel[i] \in Command
    BY DEF LockInv, LockTypeOK
<1> QED
    BY <1>1 DEF Command

\* What a step that changes nothing of the queue and moves no task into or
\* out of it leaves as it was.
LEMMA QueueUntouched ==
    ASSUME LockInv, NEW t \in Task, NEW v \in {"idle", "locked", "send", "reply"},
           pc[t] # "lock", pc' = [pc EXCEPT ![t] = v], waiting' = waiting
    PROVE  QueueExact'
<1>1. \A u \in Task : pc'[u] = IF u = t THEN v ELSE pc[u]
    BY DEF LockInv, LockTypeOK
<1>2. \A i \in 1 .. Len(waiting) : waiting[i] \in Task
    BY DEF LockInv, LockTypeOK
<1> QED
    BY <1>1, <1>2 DEF LockInv, QueueExact

-----------------------------------------------------------------------------
(* Each kind of step keeps the invariant.                                  *)

\* The event loop or a task asks for the lock.
LEMMA RequestKeeps ==
    ASSUME LockInv, NEW t \in Task, pc[t] = "idle", Request(t)
    PROVE  LockInv'
<1>1. /\ pc' = [pc EXCEPT ![t] = "lock"]
      /\ waiting' = Append(waiting, t)
      /\ readers' = readers /\ writer' = writer /\ channel' = channel
    BY DEF Request
<1>2. \A u \in Task : pc'[u] = IF u = t THEN "lock" ELSE pc[u]
    BY <1>1 DEF LockInv, LockTypeOK
<1>3. waiting \in Seq(Task)
    BY DEF LockInv, LockTypeOK
<1>4. /\ waiting' \in Seq(Task)
      /\ Len(waiting) \in Nat /\ Len(waiting') = Len(waiting) + 1
      /\ \A i \in 1 .. Len(waiting) : waiting'[i] = waiting[i]
      /\ waiting'[Len(waiting) + 1] = t
    BY <1>1, <1>3, AppendFacts
<1>5. \A i \in 1 .. Len(waiting) : waiting[i] \in Task
    BY <1>3
<1>6. LockTypeOK'
    BY <1>1, <1>4 DEF LockInv, LockTypeOK
<1>7. QueueExact'
    <2>1. \A i \in 1 .. Len(waiting) : waiting[i] # t
        BY DEF LockInv, QueueExact
    <2>2. \A i \in 1 .. Len(waiting') :
              i \in 1 .. Len(waiting) \/ i = Len(waiting) + 1
        BY <1>4
    <2>3. \A i, j \in 1 .. Len(waiting') : waiting'[i] = waiting'[j] => i = j
        BY <1>4, <2>1, <2>2 DEF LockInv, QueueExact
    <2>4. \A i \in 1 .. Len(waiting') : pc'[waiting'[i]] = "lock"
        BY <1>2, <1>4, <1>5, <2>1, <2>2 DEF LockInv, QueueExact
    <2>5. \A u \in Task : pc'[u] = "lock" =>
              \E i \in 1 .. Len(waiting') : waiting'[i] = u
        <3> SUFFICES ASSUME NEW u \in Task, pc'[u] = "lock"
                     PROVE  \E i \in 1 .. Len(waiting') : waiting'[i] = u
            OBVIOUS
        <3>1. CASE u = t
            <4>1. Len(waiting) + 1 \in 1 .. Len(waiting')
                BY <1>4
            <4> QED
                BY <1>4, <3>1, <4>1
        <3>2. CASE u # t
            <4>1. PICK i \in 1 .. Len(waiting) : waiting[i] = u
                BY <1>2, <3>2 DEF LockInv, QueueExact
            <4>2. i \in 1 .. Len(waiting')
                BY <1>4
            <4> QED
                BY <1>4, <4>1, <4>2
        <3> QED
            BY <3>1, <3>2
    <2> QED
        BY <2>3, <2>4, <2>5 DEF QueueExact
<1>8. ReadGuards' /\ WriteGuards'
    BY <1>1, <1>2 DEF LockInv, ReadGuards, WriteGuards, Task
<1>9. Exclusive'
    BY <1>1 DEF LockInv, Exclusive
<1>10. RepliesDue'
    BY <1>1, <1>2, SendersAreTasks DEF LockInv, RepliesDue
<1> QED
    BY <1>6, <1>7, <1>8, <1>9, <1>10 DEF LockInv

\* The lock goes to the head of the queue.
LEMMA GrantKeeps ==
    ASSUME LockInv, NEW t \in Task, Grant(t)
    PROVE  LockInv'
<1>1. /\ waiting # <<>> /\ t = Head(waiting) /\ writer = {}
      /\ t \in Writer => readers = {}
      /\ pc[t] = "lock"
      /\ waiting' = Tail(waiting)
      /\ pc' = [pc EXCEPT ![t] = "locked"]
      /\ channel' = channel
    BY DEF Grant, Grantable
<1>2. /\ t \in Writer => writer' = {t} /\ readers' = readers
      /\ t \notin Writer => readers' = readers \cup {t} /\ writer' = {}
    BY <1>1 DEF Grant
<1>3. \A u \in Task : pc'[u] = IF u = t THEN "locked" ELSE pc[u]
    BY <1>1 DEF LockInv, LockTypeOK
<1>4. waiting \in Seq(Task)
    BY DEF LockInv, LockTypeOK
<1>5. /\ Len(waiting) \in Nat /\ Len(waiting) > 0
      /\ t = waiting[1]
      /\ waiting' \in Seq(Task) /\ Len(waiting') = Len(waiting) - 1
      /\ \A i \in 1 .. Len(waiting) - 1 : waiting'[i] = waiting[i + 1]
    BY <1>1, <1>4, TailFacts
<1>6. LockTypeOK'
    BY <1>1, <1>2, <1>5 DEF LockInv, LockTypeOK
<1>7. QueueExact'
    <2>1. \A i \in 1 .. Len(waiting') :
              /\ i + 1 \in 1 .. Len(waiting)
              /\ waiting'[i] = waiting[i + 1]
        BY <1>5
    <2>2. \A i \in 1 .. Len(waiting') : waiting'[i] # t
        <3>1. 1 \in 1 .. Len(waiting) /\ \A i \in 1 .. Len(waiting') : i + 1 # 1
            BY <1>5
        <3> QED
            BY <1>5, <2>1, <3>1 DEF LockInv, QueueExact
    <2>3. \A i, j \in 1 .. Len(waiting') : waiting'[i] = waiting'[j] => i = j
        <3>1. SUFFICES ASSUME NEW i \in 1 .. Len(waiting'),
                              NEW j \in 1 .. Len(waiting'),
                              waiting'[i] = waiting'[j]
                       PROVE  i = j
            OBVIOUS
        <3>2. i + 1 = j + 1
            BY <2>1, <3>1 DEF LockInv, QueueExact
        <3> QED
            BY <1>5, <3>2
    <2>4. \A i \in 1 .. Len(waiting') : waiting'[i] \in Task
        BY <1>5
    <2>5. \A i \in 1 .. Len(waiting') : pc'[waiting'[i]] = "lock"
        BY <1>3, <2>1, <2>2, <2>4 DEF LockInv, QueueExact
    <2>6. \A u \in Task : pc'[u] = "lock" =>
              \E i \in 1 .. Len(waiting') : waiting'[i] = u
        <3> SUFFICES ASSUME NEW u \in Task, pc'[u] = "lock"
                     PROVE  \E i \in 1 .. Len(waiting') : waiting'[i] = u
            OBVIOUS
        <3>1. u # t /\ pc[u] = "lock"
            BY <1>3
        <3>2. PICK i \in 1 .. Len(waiting) : waiting[i] = u
            BY <3>1 DEF LockInv, QueueExact
        <3>3. i - 1 \in 1 .. Len(waiting') /\ (i - 1) + 1 = i
            BY <1>5, <3>1, <3>2
        <3> QED
            BY <2>1, <3>2, <3>3
    <2> QED
        BY <2>3, <2>5, <2>6 DEF QueueExact
<1>8. ReadGuards'
    BY <1>2, <1>3, <1>1 DEF LockInv, ReadGuards
<1>9. WriteGuards'
    <2>1. Writer \subseteq Task
        BY DEF Task
    <2> QED
        BY <1>1, <1>2, <1>3, <2>1 DEF LockInv, WriteGuards
<1>10. Exclusive'
    BY <1>1, <1>2 DEF LockInv, Exclusive
<1>11. RepliesDue'
    BY <1>1, <1>3, SendersAreTasks DEF LockInv, RepliesDue
<1> QED
    BY <1>6, <1>7, <1>8, <1>9, <1>10, <1>11 DEF LockInv

\* A task drops the guard it has, and goes on without it.
LEMMA ReleaseKeepsGuards ==
    ASSUME LockInv, NEW t \in Task, NEW v \in {"idle", "send"},
           pc' = [pc EXCEPT ![t] = v], Release(t)
    PROVE  ReadGuards' /\ WriteGuards' /\ Exclusive'
<1>1. \A u \in Task : pc'[u] = IF u = t THEN v ELSE pc[u]
    BY DEF LockInv, LockTypeOK
<1>2. readers' = readers \ {t} /\ writer' = writer \ {t}
    BY DEF Release
<1>3. Writer \subseteq Task
    BY DEF Task
<1>4. ReadGuards'
    BY <1>1, <1>2 DEF LockInv, ReadGuards
<1>5. WriteGuards'
    BY <1>1, <1>2, <1>3 DEF LockInv, WriteGuards
<1>6. Exclusive'
    BY <1>2 DEF LockInv, Exclusive
<1> QED
    BY <1>4, <1>5, <1>6

\* A command is sent by a task that then waits for its answer or does not.
LEMMA SendKeepsReplies ==
    ASSUME LockInv, NEW t \in Task, NEW cmd \in Command, NEW v \in {"idle", "reply"},
           pc[t] \in {"locked", "send"}, Len(channel) < ChannelSize,
           cmd.from = t,
           v = "reply" => t \in Dashboard,
           cmd.kind = "GetConnectedPeers" => v = "reply",
           pc' = [pc EXCEPT ![t] = v], channel' = Append(channel, cmd)
    PROVE  /\ RepliesDue'
           /\ channel' \in Seq(Command) /\ Len(channel') <= ChannelSize
<1>1. \A u \in Task : pc'[u] = IF u = t THEN v ELSE pc[u]
    BY DEF LockInv, LockTypeOK
<1>2. channel \in Seq(Command)
    BY DEF LockInv, LockTypeOK
<1>3. /\ channel' \in Seq(Command)
      /\ Len(channel) \in Nat /\ Len(channel') = Len(channel) + 1
      /\ \A i \in 1 .. Len(channel) : channel'[i] = channel[i]
      /\ channel'[Len(channel) + 1] = cmd
    BY <1>2, AppendFacts
<1>4. \A i \in 1 .. Len(channel') :
          i \in 1 .. Len(channel) \/ i = Len(channel) + 1
    BY <1>3
<1>5. \A i \in 1 .. Len(channel) :
          channel[i].kind = "GetConnectedPeers" => channel[i].from # t
    BY DEF LockInv, RepliesDue
<1>6. \A u \in Task : pc'[u] = "reply" => u \in Dashboard
    BY <1>1 DEF LockInv, RepliesDue
<1>7. \A i \in 1 .. Len(channel') : channel'[i].kind = "GetConnectedPeers" =>
          pc'[channel'[i].from] = "reply"
    BY <1>1, <1>3, <1>4, <1>5, SendersAreTasks DEF LockInv, RepliesDue
<1>8. \A i, j \in 1 .. Len(channel') :
          /\ channel'[i].kind = "GetConnectedPeers"
          /\ channel'[j].kind = "GetConnectedPeers"
          /\ channel'[i].from = channel'[j].from
          => i = j
    BY <1>3, <1>4, <1>5 DEF LockInv, RepliesDue
<1>9. Len(channel') <= ChannelSize
    BY <1>3, LockAssumption DEF LockAssumption
<1> QED
    BY <1>3, <1>6, <1>7, <1>8, <1>9 DEF RepliesDue

\* The event loop has served and drops its guard.
LEMMA ServeKeeps ==
    ASSUME LockInv, LoopServes
    PROVE  LockInv'
<1>1. /\ pc[Loop] = "locked" /\ Release(Loop)
      /\ pc' = [pc EXCEPT ![Loop] = "idle"]
      /\ waiting' = waiting /\ channel' = channel
    BY DEF LoopServes
<1>2. Loop \in Task
    BY DEF Task
<1>3. \A u \in Task : pc'[u] = IF u = Loop THEN "idle" ELSE pc[u]
    BY <1>1 DEF LockInv, LockTypeOK
<1>4. LockTypeOK'
    BY <1>1, <1>2 DEF LockInv, LockTypeOK, Release
<1>5. QueueExact'
    BY <1>1, <1>2, QueueUntouched
<1>6. ReadGuards' /\ WriteGuards' /\ Exclusive'
    BY <1>1, <1>2, ReleaseKeepsGuards
<1>7. RepliesDue'
    BY <1>1, <1>3, SendersAreTasks DEF LockInv, RepliesDue
<1> QED
    BY <1>4, <1>5, <1>6, <1>7 DEF LockInv

\* The event loop takes a command: it answers its sender, who waits, or
\* nobody waits for it.
LEMMA CommandKeeps ==
    ASSUME LockInv, LoopCommand
    PROVE  LockInv'
<1> DEFINE cmd == Head(channel)
<1>1. /\ channel # <<>> /\ channel' = Tail(channel) /\ waiting' = waiting
      /\ cmd.kind = "GetConnectedPeers" =>
            pc' = [pc EXCEPT ![cmd.from] = "idle"] /\ Release(cmd.from)
      /\ cmd.kind # "GetConnectedPeers" =>
            pc' = pc /\ readers' = readers /\ writer' = writer
    BY DEF LoopCommand
<1>2. channel \in Seq(Command)
    BY DEF LockInv, LockTypeOK
<1>3. /\ Len(channel) \in Nat /\ Len(channel) > 0
      /\ cmd = channel[1] /\ cmd \in Command
      /\ channel' \in Seq(Command) /\ Len(channel') = Len(channel) - 1
      /\ \A i \in 1 .. Len(channel) - 1 : channel'[i] = channel[i + 1]
    BY <1>1, <1>2, TailFacts
<1>4. cmd.from \in Task
    BY <1>3 DEF Command
<1> HIDE DEF cmd
<1>5. \A i \in 1 .. Len(channel') :
          i + 1 \in 1 .. Len(channel) /\ channel'[i] = channel[i + 1]
    BY <1>3
<1>6. Len(channel') <= ChannelSize
    BY <1>3, LockAssumption DEF LockAssumption, LockInv, LockTypeOK
<1>7. \A i, j \in 1 .. Len(channel') :
          /\ channel'[i].kind = "GetConnectedPeers"
          /\ channel'[j].kind = "GetConnectedPeers"
          /\ channel'[i].from = channel'[j].from
          => i = j
    <2>1. SUFFICES ASSUME NEW i \in 1 .. Len(channel'),
                          NEW j \in 1 .. Len(channel'),
                          channel'[i].kind = "GetConnectedPeers",
                          channel'[j].kind = "GetConnectedPeers",
                          channel'[i].from = channel'[j].from
                   PROVE  i = j
        OBVIOUS
    <2>2. i + 1 = j + 1
        BY <1>5, <2>1 DEF LockInv, RepliesDue
    <2> QED
        BY <1>3, <2>2
<1>8. CASE cmd.kind = "GetConnectedPeers"
    <2>1. pc[cmd.from] = "reply"
        <3>1. 1 \in 1 .. Len(channel)
            BY <1>3
        <3> QED
            BY <1>3, <1>8, <3>1 DEF LockInv, RepliesDue
    <2>2. \A u \in Task : pc'[u] = IF u = cmd.from THEN "idle" ELSE pc[u]
        BY <1>1, <1>8, <1>4 DEF LockInv, LockTypeOK
    <2>3. LockTypeOK'
        BY <1>1, <1>3, <1>4, <1>6, <1>8 DEF LockInv, LockTypeOK, Release
    <2>4. QueueExact'
        BY <1>1, <1>4, <1>8, <2>1, QueueUntouched
    <2>5. ReadGuards' /\ WriteGuards' /\ Exclusive'
        BY <1>1, <1>4, <1>8, ReleaseKeepsGuards
    <2>6. \A i \in 1 .. Len(channel') : channel'[i].kind = "GetConnectedPeers"
              => channel'[i].from # cmd.from
        <3>1. \A i \in 1 .. Len(channel') : i + 1 # 1
            BY <1>3
        <3>2. 1 \in 1 .. Len(channel)
            BY <1>3
        <3> QED
            BY <1>3, <1>5, <1>8, <3>1, <3>2 DEF LockInv, RepliesDue
    <2>7. \A i \in 1 .. Len(channel') : channel'[i].kind = "GetConnectedPeers"
              => pc'[channel'[i].from] = "reply"
        BY <1>5, <2>2, <2>6, SendersAreTasks DEF LockInv, RepliesDue
    <2>8. \A u \in Task : pc'[u] = "reply" => u \in Dashboard
        BY <2>2 DEF LockInv, RepliesDue
    <2> QED
        BY <1>7, <2>3, <2>4, <2>5, <2>7, <2>8 DEF LockInv, RepliesDue
<1>9. CASE cmd.kind # "GetConnectedPeers"
    <2>1. LockTypeOK'
        BY <1>1, <1>3, <1>6, <1>9 DEF LockInv, LockTypeOK
    <2>2. QueueExact' /\ ReadGuards' /\ WriteGuards' /\ Exclusive'
        BY <1>1, <1>9
           DEF LockInv, QueueExact, ReadGuards, WriteGuards, Exclusive
    <2>3. RepliesDue'
        BY <1>1, <1>5, <1>7, <1>9 DEF LockInv, RepliesDue
    <2> QED
        BY <2>1, <2>2, <2>3 DEF LockInv
<1> QED
    BY <1>8, <1>9

\* A task sends a command: the dashboard with its guard, the stream as it
\* drops its guard, the writer without one.
LEMMA SendKeeps ==
    ASSUME LockInv, NEW t \in Task, Send(t)
    PROVE  LockInv'
<1>1. CASE DashboardSends(t)
    <2> DEFINE cmd == [kind |-> "GetConnectedPeers", from |-> t]
    <2>1. /\ t \in Dashboard /\ pc[t] = "locked" /\ Len(channel) < ChannelSize
          /\ channel' = Append(channel, cmd)
          /\ pc' = [pc EXCEPT ![t] = "reply"]
          /\ waiting' = waiting /\ readers' = readers /\ writer' = writer
        BY <1>1 DEF DashboardSends
    <2>2. cmd \in Command /\ cmd.from = t /\ cmd.kind = "GetConnectedPeers"
        BY DEF Command
    <2> HIDE DEF cmd
    <2>3. \A u \in Task : pc'[u] = IF u = t THEN "reply" ELSE pc[u]
        BY <2>1 DEF LockInv, LockTypeOK
    <2>4. /\ RepliesDue'
          /\ channel' \in Seq(Command) /\ Len(channel') <= ChannelSize
        BY <2>1, <2>2, SendKeepsReplies
    <2>5. LockTypeOK'
        BY <2>1, <2>4 DEF LockInv, LockTypeOK
    <2>6. QueueExact'
        BY <2>1, QueueUntouched
    <2>7. ReadGuards'
        BY <2>1, <2>3 DEF LockInv, ReadGuards
    <2>8. WriteGuards'
        BY <2>1, <2>3, LockAssumption
           DEF LockInv, WriteGuards, Task, LockAssumption
    <2>9. Exclusive'
        BY <2>1 DEF LockInv, Exclusive
    <2> QED
        BY <2>4, <2>5, <2>6, <2>7, <2>8, <2>9 DEF LockInv
<1>2. CASE StreamAnnounces(t)
    <2> DEFINE cmd == [kind |-> "AnnounceBlob", from |-> t]
    <2>1. /\ pc[t] = "locked" /\ Len(channel) < ChannelSize
          /\ channel' = Append(channel, cmd)
          /\ pc' = [pc EXCEPT ![t] = "idle"]
          /\ Release(t) /\ waiting' = waiting
        BY <1>2 DEF StreamAnnounces
    <2>2. cmd \in Command /\ cmd.from = t /\ cmd.kind # "GetConnectedPeers"
        BY DEF Command
    <2> HIDE DEF cmd
    <2>3. /\ RepliesDue'
          /\ channel' \in Seq(Command) /\ Len(channel') <= ChannelSize
        BY <2>1, <2>2, SendKeepsReplies
    <2>4. LockTypeOK'
        BY <2>1, <2>3 DEF LockInv, LockTypeOK, Release
    <2>5. QueueExact'
        BY <2>1, QueueUntouched
    <2>6. ReadGuards' /\ WriteGuards' /\ Exclusive'
        BY <2>1, ReleaseKeepsGuards
    <2> QED
        BY <2>3, <2>4, <2>5, <2>6 DEF LockInv
<1>3. CASE WriterAnnounces(t)
    <2> DEFINE cmd == [kind |-> "AnnounceBlob", from |-> t]
    <2>1. /\ pc[t] = "send" /\ Len(channel) < ChannelSize
          /\ channel' = Append(channel, cmd)
          /\ pc' = [pc EXCEPT ![t] = "idle"]
          /\ waiting' = waiting /\ readers' = readers /\ writer' = writer
        BY <1>3 DEF WriterAnnounces
    <2>2. cmd \in Command /\ cmd.from = t /\ cmd.kind # "GetConnectedPeers"
        BY DEF Command
    <2> HIDE DEF cmd
    <2>3. \A u \in Task : pc'[u] = IF u = t THEN "idle" ELSE pc[u]
        BY <2>1 DEF LockInv, LockTypeOK
    <2>4. /\ RepliesDue'
          /\ channel' \in Seq(Command) /\ Len(channel') <= ChannelSize
        BY <2>1, <2>2, SendKeepsReplies
    <2>5. LockTypeOK'
        BY <2>1, <2>4 DEF LockInv, LockTypeOK
    <2>6. QueueExact'
        BY <2>1, QueueUntouched
    <2>7. ReadGuards'
        BY <2>1, <2>3 DEF LockInv, ReadGuards
    <2>8. WriteGuards'
        BY <2>1, <2>3 DEF LockInv, WriteGuards, Task
    <2>9. Exclusive'
        BY <2>1 DEF LockInv, Exclusive
    <2> QED
        BY <2>4, <2>5, <2>6, <2>7, <2>8, <2>9 DEF LockInv
<1> QED
    BY <1>1, <1>2, <1>3 DEF Send

\* A writer has written and drops its guard.
LEMMA WriteKeeps ==
    ASSUME LockInv, NEW t \in Task, WriterWrites(t)
    PROVE  LockInv'
<1>1. pc[t] = "locked" /\ Release(t) /\ waiting' = waiting /\ channel' = channel
    BY DEF WriterWrites
<1>2. PICK v \in {"send", "idle"} : pc' = [pc EXCEPT ![t] = v]
    BY DEF WriterWrites
<1>3. \A u \in Task : pc'[u] = IF u = t THEN v ELSE pc[u]
    BY <1>2 DEF LockInv, LockTypeOK
<1>4. LockTypeOK'
    BY <1>1, <1>2 DEF LockInv, LockTypeOK, Release
<1>5. QueueExact'
    BY <1>1, <1>2, QueueUntouched
<1>6. ReadGuards' /\ WriteGuards' /\ Exclusive'
    BY <1>1, <1>2, ReleaseKeepsGuards
<1>7. RepliesDue'
    BY <1>1, <1>2, <1>3, SendersAreTasks DEF LockInv, RepliesDue
<1> QED
    BY <1>4, <1>5, <1>6, <1>7 DEF LockInv

LEMMA InitEstablishes == LockInit => LockInv
<1> SUFFICES ASSUME LockInit PROVE LockInv
    OBVIOUS
<1>1. LockTypeOK
    BY LockAssumption DEF LockInit, LockTypeOK, LockAssumption
<1>2. QueueExact /\ RepliesDue
    BY DEF LockInit, QueueExact, RepliesDue
<1>3. ReadGuards /\ WriteGuards /\ Exclusive
    BY DEF LockInit, ReadGuards, WriteGuards, Exclusive, Task
<1> QED
    BY <1>1, <1>2, <1>3 DEF LockInv

-----------------------------------------------------------------------------
(* The theorems.                                                           *)

\* The inductive invariant: the queue at the store lock, the guards and the
\* replies owed are at every moment those of the tasks' positions.
THEOREM LockInductive == LockSpec => []LockInv
<1>1. LockInv /\ [LockNext]_lockVars => LockInv'
    <2> SUFFICES ASSUME LockInv, [LockNext]_lockVars PROVE LockInv'
        OBVIOUS
    <2>1. CASE LoopEvent
        BY <2>1, RequestKeeps DEF LoopEvent, Task
    <2>2. CASE LoopServes
        BY <2>2, ServeKeeps
    <2>3. CASE LoopCommand
        BY <2>3, CommandKeeps
    <2>4. ASSUME NEW t \in Task, Call(t) PROVE LockInv'
        BY <2>4, RequestKeeps DEF Call
    <2>5. ASSUME NEW t \in Task, Grant(t) PROVE LockInv'
        BY <2>5, GrantKeeps
    <2>6. ASSUME NEW t \in Task, WriterWrites(t) PROVE LockInv'
        BY <2>6, WriteKeeps
    <2>7. ASSUME NEW t \in Task, Send(t) PROVE LockInv'
        BY <2>7, SendKeeps
    <2>8. CASE UNCHANGED lockVars
        BY <2>8 DEF lockVars, LockInv, LockTypeOK, QueueExact, ReadGuards, WriteGuards,
                    Exclusive, RepliesDue
    <2> QED
        BY <2>1, <2>2, <2>3, <2>4, <2>5, <2>6, <2>7, <2>8 DEF LockNext
<1> QED
    BY InitEstablishes, <1>1, PTL DEF LockSpec

\* Type correctness, for any tasks and any channel: the command channel
\* never holds more than its capacity.
THEOREM LockTypeCorrect == LockSpec => []LockTypeOK
<1>1. LockInv => LockTypeOK
    BY DEF LockInv
<1> QED
    BY <1>1, LockInductive, PTL

\* The store's RwLock, which main.rs makes and every handler shares: no reader
\* beside a writer, no two writers, whichever tasks hold its guards.
THEOREM LockExclusive == LockSpec => []Exclusive
<1>1. LockInv => Exclusive
    BY DEF LockInv
<1> QED
    BY <1>1, LockInductive, PTL

\* The one wait cycle of the node: the event loop is stalled at the store
\* lock only by a writer at work, or by a writer in front of it in the queue
\* that waits for a task which holds the read guard across a call to the
\* event loop (get_dashboard, or a cache hit that announces its blob).
THEOREM OneStall == LockSpec => []OnlyStall
<1>1. LockInv => OnlyStall
    <2>1. SUFFICES ASSUME LockInv, pc[Loop] = "lock", writer = {},
                          ~Grantable(Head(waiting))
                   PROVE  /\ Head(waiting) \in Writer
                          /\ \E t \in Task : HeldAcrossLoop(t)
        BY DEF OnlyStall
    <2>2. waiting # <<>>
        BY <2>1 DEF LockInv, QueueExact, Task
    <2>3. Head(waiting) \in Writer /\ readers # {}
        BY <2>1, <2>2 DEF Grantable
    <2>4. PICK r \in readers : TRUE
        BY <2>3
    <2>5. r \in Task /\ pc[r] \in {"locked", "reply"}
        BY <2>1 DEF LockInv, ReadGuards
    <2>6. r # Loop
        BY <2>1, <2>5
    <2> QED
        BY <2>3, <2>5, <2>6 DEF HeldAcrossLoop
<1> QED
    BY <1>1, LockInductive, PTL

(***************************************************************************)
(* The blobs, the pins and the eviction (BlobCache).                       *)
(***************************************************************************)

\* A request whose run is still to begin.
Pending ==
    \/ \E t \in Requests : req[t].pc = "stored"
    \/ Len(queue) > (IF run.pc = "off" THEN 0 ELSE 1)

\* The requests at the lock are those that evict, once each.
EvictionQueue ==
    /\ \A i \in 1 .. Len(queue) : req[queue[i]].pc = "evicting"
    /\ \A i, j \in 1 .. Len(queue) : queue[i] = queue[j] => i = j
    /\ run.pc # "off" => queue # <<>>

\* A request that is under way is for a blob.
BlobKnown == \A t \in Requests : req[t].pc # "idle" => req[t].blob \in Blob

\* No candidate was pinned throughout the run.
NoHeldCandidate == ToSet(run.cands) \cap held = {}

\* What the run of the only request there is knows, if no eviction was cut
\* short and no blob unpinned since it began.  `counted` are the blobs
\* whose bytes make up its total: all of the store, but for the blobs it has
\* not come to yet.
Summing(counted) ==
    /\ counted \cap ToSet(run.todo) = {}
    /\ store \subseteq counted \cup ToSet(run.todo)
    /\ Distinct(run.todo) /\ run.cands = <<>>

Scanning(counted) ==
    /\ store \cup ToSet(run.todo) \cup ToSet(run.cands) \subseteq counted
    /\ ToSet(run.todo) \cap ToSet(run.cands) = {}
    /\ Distinct(run.todo) /\ Distinct(run.cands)
    /\ store \subseteq pins \cup ToSet(run.todo) \cup ToSet(run.cands)

Deleting(counted) ==
    /\ store \cup ToSet(run.cands) \subseteq counted
    /\ Distinct(run.cands)
    /\ store \subseteq pins \cup ToSet(run.cands)

Counted(counted) ==
    /\ run.total = Bytes(counted)
    /\ run.pc = "sum" => Summing(counted)
    /\ run.pc = "scan" => Scanning(counted)
    /\ run.pc = "delete" => Deleting(counted)

Accounted ==
    run.pc # "off" /\ ~Pending /\ ~lapsed
    => \E counted \in SUBSET Blob : Counted(counted)

\* Between the runs the last one has done its work.
Settled ==
    run.pc = "off" /\ ~Pending /\ ~lapsed
    => (Bytes(store) <= Budget \/ store \subseteq pins)

CacheInv ==
    /\ TypeOK /\ EvictionQueue /\ BlobKnown /\ NoHeldCandidate
    /\ Accounted /\ Settled

-----------------------------------------------------------------------------
(* Sizes and lists.                                                        *)

\* A part of the cache has fewer than 2^64 bytes, and one blob more or less
\* makes the difference of its size.
LEMMA BytesFacts ==
    ASSUME NEW S \in SUBSET Blob
    PROVE  /\ Bytes(S) \in Nat /\ Bytes(S) < U64_MOD
           /\ \A b \in Blob \ S : Bytes(S \cup {b}) = Bytes(S) + Size[b]
           /\ \A b \in S : Bytes(S \ {b}) = Bytes(S) - Size[b]
           /\ \A R \in SUBSET S : Bytes(R) <= Bytes(S)
<1>1. Size \in [Blob -> Nat] /\ IsFiniteSet(Blob) /\ U64_MOD \in Nat
    BY CacheAssumption
<1>2. ASSUME NEW R \in SUBSET Blob
      PROVE  /\ Bytes(R) \in Nat
             /\ \A b \in Blob \ R : Bytes(R \cup {b}) = Bytes(R) + Size[b]
             /\ \A Q \in SUBSET R : Bytes(Q) <= Bytes(R)
    <2>1. IsFiniteSet(R)
        BY <1>1, FS_Subset
    <2> QED
        BY <1>1, <2>1, SumFacts, Zenon DEF Bytes
<1>3. Bytes(S) < U64_MOD
    <2>1. Bytes(S) <= Bytes(Blob) /\ Bytes(S) \in Nat /\ Bytes(Blob) \in Nat
        BY <1>2
    <2> QED
        BY <1>1, <2>1, DiskAssumption
<1>4. ASSUME NEW b \in S PROVE Bytes(S \ {b}) = Bytes(S) - Size[b]
    <2>1. S \ {b} \in SUBSET Blob /\ b \in Blob \ (S \ {b}) /\ (S \ {b}) \cup {b} = S
        OBVIOUS
    <2>2. Bytes((S \ {b}) \cup {b}) = Bytes(S \ {b}) + Size[b]
        BY <1>2, <2>1
    <2>3. Bytes(S \ {b}) \in Nat /\ Size[b] \in Nat
        BY <1>1, <1>2, <2>1
    <2>4. Bytes(S) = Bytes(S \ {b}) + Size[b]
        BY <2>1, <2>2, Zenon
    <2> QED
        BY <2>3, <2>4
<1> QED
    BY <1>2, <1>3, <1>4

\* What does not reach the modulus does not wrap.
LEMMA SmallMod ==
    ASSUME NEW n \in Nat, NEW m \in Nat \ {0}, n < m
    PROVE  n % m = n
    OBVIOUS

\* list_blob_ids lists the cache, and all of it, once.
LEMMA StoreListed ==
    ASSUME store \in SUBSET Blob
    PROVE  /\ list_blob_ids \in Seq(Blob) /\ ToSet(list_blob_ids) = store
           /\ Distinct(list_blob_ids)
<1>1. store \in SUBSET Nat /\ IsFiniteSet(store) /\ Cardinality(store) \in Nat
    BY CacheAssumption, FS_Subset, FS_CardinalityType
<1>2. \E ids : Enumerates(ids, store)
    BY <1>1, EnumerationExists
<1> DEFINE ids == list_blob_ids
<1>3. Enumerates(ids, store)
    BY <1>2 DEF Enumerates, list_blob_ids
<1> HIDE DEF ids
<1>4. ids \in Seq(store) /\ ToSet(ids) = store /\ Distinct(ids)
    BY <1>1, <1>3, EnumerationFacts
<1> QED
    BY <1>4 DEF ids

-----------------------------------------------------------------------------
(* Steps of the requests and of the user.                                  *)

\* What the types say of a request and of a run.
LEMMA CacheTypes ==
    ASSUME TypeOK
    PROVE  /\ \A t \in Requests : /\ req[t].pc \in {"idle", "fetching", "stored", "evicting"}
                                  /\ req[t].blob \in Blob \cup {NoBlob}
           /\ run.pc \in {"off", "sum", "scan", "delete"}
           /\ run.total \in 0 .. U64_MOD - 1
           /\ run.todo \in Seq(Blob) /\ run.cands \in Seq(Blob)
           /\ queue \in Seq(Requests) /\ Len(queue) \in Nat
           /\ \A i \in 1 .. Len(queue) : queue[i] \in Requests
           /\ (queue # <<>>) = (Len(queue) > 0)
    BY DEF TypeOK

\* The account of a run holds on while the run rests, if the store does not
\* grow, or grows by the blob of a request whose own run is to come, and if
\* no pin is lost unnoticed.
LEMMA RunUntouched ==
    ASSUME CacheInv, run' = run, Pending => Pending',
           Pending' \/ store' \subseteq store,
           lapsed' \/ (~lapsed /\ pins \subseteq pins'),
           store' \subseteq Blob
    PROVE  Accounted' /\ Settled'
<1>1. ASSUME run.pc # "off", ~Pending', ~lapsed'
      PROVE  \E counted \in SUBSET Blob : Counted(counted)'
    <2>1. PICK counted \in SUBSET Blob : Counted(counted)
        BY <1>1 DEF CacheInv, Accounted
    <2>2. store' \subseteq store /\ pins \subseteq pins'
        BY <1>1
    <2>3. Summing(counted) => Summing(counted)'
        BY <2>2 DEF Summing
    <2>4. Scanning(counted) => Scanning(counted)'
        BY <2>2 DEF Scanning
    <2>5. Deleting(counted) => Deleting(counted)'
        BY <2>2 DEF Deleting
    <2>6. Counted(counted)'
        BY <2>1, <2>3, <2>4, <2>5 DEF Counted
    <2> QED
        BY <2>6
<1>2. ASSUME run.pc = "off", ~Pending', ~lapsed'
      PROVE  Bytes(store') <= Budget \/ store' \subseteq pins'
    <2>1. store' \subseteq store /\ ~Pending /\ ~lapsed /\ pins \subseteq pins'
        BY <1>2
    <2>2. Bytes(store) <= Budget \/ store \subseteq pins
        BY <1>2, <2>1 DEF CacheInv, Settled
    <2>3. /\ Bytes(store') <= Bytes(store)
          /\ Bytes(store') \in Nat /\ Bytes(store) \in Nat /\ Budget \in Nat
        BY <2>1, BytesFacts, CacheAssumption DEF CacheInv, TypeOK
    <2> QED
        BY <2>1, <2>2, <2>3
<1>3. Accounted'
    BY <1>1 DEF Accounted
<1>4. Settled'
    BY <1>2 DEF Settled
<1> QED
    BY <1>3, <1>4

\* A request that is not at the lock moves to a place that is not there.
LEMMA RequestMoves ==
    ASSUME CacheInv, NEW t \in Requests, NEW to \in [pc : {"idle", "fetching", "stored"},
                                                    blob : Blob \cup {NoBlob}],
           to.pc # "idle" => to.blob \in Blob,
           req[t].pc \in {"idle", "fetching"},
           req' = [req EXCEPT ![t] = to],
           UNCHANGED <<queue, run, pins, held, lapsed>>,
           store' \subseteq Blob,
           store' \subseteq store \/ to.pc = "stored"
    PROVE  CacheInv'
<1>1. \A u \in Requests : req'[u] = IF u = t THEN to ELSE req[u]
    BY DEF CacheInv, TypeOK
<1>2. TypeOK'
    BY DEF CacheInv, TypeOK
<1>3. EvictionQueue'
    <2>1. \A i \in 1 .. Len(queue) : queue[i] \in Requests /\ queue[i] # t
        BY CacheTypes DEF CacheInv, EvictionQueue
    <2> QED
        BY <1>1, <2>1 DEF CacheInv, EvictionQueue
<1>4. BlobKnown'
    BY <1>1 DEF CacheInv, BlobKnown
<1>5. NoHeldCandidate'
    BY DEF CacheInv, NoHeldCandidate
<1>6. Pending => Pending'
    BY <1>1 DEF Pending
<1>7. to.pc = "stored" => Pending'
    BY <1>1 DEF Pending
<1>8. Accounted' /\ Settled'
    BY <1>6, <1>7, RunUntouched DEF CacheInv, TypeOK
<1> QED
    BY <1>2, <1>3, <1>4, <1>5, <1>8 DEF CacheInv

\* Resolve requests on their way to the eviction lock.
LEMMA ResolveKeeps ==
    ASSUME CacheInv, NEW t \in Requests,
           \/ \E b \in Blob : L0Miss(t, b)
           \/ FetchFails(t) \/ Put(t) \/ PutFails(t)
    PROVE  CacheInv'
<1> DEFINE Place == [pc : {"idle", "fetching", "stored"}, blob : Blob \cup {NoBlob}]
<1>1. Idle \in Place /\ Idle.pc = "idle"
    BY DEF Idle
<1>2. store \subseteq Blob
    BY DEF CacheInv, TypeOK
<1>3. CASE \E b \in Blob : L0Miss(t, b)
    <2>1. PICK b \in Blob : L0Miss(t, b)
        BY <1>3
    <2> DEFINE to == [pc |-> "fetching", blob |-> b]
    <2>2. to \in Place /\ to.blob \in Blob /\ req' = [req EXCEPT ![t] = to]
        BY <2>1 DEF L0Miss
    <2> HIDE DEF to
    <2> QED
        BY <1>2, <2>1, <2>2, RequestMoves DEF L0Miss
<1>4. CASE \/ FetchFails(t)
           \/ PutFails(t) /\ req' = [req EXCEPT ![t] = Idle]
    BY <1>1, <1>2, <1>4, RequestMoves DEF FetchFails, PutFails
<1>5. CASE Put(t) \/ (PutFails(t) /\ req' = [req EXCEPT ![t].pc = "stored"])
    <2> DEFINE to == [pc |-> "stored", blob |-> req[t].blob]
    <2>1. req[t].pc = "fetching" /\ req[t].blob \in Blob
        BY <1>5 DEF Put, PutFails, CacheInv, BlobKnown
    <2>2. [req EXCEPT ![t].pc = "stored"] = [req EXCEPT ![t] = to]
        <3>1. req[t] \in [pc : {"idle", "fetching", "stored", "evicting"},
                          blob : Blob \cup {NoBlob}]
            BY DEF CacheInv, TypeOK
        <3>2. [req[t] EXCEPT !.pc = "stored"] = to
            BY <3>1
        <3> QED
            BY <3>2
    <2>3. to \in Place /\ to.pc = "stored" /\ to.blob \in Blob
        BY <2>1
    <2>4. req' = [req EXCEPT ![t] = to]
        BY <1>5, <2>2 DEF Put
    <2> HIDE DEF to
    <2>5. store' \subseteq Blob
        BY <1>2, <1>5, <2>1 DEF Put, PutFails
    <2> QED
        BY <1>5, <2>1, <2>3, <2>4, <2>5, RequestMoves DEF Put, PutFails
<1> QED
    BY <1>3, <1>4, <1>5 DEF PutFails

\* A request joins the queue at the lock.
LEMMA LockKeeps ==
    ASSUME CacheInv, NEW t \in Requests, LockEviction(t)
    PROVE  CacheInv'
<1>1. /\ \A u \in Requests : u # t => req'[u] = req[u]
      /\ req'[t].pc = "evicting" /\ req'[t].blob = req[t].blob
      /\ req[t].pc = "stored"
    BY DEF LockEviction, CacheInv, TypeOK
<1>2. /\ queue' \in Seq(Requests) /\ Len(queue) \in Nat /\ Len(queue') = Len(queue) + 1
      /\ \A i \in 1 .. Len(queue) : queue'[i] = queue[i]
      /\ queue'[Len(queue) + 1] = t
    BY AppendFacts DEF LockEviction, CacheInv, TypeOK
<1>3. TypeOK'
    <2>1. req' \in [Requests -> [pc : {"idle", "fetching", "stored", "evicting"},
                                 blob : Blob \cup {NoBlob}]]
        BY DEF LockEviction, CacheInv, TypeOK
    <2> QED
        BY <1>2, <2>1 DEF LockEviction, CacheInv, TypeOK
<1>4. EvictionQueue'
    <2>1. \A i \in 1 .. Len(queue) : queue[i] \in Requests /\ queue[i] # t
        BY <1>1, CacheTypes DEF CacheInv, EvictionQueue
    <2>2. \A i \in 1 .. Len(queue') : i \in 1 .. Len(queue) \/ i = Len(queue) + 1
        BY <1>2
    <2>3. queue' # <<>>
        BY <1>2
    <2>4. \A i \in 1 .. Len(queue') : req'[queue'[i]].pc = "evicting"
        BY <1>1, <1>2, <2>1, <2>2 DEF CacheInv, EvictionQueue
    <2>5. \A i, j \in 1 .. Len(queue') : queue'[i] = queue'[j] => i = j
        BY <1>2, <2>1, <2>2 DEF CacheInv, EvictionQueue
    <2> QED
        BY <2>3, <2>4, <2>5 DEF EvictionQueue
<1>5. BlobKnown'
    BY <1>1 DEF CacheInv, BlobKnown
<1>6. NoHeldCandidate'
    BY DEF LockEviction, CacheInv, NoHeldCandidate
<1>7. Pending'
    <2>1. run' = run /\ (run.pc # "off" => Len(queue) > 0)
        BY CacheTypes DEF LockEviction, CacheInv, EvictionQueue
    <2> QED
        BY <1>2, <2>1 DEF Pending
<1>8. Accounted' /\ Settled'
    BY <1>7 DEF Accounted, Settled
<1> QED
    BY <1>3, <1>4, <1>5, <1>6, <1>8 DEF CacheInv

\* What is left of a sequence without its i-th element.
LEMMA RemoveAtFacts ==
    ASSUME NEW S, NEW s \in Seq(S), NEW i \in 1 .. Len(s)
    PROVE  /\ RemoveAt(s, i) \in Seq(S) /\ Len(RemoveAt(s, i)) = Len(s) - 1
           /\ \A j \in 1 .. Len(s) - 1 :
                RemoveAt(s, i)[j] = s[IF j < i THEN j ELSE j + 1]
<1> DEFINE left == SubSeq(s, 1, i - 1)
           right == SubSeq(s, i + 1, Len(s))
<1>1. Len(s) \in Nat /\ \A j \in 1 .. Len(s) : s[j] \in S
    OBVIOUS
<1>2. /\ left \in Seq(S) /\ Len(left) = i - 1
      /\ \A j \in 1 .. i - 1 : left[j] = s[j]
    BY <1>1
<1>3. /\ right \in Seq(S) /\ Len(right) = Len(s) - i
      /\ \A j \in 1 .. Len(s) - i : right[j] = s[i + j]
    BY <1>1
<1>4. RemoveAt(s, i) = left \o right
    BY DEF RemoveAt
<1> HIDE DEF left, right
<1>5. left \o right \in Seq(S) /\ Len(left \o right) = Len(s) - 1
    <2>1. /\ left \o right \in Seq(S)
          /\ Len(left \o right) = Len(left) + Len(right)
        <3>1. left \in Seq(S) /\ right \in Seq(S)
            BY <1>2, <1>3
        <3> QED
            BY <3>1
    <2> QED
        BY <1>1, <1>2, <1>3, <2>1
<1>6. ASSUME NEW j \in 1 .. Len(s) - 1
      PROVE  (left \o right)[j] = s[IF j < i THEN j ELSE j + 1]
    <2>1. CASE j < i
        BY <1>1, <1>2, <1>3, <2>1
    <2>2. CASE j >= i
        <3>1. (left \o right)[j] = right[j - (i - 1)] /\ j - (i - 1) \in 1 .. Len(s) - i
            BY <1>1, <1>2, <1>3, <2>2
        <3> QED
            BY <1>1, <1>3, <2>2, <3>1
    <2>3. j < i \/ j >= i
        BY <1>1
    <2> QED
        BY <2>1, <2>2, <2>3, Zenon
<1> QED
    BY <1>4, <1>5, <1>6

\* A request is dropped.
LEMMA CancelKeeps ==
    ASSUME CacheInv, NEW t \in Requests, Cancel(t)
    PROVE  CacheInv'
<1>1. \A u \in Requests : req'[u] = IF u = t THEN Idle ELSE req[u]
    BY DEF Cancel, CacheInv, TypeOK
<1>2. Idle.pc = "idle"
    BY DEF Idle
<1>3. TypeOK'
    <2>1. lapsed' \in BOOLEAN
        BY Zenon DEF Cancel, CacheInv, TypeOK
    <2>2. req' \in [Requests -> [pc : {"idle", "fetching", "stored", "evicting"},
                                 blob : Blob \cup {NoBlob}]]
        BY DEF Cancel, CacheInv, TypeOK, Idle
    <2> QED
        BY <2>1, <2>2 DEF Cancel, CacheInv, TypeOK
<1>4. EvictionQueue'
    <2>1. \A i \in 1 .. Len(queue) : queue[i] \in Requests /\ queue[i] # t
        BY CacheTypes DEF Cancel, CacheInv, EvictionQueue
    <2> QED
        BY <1>1, <2>1 DEF Cancel, CacheInv, EvictionQueue
<1>5. BlobKnown' /\ NoHeldCandidate'
    BY <1>1, <1>2 DEF Cancel, CacheInv, BlobKnown, NoHeldCandidate
<1>6. CASE lapsed'
    BY <1>3, <1>4, <1>5, <1>6 DEF CacheInv, Accounted, Settled
<1>7. CASE ~lapsed'
    <2>1. req[t].pc = "fetching" /\ ~lapsed
        BY <1>7 DEF Cancel
    <2>2. Pending => Pending'
        BY <1>1, <2>1 DEF Cancel, Pending
    <2>3. Accounted' /\ Settled'
        BY <2>1, <2>2, RunUntouched DEF Cancel, CacheInv, TypeOK
    <2> QED
        BY <1>3, <1>4, <1>5, <2>3 DEF CacheInv
<1> QED
    BY <1>6, <1>7

\* A request is dropped from the queue at the lock.
LEMMA CancelQueuedKeeps ==
    ASSUME CacheInv, NEW i \in 1 .. Len(queue), CancelQueued(i)
    PROVE  CacheInv'
<1>1. /\ queue \in Seq(Requests) /\ Len(queue) \in Nat
      /\ queue[i] \in Requests
    BY CacheTypes DEF CacheInv
<1>2. /\ queue' \in Seq(Requests) /\ Len(queue') = Len(queue) - 1
      /\ \A j \in 1 .. Len(queue) - 1 : queue'[j] = queue[IF j < i THEN j ELSE j + 1]
    BY <1>1, RemoveAtFacts DEF CancelQueued
<1>3. \A u \in Requests : req'[u] = IF u = queue[i] THEN Idle ELSE req[u]
    BY <1>1 DEF CancelQueued, CacheInv, TypeOK
<1>4. Idle.pc = "idle"
    BY DEF Idle
<1>5. TypeOK'
    <2>1. req' \in [Requests -> [pc : {"idle", "fetching", "stored", "evicting"},
                                 blob : Blob \cup {NoBlob}]]
        BY <1>1 DEF CancelQueued, CacheInv, TypeOK, Idle
    <2> QED
        BY <1>2, <2>1 DEF CancelQueued, CacheInv, TypeOK
<1>6. EvictionQueue'
    <2> DEFINE at(j) == IF j < i THEN j ELSE j + 1
    <2>1. \A j \in 1 .. Len(queue') :
            /\ at(j) \in 1 .. Len(queue) /\ at(j) # i
            /\ queue'[j] = queue[at(j)]
            /\ \A k \in 1 .. Len(queue') : at(j) = at(k) => j = k
        BY <1>1, <1>2
    <2> HIDE DEF at
    <2>2. \A j \in 1 .. Len(queue') : queue'[j] \in Requests /\ queue'[j] # queue[i]
        BY <2>1, CacheTypes DEF CacheInv, EvictionQueue
    <2>3. \A j \in 1 .. Len(queue') : req'[queue'[j]].pc = "evicting"
        BY <1>3, <2>1, <2>2 DEF CacheInv, EvictionQueue
    <2>4. \A j, k \in 1 .. Len(queue') : queue'[j] = queue'[k] => j = k
        BY <2>1 DEF CacheInv, EvictionQueue
    <2>5. run'.pc # "off" => queue' # <<>>
        <3>1. SUFFICES ASSUME run.pc # "off" PROVE queue' # <<>>
            BY DEF CancelQueued
        <3>2. i # 1
            BY <3>1 DEF CancelQueued
        <3>3. Len(queue') > 0
            BY <1>1, <1>2, <3>2
        <3> QED
            BY <1>2, <3>3
    <2> QED
        BY <2>3, <2>4, <2>5 DEF EvictionQueue
<1>7. BlobKnown' /\ NoHeldCandidate'
    BY <1>3, <1>4 DEF CancelQueued, CacheInv, BlobKnown, NoHeldCandidate
<1>8. Accounted' /\ Settled'
    BY DEF CancelQueued, Accounted, Settled
<1> QED
    BY <1>5, <1>6, <1>7, <1>8 DEF CacheInv

\* The commands of the desktop app.
LEMMA CommandsKeep ==
    ASSUME CacheInv, NEW b \in Blob,
           pin_blob(b) \/ unpin_blob(b) \/ delete_blob(b)
    PROVE  CacheInv'
<1>1. TypeOK'
    BY DEF pin_blob, unpin_blob, delete_blob, CacheInv, TypeOK
<1>2. EvictionQueue' /\ BlobKnown' /\ Pending' = Pending
    BY DEF pin_blob, unpin_blob, delete_blob, CacheInv, EvictionQueue, BlobKnown, Pending
<1>3. NoHeldCandidate'
    BY DEF pin_blob, unpin_blob, delete_blob, CacheInv, NoHeldCandidate
<1>4. /\ run' = run /\ store' \subseteq store /\ store' \subseteq Blob
      /\ lapsed' \/ (~lapsed /\ pins \subseteq pins')
    BY DEF pin_blob, unpin_blob, delete_blob, CacheInv, TypeOK
<1>5. Accounted' /\ Settled'
    BY <1>2, <1>4, RunUntouched
<1> QED
    BY <1>1, <1>2, <1>3, <1>5 DEF CacheInv

\* A request that is served from the cache, and steps of others.
LEMMA CacheStutters ==
    ASSUME CacheInv, UNCHANGED vars
    PROVE  CacheInv'
<1>1. TypeOK'
    BY DEF vars, CacheInv, TypeOK
<1>2. EvictionQueue' /\ BlobKnown' /\ NoHeldCandidate' /\ Pending' = Pending
    BY DEF vars, CacheInv, EvictionQueue, BlobKnown, NoHeldCandidate, Pending
<1>3. /\ run' = run /\ store' \subseteq store /\ store' \subseteq Blob
      /\ lapsed' \/ (~lapsed /\ pins \subseteq pins')
    BY DEF vars, CacheInv, TypeOK
<1>4. Accounted' /\ Settled'
    BY <1>2, <1>3, RunUntouched
<1> QED
    BY <1>1, <1>2, <1>4 DEF CacheInv

\* No run, and nothing to do.
LEMMA NoRunTyped ==
    /\ NoRun \in [pc : {"off", "sum", "scan", "delete"}, total : 0 .. U64_MOD - 1,
                  todo : Seq(Blob), cands : Seq(Blob)]
    /\ NoRun.pc = "off" /\ ToSet(NoRun.cands) = {}
    BY CacheAssumption, DistinctEmpty DEF NoRun

\* The process starts anew.
LEMMA RestartKeeps ==
    ASSUME CacheInv, Restart
    PROVE  CacheInv'
<1>1. TypeOK'
    BY NoRunTyped DEF Restart, CacheInv, TypeOK, Idle
<1>2. EvictionQueue'
    BY NoRunTyped DEF Restart, EvictionQueue
<1>3. BlobKnown' /\ NoHeldCandidate' /\ Accounted' /\ Settled'
    BY NoRunTyped DEF Restart, BlobKnown, NoHeldCandidate, Accounted, Settled, Idle
<1> QED
    BY <1>1, <1>2, <1>3 DEF CacheInv

-----------------------------------------------------------------------------
(* Steps of a run.                                                         *)

\* A run that leaves wakes the next request of the queue, if there is one;
\* if there is none, it must leave a cache that is in order.
LEMMA LeaveKeeps ==
    ASSUME CacheInv, queue # <<>>, run.pc # "off" \/ lapsed', Leave, store' \subseteq store,
           UNCHANGED <<pins, held>>, lapsed' \in BOOLEAN,
           ~Pending /\ ~lapsed' => (Bytes(store') <= Budget \/ store' \subseteq pins)
    PROVE  CacheInv'
<1>1. queue \in Seq(Requests) /\ queue # <<>>
    BY DEF CacheInv, TypeOK, EvictionQueue
<1>2. /\ Len(queue) \in Nat /\ Len(queue) > 0
      /\ Head(queue) = queue[1] /\ Head(queue) \in Requests
      /\ queue' \in Seq(Requests) /\ Len(queue') = Len(queue) - 1
      /\ \A i \in 1 .. Len(queue) - 1 : queue'[i] = queue[i + 1]
    BY <1>1, TailFacts DEF Leave
<1>3. \A u \in Requests : req'[u] = IF u = queue[1] THEN Idle ELSE req[u]
    BY <1>2 DEF Leave, CacheInv, TypeOK
<1>4. Idle.pc = "idle"
    BY DEF Idle
<1>5. TypeOK'
    <2>1. req' \in [Requests -> [pc : {"idle", "fetching", "stored", "evicting"},
                                 blob : Blob \cup {NoBlob}]]
        BY <1>2 DEF Leave, CacheInv, TypeOK, Idle
    <2> QED
        BY <1>2, <2>1, NoRunTyped DEF Leave, CacheInv, TypeOK
<1>6. \A i \in 1 .. Len(queue) - 1 :
        /\ i + 1 \in 1 .. Len(queue) /\ queue[i + 1] \in Requests
        /\ queue[i + 1] # queue[1]
    <2>1. 1 \in 1 .. Len(queue)
          /\ \A i \in 1 .. Len(queue) - 1 : i + 1 \in 1 .. Len(queue) /\ i + 1 # 1
        BY <1>2
    <2> QED
        BY <2>1, CacheTypes DEF CacheInv, EvictionQueue
<1>7. EvictionQueue'
    <2>1. \A i \in 1 .. Len(queue') : req'[queue'[i]].pc = "evicting"
        BY <1>2, <1>3, <1>6 DEF CacheInv, EvictionQueue
    <2>2. ASSUME NEW i \in 1 .. Len(queue'), NEW j \in 1 .. Len(queue'),
                 queue'[i] = queue'[j]
          PROVE  i = j
        <3>1. queue[i + 1] = queue[j + 1]
            BY <1>2, <2>2
        <3>2. i + 1 = j + 1
            BY <1>2, <1>6, <3>1 DEF CacheInv, EvictionQueue
        <3> QED
            BY <1>2, <3>2
    <2>3. run'.pc = "off"
        BY NoRunTyped DEF Leave
    <2> QED
        BY <2>1, <2>2, <2>3 DEF EvictionQueue
<1>8. BlobKnown'
    BY <1>3, <1>4 DEF CacheInv, BlobKnown
<1>9. NoHeldCandidate' /\ Accounted'
    BY NoRunTyped DEF Leave, NoHeldCandidate, Accounted
<1>10. Pending => Pending' \/ lapsed'
    <2>1. ASSUME NEW t \in Requests, req[t].pc = "stored" PROVE req'[t].pc = "stored"
        <3>1. req[queue[1]].pc = "evicting"
            BY <1>2 DEF CacheInv, EvictionQueue
        <3> QED
            BY <1>3, <2>1, <3>1
    <2>2. run'.pc = "off"
        BY NoRunTyped DEF Leave
    <2> QED
        BY <1>2, <2>1, <2>2 DEF Pending
<1>11. Settled'
    BY <1>10 DEF Settled
<1> QED
    BY <1>5, <1>7, <1>8, <1>9, <1>11 DEF CacheInv

\* A run goes on: what has to be shown is the new account.
LEMMA RunGoesOn ==
    ASSUME CacheInv, run.pc # "off", run'.pc \in {"sum", "scan", "delete"},
           run' \in [pc : {"off", "sum", "scan", "delete"}, total : 0 .. U64_MOD - 1,
                     todo : Seq(Blob), cands : Seq(Blob)],
           store' \subseteq store, UNCHANGED <<pins, req, queue, held, lapsed>>,
           ToSet(run'.cands) \cap held = {},
           ~Pending /\ ~lapsed => \E counted \in SUBSET Blob : Counted(counted)'
    PROVE  CacheInv'
<1>1. TypeOK'
    BY DEF CacheInv, TypeOK
<1>2. Pending' = Pending
    BY DEF Pending
<1>3. EvictionQueue' /\ BlobKnown' /\ NoHeldCandidate' /\ Settled'
    BY DEF CacheInv, EvictionQueue, BlobKnown, NoHeldCandidate, Settled
<1>4. Accounted'
    BY <1>2 DEF Accounted
<1> QED
    BY <1>1, <1>3, <1>4 DEF CacheInv

\* The account of a run that nobody waits for.
LEMMA RunAccount ==
    ASSUME CacheInv, run.pc # "off", ~Pending, ~lapsed
    PROVE  \E counted \in SUBSET Blob : Counted(counted)
    BY DEF CacheInv, Accounted

\* total_size begins: nothing is counted, and the whole store is to come.
LEMMA RunBeginsKeeps ==
    ASSUME CacheInv, RunBegins
    PROVE  CacheInv'
<1>1. /\ list_blob_ids \in Seq(Blob) /\ ToSet(list_blob_ids) = store
      /\ Distinct(list_blob_ids)
    BY StoreListed DEF CacheInv, TypeOK
<1> DEFINE ids == list_blob_ids
<1>2. run' = [pc |-> "sum", total |-> 0, todo |-> ids, cands |-> <<>>]
    BY DEF RunBegins
<1> HIDE DEF ids
<1>3. /\ run'.pc = "sum" /\ run'.total = 0 /\ run'.todo = ids
      /\ run'.cands = <<>>
      /\ run' \in [pc : {"off", "sum", "scan", "delete"}, total : 0 .. U64_MOD - 1,
                   todo : Seq(Blob), cands : Seq(Blob)]
    BY <1>1, <1>2, CacheAssumption, DistinctEmpty DEF ids
<1>4. TypeOK'
    BY <1>3 DEF RunBegins, CacheInv, TypeOK
<1>5. EvictionQueue' /\ BlobKnown'
    BY <1>3 DEF RunBegins, CacheInv, EvictionQueue, BlobKnown
<1>6. NoHeldCandidate'
    BY <1>3, DistinctEmpty DEF NoHeldCandidate
<1>7. Settled'
    BY <1>3 DEF Settled
<1>8. Counted({})'
    <2>1. Bytes({}) = 0
        <3>1. Size \in [Blob -> Nat]
            BY CacheAssumption
        <3> QED
            BY <3>1, SumEmpty, Zenon DEF Bytes
    <2>2. Summing({})'
        BY <1>1, <1>3 DEF Summing, RunBegins, ids
    <2> QED
        BY <1>3, <2>1, <2>2 DEF Counted
<1>9. Accounted'
    BY <1>8 DEF Accounted
<1> QED
    BY <1>4, <1>5, <1>6, <1>7, <1>9 DEF CacheInv

\* total_size goes on: a blob that is still there is counted.
LEMMA SumOneKeeps ==
    ASSUME CacheInv, SumOne
    PROVE  CacheInv'
<1> DEFINE b == Head(run.todo)
           total == IF b \in store THEN (run.total + Size[b]) % U64_MOD ELSE run.total
<1>1. /\ run \in [pc : {"off", "sum", "scan", "delete"}, total : 0 .. U64_MOD - 1,
                  todo : Seq(Blob), cands : Seq(Blob)]
      /\ run.pc = "sum" /\ run.todo # <<>> /\ run.todo \in Seq(Blob)
      /\ run.cands \in Seq(Blob) /\ store \subseteq Blob
    BY DEF SumOne, CacheInv, TypeOK
<1>2. /\ b \in ToSet(run.todo) /\ b \in Blob /\ Tail(run.todo) \in Seq(Blob)
      /\ ToSet(run.todo) = ToSet(Tail(run.todo)) \cup {b}
      /\ Distinct(run.todo) =>
            Distinct(Tail(run.todo)) /\ b \notin ToSet(Tail(run.todo))
    BY <1>1, DistinctTail
<1>3. run' = [run EXCEPT !.todo = Tail(@), !.total = total]
    BY DEF SumOne
<1> HIDE DEF b
<1>4. Size[b] \in Nat /\ U64_MOD \in Nat \ {0} /\ run.total \in Nat
    BY <1>1, <1>2, CacheAssumption
<1>5. total \in 0 .. U64_MOD - 1
    BY <1>1, <1>4
<1> HIDE DEF total
<1>6. /\ run'.pc = "sum" /\ run'.total = total /\ run'.todo = Tail(run.todo)
      /\ run'.cands = run.cands
      /\ run' \in [pc : {"off", "sum", "scan", "delete"}, total : 0 .. U64_MOD - 1,
                   todo : Seq(Blob), cands : Seq(Blob)]
    BY <1>1, <1>2, <1>3, <1>5
<1>7. ASSUME ~Pending, ~lapsed PROVE \E counted \in SUBSET Blob : Counted(counted)'
    <2>1. PICK counted \in SUBSET Blob : Counted(counted)
        BY <1>1, <1>7, RunAccount
    <2>2. run.total = Bytes(counted) /\ Summing(counted)
        BY <1>1, <2>1 DEF Counted
    <2>3. b \notin counted /\ b \notin ToSet(Tail(run.todo)) /\ Distinct(Tail(run.todo))
        BY <1>2, <2>2 DEF Summing
    <2>4. CASE b \in store
        <3>1. PICK more \in SUBSET Blob : more = counted \cup {b}
            BY <1>2
        <3>2. Bytes(more) = Bytes(counted) + Size[b] /\ Bytes(counted) \in Nat
            BY <1>2, <2>3, <3>1, BytesFacts
        <3>3. Bytes(more) < U64_MOD /\ Bytes(more) \in Nat
            BY BytesFacts
        <3>4. total = Bytes(more)
            <4>1. total = Bytes(more) % U64_MOD
                BY <2>2, <2>4, <3>2 DEF total
            <4> QED
                BY <1>4, <3>3, <4>1, SmallMod
        <3>5. Summing(more)'
            BY <1>2, <1>6, <2>2, <2>3, <3>1 DEF Summing, SumOne
        <3>6. Counted(more)'
            BY <1>6, <3>4, <3>5 DEF Counted
        <3> QED
            BY <3>6
    <2>5. CASE b \notin store
        <3>1. Summing(counted)'
            BY <1>2, <1>6, <2>2, <2>3, <2>5 DEF Summing, SumOne
        <3>2. Counted(counted)'
            BY <1>6, <2>2, <2>5, <3>1 DEF Counted, total
        <3> QED
            BY <3>2
    <2> QED
        BY <2>4, <2>5
<1> QED
    BY <1>1, <1>6, <1>7, RunGoesOn DEF SumOne, CacheInv, NoHeldCandidate

\* The total is within the budget.
LEMMA WithinBudgetKeeps ==
    ASSUME CacheInv, WithinBudget
    PROVE  CacheInv'
<1>1. ASSUME ~Pending, ~lapsed' PROVE Bytes(store') <= Budget
    <2>1. run.pc = "sum" /\ run.todo = <<>> /\ store' = store
          /\ run.total <= Budget /\ run.total \in Nat /\ ~lapsed
        BY <1>1, CacheTypes DEF WithinBudget, CacheInv
    <2>2. PICK counted \in SUBSET Blob : Counted(counted)
        BY <1>1, <2>1, RunAccount
    <2>3. run.total = Bytes(counted) /\ store \subseteq counted
        BY <2>1, <2>2, DistinctEmpty DEF Counted, Summing
    <2>4. Bytes(store) <= Bytes(counted) /\ Bytes(store) \in Nat /\ Budget \in Nat
        BY <2>3, BytesFacts, CacheAssumption
    <2> QED
        BY <2>1, <2>3, <2>4
<1>2. run.pc # "off" /\ queue # <<>> /\ lapsed' \in BOOLEAN
    BY DEF WithinBudget, CacheInv, TypeOK, EvictionQueue
<1> QED
    BY <1>1, <1>2, LeaveKeeps DEF WithinBudget

\* The total is above: all that is in the store now was counted.
LEMMA ListKeeps ==
    ASSUME CacheInv, ListCandidates
    PROVE  CacheInv'
<1> DEFINE ids == list_blob_ids
<1>1. ids \in Seq(Blob) /\ ToSet(ids) = store /\ Distinct(ids)
    BY StoreListed DEF CacheInv, TypeOK
<1>2. run' = [run EXCEPT !.pc = "scan", !.todo = ids]
    BY DEF ListCandidates
<1> HIDE DEF ids
<1>3. /\ run \in [pc : {"off", "sum", "scan", "delete"}, total : 0 .. U64_MOD - 1,
                  todo : Seq(Blob), cands : Seq(Blob)]
      /\ run.pc = "sum" /\ run.todo = <<>> /\ store' = store
    BY DEF ListCandidates, CacheInv, TypeOK
<1>4. /\ run'.pc = "scan" /\ run'.total = run.total /\ run'.todo = ids
      /\ run'.cands = run.cands
      /\ run' \in [pc : {"off", "sum", "scan", "delete"}, total : 0 .. U64_MOD - 1,
                   todo : Seq(Blob), cands : Seq(Blob)]
    BY <1>1, <1>2, <1>3
<1>5. ASSUME ~Pending, ~lapsed PROVE \E counted \in SUBSET Blob : Counted(counted)'
    <2>1. PICK counted \in SUBSET Blob : Counted(counted)
        BY <1>3, <1>5, RunAccount
    <2>2. run.total = Bytes(counted) /\ store \subseteq counted
        BY <1>3, <2>1, DistinctEmpty DEF Counted, Summing
    <2>3. run.cands = <<>>
        BY <1>3, <2>1 DEF Counted, Summing
    <2>4. Scanning(counted)'
        BY <1>1, <1>3, <1>4, <2>2, <2>3, DistinctEmpty DEF Scanning
    <2>5. Counted(counted)'
        BY <1>4, <2>2, <2>4 DEF Counted
    <2> QED
        BY <2>5
<1> QED
    BY <1>3, <1>4, <1>5, RunGoesOn DEF ListCandidates, CacheInv, NoHeldCandidate

\* The pin test: what is pinned is passed over, the rest are candidates.
LEMMA ScanOneKeeps ==
    ASSUME CacheInv, ScanOne
    PROVE  CacheInv'
<1> DEFINE b == Head(run.todo)
           cands == IF b \in pins THEN run.cands ELSE Append(run.cands, b)
<1>1. /\ run \in [pc : {"off", "sum", "scan", "delete"}, total : 0 .. U64_MOD - 1,
                  todo : Seq(Blob), cands : Seq(Blob)]
      /\ run.pc = "scan" /\ run.todo # <<>> /\ run.todo \in Seq(Blob)
      /\ run.cands \in Seq(Blob) /\ held \subseteq pins
      /\ UNCHANGED <<store, pins, req, queue, held, lapsed>>
    BY DEF ScanOne, CacheInv, TypeOK
<1>2. /\ b \in ToSet(run.todo) /\ b \in Blob /\ Tail(run.todo) \in Seq(Blob)
      /\ ToSet(run.todo) = ToSet(Tail(run.todo)) \cup {b}
      /\ Distinct(run.todo) =>
            Distinct(Tail(run.todo)) /\ b \notin ToSet(Tail(run.todo))
    BY <1>1, DistinctTail
<1>3. run' = [run EXCEPT !.todo = Tail(@), !.cands = cands]
    BY DEF ScanOne
<1> HIDE DEF b
<1>4. /\ cands \in Seq(Blob)
      /\ ToSet(cands) = ToSet(run.cands) \cup (IF b \in pins THEN {} ELSE {b})
      /\ Distinct(run.cands) /\ b \notin ToSet(run.cands) => Distinct(cands)
    BY <1>1, <1>2, DistinctAppend
<1> HIDE DEF cands
<1>5. /\ run'.pc = "scan" /\ run'.total = run.total /\ run'.todo = Tail(run.todo)
      /\ run'.cands = cands
      /\ run' \in [pc : {"off", "sum", "scan", "delete"}, total : 0 .. U64_MOD - 1,
                   todo : Seq(Blob), cands : Seq(Blob)]
    BY <1>1, <1>2, <1>3, <1>4
<1>6. ToSet(run'.cands) \cap held = {}
    BY <1>1, <1>4, <1>5 DEF CacheInv, NoHeldCandidate
<1>7. ASSUME ~Pending, ~lapsed PROVE \E counted \in SUBSET Blob : Counted(counted)'
    <2>1. PICK counted \in SUBSET Blob : Counted(counted)
        BY <1>1, <1>7, RunAccount
    <2>2. run.total = Bytes(counted) /\ Scanning(counted)
        BY <1>1, <2>1 DEF Counted
    <2>3. b \notin ToSet(run.cands) /\ b \notin ToSet(Tail(run.todo))
          /\ Distinct(Tail(run.todo)) /\ Distinct(cands)
        BY <1>2, <1>4, <2>2 DEF Scanning
    <2>4. Scanning(counted)'
        BY <1>1, <1>2, <1>4, <1>5, <2>2, <2>3 DEF Scanning
    <2>5. Counted(counted)'
        BY <1>5, <2>2, <2>4 DEF Counted
    <2> QED
        BY <2>5
<1> QED
    BY <1>1, <1>5, <1>6, <1>7, RunGoesOn

\* A blob is gone: the error is on record.
LEMMA ScanErrorKeeps ==
    ASSUME CacheInv, ScanError
    PROVE  CacheInv'
<1>1. run.pc # "off" /\ lapsed' = TRUE /\ queue # <<>>
    BY DEF ScanError, CacheInv, EvictionQueue
<1> QED
    BY <1>1, LeaveKeeps DEF ScanError

\* A call of the store fails: the error is on record too.
LEMMA StoreErrorKeeps ==
    ASSUME CacheInv, StoreError
    PROVE  CacheInv'
<1>1. lapsed' = TRUE /\ queue # <<>> /\ Leave /\ UNCHANGED <<store, pins, held>>
    BY DEF StoreError
<1> QED
    BY <1>1, LeaveKeeps

LEMMA DeleteBeginsKeeps ==
    ASSUME CacheInv, DeleteBegins
    PROVE  CacheInv'
<1>1. /\ run \in [pc : {"off", "sum", "scan", "delete"}, total : 0 .. U64_MOD - 1,
                  todo : Seq(Blob), cands : Seq(Blob)]
      /\ run.pc = "scan" /\ run.todo = <<>>
      /\ UNCHANGED <<store, pins, req, queue, held, lapsed>>
    BY DEF DeleteBegins, CacheInv, TypeOK
<1>2. /\ run'.pc = "delete" /\ run'.total = run.total /\ run'.cands = run.cands
      /\ run' \in [pc : {"off", "sum", "scan", "delete"}, total : 0 .. U64_MOD - 1,
                   todo : Seq(Blob), cands : Seq(Blob)]
    BY <1>1 DEF DeleteBegins
<1>3. ASSUME ~Pending, ~lapsed PROVE \E counted \in SUBSET Blob : Counted(counted)'
    <2>1. PICK counted \in SUBSET Blob : Counted(counted)
        BY <1>1, <1>3, RunAccount
    <2>2. run.total = Bytes(counted) /\ Scanning(counted)
        BY <1>1, <2>1 DEF Counted
    <2>3. Deleting(counted)'
        BY <1>1, <1>2, <2>2, DistinctEmpty DEF Scanning, Deleting
    <2>4. Counted(counted)'
        BY <1>2, <2>2, <2>3 DEF Counted
    <2> QED
        BY <2>4
<1> QED
    BY <1>1, <1>2, <1>3, RunGoesOn DEF CacheInv, NoHeldCandidate

\* A candidate goes, and its size with it.
LEMMA DeleteOneKeeps ==
    ASSUME CacheInv, DeleteOne
    PROVE  CacheInv'
<1> DEFINE b == Head(run.cands)
           total == (run.total - Size[b]) % U64_MOD
<1>1. /\ run \in [pc : {"off", "sum", "scan", "delete"}, total : 0 .. U64_MOD - 1,
                  todo : Seq(Blob), cands : Seq(Blob)]
      /\ run.pc = "delete" /\ run.cands # <<>> /\ run.cands \in Seq(Blob)
      /\ UNCHANGED <<pins, req, queue, held, lapsed>>
    BY DEF DeleteOne, CacheInv, TypeOK
<1>2. /\ b \in ToSet(run.cands) /\ b \in Blob /\ Tail(run.cands) \in Seq(Blob)
      /\ ToSet(run.cands) = ToSet(Tail(run.cands)) \cup {b}
      /\ Distinct(run.cands) =>
            Distinct(Tail(run.cands)) /\ b \notin ToSet(Tail(run.cands))
    BY <1>1, DistinctTail
<1>3. run' = [run EXCEPT !.cands = Tail(@), !.total = total] /\ store' = store \ {b}
    BY DEF DeleteOne
<1> HIDE DEF b
<1>4. Size[b] \in Nat /\ U64_MOD \in Nat \ {0} /\ run.total \in Nat
    BY <1>1, <1>2, CacheAssumption
<1>5. total \in 0 .. U64_MOD - 1
    BY <1>4
<1> HIDE DEF total
<1>6. /\ run'.pc = "delete" /\ run'.total = total /\ run'.cands = Tail(run.cands)
      /\ run' \in [pc : {"off", "sum", "scan", "delete"}, total : 0 .. U64_MOD - 1,
                   todo : Seq(Blob), cands : Seq(Blob)]
    BY <1>1, <1>2, <1>3, <1>5
<1>7. ToSet(run'.cands) \cap held = {}
    BY <1>2, <1>6 DEF CacheInv, NoHeldCandidate
<1>8. ASSUME ~Pending, ~lapsed PROVE \E counted \in SUBSET Blob : Counted(counted)'
    <2>1. PICK counted \in SUBSET Blob : Counted(counted)
        BY <1>1, <1>8, RunAccount
    <2>2. run.total = Bytes(counted) /\ Deleting(counted)
        BY <1>1, <2>1 DEF Counted
    <2>3. b \in counted /\ b \notin ToSet(Tail(run.cands)) /\ Distinct(Tail(run.cands))
        BY <1>2, <2>2 DEF Deleting
    <2>4. PICK fewer \in SUBSET Blob : fewer = counted \ {b}
        OBVIOUS
    <2>5. Bytes(fewer) = Bytes(counted) - Size[b]
        BY <2>3, <2>4, BytesFacts
    <2>6. Bytes(fewer) \in Nat /\ Bytes(fewer) < U64_MOD
        BY BytesFacts
    <2>7. total = Bytes(fewer)
        <3>1. total = Bytes(fewer) % U64_MOD
            BY <2>2, <2>5 DEF total
        <3> QED
            BY <1>4, <2>6, <3>1, SmallMod
    <2>8. Deleting(fewer)'
        BY <1>1, <1>2, <1>3, <1>6, <2>2, <2>3, <2>4 DEF Deleting
    <2>9. Counted(fewer)'
        BY <1>6, <2>7, <2>8 DEF Counted
    <2> QED
        BY <2>9
<1> QED
    BY <1>1, <1>3, <1>6, <1>7, <1>8, RunGoesOn

\* The subtraction underflows only if somebody waits: alone, a run deletes
\* nothing that it has not counted.
LEMMA PanicKeeps ==
    ASSUME CacheInv, DeletePanics
    PROVE  CacheInv'
<1> DEFINE b == Head(run.cands)
<1>1. /\ run.pc = "delete" /\ run.cands # <<>> /\ run.cands \in Seq(Blob)
      /\ run.total \in Nat /\ Size[b] > run.total /\ store' \subseteq store
      /\ lapsed' = lapsed /\ lapsed' \in BOOLEAN /\ queue # <<>>
    BY CacheAssumption DEF DeletePanics, CacheInv, TypeOK, EvictionQueue
<1>2. b \in ToSet(run.cands) /\ b \in Blob
    BY <1>1, DistinctTail
<1> HIDE DEF b
<1>3. Pending \/ lapsed
    <2>1. SUFFICES ASSUME ~Pending, ~lapsed PROVE FALSE
        OBVIOUS
    <2>2. PICK counted \in SUBSET Blob : Counted(counted)
        BY <1>1, <2>1, RunAccount
    <2>3. run.total = Bytes(counted) /\ b \in counted
        BY <1>1, <1>2, <2>2 DEF Counted, Deleting
    <2>4. Bytes(counted \ {b}) = Bytes(counted) - Size[b]
        BY <2>3, BytesFacts
    <2>5. counted \ {b} \in SUBSET Blob
        OBVIOUS
    <2>6. Bytes(counted \ {b}) \in Nat
        BY <2>5, BytesFacts
    <2>7. Size[b] \in Nat
        BY <1>2, CacheAssumption
    <2> QED
        BY <1>1, <2>3, <2>4, <2>6, <2>7
<1> QED
    BY <1>1, <1>3, LeaveKeeps DEF DeletePanics

\* The run is done: below the budget, or with nothing left but pins.
LEMMA RunEndsKeeps ==
    ASSUME CacheInv, RunEnds
    PROVE  CacheInv'
<1>1. ASSUME ~Pending, ~lapsed' PROVE Bytes(store') <= Budget \/ store' \subseteq pins
    <2>1. /\ run.pc = "delete" /\ store' = store /\ ~lapsed
          /\ run.total <= Budget \/ run.cands = <<>>
          /\ run.total \in Nat
        BY <1>1, CacheTypes DEF RunEnds, CacheInv
    <2>2. PICK counted \in SUBSET Blob : Counted(counted)
        BY <1>1, <2>1, RunAccount
    <2>3. run.total = Bytes(counted) /\ store \subseteq counted
          /\ store \subseteq pins \cup ToSet(run.cands)
        BY <2>1, <2>2 DEF Counted, Deleting
    <2>4. Bytes(store) <= Bytes(counted) /\ Bytes(store) \in Nat /\ Budget \in Nat
        BY <2>3, BytesFacts, CacheAssumption
    <2>5. CASE run.total <= Budget
        BY <2>1, <2>3, <2>4, <2>5
    <2>6. CASE run.cands = <<>>
        BY <2>1, <2>3, <2>6, DistinctEmpty
    <2> QED
        BY <2>1, <2>5, <2>6
<1>2. /\ run.pc # "off" /\ queue # <<>>
      /\ lapsed' \in BOOLEAN /\ UNCHANGED <<pins, held>>
    BY DEF RunEnds, CacheInv, TypeOK, EvictionQueue
<1> QED
    BY <1>1, <1>2, LeaveKeeps DEF RunEnds

-----------------------------------------------------------------------------
(* The theorems.                                                           *)

LEMMA CacheInit == Init => CacheInv
<1> SUFFICES ASSUME Init PROVE CacheInv
    OBVIOUS
<1>1. TypeOK
    <2>1. queue \in Seq(Requests) /\ lapsed \in BOOLEAN
        BY DistinctEmpty, Zenon DEF Init
    <2>2. req \in [Requests -> [pc : {"idle", "fetching", "stored", "evicting"},
                                blob : Blob \cup {NoBlob}]]
        BY DEF Init, Idle
    <2>3. store \subseteq Blob /\ pins \subseteq Blob /\ held \subseteq pins
        BY DEF Init
    <2> QED
        BY <2>1, <2>2, <2>3, NoRunTyped DEF Init, TypeOK
<1>2. EvictionQueue /\ BlobKnown /\ NoHeldCandidate /\ Accounted
    BY NoRunTyped DEF Init, EvictionQueue, BlobKnown, NoHeldCandidate, Accounted, Idle
<1>3. Settled
    BY DEF Init, Settled
<1> QED
    BY <1>1, <1>2, <1>3 DEF CacheInv

LEMMA CacheStep == CacheInv /\ [Next]_vars => CacheInv'
<1> SUFFICES ASSUME CacheInv, [Next]_vars PROVE CacheInv'
    OBVIOUS
<1>1. ASSUME NEW t \in Requests, NEW b \in Blob, L0Hit(t, b) PROVE CacheInv'
    BY <1>1, CacheStutters DEF L0Hit, vars
<1>2. ASSUME NEW t \in Requests, NEW b \in Blob, L0Miss(t, b) PROVE CacheInv'
    BY <1>2, ResolveKeeps
<1>3. ASSUME NEW t \in Requests, TaskStep(t) PROVE CacheInv'
    BY <1>3, ResolveKeeps, LockKeeps DEF TaskStep
<1>8. ASSUME NEW t \in Requests, Cancel(t) PROVE CacheInv'
    BY <1>8, CancelKeeps
<1>9. ASSUME NEW i \in 1 .. Len(queue), CancelQueued(i) PROVE CacheInv'
    BY <1>9, CancelQueuedKeeps
<1>4. CASE EvictionStep
    BY <1>4, RunBeginsKeeps, SumOneKeeps, WithinBudgetKeeps, ListKeeps,
       ScanErrorKeeps, StoreErrorKeeps, ScanOneKeeps, DeleteBeginsKeeps, DeleteOneKeeps, PanicKeeps,
       RunEndsKeeps DEF EvictionStep
<1>5. ASSUME NEW b \in Pinnable, pin_blob(b) \/ unpin_blob(b) \/ delete_blob(b)
      PROVE  CacheInv'
    <2>1. b \in Blob
        BY CacheAssumption
    <2> QED
        BY <1>5, <2>1, CommandsKeep
<1>6. CASE Restart
    BY <1>6, RestartKeeps
<1>7. CASE UNCHANGED vars
    BY <1>7, CacheStutters
<1> QED
    BY <1>1, <1>2, <1>3, <1>4, <1>5, <1>6, <1>7, <1>8, <1>9 DEF Next

\* The inductive invariant of the cache: the account of the run under way,
\* whatever interleaves with it.
THEOREM CacheInductive == Spec => []CacheInv
    BY CacheInit, CacheStep, PTL DEF Spec

\* EvictionManager::run and its callers keep the types: the total stays a u64.
THEOREM CacheTypeCorrect == Spec => []TypeOK
<1>1. CacheInv => TypeOK
    BY DEF CacheInv
<1> QED
    BY <1>1, CacheInductive, PTL

\* EvictionManager::run: when every request has returned, and no unpin, error,
\* dropped eviction or restart came since the last run began, the cache is
\* within its budget or holds pinned blobs only.
THEOREM BudgetKept == Spec => []QuiescentWithinBudget
<1>1. CacheInv => QuiescentWithinBudget
    <2> SUFFICES ASSUME CacheInv, \A t \in Requests : req[t].pc = "idle", ~lapsed
                 PROVE  Bytes(store) <= Budget \/ store \subseteq pins
        BY DEF QuiescentWithinBudget
    <2>1. Len(queue) = 0
        <3>1. SUFFICES ASSUME Len(queue) > 0 PROVE FALSE
            BY CacheTypes DEF CacheInv
        <3>2. 1 \in 1 .. Len(queue)
            BY <3>1, CacheTypes DEF CacheInv
        <3> QED
            BY <3>2, CacheTypes DEF CacheInv, EvictionQueue
    <2>2. run.pc = "off" /\ ~Pending
        BY <2>1, CacheTypes DEF CacheInv, EvictionQueue, Pending
    <2> QED
        BY <2>2 DEF CacheInv, Settled
<1> QED
    BY <1>1, CacheInductive, PTL

\* The pin test of EvictionManager::run: no step of a run deletes a blob that
\* has been pinned since the run began.
THEOREM PinsSurvive == Spec => HeldPinsSurvive
<1>1. CacheInv /\ [Next]_vars => [EvictionStep => store \cap held \subseteq store']_vars
    <2> SUFFICES ASSUME CacheInv, EvictionStep PROVE store \cap held \subseteq store'
        OBVIOUS
    <2>1. CASE DeleteOne \/ DeletePanics
        <3>1. run.cands # <<>> /\ run.cands \in Seq(Blob) /\ store' = store \ {Head(run.cands)}
            BY <2>1, CacheTypes DEF DeleteOne, DeletePanics, CacheInv
        <3>2. Head(run.cands) \in ToSet(run.cands)
            BY <3>1, DistinctTail
        <3> QED
            BY <3>1, <3>2 DEF CacheInv, NoHeldCandidate
    <2>2. CASE ~(DeleteOne \/ DeletePanics)
        BY <2>2 DEF EvictionStep, RunBegins, SumOne, WithinBudget, ListCandidates,
           ScanError, StoreError, ScanOne, DeleteBegins, RunEnds
    <2> QED
        BY <2>1, <2>2
<1> QED
    BY <1>1, CacheInductive, PTL DEF Spec, HeldPinsSurvive

=============================================================================
