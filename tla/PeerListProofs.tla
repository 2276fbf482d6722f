--------------------------- MODULE PeerListProofs ---------------------------
(***************************************************************************)
(* The bootstrap peers of the desktop app, for any addresses, requests and *)
(* faults: what the list holds, and what a restart brings back.            *)
(***************************************************************************)
EXTENDS PeerList, DataFacts

\* An address once, and each of a peer.
Good(l) ==
    /\ l \in Seq(Address)
    /\ \A i, j \in DOMAIN l : l[i] = l[j] => i = j
    /\ ToSet(l) \subseteq Peers

GoodLists == Good(list) /\ Good(file.list) /\ \A r \in Request : Good(copy[r].list)

CopyTyped == copy \in [Request -> [list : Seq(Address), no : Nat]]

\* Only a request about a peer sends commands, and its rounds are counted.
Talks == {"address", "dial", "poll", "reply", "bootstrap", "disconnect"}
TalksOfPeers ==
    \A r \in Request :
        req[r].pc \in Talks \/ (req[r].pc = "change" /\ req[r].op = "add") =>
            req[r].addr \in Peers
CommandsOfPeers ==
    \A i \in 1 .. Len(chan) :
        req[chan[i].of].pc # "idle" /\ req[chan[i].of].addr \in Peers
PollsLeft ==
    \A r \in Request :
        req[r].pc \in {"idle", "address", "dial", "poll", "reply"} =>
            req[r].polls < POLLS

DownEmpty == ~up => conn = {} /\ chan = <<>>

\* A list that was copied as number n misses only the changes of requests
\* that have not copied the list yet, or have copied it later and not
\* written it.
Saving == {"open", "write"}
Due(r, n) ==
    req[r].pc = "copy" \/ (req[r].pc \in Saving /\ copy[r].no > n)
Fresh(l, n) ==
    \A a \in Address :
        (a \in ToSet(list) <=> a \in ToSet(l))
        \/ \E r \in Request : req[r].addr = a /\ Due(r, n)

CopyNumbers == \A r \in Request : copy[r].no <= newest
CopiesFresh ==
    ~spoilt => \A r \in Request : req[r].pc \in Saving /\ copy[r].no >= written =>
                   Fresh(copy[r].list, copy[r].no)
Quiet == \A r \in Request : req[r].pc # "write"
FileFresh == ~spoilt /\ Quiet => Fresh(file.list, written)

\* While nothing is spoilt, one handler writes at a time, to the file it has
\* truncated, and none across a stop of the app.
SoleWriter ==
    ~spoilt => \A r \in Request : req[r].pc = "write" =>
                   /\ up /\ file = Empty
                   /\ \A q \in Request : req[q].pc = "write" => q = r

Lists == TypeOK /\ CopyTyped /\ GoodLists
Talk  == TalksOfPeers /\ CommandsOfPeers /\ PollsLeft /\ DownEmpty
Sync  == CopyNumbers /\ CopiesFresh /\ FileFresh /\ SoleWriter

IInv == Lists /\ Talk /\ Sync

-----------------------------------------------------------------------------
(* The entries that stay.                                                  *)

Keep(kept, e, a) == IF e = a THEN kept ELSE Append(kept, e)

\* The function the fold is defined with.
Folded(entries, a, iter) ==
    iter = [s \in SUBSET (DOMAIN entries) |->
              IF s = {} THEN <<>>
              ELSE Keep(iter[s \ {Max(s)}], entries[Max(s)], a)]

\* The fold behind Vec::retain, unfolded.
LEMMA RetainUnfolds ==
    ASSUME NEW entries, NEW a
    PROVE  Retain(entries, a)
           = (CHOOSE iter : Folded(entries, a, iter))[DOMAIN entries]
    BY Zenon DEF Retain, FoldLeft, MapThenFoldSet, Folded, Keep

\* There is one: the entries are looked at one after the other.
LEMMA FoldExists ==
    ASSUME NEW entries, NEW a, NEW len \in Nat, DOMAIN entries = 1 .. len
    PROVE  \E iter : Folded(entries, a, iter)
<1> DEFINE Eq(g, n) ==
              g = [s \in SUBSET (1 .. n) |->
                     IF s = {} THEN <<>>
                     ELSE Keep(g[s \ {Max(s)}], entries[Max(s)], a)]
           T == {n \in Nat : \E g : Eq(g, n)}
<1>1. 0 \in T
    <2> DEFINE g == [s \in SUBSET (1 .. 0) |-> <<>>]
    <2>1. \A s \in SUBSET (1 .. 0) : s = {}
        OBVIOUS
    <2>2. Eq(g, 0)
        BY <2>1
    <2> QED
        BY <2>2
<1>2. ASSUME NEW n \in T PROVE n + 1 \in T
    <2>1. PICK g : Eq(g, n)
        OBVIOUS
    <2> DEFINE h == [s \in SUBSET (1 .. n + 1) |->
                       IF n + 1 \in s THEN Keep(g[s \ {n + 1}], entries[n + 1], a)
                       ELSE g[s]]
    <2>2. ASSUME NEW s \in SUBSET (1 .. n + 1)
          PROVE  h[s] = IF s = {} THEN <<>>
                        ELSE Keep(h[s \ {Max(s)}], entries[Max(s)], a)
        <3>1. CASE n + 1 \in s
            <4>1. Max(s) = n + 1
                <5>1. \A y \in s : n + 1 >= y
                    OBVIOUS
                <5>2. \A x \in s : x >= n + 1 => x = n + 1
                    OBVIOUS
                <5> QED
                    BY <3>1, <5>1, <5>2 DEF Max
            <4>2. s \ {n + 1} \in SUBSET (1 .. n) /\ s \ {n + 1} \in SUBSET (1 .. n + 1)
                OBVIOUS
            <4>3. h[s \ {n + 1}] = g[s \ {n + 1}]
                BY <4>2
            <4> QED
                BY <3>1, <4>1, <4>3
        <3>2. CASE n + 1 \notin s
            <4>1. s \in SUBSET (1 .. n)
                BY <3>2
            <4>2. g[s] = IF s = {} THEN <<>>
                         ELSE Keep(g[s \ {Max(s)}], entries[Max(s)], a)
                BY <2>1, <4>1
            <4>3. h[s] = g[s] /\ h[s \ {Max(s)}] = g[s \ {Max(s)}]
                BY <3>2
            <4> QED
                BY <4>2, <4>3
        <3> QED
            BY <3>1, <3>2
    <2>3. Eq(h, n + 1)
        BY <2>2
    <2>4. n + 1 \in Nat
        OBVIOUS
    <2> HIDE DEF h, Eq
    <2> QED
        BY <2>3, <2>4
<1>3. len \in T
    <2> HIDE DEF T
    <2>1. T \in SUBSET Nat
        BY DEF T
    <2> QED
        BY <1>1, <1>2, <2>1, SetInduction
<1>4. PICK g : Eq(g, len)
    BY <1>3
<1> QED
    BY <1>4 DEF Folded

\* What is kept of the first n entries, for each n.
Steps(entries, a, len, f) ==
    /\ f[0] = <<>>
    /\ \A n \in 1 .. len : f[n] = Keep(f[n - 1], entries[n], a)
    /\ Retain(entries, a) = f[len]

\* What the code's closure does, entry by entry.
LEMMA RetainSteps ==
    ASSUME NEW entries, NEW a, NEW len \in Nat, DOMAIN entries = 1 .. len
    PROVE  \E f : Steps(entries, a, len, f)
<1> DEFINE iter == CHOOSE g : Folded(entries, a, g)
           f == [n \in 0 .. len |-> iter[1 .. n]]
<1>1. Folded(entries, a, iter)
    BY FoldExists
<1> HIDE DEF iter
<1>2. f[0] = <<>>
    <2>1. 1 .. 0 = {} /\ {} \in SUBSET (DOMAIN entries)
        OBVIOUS
    <2>2. iter[{}] = <<>>
        BY <1>1, <2>1 DEF Folded
    <2> QED
        BY <2>1, <2>2
<1>3. ASSUME NEW n \in 1 .. len
      PROVE  f[n] = Keep(f[n - 1], entries[n], a)
    <2>1. Max(1 .. n) = n
        <3>1. n \in 1 .. n /\ (\A y \in 1 .. n : n >= y)
            OBVIOUS
        <3>2. \A x \in 1 .. n : x >= n => x = n
            OBVIOUS
        <3> QED
            BY <3>1, <3>2 DEF Max
    <2>2. /\ 1 .. n # {} /\ (1 .. n) \ {n} = 1 .. n - 1
          /\ 1 .. n \in SUBSET (DOMAIN entries)
        <3>1. n \in 1 .. n /\ 1 .. n \subseteq 1 .. len
            OBVIOUS
        <3>2. (1 .. n) \ {n} = 1 .. n - 1
            OBVIOUS
        <3> QED
            BY <3>1, <3>2
    <2>3. iter[1 .. n] = Keep(iter[(1 .. n) \ {Max(1 .. n)}], entries[Max(1 .. n)], a)
        BY <1>1, <2>2 DEF Folded
    <2>4. f[n] = iter[1 .. n] /\ f[n - 1] = iter[1 .. n - 1]
        OBVIOUS
    <2> QED
        BY <2>1, <2>2, <2>3, <2>4
<1>4. Retain(entries, a) = f[len]
    BY RetainUnfolds DEF iter
<1>5. Steps(entries, a, len, f)
    BY <1>2, <1>3, <1>4 DEF Steps
<1> QED
    BY <1>5

\* An entry that was not there may be added.
LEMMA GoodAppend ==
    ASSUME NEW l, Good(l), NEW e \in Peers, e \notin ToSet(l)
    PROVE  Good(Append(l, e)) /\ ToSet(Append(l, e)) = ToSet(l) \cup {e}
<1>1. l \in Seq(Address) /\ e \in Address
    BY DEF Good, Peers
<1>2. /\ Append(l, e) \in Seq(Address)
      /\ DOMAIN l = 1 .. Len(l) /\ Len(l) \in Nat
      /\ DOMAIN Append(l, e) = 1 .. Len(l) + 1
      /\ \A i \in 1 .. Len(l) : Append(l, e)[i] = l[i]
      /\ Append(l, e)[Len(l) + 1] = e
      /\ ToSet(Append(l, e)) = ToSet(l) \cup {e}
    BY <1>1, AppendFacts
<1>3. \A i \in 1 .. Len(l) : l[i] # e
    BY <1>2 DEF ToSet
<1>4. \A i \in 1 .. Len(l) + 1 : i \in 1 .. Len(l) \/ i = Len(l) + 1
    BY <1>2
<1>5. \A i, j \in 1 .. Len(l) + 1 : Append(l, e)[i] = Append(l, e)[j] => i = j
    BY <1>2, <1>3, <1>4 DEF Good
<1> QED
    BY <1>2, <1>5 DEF Good

\* retain takes out the one address and nothing else.
LEMMA RetainFacts ==
    ASSUME NEW l, Good(l), NEW a
    PROVE  Good(Retain(l, a)) /\ ToSet(Retain(l, a)) = ToSet(l) \ {a}
<1>1. /\ l \in Seq(Address) /\ Len(l) \in Nat /\ DOMAIN l = 1 .. Len(l)
      /\ \A i, j \in 1 .. Len(l) : l[i] = l[j] => i = j
      /\ \A i \in 1 .. Len(l) : l[i] \in Peers
    BY DEF Good, ToSet
<1>2. PICK f : Steps(l, a, Len(l), f)
    BY <1>1, RetainSteps
<1> DEFINE P(n) == /\ Good(f[n])
                   /\ \A e : e \in ToSet(f[n]) <=>
                              e # a /\ \E i \in 1 .. n : l[i] = e
           T == {n \in Nat : n <= Len(l) => P(n)}
<1>3. 0 \in T
    <2>1. f[0] = <<>>
        BY <1>2 DEF Steps
    <2>2. ToSet(<<>>) = {} /\ Good(<<>>)
        BY DEF ToSet, Good
    <2>3. 1 .. 0 = {}
        OBVIOUS
    <2>4. P(0)
        BY <2>1, <2>2, <2>3
    <2> HIDE DEF P
    <2> QED
        BY <2>4
<1>4. ASSUME NEW n \in T PROVE n + 1 \in T
    <2>1. n \in Nat /\ n + 1 \in Nat
        OBVIOUS
    <2>2. SUFFICES ASSUME n + 1 <= Len(l) PROVE P(n + 1)
        BY <2>1
    <2>3. n <= Len(l) /\ n + 1 \in 1 .. Len(l) /\ (n + 1) - 1 = n
        BY <1>1, <2>1, <2>2
    <2>4. P(n)
        BY <2>3
    <2>5. f[n + 1] = Keep(f[n], l[n + 1], a)
        BY <1>2, <2>3 DEF Steps
    <2>6. \A i \in 1 .. n + 1 : i \in 1 .. n \/ i = n + 1
        BY <2>1
    <2>7. 1 .. n \subseteq 1 .. n + 1 /\ n + 1 \in 1 .. n + 1
          /\ 1 .. n \subseteq 1 .. Len(l) /\ n + 1 \notin 1 .. n
        BY <2>1, <2>3, <1>1
    <2>8. CASE l[n + 1] = a
        <3>1. f[n + 1] = f[n]
            BY <2>5, <2>8 DEF Keep
        <3>2. Good(f[n + 1])
            BY <3>1, <2>4
        <3>3. ASSUME NEW e
              PROVE  e \in ToSet(f[n + 1]) <=>
                         e # a /\ \E i \in 1 .. n + 1 : l[i] = e
            BY <3>1, <2>4, <2>6, <2>7, <2>8
        <3> QED
            BY <3>2, <3>3
    <2>9. CASE l[n + 1] # a
        <3>1. f[n + 1] = Append(f[n], l[n + 1])
            BY <2>5, <2>9 DEF Keep
        <3>2. l[n + 1] \notin ToSet(f[n])
            BY <2>4, <2>3, <2>7, <1>1
        <3>3. l[n + 1] \in Peers
            BY <2>3, <1>1
        <3>4. Good(f[n + 1]) /\ ToSet(f[n + 1]) = ToSet(f[n]) \cup {l[n + 1]}
            BY <3>1, <3>2, <3>3, <2>4, GoodAppend
        <3>5. ASSUME NEW e
              PROVE  e \in ToSet(f[n + 1]) <=>
                         e # a /\ \E i \in 1 .. n + 1 : l[i] = e
            BY <3>4, <2>4, <2>6, <2>7, <2>9
        <3> QED
            BY <3>4, <3>5
    <2> QED
        BY <2>8, <2>9
<1>5. Len(l) \in T
    <2> HIDE DEF T
    <2>1. T \in SUBSET Nat
        BY DEF T
    <2> QED
        BY <1>1, <1>3, <1>4, <2>1, SetInduction
<1>6. P(Len(l)) /\ Retain(l, a) = f[Len(l)]
    BY <1>1, <1>2, <1>5 DEF Steps
<1>7. \A e : e \in ToSet(l) <=> \E i \in 1 .. Len(l) : l[i] = e
    BY <1>1 DEF ToSet
<1> QED
    BY <1>6, <1>7

-----------------------------------------------------------------------------
(* What a step may do to the requests.                                     *)

\* One request goes to another place in its handler, and keeps the rest.
Moves(r, pc) ==
    /\ req' \in [Request -> Requests]
    /\ \A q \in Request : q # r => req'[q] = req[q]
    /\ req'[r].pc = pc
    /\ req'[r].op = req[r].op /\ req'[r].addr = req[r].addr
    /\ req'[r].polls = req[r].polls

\* A Goto moves one request.
LEMMA GotoMoves ==
    ASSUME TypeOK, NEW r \in Request, NEW pc \in Pc, Goto(r, pc)
    PROVE  Moves(r, pc)
<1>1. req \in [Request -> Requests]
    BY DEF TypeOK
<1>2. req[r] \in Requests
    BY <1>1
<1> DEFINE x == [req[r] EXCEPT !.pc = pc]
<1>3. x \in Requests /\ x.pc = pc /\ x.op = req[r].op /\ x.addr = req[r].addr
      /\ x.polls = req[r].polls
    BY <1>2 DEF Requests
<1>4. req' = [req EXCEPT ![r] = x]
    BY DEF Goto
<1> HIDE DEF x
<1> QED
    BY <1>1, <1>3, <1>4 DEF Moves

\* The requests whose change is not in the file yet.
Changes == {"copy", "open", "write"}

\* Nothing changes for the list and its copies when requests move before
\* their change, or have ended.
LEMMA SyncKept ==
    ASSUME Sync, up' = up, list' = list, file' = file, copy' = copy,
           newest' = newest, written' = written, spoilt' = spoilt,
           \A r \in Request :
               \/ req'[r].pc = req[r].pc /\ req'[r].addr = req[r].addr
               \/ req'[r].pc \notin Changes /\ req[r].pc \notin Changes
    PROVE  Sync'
<1>1. \A r \in Request : req'[r].pc \in Changes => req'[r].pc = req[r].pc
    OBVIOUS
<1>2. \A r \in Request : req[r].pc \in Changes =>
          req'[r].pc = req[r].pc /\ req'[r].addr = req[r].addr
    OBVIOUS
<1>3. ASSUME NEW l, NEW n, Fresh(l, n) PROVE Fresh(l, n)'
    BY <1>2, <1>3 DEF Fresh, Due, Saving, Changes
<1>4. CopyNumbers'
    BY DEF Sync, CopyNumbers
<1>5. CopiesFresh'
    <2> SUFFICES ASSUME ~spoilt, NEW r \in Request, req'[r].pc \in Saving,
                        copy[r].no >= written
                 PROVE  Fresh(copy[r].list, copy[r].no)'
        BY DEF CopiesFresh
    <2>1. req[r].pc \in Saving
        BY <1>1 DEF Saving, Changes
    <2>2. Fresh(copy[r].list, copy[r].no)
        BY <2>1 DEF Sync, CopiesFresh
    <2> QED
        BY <2>2, <1>3
<1>6. FileFresh'
    <2>1. Quiet' => Quiet
        BY <1>2 DEF Quiet, Changes
    <2>2. Fresh(file.list, written) => Fresh(file.list, written)'
        BY <1>3
    <2> QED
        BY <2>1, <2>2 DEF Sync, FileFresh
<1>7. SoleWriter'
    BY <1>1 DEF Sync, SoleWriter, Changes
<1> QED
    BY <1>4, <1>5, <1>6, <1>7 DEF Sync

\* Once the file may miss a change nothing is claimed of it.
LEMMA SyncSpoilt ==
    ASSUME Sync, spoilt', copy' = copy, newest' = newest
    PROVE  Sync'
    BY DEF Sync, CopyNumbers, CopiesFresh, FileFresh, SoleWriter

\* A request that moves keeps what is known of the commands, if it is about
\* a peer wherever it sends commands.
LEMMA TalkMoves ==
    ASSUME TypeOK, Talk, NEW r \in Request, NEW pc \in Pc, Moves(r, pc),
           req[r].pc # "idle", pc # "idle", chan' = chan, conn' = conn, up' = up,
           pc \in Talks \/ (pc = "change" /\ req[r].op = "add") => req[r].addr \in Peers,
           pc \in {"address", "dial", "poll", "reply"} => req[r].polls < POLLS
    PROVE  Talk'
<1>1. TalksOfPeers'
    BY DEF Talk, TalksOfPeers, Moves
<1>2. CommandsOfPeers'
    <2> SUFFICES ASSUME NEW i \in 1 .. Len(chan)
                 PROVE  req'[chan[i].of].pc # "idle" /\ req'[chan[i].of].addr \in Peers
        BY DEF CommandsOfPeers
    <2>1. chan[i] \in Commands
        BY DEF TypeOK
    <2>2. chan[i].of \in Request
        BY <2>1 DEF Commands
    <2>3. req[chan[i].of].pc # "idle" /\ req[chan[i].of].addr \in Peers
        BY DEF Talk, CommandsOfPeers
    <2> QED
        BY <2>2, <2>3 DEF Moves
<1>3. PollsLeft'
    BY DEF Talk, PollsLeft, Moves
<1>4. DownEmpty'
    BY DEF Talk, DownEmpty
<1> QED
    BY <1>1, <1>2, <1>3, <1>4 DEF Talk

-----------------------------------------------------------------------------
(* The handlers.                                                           *)

\* The lists are in order as long as none of them changes.
LEMMA ListsKept ==
    ASSUME Lists, list' = list, file' = file, copy' = copy,
           newest' = newest, written' = written, TypeOK'
    PROVE  Lists'
    BY DEF Lists, CopyTyped, GoodLists, Good

\* A request begins, with commands only for the address of a peer.
LEMMA BeginKeeps ==
    ASSUME IInv, NEW r \in Request, NEW op \in {"add", "remove"}, NEW a \in Address,
           NEW pc \in {"address", "disconnect", "change", "error"}, Begin(r, op, a, pc),
           pc \in Talks \/ (pc = "change" /\ op = "add") => a \in Peers
    PROVE  IInv'
<1>1. TypeOK /\ Talk /\ Sync /\ Lists
    BY DEF IInv, Lists
<1>2. req \in [Request -> Requests] /\ req[r] \in Requests
    BY <1>1 DEF TypeOK
<1> DEFINE x == [req[r] EXCEPT !.op = op, !.addr = a, !.pc = pc]
<1>3. x \in Requests /\ x.pc = pc /\ x.op = op /\ x.addr = a
      /\ x.polls = req[r].polls
    BY <1>2 DEF Requests, Pc
<1>4. req' = [req EXCEPT ![r] = x]
    BY DEF Begin
<1> HIDE DEF x
<1>5. /\ req' \in [Request -> Requests] /\ req'[r] = x
      /\ \A q \in Request : q # r => req'[q] = req[q]
    BY <1>2, <1>3, <1>4
<1>6. /\ up' = up /\ list' = list /\ file' = file /\ copy' = copy
      /\ newest' = newest /\ written' = written /\ spoilt' = spoilt
      /\ chan' = chan /\ loop' = loop /\ known' = known /\ conn' = conn
      /\ faults' = faults /\ req[r].pc = "idle"
    BY DEF Begin, swarmVars, history
<1>7. TypeOK'
    BY <1>1, <1>5, <1>6 DEF TypeOK
<1>8. Sync'
    <2>1. \A q \in Request :
             \/ req'[q].pc = req[q].pc /\ req'[q].addr = req[q].addr
             \/ req'[q].pc \notin Changes /\ req[q].pc \notin Changes
        BY <1>3, <1>5, <1>6 DEF Changes
    <2> QED
        BY <1>1, <1>6, <2>1, SyncKept
<1>9. Talk'
    <2>1. TalksOfPeers'
        BY <1>1, <1>3, <1>5 DEF Talk, TalksOfPeers
    <2>2. CommandsOfPeers'
        <3> SUFFICES ASSUME NEW i \in 1 .. Len(chan)
                     PROVE  req'[chan[i].of].pc # "idle" /\ req'[chan[i].of].addr \in Peers
            BY <1>6 DEF CommandsOfPeers
        <3>1. chan[i] \in Commands
            BY <1>1 DEF TypeOK
        <3>2. chan[i].of \in Request
            BY <3>1 DEF Commands
        <3>3. req[chan[i].of].pc # "idle" /\ req[chan[i].of].addr \in Peers
            BY <1>1 DEF Talk, CommandsOfPeers
        <3> QED
            BY <3>2, <3>3, <1>5, <1>6
    <2>3. PollsLeft'
        BY <1>1, <1>3, <1>5, <1>6 DEF Talk, PollsLeft
    <2>4. DownEmpty'
        BY <1>1, <1>6 DEF Talk, DownEmpty
    <2> QED
        BY <2>1, <2>2, <2>3, <2>4 DEF Talk
<1> QED
    BY <1>1, <1>6, <1>7, <1>8, <1>9, ListsKept DEF IInv

\* A command in the channel is of a request about a peer.
LEMMA SendKeeps ==
    ASSUME IInv, NEW r \in Request, NEW pc \in Talks, NEW next \in Pc, NEW failed \in Pc,
           NEW cmd \in {"AddBootstrapPeer", "Dial", "GetConnectedPeers",
                        "Bootstrap", "Disconnect"},
           SendThen(r, pc, cmd, next, failed),
           next \in {"dial", "poll", "reply", "bootstrap", "change"},
           failed \in {"error", "bootstrap", "change"},
           next \in {"dial", "poll", "reply"} => pc \in {"address", "dial", "poll"}
    PROVE  IInv'
<1>1. TypeOK /\ Talk /\ Sync /\ Lists
    BY DEF IInv, Lists
<1>2. /\ up' = up /\ list' = list /\ file' = file /\ copy' = copy
      /\ newest' = newest /\ written' = written /\ spoilt' = spoilt
      /\ loop' = loop /\ known' = known /\ conn' = conn
      /\ faults' = faults /\ req[r].pc = pc /\ up
    BY DEF SendThen, At, history
<1>3. req[r].addr \in Peers
    BY <1>1, <1>2 DEF Talk, TalksOfPeers
<1>4. PICK to \in {next, failed} :
          /\ Goto(r, to)
          /\ Send(r, cmd) \/ chan' = chan
    BY DEF SendThen
<1>5. /\ Moves(r, to) /\ to \in Pc /\ to # "idle"
      /\ to \in {"dial", "poll", "reply"} => pc \in {"address", "dial", "poll"}
      /\ to \notin Changes /\ pc \notin Changes /\ pc # "idle" /\ to # "address"
    BY <1>1, <1>4, GotoMoves DEF Talks, Changes
<1>6. /\ chan' \in Seq(Commands) /\ Len(chan') <= ChanCap
      /\ \A i \in 1 .. Len(chan') :
             chan'[i].of = r \/ (i \in 1 .. Len(chan) /\ chan'[i] = chan[i])
    <2>1. chan \in Seq(Commands) /\ Len(chan) <= ChanCap
        BY <1>1 DEF TypeOK
    <2>2. CASE chan' = chan
        BY <2>1, <2>2
    <2>3. CASE Send(r, cmd)
        <3> DEFINE c == [cmd |-> cmd, of |-> r]
        <3>1. c \in Commands /\ c.of = r
            BY DEF Commands
        <3>2. chan' = Append(chan, c) /\ Len(chan) < ChanCap
            BY <2>3 DEF Send
        <3> HIDE DEF c
        <3>3. /\ Append(chan, c) \in Seq(Commands) /\ Len(chan) \in Nat
              /\ Len(Append(chan, c)) = Len(chan) + 1
              /\ \A i \in 1 .. Len(chan) : Append(chan, c)[i] = chan[i]
              /\ Append(chan, c)[Len(chan) + 1] = c
            BY <2>1, <3>1, AppendFacts
        <3>4. \A i \in 1 .. Len(chan) + 1 : i \in 1 .. Len(chan) \/ i = Len(chan) + 1
            BY <3>3
        <3>5. Len(chan) + 1 <= ChanCap
            BY <3>2, <3>3, PeerListAssumption
        <3> QED
            BY <3>1, <3>2, <3>3, <3>4, <3>5
    <2> QED
        BY <1>4, <2>2, <2>3
<1>7. TypeOK'
    BY <1>1, <1>2, <1>5, <1>6 DEF TypeOK, Moves
<1>8. Sync'
    <2>1. \A q \in Request :
             \/ req'[q].pc = req[q].pc /\ req'[q].addr = req[q].addr
             \/ req'[q].pc \notin Changes /\ req[q].pc \notin Changes
        BY <1>2, <1>5 DEF Moves
    <2> QED
        BY <1>1, <1>2, <2>1, SyncKept
<1>9. Talk'
    <2>1. TalksOfPeers'
        BY <1>1, <1>3, <1>5 DEF Talk, TalksOfPeers, Moves
    <2>2. CommandsOfPeers'
        <3> SUFFICES ASSUME NEW i \in 1 .. Len(chan')
                     PROVE  req'[chan'[i].of].pc # "idle" /\ req'[chan'[i].of].addr \in Peers
            BY DEF CommandsOfPeers
        <3>1. CASE chan'[i].of = r
            BY <3>1, <1>3, <1>5 DEF Moves
        <3>2. CASE i \in 1 .. Len(chan) /\ chan'[i] = chan[i]
            <4>1. chan[i] \in Commands
                BY <1>1, <3>2 DEF TypeOK
            <4>2. chan[i].of \in Request
                BY <4>1 DEF Commands
            <4>3. req[chan[i].of].pc # "idle" /\ req[chan[i].of].addr \in Peers
                BY <1>1, <3>2 DEF Talk, CommandsOfPeers
            <4> QED
                BY <3>2, <4>2, <4>3, <1>5 DEF Moves
        <3> QED
            BY <1>6, <3>1, <3>2
    <2>3. PollsLeft'
        <3>1. to \in {"dial", "poll", "reply"} => req[r].polls < POLLS
            BY <1>1, <1>2, <1>5 DEF Talk, PollsLeft
        <3> QED
            BY <1>1, <1>5, <3>1 DEF Talk, PollsLeft, Moves
    <2>4. DownEmpty'
        BY <1>2 DEF DownEmpty
    <2> QED
        BY <2>1, <2>2, <2>3, <2>4 DEF Talk
<1> QED
    BY <1>1, <1>2, <1>7, <1>8, <1>9, ListsKept DEF IInv

\* A round of polling ends; the last one leads out of the loop.
LEMMA PollKeeps ==
    ASSUME IInv, NEW r \in Request, PollAnswered(r)
    PROVE  IInv'
<1>1. TypeOK /\ Talk /\ Sync /\ Lists
    BY DEF IInv, Lists
<1>2. /\ up' = up /\ list' = list /\ file' = file /\ copy' = copy
      /\ newest' = newest /\ written' = written /\ spoilt' = spoilt
      /\ chan' = chan /\ loop' = loop /\ known' = known /\ conn' = conn
      /\ faults' = faults /\ req[r].pc = "reply" /\ up
    BY DEF PollAnswered, At, swarmVars, history
<1>3. req \in [Request -> Requests] /\ req[r] \in Requests
    BY <1>1 DEF TypeOK
<1>4. req[r].addr \in Peers /\ req[r].polls \in Nat /\ req[r].polls < POLLS
    BY <1>1, <1>2, <1>3 DEF Talk, TalksOfPeers, PollsLeft, Talks, Requests
<1> DEFINE to == IF req[r].reply = "connected" \/ req[r].polls + 1 = POLLS
                 THEN "bootstrap" ELSE "poll"
           x == [req[r] EXCEPT !.pc = to, !.polls = @ + 1, !.reply = "none"]
<1>5. /\ to \in {"bootstrap", "poll"} /\ req[r].polls + 1 \in 0 .. POLLS
      /\ to = "poll" => req[r].polls + 1 < POLLS
    BY <1>4, PeerListAssumption
<1>6. req' = [req EXCEPT ![r] = x]
    BY <1>3 DEF PollAnswered
<1> HIDE DEF to
<1>7. x \in Requests /\ x.pc = to /\ x.op = req[r].op /\ x.addr = req[r].addr
      /\ x.polls = req[r].polls + 1
    BY <1>3, <1>5 DEF Requests, Pc
<1> HIDE DEF x
<1>8. /\ req' \in [Request -> Requests] /\ req'[r] = x
      /\ \A q \in Request : q # r => req'[q] = req[q]
    BY <1>3, <1>6, <1>7
<1>9. TypeOK'
    BY <1>1, <1>2, <1>8 DEF TypeOK
<1>10. Sync'
    <2>1. \A q \in Request :
             \/ req'[q].pc = req[q].pc /\ req'[q].addr = req[q].addr
             \/ req'[q].pc \notin Changes /\ req[q].pc \notin Changes
        BY <1>2, <1>5, <1>7, <1>8 DEF Changes
    <2> QED
        BY <1>1, <1>2, <2>1, SyncKept
<1>11. Talk'
    <2>1. TalksOfPeers'
        BY <1>1, <1>4, <1>7, <1>8 DEF Talk, TalksOfPeers
    <2>2. CommandsOfPeers'
        <3> SUFFICES ASSUME NEW i \in 1 .. Len(chan)
                     PROVE  req'[chan[i].of].pc # "idle" /\ req'[chan[i].of].addr \in Peers
            BY <1>2 DEF CommandsOfPeers
        <3>1. chan[i] \in Commands
            BY <1>1 DEF TypeOK
        <3>2. chan[i].of \in Request
            BY <3>1 DEF Commands
        <3>3. req[chan[i].of].pc # "idle" /\ req[chan[i].of].addr \in Peers
            BY <1>1 DEF Talk, CommandsOfPeers
        <3> QED
            BY <3>2, <3>3, <1>4, <1>5, <1>7, <1>8
    <2>3. PollsLeft'
        BY <1>1, <1>5, <1>7, <1>8 DEF Talk, PollsLeft
    <2>4. DownEmpty'
        BY <1>1, <1>2 DEF Talk, DownEmpty
    <2> QED
        BY <2>1, <2>2, <2>3, <2>4 DEF Talk
<1> QED
    BY <1>1, <1>2, <1>9, <1>10, <1>11, ListsKept DEF IInv

\* The list has its new value: it differs from the old one in the address of
\* the request only, and is in order.
LEMMA ChangedFacts ==
    ASSUME IInv, NEW r \in Request, req[r].pc = "change"
    PROVE  /\ Good(Changed(r))
           /\ \A a : a # req[r].addr => (a \in ToSet(Changed(r)) <=> a \in ToSet(list))
<1>1. Good(list) /\ TypeOK /\ Talk
    BY DEF IInv, Lists, GoodLists
<1>2. req[r] \in Requests
    BY <1>1 DEF TypeOK
<1>3. req[r].op \in {"add", "remove"}
    BY <1>2 DEF Requests
<1>4. CASE req[r].op = "remove"
    <2>1. Changed(r) = Retain(list, req[r].addr)
        BY <1>4 DEF Changed
    <2>2. Good(Retain(list, req[r].addr))
          /\ ToSet(Retain(list, req[r].addr)) = ToSet(list) \ {req[r].addr}
        BY <1>1, RetainFacts
    <2> QED
        BY <2>1, <2>2
<1>5. CASE req[r].op = "add" /\ Contains(list, req[r].addr)
    BY <1>1, <1>5 DEF Changed
<1>6. CASE req[r].op = "add" /\ ~Contains(list, req[r].addr)
    <2>1. Changed(r) = Append(list, req[r].addr)
        BY <1>6 DEF Changed
    <2>2. req[r].addr \in Peers
        BY <1>1, <1>6 DEF Talk, TalksOfPeers
    <2>3. DOMAIN list = 1 .. Len(list)
        BY <1>1 DEF Good
    <2>4. req[r].addr \notin ToSet(list)
        BY <1>6, <2>3 DEF Contains, ToSet
    <2>5. Good(Append(list, req[r].addr))
          /\ ToSet(Append(list, req[r].addr)) = ToSet(list) \cup {req[r].addr}
        BY <1>1, <2>2, <2>4, GoodAppend
    <2> QED
        BY <2>1, <2>5
<1> QED
    BY <1>3, <1>4, <1>5, <1>6

\* A change is due in every copy and in the file.
LEMMA ChangeKeeps ==
    ASSUME IInv, NEW r \in Request, Change(r)
    PROVE  IInv'
<1>1. TypeOK /\ Talk /\ Sync /\ Lists
    BY DEF IInv, Lists
<1>2. /\ up' = up /\ list' = Changed(r) /\ file' = file /\ copy' = copy
      /\ newest' = newest /\ written' = written /\ spoilt' = spoilt
      /\ chan' = chan /\ loop' = loop /\ known' = known /\ conn' = conn
      /\ faults' = faults /\ req[r].pc = "change" /\ Goto(r, "copy")
    BY DEF Change, At, swarmVars, history
<1>3. Moves(r, "copy")
    BY <1>1, <1>2, GotoMoves DEF Pc
<1>4. /\ Good(list')
      /\ \A a : a # req[r].addr => (a \in ToSet(list') <=> a \in ToSet(list))
    BY <1>2, ChangedFacts
<1>5. Lists'
    <2>1. TypeOK'
        BY <1>1, <1>2, <1>3, <1>4 DEF TypeOK, Moves, Good
    <2> QED
        BY <1>1, <1>2, <1>4, <2>1 DEF Lists, CopyTyped, GoodLists, Good
<1>6. Talk'
    BY <1>1, <1>2, <1>3, TalkMoves DEF Pc, Talks
<1>7. ASSUME NEW l, NEW n, Fresh(l, n) PROVE Fresh(l, n)'
    <2>1. \A q \in Request : Due(q, n) => Due(q, n)' /\ req'[q].addr = req[q].addr
        BY <1>2, <1>3 DEF Due, Moves, Saving
    <2>2. Due(r, n)' /\ req'[r].addr = req[r].addr
        BY <1>3 DEF Due, Moves
    <2>3. ASSUME NEW a \in Address
          PROVE  \/ (a \in ToSet(list') <=> a \in ToSet(l))
                 \/ \E q \in Request : req'[q].addr = a /\ Due(q, n)'
        <3>1. CASE a = req[r].addr
            BY <2>2, <3>1
        <3>2. CASE a # req[r].addr
            <4>1. (a \in ToSet(list) <=> a \in ToSet(l))
                  \/ \E q \in Request : req[q].addr = a /\ Due(q, n)
                BY <1>7 DEF Fresh
            <4>2. a \in ToSet(list') <=> a \in ToSet(list)
                BY <1>4, <3>2
            <4> QED
                BY <2>1, <4>1, <4>2
        <3> QED
            BY <3>1, <3>2
    <2> QED
        BY <2>3 DEF Fresh
<1>8. Sync'
    <2>1. CopyNumbers'
        BY <1>1, <1>2 DEF Sync, CopyNumbers
    <2>2. CopiesFresh'
        <3> SUFFICES ASSUME ~spoilt, NEW q \in Request, req'[q].pc \in Saving,
                            copy[q].no >= written
                     PROVE  Fresh(copy[q].list, copy[q].no)'
            BY <1>2 DEF CopiesFresh
        <3>1. req[q].pc \in Saving
            BY <1>3 DEF Moves, Saving
        <3>2. Fresh(copy[q].list, copy[q].no)
            BY <1>1, <3>1 DEF Sync, CopiesFresh
        <3> QED
            BY <1>2, <1>7, <3>2
    <2>3. FileFresh'
        <3>1. Quiet' => Quiet
            BY <1>2, <1>3 DEF Quiet, Moves
        <3>2. Fresh(file.list, written) => Fresh(file.list, written)'
            BY <1>2, <1>7
        <3> QED
            BY <1>1, <1>2, <3>1, <3>2 DEF Sync, FileFresh
    <2>4. SoleWriter'
        <3>1. \A q \in Request : req'[q].pc = "write" => req[q].pc = "write"
            BY <1>3 DEF Moves
        <3> QED
            BY <1>1, <1>2, <3>1 DEF Sync, SoleWriter
    <2> QED
        BY <2>1, <2>2, <2>3, <2>4 DEF Sync
<1> QED
    BY <1>5, <1>6, <1>8 DEF IInv

\* The newest copy is the list as it is, and all earlier copies are older.
LEMMA CopyKeeps ==
    ASSUME IInv, NEW r \in Request, Copy(r)
    PROVE  IInv'
<1>1. TypeOK /\ Talk /\ Sync /\ Lists /\ Good(list)
    BY DEF IInv, Lists, GoodLists
<1>2. /\ up' = up /\ list' = list /\ file' = file
      /\ copy' = [copy EXCEPT ![r] = [list |-> list, no |-> newest + 1]]
      /\ newest' = newest + 1 /\ written' = written /\ spoilt' = spoilt
      /\ chan' = chan /\ loop' = loop /\ known' = known /\ conn' = conn
      /\ faults' = faults /\ req[r].pc = "copy" /\ Goto(r, "open")
    BY DEF Copy, At, swarmVars
<1>3. Moves(r, "open")
    BY <1>1, <1>2, GotoMoves DEF Pc
<1>4. /\ copy \in [Request -> [list : Seq(Address), no : Nat]]
      /\ newest \in Nat /\ written \in Nat /\ written <= newest
      /\ \A q \in Request : copy[q].no \in Nat /\ copy[q].no <= newest
    BY <1>1 DEF Lists, CopyTyped, TypeOK, Sync, CopyNumbers
<1>5. /\ copy' \in [Request -> [list : Seq(Address), no : Nat]]
      /\ copy'[r].list = list /\ copy'[r].no = newest + 1
      /\ \A q \in Request : q # r => copy'[q] = copy[q]
    BY <1>1, <1>2, <1>4 DEF Good
<1>6. Lists'
    <2>1. TypeOK'
        BY <1>1, <1>2, <1>3, <1>4, <1>5 DEF TypeOK, Moves
    <2>2. CopyTyped'
        BY <1>5 DEF CopyTyped
    <2>3. GoodLists'
        <3>1. Good(list') /\ Good(file'.list)
            BY <1>1, <1>2 DEF Lists, GoodLists
        <3>2. \A q \in Request : Good(copy'[q].list)
            BY <1>1, <1>5 DEF Lists, GoodLists
        <3> QED
            BY <3>1, <3>2 DEF GoodLists, Good
    <2> QED
        BY <2>1, <2>2, <2>3 DEF Lists
<1>7. Talk'
    BY <1>1, <1>2, <1>3, TalkMoves DEF Pc, Talks
<1>8. ASSUME NEW l, NEW n \in Nat, n <= newest, Fresh(l, n) PROVE Fresh(l, n)'
    <2>1. Due(r, n)' /\ req'[r].addr = req[r].addr
        BY <1>3, <1>4, <1>5, <1>8 DEF Due, Moves, Saving
    <2>2. \A q \in Request : Due(q, n) => Due(q, n)' /\ req'[q].addr = req[q].addr
        BY <2>1, <1>3, <1>5 DEF Due, Moves, Saving
    <2> QED
        BY <1>2, <1>8, <2>2 DEF Fresh
<1>9. Sync'
    <2>1. CopyNumbers'
        BY <1>2, <1>4, <1>5 DEF CopyNumbers
    <2>2. CopiesFresh'
        <3> SUFFICES ASSUME ~spoilt, NEW q \in Request, req'[q].pc \in Saving,
                            copy'[q].no >= written
                     PROVE  Fresh(copy[q].list, copy[q].no)'
            BY <1>2 DEF CopiesFresh
        <3>1. CASE q = r
            BY <3>1, <1>2, <1>5 DEF Fresh
        <3>2. CASE q # r
            <4>1. req[q].pc \in Saving /\ copy'[q] = copy[q]
                BY <1>3, <1>5, <3>2 DEF Moves
            <4>2. Fresh(copy[q].list, copy[q].no)
                BY <1>1, <4>1 DEF Sync, CopiesFresh
            <4> QED
                BY <1>4, <1>8, <4>1, <4>2
        <3> QED
            BY <3>1, <3>2
    <2>3. FileFresh'
        <3>1. Quiet' => Quiet
            BY <1>2, <1>3 DEF Quiet, Moves
        <3>2. Fresh(file.list, written) => Fresh(file.list, written)'
            BY <1>2, <1>4, <1>8
        <3> QED
            BY <1>1, <1>2, <3>1, <3>2 DEF Sync, FileFresh
    <2>4. SoleWriter'
        <3>1. \A q \in Request : req'[q].pc = "write" => req[q].pc = "write"
            BY <1>3 DEF Moves
        <3> QED
            BY <1>1, <1>2, <3>1 DEF Sync, SoleWriter
    <2> QED
        BY <2>1, <2>2, <2>3, <2>4 DEF Sync
<1> QED
    BY <1>6, <1>7, <1>9 DEF IInv

\* The list of an empty or a broken file.
LEMMA NothingGood == Good(<<>>) /\ ToSet(<<>>) = {}
    BY DEF Good, ToSet

\* A file that was truncated has one writer, or may miss a change.
LEMMA OpenKeeps ==
    ASSUME IInv, NEW r \in Request, OpenFile(r)
    PROVE  IInv'
<1>1. TypeOK /\ Talk /\ Sync /\ Lists
    BY DEF IInv, Lists
<1>2. /\ up' = up /\ list' = list /\ file' = Empty /\ copy' = copy
      /\ newest' = newest /\ written' = written
      /\ chan' = chan /\ loop' = loop /\ known' = known /\ conn' = conn
      /\ faults' = faults /\ up /\ req[r].pc = "open" /\ Goto(r, "write")
      /\ spoilt' \in BOOLEAN
      /\ ~spoilt' => ~spoilt /\ \A q \in Request : req[q].pc # "write"
    BY DEF OpenFile, At, swarmVars
<1>3. Moves(r, "write")
    BY <1>1, <1>2, GotoMoves DEF Pc
<1>4. file' \in [bytes: {"json", "none", "mixed"}, list: Seq(Address)]
      /\ Good(file'.list)
    BY <1>2, NothingGood DEF Empty, Good
<1>5. Lists'
    <2>1. TypeOK'
        BY <1>1, <1>2, <1>3, <1>4 DEF TypeOK, Moves
    <2> QED
        BY <1>1, <1>2, <1>4, <2>1 DEF Lists, CopyTyped, GoodLists, Good
<1>6. Talk'
    BY <1>1, <1>2, <1>3, TalkMoves DEF Pc, Talks
<1>7. Sync'
    <2>1. CopyNumbers'
        BY <1>1, <1>2 DEF Sync, CopyNumbers
    <2>2. CopiesFresh'
        <3> SUFFICES ASSUME ~spoilt', NEW q \in Request, req'[q].pc \in Saving,
                            copy[q].no >= written
                     PROVE  Fresh(copy[q].list, copy[q].no)'
            BY <1>2 DEF CopiesFresh
        <3>1. req[q].pc \in Saving
            BY <1>2, <1>3 DEF Moves, Saving
        <3>2. Fresh(copy[q].list, copy[q].no)
            BY <1>1, <1>2, <3>1 DEF Sync, CopiesFresh
        <3>3. \A s \in Request : /\ req'[s].addr = req[s].addr
                                 /\ Due(s, copy[q].no) => Due(s, copy[q].no)'
            BY <1>2, <1>3 DEF Due, Moves, Saving
        <3> QED
            BY <1>2, <3>2, <3>3 DEF Fresh
    <2>3. FileFresh'
        BY <1>3 DEF FileFresh, Quiet, Moves
    <2>4. SoleWriter'
        BY <1>2, <1>3 DEF SoleWriter, Moves
    <2> QED
        BY <2>1, <2>2, <2>3, <2>4 DEF Sync
<1> QED
    BY <1>5, <1>6, <1>7 DEF IInv

\* The only writer, with a copy no older than the one in the file, brings
\* the file up to date.
LEMMA WriteKeeps ==
    ASSUME IInv, NEW r \in Request, WriteFile(r)
    PROVE  IInv'
<1>1. TypeOK /\ Talk /\ Sync /\ Lists
    BY DEF IInv, Lists
<1> DEFINE new == Json(copy[r].list)
<1>2. /\ up' = up /\ list' = list /\ copy' = copy
      /\ newest' = newest /\ written' = copy[r].no
      /\ chan' = chan /\ loop' = loop /\ known' = known /\ conn' = conn
      /\ faults' = faults /\ req[r].pc = "write" /\ Goto(r, "ok")
      /\ spoilt' \in BOOLEAN
      /\ ~spoilt' => ~spoilt /\ ~(copy[r].no < written)
      /\ file' \in {new, Mixed}
      /\ file = Empty => file' = new
    BY DEF WriteFile, At, swarmVars
<1>3. Moves(r, "ok")
    BY <1>1, <1>2, GotoMoves DEF Pc
<1>4. /\ \A q \in Request : copy[q].no \in Nat /\ copy[q].no <= newest
      /\ newest \in Nat /\ written \in Nat
    BY <1>1 DEF Lists, TypeOK, Sync, CopyNumbers
<1>5. file' \in [bytes: {"json", "none", "mixed"}, list: Seq(Address)]
      /\ Good(file'.list)
    <2>1. Good(copy[r].list)
        BY <1>1 DEF Lists, GoodLists
    <2>2. copy[r].list \in Seq(Address) /\ <<>> \in Seq(Address)
        BY <2>1, NothingGood DEF Good
    <2>3. CASE file' = new
        BY <2>1, <2>2, <2>3 DEF Json
    <2>4. CASE file' = Mixed
        BY <2>2, <2>4, NothingGood DEF Mixed
    <2> QED
        BY <1>2, <2>3, <2>4
<1>6. Lists'
    <2>1. TypeOK'
        BY <1>1, <1>2, <1>3, <1>4, <1>5 DEF TypeOK, Moves
    <2> QED
        BY <1>1, <1>2, <1>5, <2>1 DEF Lists, CopyTyped, GoodLists, Good
<1>7. Talk'
    BY <1>1, <1>2, <1>3, TalkMoves DEF Pc, Talks
<1>8. ASSUME NEW l, NEW n \in Nat, n >= copy[r].no, Fresh(l, n) PROVE Fresh(l, n)'
    <2>1. ~Due(r, n)
        BY <1>2, <1>4, <1>8 DEF Due
    <2>2. \A q \in Request : Due(q, n) => Due(q, n)' /\ req'[q].addr = req[q].addr
        BY <2>1, <1>2, <1>3 DEF Due, Moves
    <2> QED
        BY <1>2, <1>8, <2>2 DEF Fresh
<1>9. Sync'
    <2>1. CopyNumbers'
        BY <1>1, <1>2 DEF Sync, CopyNumbers
    <2>2. CopiesFresh'
        <3> SUFFICES ASSUME ~spoilt', NEW q \in Request, req'[q].pc \in Saving,
                            copy[q].no >= copy[r].no
                     PROVE  Fresh(copy[q].list, copy[q].no)'
            BY <1>2 DEF CopiesFresh
        <3>1. req[q].pc \in Saving
            BY <1>3 DEF Moves, Saving
        <3>2. copy[q].no >= written
            BY <1>2, <1>4
        <3>3. Fresh(copy[q].list, copy[q].no)
            BY <1>1, <1>2, <3>1, <3>2 DEF Sync, CopiesFresh
        <3> QED
            BY <1>2, <1>4, <1>8, <3>3
    <2>3. FileFresh'
        <3> SUFFICES ASSUME ~spoilt' PROVE Fresh(file.list, written)'
            BY DEF FileFresh
        <3>1. file = Empty
            BY <1>1, <1>2 DEF Sync, SoleWriter
        <3>2. file'.list = copy[r].list
            BY <1>2, <3>1 DEF Json
        <3>3. copy[r].no >= written
            BY <1>2, <1>4
        <3>4. Fresh(copy[r].list, copy[r].no)
            BY <1>1, <1>2, <3>3 DEF Sync, CopiesFresh, Saving
        <3>5. Fresh(copy[r].list, copy[r].no)'
            BY <1>2, <1>4, <1>8, <3>4
        <3> QED
            BY <1>2, <3>2, <3>5 DEF Fresh
    <2>4. SoleWriter'
        <3>1. \A q \in Request : ~spoilt' => req'[q].pc # "write"
            BY <1>1, <1>2, <1>3 DEF Sync, SoleWriter, Moves
        <3> QED
            BY <3>1 DEF SoleWriter
    <2> QED
        BY <2>1, <2>2, <2>3, <2>4 DEF Sync
<1> QED
    BY <1>6, <1>7, <1>9 DEF IInv

\* Faults stay within their bound.
LEMMA FaultCounted ==
    ASSUME TypeOK, Fault
    PROVE  faults' \in 0 .. MaxFaults
<1>1. faults \in Nat /\ faults < MaxFaults /\ faults' = faults + 1
    BY DEF TypeOK, Fault
<1> QED
    BY <1>1, PeerListAssumption

\* A failed save: the file may miss a change.
LEMMA SaveFailsKeeps ==
    ASSUME IInv, NEW r \in Request, SaveFails(r)
    PROVE  IInv'
<1>1. TypeOK /\ Talk /\ Sync /\ Lists
    BY DEF IInv, Lists
<1>2. /\ up' = up /\ list' = list /\ file' = file /\ copy' = copy
      /\ newest' = newest /\ written' = written /\ spoilt' = TRUE
      /\ chan' = chan /\ loop' = loop /\ known' = known /\ conn' = conn
      /\ Fault /\ req[r].pc \in Saving /\ Goto(r, "ok")
    BY DEF SaveFails, At, swarmVars, Saving
<1>3. Moves(r, "ok")
    BY <1>1, <1>2, GotoMoves DEF Pc
<1>4. TypeOK'
    BY <1>1, <1>2, <1>3, FaultCounted DEF TypeOK, Moves
<1>5. Talk'
    BY <1>1, <1>2, <1>3, TalkMoves DEF Pc, Talks, Saving
<1>6. Sync'
    BY <1>1, <1>2, SyncSpoilt
<1> QED
    BY <1>1, <1>2, <1>4, <1>5, <1>6, ListsKept DEF IInv

\* A handler that is dropped after its change leaves it unsaved.
LEMMA CancelKeeps ==
    ASSUME IInv, NEW r \in Request, Cancel(r)
    PROVE  IInv'
<1>1. TypeOK /\ Talk /\ Sync /\ Lists
    BY DEF IInv, Lists
<1>2. /\ up' = up /\ list' = list /\ file' = file /\ copy' = copy
      /\ newest' = newest /\ written' = written
      /\ spoilt' = (spoilt \/ req[r].pc = "copy")
      /\ chan' = chan /\ loop' = loop /\ known' = known /\ conn' = conn
      /\ Fault /\ req[r].pc \notin {"idle", "open", "write"} /\ Goto(r, "gone")
    BY DEF Cancel, swarmVars
<1>3. Moves(r, "gone")
    BY <1>1, <1>2, GotoMoves DEF Pc
<1>4. spoilt' \in BOOLEAN /\ spoilt \in BOOLEAN
    BY <1>1, <1>2 DEF TypeOK
<1>5. TypeOK'
    BY <1>1, <1>2, <1>3, <1>4, FaultCounted DEF TypeOK, Moves
<1>6. Talk'
    BY <1>1, <1>2, <1>3, TalkMoves DEF Pc, Talks
<1>7. Sync'
    <2>1. CASE spoilt'
        BY <1>1, <1>2, <2>1, SyncSpoilt
    <2>2. CASE ~spoilt'
        <3>1. spoilt' = spoilt /\ req[r].pc \notin Changes
            BY <1>2, <1>4, <2>2 DEF Changes
        <3>2. \A q \in Request :
                 \/ req'[q].pc = req[q].pc /\ req'[q].addr = req[q].addr
                 \/ req'[q].pc \notin Changes /\ req[q].pc \notin Changes
            BY <1>3, <3>1 DEF Moves, Changes
        <3> QED
            BY <1>1, <1>2, <3>1, <3>2, SyncKept
    <2> QED
        BY <2>1, <2>2
<1> QED
    BY <1>1, <1>2, <1>5, <1>6, <1>7, ListsKept DEF IInv

-----------------------------------------------------------------------------
(* The event loop and the app.                                             *)

\* What is known of the commands while no request moves, and commands only
\* go.
LEMMA TalkStays ==
    ASSUME TypeOK, Talk,
           \A r \in Request : /\ req'[r].pc = req[r].pc /\ req'[r].op = req[r].op
                              /\ req'[r].addr = req[r].addr
                              /\ req'[r].polls = req[r].polls,
           \A i \in 1 .. Len(chan') : \E j \in 1 .. Len(chan) : chan'[i] = chan[j],
           DownEmpty'
    PROVE  Talk'
<1>1. TalksOfPeers' /\ PollsLeft'
    BY DEF Talk, TalksOfPeers, PollsLeft
<1>2. CommandsOfPeers'
    <2> SUFFICES ASSUME NEW i \in 1 .. Len(chan')
                 PROVE  req'[chan'[i].of].pc # "idle" /\ req'[chan'[i].of].addr \in Peers
        BY DEF CommandsOfPeers
    <2>1. PICK j \in 1 .. Len(chan) : chan'[i] = chan[j]
        OBVIOUS
    <2>2. chan[j] \in Commands
        BY DEF TypeOK
    <2>3. chan[j].of \in Request
        BY <2>2 DEF Commands
    <2>4. req[chan[j].of].pc # "idle" /\ req[chan[j].of].addr \in Peers
        BY DEF Talk, CommandsOfPeers
    <2> QED
        BY <2>1, <2>3, <2>4
<1> QED
    BY <1>1, <1>2 DEF Talk

\* The event loop takes a command, which is about a peer.
LEMMA CommandKeeps ==
    ASSUME IInv, handle_command
    PROVE  IInv'
<1>1. TypeOK /\ Talk /\ Sync /\ Lists
    BY DEF IInv, Lists
<1> DEFINE c == Head(chan)
           p == PeerOf[req[c.of].addr]
           x == [req[c.of] EXCEPT !.reply = IF p \in conn THEN "connected" ELSE "not"]
<1>2. /\ up' = up /\ list' = list /\ file' = file /\ copy' = copy
      /\ newest' = newest /\ written' = written /\ spoilt' = spoilt
      /\ loop' = loop /\ faults' = faults /\ up /\ chan # <<>> /\ chan' = Tail(chan)
    BY DEF handle_command, history
<1>3. /\ known' = IF c.cmd = "AddBootstrapPeer" THEN known \cup {p} ELSE known
      /\ conn' = IF c.cmd = "Disconnect" THEN conn \ {p} ELSE conn
      /\ req' = req \/ req' = [req EXCEPT ![c.of] = x]
    BY DEF handle_command
<1>4. chan \in Seq(Commands) /\ req \in [Request -> Requests] /\ Len(chan) <= ChanCap
    BY <1>1 DEF TypeOK
<1>5. /\ chan' \in Seq(Commands) /\ Len(chan') <= ChanCap
      /\ c = chan[1] /\ 1 \in 1 .. Len(chan) /\ c \in Commands
      /\ \A i \in 1 .. Len(chan') : \E j \in 1 .. Len(chan) : chan'[i] = chan[j]
    <2>1. /\ Len(chan) \in Nat /\ Len(chan) >= 1 /\ c = chan[1]
          /\ Tail(chan) \in Seq(Commands) /\ Len(Tail(chan)) = Len(chan) - 1
          /\ \A i \in 1 .. Len(chan) - 1 : Tail(chan)[i] = chan[i + 1]
        BY <1>2, <1>4
    <2>2. \A i \in 1 .. Len(chan) - 1 : i + 1 \in 1 .. Len(chan)
        BY <2>1
    <2>3. Len(chan) - 1 <= ChanCap /\ 1 \in 1 .. Len(chan)
        BY <2>1, <1>4, PeerListAssumption
    <2> QED
        BY <1>2, <1>4, <2>1, <2>2, <2>3
<1>6. c.of \in Request
    BY <1>5 DEF Commands
<1>7. p \in PeerId
    <2>1. req[c.of].addr \in Peers
        BY <1>1, <1>5 DEF Talk, CommandsOfPeers
    <2> QED
        BY <2>1 DEF Peers
<1>8. known' \subseteq PeerId /\ conn' \subseteq known'
    <2>1. known \subseteq PeerId /\ conn \subseteq known
        BY <1>1 DEF TypeOK
    <2> HIDE DEF p, c
    <2> QED
        BY <1>3, <1>7, <2>1
<1>9. x \in Requests /\ x.pc = req[c.of].pc /\ x.op = req[c.of].op
      /\ x.addr = req[c.of].addr /\ x.polls = req[c.of].polls
    <2> HIDE DEF p, c
    <2>1. req[c.of] \in Requests
        BY <1>4, <1>6
    <2> QED
        BY <2>1 DEF Requests
<1> HIDE DEF x, c, p
<1>10. /\ req' \in [Request -> Requests]
       /\ \A r \in Request : /\ req'[r].pc = req[r].pc /\ req'[r].op = req[r].op
                             /\ req'[r].addr = req[r].addr
                             /\ req'[r].polls = req[r].polls
    BY <1>3, <1>4, <1>6, <1>9
<1>11. TypeOK'
    BY <1>1, <1>2, <1>5, <1>8, <1>10 DEF TypeOK
<1>12. Talk'
    <2>1. DownEmpty'
        BY <1>2 DEF DownEmpty
    <2> QED
        BY <1>1, <1>5, <1>10, <2>1, TalkStays
<1>13. Sync'
    BY <1>1, <1>2, <1>10, SyncKept
<1> QED
    BY <1>1, <1>2, <1>11, <1>12, <1>13, ListsKept DEF IInv

\* A connection is made or lost.
LEMMA ConnectionKeeps ==
    ASSUME IInv, NEW p \in PeerId, ConnectionChanges(p)
    PROVE  IInv'
<1>1. TypeOK /\ Talk /\ Sync /\ Lists
    BY DEF IInv, Lists
<1>2. /\ up' = up /\ list' = list /\ file' = file /\ copy' = copy /\ req' = req
      /\ newest' = newest /\ written' = written /\ spoilt' = spoilt
      /\ chan' = chan /\ loop' = loop /\ known' = known
      /\ faults' = faults /\ up /\ p \in known
      /\ conn' = IF p \in conn THEN conn \ {p} ELSE conn \cup {p}
    BY DEF ConnectionChanges, history
<1>3. TypeOK'
    BY <1>1, <1>2 DEF TypeOK
<1>4. Talk'
    <2>1. DownEmpty'
        BY <1>2 DEF DownEmpty
    <2> QED
        BY <1>1, <1>2, <2>1 DEF Talk, TalksOfPeers, CommandsOfPeers, PollsLeft
<1>5. Sync'
    BY <1>1, <1>2, SyncKept
<1> QED
    BY <1>1, <1>2, <1>3, <1>4, <1>5, ListsKept DEF IInv

\* The event loop ends, and its commands with it.
LEMMA LoopEndsKeeps ==
    ASSUME IInv, LoopEnds
    PROVE  IInv'
<1>1. TypeOK /\ Talk /\ Sync /\ Lists
    BY DEF IInv, Lists
<1>2. /\ up' = up /\ list' = list /\ file' = file /\ copy' = copy
      /\ newest' = newest /\ written' = written /\ spoilt' = spoilt
      /\ chan' = <<>> /\ loop' = FALSE /\ known' = known /\ conn' = {}
      /\ Fault /\ up
    BY DEF LoopEnds, history
<1>3. req \in [Request -> Requests]
    BY <1>1 DEF TypeOK
<1>4. ASSUME NEW r \in Request
      PROVE  /\ req'[r] \in Requests
             /\ req'[r].pc = req[r].pc /\ req'[r].op = req[r].op
             /\ req'[r].addr = req[r].addr /\ req'[r].polls = req[r].polls
    <2> DEFINE x == [req[r] EXCEPT !.reply = "dropped"]
    <2>1. x \in Requests /\ x.pc = req[r].pc /\ x.op = req[r].op
          /\ x.addr = req[r].addr /\ x.polls = req[r].polls
        BY <1>3 DEF Requests
    <2>2. req'[r] \in {req[r], x}
        BY DEF LoopEnds
    <2> HIDE DEF x
    <2> QED
        BY <1>3, <2>1, <2>2
<1>5. req' \in [Request -> Requests]
    <2>1. \E f : req' = [r \in Request |-> f[r]]
        <3>1. req' = [r \in Request |-> req'[r]]
            BY DEF LoopEnds
        <3> QED
            BY <3>1
    <2> QED
        BY <1>4, <2>1
<1>6. chan' \in Seq(Commands) /\ Len(chan') <= ChanCap /\ 1 .. Len(chan') = {}
    BY <1>2, PeerListAssumption
<1>7. TypeOK'
    BY <1>1, <1>2, <1>5, <1>6, FaultCounted DEF TypeOK
<1>8. Talk'
    <2>1. DownEmpty'
        BY <1>2 DEF DownEmpty
    <2> QED
        BY <1>1, <1>4, <1>6, <2>1, TalkStays
<1>9. Sync'
    BY <1>1, <1>2, <1>4, SyncKept
<1> QED
    BY <1>1, <1>2, <1>7, <1>8, <1>9, ListsKept DEF IInv

\* A stop while a handler writes may lose the file; any other keeps it.
LEMMA StopKeeps ==
    ASSUME IInv, Stop
    PROVE  IInv'
<1>1. TypeOK /\ Talk /\ Sync /\ Lists
    BY DEF IInv, Lists
<1>2. /\ up' = FALSE /\ list' = list /\ file' = file /\ copy' = copy /\ req' = req
      /\ newest' = newest /\ written' = written
      /\ chan' = <<>> /\ loop' = FALSE /\ known' = {} /\ conn' = {}
      /\ Fault /\ up /\ spoilt' \in BOOLEAN
      /\ ~spoilt' => ~spoilt /\ \A r \in Request : req[r].pc # "write"
    BY DEF Stop, At
<1>3. chan' \in Seq(Commands) /\ Len(chan') <= ChanCap /\ 1 .. Len(chan') = {}
    BY <1>2, PeerListAssumption
<1>4. TypeOK'
    BY <1>1, <1>2, <1>3, FaultCounted DEF TypeOK
<1>5. Talk'
    <2>1. DownEmpty'
        BY <1>2 DEF DownEmpty
    <2> QED
        BY <1>1, <1>2, <1>3, <2>1, TalkStays
<1>6. Sync'
    <2>1. CopyNumbers'
        BY <1>1, <1>2 DEF Sync, CopyNumbers
    <2>2. ASSUME NEW l, NEW n, Fresh(l, n) PROVE Fresh(l, n)'
        BY <1>2, <2>2 DEF Fresh, Due
    <2>3. CopiesFresh'
        <3> SUFFICES ASSUME ~spoilt', NEW q \in Request, req[q].pc \in Saving,
                            copy[q].no >= written
                     PROVE  Fresh(copy[q].list, copy[q].no)'
            BY <1>2 DEF CopiesFresh
        <3>1. Fresh(copy[q].list, copy[q].no)
            BY <1>1, <1>2 DEF Sync, CopiesFresh
        <3> QED
            BY <1>2, <2>2, <3>1
    <2>4. FileFresh'
        <3>1. Fresh(file.list, written) => Fresh(file.list, written)'
            BY <1>2, <2>2
        <3>2. Quiet' => Quiet
            BY <1>2 DEF Quiet
        <3> QED
            BY <1>1, <1>2, <3>1, <3>2 DEF Sync, FileFresh
    <2>5. SoleWriter'
        BY <1>2 DEF SoleWriter
    <2> QED
        BY <2>1, <2>3, <2>4, <2>5 DEF Sync
<1> QED
    BY <1>1, <1>2, <1>4, <1>5, <1>6, ListsKept DEF IInv

\* The app starts with what is in the file.
LEMMA RestartKeeps ==
    ASSUME IInv, Restart
    PROVE  IInv'
<1>1. TypeOK /\ Talk /\ Sync /\ Lists
    BY DEF IInv, Lists
<1>2. /\ up' = TRUE /\ list' = file.list /\ file' = file /\ copy' = copy
      /\ newest' = newest /\ written' = written /\ spoilt' = FALSE
      /\ chan' = chan /\ loop' = TRUE /\ conn' = conn /\ faults' = faults /\ ~up
      /\ known' = parse_bootstrap_peers(file.list)
    BY DEF Restart, load_peers
<1>3. chan = <<>> /\ conn = {}
    BY <1>1, <1>2 DEF Talk, DownEmpty
<1>4. known' \subseteq PeerId
    BY <1>2 DEF parse_bootstrap_peers, Peers
<1>5. Good(file.list)
    BY <1>1 DEF Lists, GoodLists
<1>6. req \in [Request -> Requests]
    BY <1>1 DEF TypeOK
<1>7. ASSUME NEW r \in Request
      PROVE  /\ req'[r] \in Requests
             /\ req'[r].pc \in Ended \cup {"idle"}
             /\ req'[r].pc = "idle" => req'[r] = req[r]
    <2> DEFINE x == [req[r] EXCEPT !.pc = "gone"]
    <2>1. x \in Requests /\ x.pc = "gone"
        BY <1>6 DEF Requests, Pc
    <2>2. req'[r] = IF req[r].pc \in Ended \cup {"idle"} THEN req[r] ELSE x
        BY DEF Restart
    <2> HIDE DEF x
    <2> QED
        BY <1>6, <2>1, <2>2 DEF Ended
<1>8. req' \in [Request -> Requests]
    <2>1. req' = [r \in Request |-> req'[r]]
        BY DEF Restart
    <2> QED
        BY <1>7, <2>1
<1>9. Lists'
    <2>1. TypeOK'
        BY <1>1, <1>2, <1>3, <1>4, <1>5, <1>8 DEF TypeOK, Good
    <2> QED
        BY <1>1, <1>2, <1>5, <2>1 DEF Lists, CopyTyped, GoodLists, Good
<1>10. Talk'
    <2>1. TalksOfPeers'
        BY <1>7 DEF TalksOfPeers, Talks, Ended
    <2>2. CommandsOfPeers'
        <3>1. 1 .. Len(chan') = {}
            BY <1>2, <1>3
        <3> QED
            BY <3>1 DEF CommandsOfPeers
    <2>3. PollsLeft'
        BY <1>1, <1>7 DEF Talk, PollsLeft, Ended
    <2>4. DownEmpty'
        BY <1>2 DEF DownEmpty
    <2> QED
        BY <2>1, <2>2, <2>3, <2>4 DEF Talk
<1>11. Sync'
    <2>1. CopyNumbers'
        BY <1>1, <1>2 DEF Sync, CopyNumbers
    <2>2. CopiesFresh'
        BY <1>7 DEF CopiesFresh, Saving, Ended
    <2>3. FileFresh'
        <3>1. Fresh(file.list, written)'
            BY <1>2 DEF Fresh
        <3> QED
            BY <3>1 DEF FileFresh
    <2>4. SoleWriter'
        BY <1>7 DEF SoleWriter, Ended
    <2> QED
        BY <2>1, <2>2, <2>3, <2>4 DEF Sync
<1> QED
    BY <1>9, <1>10, <1>11 DEF IInv

-----------------------------------------------------------------------------

\* The app starts with a list that was saved.
LEMMA InitHolds == Init => IInv
<1> SUFFICES ASSUME Init PROVE IInv
    OBVIOUS
<1>1. /\ Good(file.list)
      /\ file \in [bytes: {"json", "none", "mixed"}, list: Seq(Address)]
    <2>1. CASE file = Empty
        BY <2>1, NothingGood DEF Empty, Good
    <2>2. ASSUME NEW a \in Peers, file = Json(<<a>>)
          PROVE  Good(file.list)
                 /\ file \in [bytes: {"json", "none", "mixed"}, list: Seq(Address)]
        <3>1. a \in Address
            BY DEF Peers
        <3>2. <<a>> \in Seq(Address) /\ DOMAIN <<a>> = {1} /\ <<a>>[1] = a
            BY <3>1
        <3>3. ToSet(<<a>>) = {a}
            BY <3>2 DEF ToSet
        <3>4. Good(<<a>>)
            BY <3>2, <3>3 DEF Good
        <3> QED
            BY <2>2, <3>2, <3>4 DEF Json
    <2> QED
        BY <2>1, <2>2 DEF Init
<1>2. list = file.list
    BY DEF Init, load_peers
<1> DEFINE a0 == CHOOSE a \in Address : TRUE
           x == [op |-> "add", addr |-> a0, pc |-> "idle", polls |-> 0, reply |-> "none"]
<1>3. a0 \in Address
    BY PeerListAssumption
<1>4. req = [r \in Request |-> x]
    BY DEF Init
<1> HIDE DEF a0
<1>5. x \in Requests /\ x.pc = "idle" /\ x.polls = 0
    BY <1>3, PeerListAssumption DEF Requests, Pc
<1> HIDE DEF x
<1>6. /\ req \in [Request -> Requests]
      /\ \A r \in Request : req[r].pc = "idle" /\ req[r].polls = 0
    BY <1>4, <1>5
<1>7. CopyTyped /\ \A r \in Request : copy[r].list = <<>> /\ copy[r].no = 0
    BY DEF Init, CopyTyped
<1>8. known \subseteq PeerId
    BY DEF Init, parse_bootstrap_peers, Peers
<1>9. chan = <<>> /\ conn = {} /\ loop = TRUE /\ up = TRUE
      /\ faults = 0 /\ newest = 0 /\ written = 0 /\ spoilt = FALSE
    BY DEF Init
<1>10. chan \in Seq(Commands) /\ Len(chan) <= ChanCap /\ 1 .. Len(chan) = {}
    BY <1>9, PeerListAssumption
<1>11. TypeOK
    <2>1. faults \in 0 .. MaxFaults /\ written \in 0 .. newest
        BY <1>9, PeerListAssumption
    <2>2. list \in Seq(Address)
        BY <1>1, <1>2 DEF Good
    <2>3. \A r \in Request : copy[r].list \in Seq(Address) /\ copy[r].no \in Nat
        BY <1>7 DEF CopyTyped
    <2> QED
        BY <1>1, <1>6, <1>8, <1>9, <1>10, <2>1, <2>2, <2>3 DEF TypeOK
<1>12. GoodLists
    BY <1>1, <1>2, <1>7, NothingGood DEF GoodLists
<1>13. Talk
    BY <1>6, <1>9, <1>10, PeerListAssumption
       DEF Talk, TalksOfPeers, Talks, CommandsOfPeers, PollsLeft, DownEmpty
<1>14. Sync
    BY <1>2, <1>6, <1>7, <1>9
       DEF Sync, CopyNumbers, CopiesFresh, FileFresh, SoleWriter, Fresh, Saving
<1> QED
    BY <1>7, <1>11, <1>12, <1>13, <1>14 DEF IInv, Lists

\* One action after the other.
LEMMA StepKeeps == IInv /\ [Next]_vars => IInv'
<1> SUFFICES ASSUME IInv, [Next]_vars PROVE IInv'
    OBVIOUS
<1>1. ASSUME NEW r \in Request, handle_peers_add(r) PROVE IInv'
    <2>1. PICK a \in Address :
              Begin(r, "add", a, IF a \in Peers THEN "address" ELSE "error")
        BY <1>1 DEF handle_peers_add
    <2>2. CASE a \in Peers
        BY <2>1, <2>2, BeginKeeps
    <2>3. CASE a \notin Peers
        BY <2>1, <2>3, BeginKeeps DEF Talks
    <2> QED
        BY <2>2, <2>3
<1>2. ASSUME NEW r \in Request, handle_peers_remove(r) PROVE IInv'
    <2>1. PICK a \in Address :
              Begin(r, "remove", a, IF a \in Peers THEN "disconnect" ELSE "change")
        BY <1>2 DEF handle_peers_remove
    <2>2. CASE a \in Peers
        BY <2>1, <2>2, BeginKeeps
    <2>3. CASE a \notin Peers
        BY <2>1, <2>3, BeginKeeps DEF Talks
    <2> QED
        BY <2>2, <2>3
<1>3. ASSUME NEW r \in Request, SendCommand(r) PROVE IInv'
    <2>1. CASE SendThen(r, "address", "AddBootstrapPeer", "dial", "error")
        BY <2>1, SendKeeps DEF Talks, Pc
    <2>2. CASE SendThen(r, "dial", "Dial", "poll", "error")
        BY <2>2, SendKeeps DEF Talks, Pc
    <2>3. CASE SendThen(r, "poll", "GetConnectedPeers", "reply", "bootstrap")
        BY <2>3, SendKeeps DEF Talks, Pc
    <2>4. CASE SendThen(r, "bootstrap", "Bootstrap", "change", "change")
        BY <2>4, SendKeeps DEF Talks, Pc
    <2>5. CASE SendThen(r, "disconnect", "Disconnect", "change", "change")
        BY <2>5, SendKeeps DEF Talks, Pc
    <2> QED
        BY <1>3, <2>1, <2>2, <2>3, <2>4, <2>5 DEF SendCommand
<1>4. ASSUME NEW r \in Request, HandlerStep(r) PROVE IInv'
    BY <1>3, <1>4, PollKeeps, ChangeKeeps, CopyKeeps, OpenKeeps, WriteKeeps
       DEF HandlerStep
<1>5. ASSUME NEW r \in Request, SaveFails(r) \/ Cancel(r) PROVE IInv'
    BY <1>5, SaveFailsKeeps, CancelKeeps
<1>6. CASE UNCHANGED vars
    <2>1. /\ up' = up /\ list' = list /\ file' = file /\ copy' = copy /\ req' = req
          /\ newest' = newest /\ written' = written /\ spoilt' = spoilt
          /\ chan' = chan /\ loop' = loop /\ known' = known /\ conn' = conn
          /\ faults' = faults
        BY <1>6 DEF vars, swarmVars, history
    <2>2. TypeOK' /\ Talk'
        BY <2>1 DEF IInv, Lists, TypeOK, Talk, TalksOfPeers, CommandsOfPeers,
                    PollsLeft, DownEmpty
    <2>3. Sync'
        BY <2>1, SyncKept DEF IInv
    <2> QED
        BY <2>1, <2>2, <2>3, ListsKept DEF IInv
<1> QED
    BY <1>1, <1>2, <1>4, <1>5, <1>6, CommandKeeps, ConnectionKeeps,
       LoopEndsKeeps, StopKeeps, RestartKeeps DEF Next

\* Every state of the app, its event loop and its peers.json satisfies the
\* inductive invariant, for any addresses, requests and faults.
THEOREM PeerListInductive == Spec => []IInv
<1>1. Init => IInv
    BY InitHolds
<1>2. IInv /\ [Next]_vars => IInv'
    BY StepKeeps
<1> QED
    BY <1>1, <1>2, PTL DEF Spec

\* Every variable keeps its type: no command is sent beyond the capacity of
\* the channel, and no more rounds are polled than peers_add has.
THEOREM PeerListTypeCorrect == Spec => []TypeOK
<1>1. IInv => TypeOK
    BY DEF IInv, Lists
<1> QED
    BY <1>1, PeerListInductive, PTL

\* peers_add and peers_remove, however they overlap, and the way through
\* peers.json leave every address in the list once, each with a peer.
THEOREM EntriesDialable == Spec => []ListDialable
<1>1. IInv => ListDialable
    BY DEF IInv, Lists, GoodLists, Good, ListDialable
<1> QED
    BY <1>1, PeerListInductive, PTL

\* When the app starts again after saves that neither failed nor overlapped,
\* the list is the one of before but for requests that were not answered.
THEOREM AnsweredPeersSurvive == Spec => AnsweredSurvives
<1> DEFINE Survives ==
        Restart /\ ~spoilt =>
            \A a \in Address :
                \/ Contains(list', a) = Contains(list, a)
                \/ \E r \in Request : /\ req[r].addr = a
                                      /\ req[r].pc \notin Ended \cup {"idle"}
<1>1. ASSUME IInv PROVE [Survives]_vars
    <2>1. SUFFICES ASSUME Restart, ~spoilt, NEW a \in Address
                   PROVE  \/ Contains(list', a) = Contains(list, a)
                          \/ \E r \in Request : /\ req[r].addr = a
                                                /\ req[r].pc \notin Ended \cup {"idle"}
        OBVIOUS
    <2>2. ~up /\ list' = file.list
        BY <2>1 DEF Restart, load_peers
    <2>3. Quiet
        BY <1>1, <2>1, <2>2 DEF IInv, Sync, SoleWriter, Quiet
    <2>4. Fresh(file.list, written)
        BY <1>1, <2>1, <2>3 DEF IInv, Sync, FileFresh
    <2>5. Good(list) /\ Good(file.list)
        BY <1>1 DEF IInv, Lists, GoodLists
    <2>6. ASSUME NEW l, Good(l) PROVE Contains(l, a) <=> a \in ToSet(l)
        <3>1. DOMAIN l = 1 .. Len(l)
            BY <2>6 DEF Good
        <3> QED
            BY <3>1 DEF Contains, ToSet
    <2>7. CASE a \in ToSet(list) <=> a \in ToSet(file.list)
        <3>1. Contains(list, a) <=> Contains(file.list, a)
            BY <2>5, <2>6, <2>7
        <3>2. Contains(list, a) \in BOOLEAN /\ Contains(file.list, a) \in BOOLEAN
            BY DEF Contains
        <3>3. Contains(list', a) = Contains(file.list, a)
            BY <2>2
        <3> QED
            BY <3>1, <3>2, <3>3
    <2>8. ASSUME NEW r \in Request, req[r].addr = a, Due(r, written)
          PROVE  req[r].pc \notin Ended \cup {"idle"}
        BY <2>8 DEF Due, Saving, Ended
    <2> QED
        BY <2>1, <2>4, <2>7, <2>8 DEF Fresh
<1>2. IInv => [Survives]_vars
    BY <1>1
<1>3. []IInv => [][Survives]_vars
    BY <1>2, PTL
<1> QED
    BY <1>3, PeerListInductive DEF AnsweredSurvives

=============================================================================
