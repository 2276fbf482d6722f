------------------------------ MODULE PeerList ------------------------------
(***************************************************************************)
(* The bootstrap peers of the desktop app: the list in memory, the file    *)
(* peers.json, and the requests that change them                           *)
(* (zing-cdn-gui/src-tauri/src/api_http.rs and main.rs).                   *)
(*                                                                         *)
(* The handlers run concurrently on the runtime's threads.  peers_add      *)
(* sends commands to the event loop and polls it before it changes the     *)
(* list; then the handler copies the list, lets its lock go, and writes    *)
(* the copy with fs::write, which truncates the file first.  So copies may *)
(* be written in another order than they were made, writes may overlap,    *)
(* and a stop of the app may leave an empty file.                          *)
(***************************************************************************)
EXTENDS Integers, Sequences, SequencesExt

CONSTANTS
    Address,   \* what a user types as the address of a peer
    PeerOf,    \* the peer id in it; NoPeer if it does not parse or has none
    PeerId, NoPeer,
    Request,   \* requests to add or to remove an address
    POLLS,     \* polls for the connection (15 in the code)
    ChanCap,   \* capacity of the command channel
    MaxFaults  \* bound: failed writes, stops of the app or of the event loop

ASSUME PeerListAssumption ==
    /\ NoPeer \notin PeerId /\ Address # {}
    /\ PeerOf \in [Address -> PeerId \cup {NoPeer}]
    /\ POLLS \in Nat \ {0} /\ ChanCap \in Nat \ {0} /\ MaxFaults \in Nat

VARIABLES
    list,    \* HttpApiState.bootstrap_peers (its last value while down)
    file,    \* what is in peers.json
    req,     \* the requests
    copy,    \* the copy of the list each handler saves, and its number
    chan,    \* the command channel
    loop,    \* the event loop runs
    known,   \* peers with an address in the routing table
    conn,    \* connected peers
    up,      \* the app runs
    faults,  \* faults so far
    newest,  \* history: number of the newest copy
    written, \* history: number of the copy written last
    spoilt   \* history: the file may miss a change

swarmVars == <<chan, loop, known, conn>>
history   == <<newest, written, spoilt>>
vars == <<list, file, req, copy, swarmVars, up, faults, history>>

\* The bytes in the file: a list, none, or those of two writes.
Json(l) == [bytes |-> "json", list |-> l]
Empty   == [bytes |-> "none", list |-> <<>>]
Mixed   == [bytes |-> "mixed", list |-> <<>>]

Peers == {a \in Address : PeerOf[a] \in PeerId}

\* An addition goes from "address" to "bootstrap", a removal starts with
\* "disconnect"; both end with the change of the list and its saving.
Pc == {"idle", "address", "dial", "poll", "reply", "bootstrap", "disconnect",
       "change", "copy", "open", "write", "ok", "error", "gone"}
Ended == {"ok", "error", "gone"}

Requests == [op: {"add", "remove"}, addr: Address, pc: Pc, polls: 0 .. POLLS,
             reply: {"none", "connected", "not", "dropped"}]

Commands == [cmd: {"AddBootstrapPeer", "Dial", "GetConnectedPeers",
                   "Bootstrap", "Disconnect"}, of: Request]

TypeOK ==
    /\ list \in Seq(Address)
    /\ file \in [bytes: {"json", "none", "mixed"}, list: Seq(Address)]
    /\ req \in [Request -> Requests]
    /\ \A r \in Request : copy[r].list \in Seq(Address) /\ copy[r].no \in Nat
    /\ chan \in Seq(Commands) /\ Len(chan) <= ChanCap
    /\ loop \in BOOLEAN /\ up \in BOOLEAN /\ spoilt \in BOOLEAN
    /\ known \subseteq PeerId /\ conn \subseteq known
    /\ faults \in 0 .. MaxFaults
    /\ newest \in Nat /\ written \in 0 .. newest

-----------------------------------------------------------------------------
(* The file.                                                               *)

\* Bytes that are no list are read as the empty list.
load_peers == file.list

\* The peers the node starts with: entries without a peer are skipped.
parse_bootstrap_peers(entries) ==
    {PeerOf[a] : a \in ToSet(entries) \cap Peers}

-----------------------------------------------------------------------------
(* The handlers.                                                           *)

At(r, pc)   == up /\ req[r].pc = pc
Goto(r, pc) == req' = [req EXCEPT ![r].pc = pc]

\* A command is sent: it waits for room, and fails once the event loop ended.
Send(r, cmd) ==
    /\ loop /\ Len(chan) < ChanCap
    /\ chan' = Append(chan, [cmd |-> cmd, of |-> r])

Begin(r, op, a, pc) ==
    /\ up /\ req[r].pc = "idle"
    /\ req' = [req EXCEPT ![r] = [@ EXCEPT !.op = op, !.addr = a, !.pc = pc]]
    /\ UNCHANGED <<list, file, copy, swarmVars, up, faults, history>>

handle_peers_add(r) ==
    \E a \in Address :
        Begin(r, "add", a, IF a \in Peers THEN "address" ELSE "error")

\* What is not the address of a peer is removed from the list all the same.
handle_peers_remove(r) ==
    \E a \in Address :
        Begin(r, "remove", a, IF a \in Peers THEN "disconnect" ELSE "change")

\* The commands of a request before the change, and where it goes with and
\* without an event loop.  peers_add returns the error of the first two.
SendThen(r, pc, cmd, next, failed) ==
    /\ At(r, pc)
    /\ \/ Send(r, cmd) /\ Goto(r, next)
       \/ ~loop /\ Goto(r, failed) /\ UNCHANGED chan
    /\ UNCHANGED <<list, file, copy, loop, known, conn, up, faults, history>>

SendCommand(r) ==
    \/ SendThen(r, "address", "AddBootstrapPeer", "dial", "error")
    \/ SendThen(r, "dial", "Dial", "poll", "error")
    \/ SendThen(r, "poll", "GetConnectedPeers", "reply", "bootstrap")
    \/ SendThen(r, "bootstrap", "Bootstrap", "change", "change")
    \/ SendThen(r, "disconnect", "Disconnect", "change", "change")

\* Mutant: an answer that never comes is waited for.
PollAnsweredAlive(r) ==
    /\ At(r, "reply") /\ req[r].reply \in {"connected", "not"}
    /\ LET done == req[r].reply = "connected" \/ req[r].polls + 1 = POLLS
       IN  req' = [req EXCEPT ![r].pc = IF done THEN "bootstrap" ELSE "poll",
                              ![r].polls = @ + 1, ![r].reply = "none"]
    /\ UNCHANGED <<list, file, copy, swarmVars, up, faults, history>>

\* Mutant: one poll too many.
PollAnsweredLate(r) ==
    /\ At(r, "reply") /\ req[r].reply # "none"
    /\ LET done == req[r].reply = "connected" \/ req[r].polls = POLLS
       IN  req' = [req EXCEPT ![r].pc = IF done THEN "bootstrap" ELSE "poll",
                              ![r].polls = @ + 1, ![r].reply = "none"]
    /\ UNCHANGED <<list, file, copy, swarmVars, up, faults, history>>

\* One round of the loop in peers_add: it ends with a connection, or after
\* POLLS rounds, of which a dropped reply sender is one.
PollAnswered(r) ==
    /\ At(r, "reply") /\ req[r].reply # "none"
    /\ LET done == req[r].reply = "connected" \/ req[r].polls + 1 = POLLS
       IN  req' = [req EXCEPT ![r].pc = IF done THEN "bootstrap" ELSE "poll",
                              ![r].polls = @ + 1, ![r].reply = "none"]
    /\ UNCHANGED <<list, file, copy, swarmVars, up, faults, history>>

\* Vec::retain: the entries that are not a, in their order.
Retain(entries, a) ==
    FoldLeft(LAMBDA kept, e : IF e = a THEN kept ELSE Append(kept, e),
             <<>>, entries)

\* Mutant: the entry is added without a look at the list.
ChangedAgain(r) ==
    IF req[r].op = "add" THEN Append(list, req[r].addr)
                         ELSE Retain(list, req[r].addr)

\* The list after the request: both calls find and change it under the
\* write lock.
Changed(r) ==
    IF req[r].op = "remove" THEN Retain(list, req[r].addr)
    ELSE IF Contains(list, req[r].addr) THEN list
    ELSE Append(list, req[r].addr)

Change(r) ==
    /\ At(r, "change")
    /\ list' = Changed(r)
    /\ Goto(r, "copy")
    /\ UNCHANGED <<file, copy, swarmVars, up, faults, history>>

\* Mutant: a removal is answered without saving.
CopyAdded(r) ==
    /\ At(r, "copy")
    /\ copy' = [copy EXCEPT ![r] = [list |-> list, no |-> newest + 1]]
    /\ newest' = newest + 1
    /\ Goto(r, IF req[r].op = "add" THEN "open" ELSE "ok")
    /\ UNCHANGED <<list, file, swarmVars, up, faults, written, spoilt>>

\* The handler reads the list under a lock of its own.
Copy(r) ==
    /\ At(r, "copy")
    /\ copy' = [copy EXCEPT ![r] = [list |-> list, no |-> newest + 1]]
    /\ newest' = newest + 1
    /\ Goto(r, "open")
    /\ UNCHANGED <<list, file, swarmVars, up, faults, written, spoilt>>

\* save_peers: fs::write opens and truncates the file, then writes.
OpenFile(r) ==
    /\ At(r, "open")
    /\ file' = Empty
    /\ Goto(r, "write")
    /\ spoilt' = (spoilt \/ \E q \in Request : At(q, "write"))
    /\ UNCHANGED <<list, copy, swarmVars, up, faults, newest, written>>

\* Bytes written by another handler since may show after the end of these.
WriteFile(r) ==
    /\ At(r, "write")
    /\ LET new == Json(copy[r].list)
       IN  file' \in IF file \in {Empty, new} THEN {new} ELSE {new, Mixed}
    /\ Goto(r, "ok")
    /\ written' = copy[r].no
    /\ spoilt' = (spoilt \/ copy[r].no < written)
    /\ UNCHANGED <<list, copy, swarmVars, up, faults, newest>>

Fault == faults < MaxFaults /\ faults' = faults + 1

\* An error of fs::write is ignored: the file is as before, or truncated.
SaveFails(r) ==
    /\ At(r, "open") \/ At(r, "write")
    /\ Fault
    /\ Goto(r, "ok")
    /\ spoilt' = TRUE
    /\ UNCHANGED <<list, file, copy, swarmVars, up, newest, written>>

\* The window is reloaded: the server drops the handler where it waits.
Cancel(r) ==
    /\ up /\ req[r].pc \in Pc \ ({"idle", "open", "write"} \cup Ended)
    /\ Fault
    /\ Goto(r, "gone")
    /\ spoilt' = (spoilt \/ req[r].pc = "copy")
    /\ UNCHANGED <<list, file, copy, swarmVars, up, newest, written>>

HandlerStep(r) ==
    \/ SendCommand(r) \/ PollAnswered(r)
    \/ Change(r) \/ Copy(r) \/ OpenFile(r) \/ WriteFile(r)

-----------------------------------------------------------------------------
(* The event loop (ZingP2pNode::handle_command) and the swarm.             *)

\* Dial and Bootstrap only start attempts to connect.  Disconnect leaves the
\* peer's address in the routing table.
handle_command ==
    /\ up /\ loop /\ chan # <<>>
    /\ LET c == Head(chan)
           p == PeerOf[req[c.of].addr]
       IN  /\ known' = IF c.cmd = "AddBootstrapPeer" THEN known \cup {p}
                                                     ELSE known
           /\ conn' = IF c.cmd = "Disconnect" THEN conn \ {p} ELSE conn
           /\ req' = IF c.cmd = "GetConnectedPeers" /\ req[c.of].pc = "reply"
                     THEN [req EXCEPT ![c.of].reply =
                                IF p \in conn THEN "connected" ELSE "not"]
                     ELSE req
    /\ chan' = Tail(chan)
    /\ UNCHANGED <<list, file, copy, loop, up, faults, history>>

\* A connection to a peer of the routing table is made or lost.
ConnectionChanges(p) ==
    /\ up /\ loop /\ p \in known
    /\ conn' = IF p \in conn THEN conn \ {p} ELSE conn \cup {p}
    /\ UNCHANGED <<list, file, req, copy, chan, loop, known, up, faults, history>>

\* run returns with an error: the commands and their reply senders go.
LoopEnds ==
    /\ up /\ loop /\ Fault
    /\ loop' = FALSE /\ chan' = <<>> /\ conn' = {}
    /\ req' = [r \in Request |->
                 IF req[r].pc = "reply" /\ req[r].reply = "none"
                 THEN [req[r] EXCEPT !.reply = "dropped"] ELSE req[r]]
    /\ UNCHANGED <<list, file, copy, known, up, history>>

-----------------------------------------------------------------------------
(* The app stops at any point and is started again.                        *)

Stop ==
    /\ up /\ Fault
    /\ up' = FALSE /\ loop' = FALSE
    /\ chan' = <<>> /\ known' = {} /\ conn' = {}
    /\ spoilt' = (spoilt \/ \E r \in Request : At(r, "write"))
    /\ UNCHANGED <<list, file, req, copy, newest, written>>

\* (DEFAULT_BOOTSTRAP, which is added to the list, is empty.)
Restart ==
    /\ ~up
    /\ up' = TRUE /\ loop' = TRUE
    /\ list' = load_peers
    /\ known' = parse_bootstrap_peers(load_peers)
    /\ req' = [r \in Request |->
                 IF req[r].pc \in Ended \cup {"idle"} THEN req[r]
                 ELSE [req[r] EXCEPT !.pc = "gone"]]
    /\ spoilt' = FALSE
    /\ UNCHANGED <<file, copy, chan, conn, faults, newest, written>>

-----------------------------------------------------------------------------

\* The app starts with the file of an earlier run.
Init ==
    /\ file \in {Empty} \cup {Json(<<a>>) : a \in Peers}
    /\ list = load_peers
    /\ known = parse_bootstrap_peers(list)
    /\ req = [r \in Request |->
                [op |-> "add", addr |-> CHOOSE a \in Address : TRUE,
                 pc |-> "idle", polls |-> 0, reply |-> "none"]]
    /\ copy = [r \in Request |-> [list |-> <<>>, no |-> 0]]
    /\ chan = <<>> /\ conn = {} /\ loop = TRUE /\ up = TRUE
    /\ faults = 0 /\ newest = 0 /\ written = 0 /\ spoilt = FALSE

Next ==
    \/ \E r \in Request :
        \/ handle_peers_add(r) \/ handle_peers_remove(r)
        \/ HandlerStep(r) \/ SaveFails(r) \/ Cancel(r)
    \/ handle_command
    \/ \E p \in PeerId : ConnectionChanges(p)
    \/ LoopEnds \/ Stop \/ Restart

\* The runtime goes on with every handler that can go on, and with the
\* event loop.
Spec == /\ Init /\ [][Next]_vars
        /\ \A r \in Request : WF_vars(HandlerStep(r))
        /\ WF_vars(handle_command)

-----------------------------------------------------------------------------
(* Properties.                                                             *)

\* Whatever additions and removals overlap (two clicks on Add), an address is
\* in the list once, and every entry, also one that went through the file,
\* is dialled at the next start: parse_bootstrap_peers skips none of them.
ListDialable ==
    /\ \A i, j \in DOMAIN list : list[i] = list[j] => i = j
    /\ ToSet(list) \subseteq Peers

\* A stop of the app loses or brings back no address but those of requests
\* that were not answered, unless a save failed or was cut off, or two saves
\* ran at once or in the wrong order.
AnsweredSurvives ==
    [][Restart /\ ~spoilt =>
        \A a \in Address :
            \/ Contains(list', a) = Contains(list, a)
            \/ \E r \in Request : /\ req[r].addr = a
                                  /\ req[r].pc \notin Ended \cup {"idle"}]_vars

\* A request is answered, with an end of the event loop at any point too,
\* unless its client or the app goes.
RequestsAnswered ==
    \A r \in Request :
        req[r].pc # "idle" ~> (req[r].pc \in Ended \/ ~up)

=============================================================================
