---------------------------- MODULE BlobBrowser -----------------------------
(***************************************************************************)
(* The blob browser of the desktop app and the event stream behind it:     *)
(* components/blob.rs (the Fetch button and the handlers of its            *)
(* EventSource), handle_resolve_stream and resolve_blob_with_progress      *)
(* (zing-cdn-gui/src-tauri/src/main.rs, api_http.rs; the server of the     *)
(* command line has the same two).                                         *)
(*                                                                         *)
(* Every connection starts a task of its own on the server, which sends    *)
(* its events into an unbounded channel and runs to its end whether or not *)
(* somebody listens.  An EventSource connects again, after a lost          *)
(* connection and after the end of the stream alike, until its close() is  *)
(* called; the task of a new connection resolves the blob again.           *)
(***************************************************************************)
EXTENDS Integers, Sequences, FiniteSets

CONSTANTS
    Blob,      \* the texts a user enters as blob ids
    Invalid,   \* those that do not parse
    Size,      \* the bytes of a blob
    Riff,      \* the blobs that begin with RIFF
    MaxFetch,  \* bound: clicks on Fetch
    MaxDrops   \* bound: lost connections

ASSUME BlobBrowserAssumption ==
    /\ Invalid \subseteq Blob /\ Riff \subseteq Blob
    /\ Size \in [Blob -> Nat]
    /\ MaxFetch \in Nat \ {0} /\ MaxDrops \in Nat

VARIABLES
    loading, info, err,  \* signals of the component: what the panel shows
    fetch,    \* the fetches: their EventSource
    task,     \* the server's tasks for each fetch
    store,    \* blobs in the cache
    drops,    \* lost connections so far
    extra,    \* history: connections of a fetch, less the ones lost or ended
              \* without a result or an error
    served,   \* history: fetches whose result or error was delivered
    overlap   \* history: a fetch began before the last one had ended

panel == <<loading, info, err>>
history == <<extra, served, overlap>>
vars  == <<panel, fetch, task, store, drops, history>>

Fetch == 1 .. MaxFetch
Slot  == 1 .. MaxDrops + 1
None  == "none"

\* A fetch: its blob, the state of its EventSource, and the task of its
\* connection.
Fetches == [blob: Blob \cup {None}, slot: Slot,
            es: {None, "connecting", "open", "closed"}]

\* A task: where it is, and its events that are still to be delivered.
Tasks == [pc: {None, "start", "cache", "hit", "resolve", "announce"},
          out: Seq({"status", "result", "error"})]

TypeOK ==
    /\ loading \in BOOLEAN /\ overlap \in BOOLEAN
    /\ info \in Blob \cup {None} /\ err \in Blob \cup {None}
    /\ fetch \in [Fetch -> Fetches]
    /\ task \in [Fetch \X Slot -> Tasks]
    /\ \A f \in Fetch, s \in Slot : Len(task[<<f, s>>].out) <= 4
    /\ store \subseteq Blob \ Invalid
    /\ drops \in 0 .. MaxDrops
    /\ extra \in [Fetch -> Int] /\ served \subseteq Fetch

-----------------------------------------------------------------------------
(* The panel.                                                              *)

\* Mutant: what the last fetch brought stays.
ClickedStale(b) ==
    /\ loading' = TRUE
    /\ UNCHANGED <<info, err>>

Clicked(b) ==
    /\ loading' = TRUE
    /\ info' = None /\ err' = None

\* The Fetch button, which is not disabled while a fetch is going on.
Click(f, b) ==
    /\ fetch[f].es = None
    /\ f > 1 => fetch[f - 1].es # None
    /\ Clicked(b)
    /\ fetch' = [fetch EXCEPT ![f].blob = b, ![f].es = "connecting"]
    /\ overlap' = (overlap \/ (f > 1 /\ fetch[f - 1].es # "closed"))
    /\ UNCHANGED <<task, store, drops, extra, served>>

\* Mutant: the handler of an error leaves the EventSource open.
OnMessageOpen(f, event) ==
    /\ info' = IF event = "result" THEN fetch[f].blob ELSE info
    /\ err' = IF event = "error" THEN fetch[f].blob ELSE err
    /\ loading' = (loading /\ event = "status")
    /\ fetch' = IF event # "result" THEN fetch
                ELSE [fetch EXCEPT ![f].es = "closed"]

\* onmessage: a result or an error is shown and closes the EventSource.
OnMessage(f, event) ==
    /\ info' = IF event = "result" THEN fetch[f].blob ELSE info
    /\ err' = IF event = "error" THEN fetch[f].blob ELSE err
    /\ loading' = (loading /\ event = "status")
    /\ fetch' = IF event = "status" THEN fetch
                ELSE [fetch EXCEPT ![f].es = "closed"]

Deliver(f) ==
    LET here == <<f, fetch[f].slot>>
    IN  /\ fetch[f].es = "open" /\ task[here].out # <<>>
        /\ OnMessage(f, Head(task[here].out))
        /\ task' = [task EXCEPT ![here].out = Tail(@)]
        /\ served' = IF Head(task[here].out) = "status" THEN served
                     ELSE served \cup {f}
        /\ UNCHANGED <<store, drops, extra, overlap>>

-----------------------------------------------------------------------------
(* The EventSource (the browser's).  onerror acts only on one that is      *)
(* closed: a lost connection is left to the browser.                       *)

\* A connection is made: handle_resolve_stream starts a task.
Connect(f) ==
    /\ fetch[f].es = "connecting"
    /\ \E s \in Slot :
        /\ task[<<f, s>>] = [pc |-> None, out |-> <<>>]
        /\ \A r \in 1 .. s - 1 : task[<<f, r>>].pc # None
        /\ fetch' = [fetch EXCEPT ![f].es = "open", ![f].slot = s]
        /\ task' = [task EXCEPT ![<<f, s>>].pc = "start"]
    /\ extra' = [extra EXCEPT ![f] = @ + 1]
    /\ UNCHANGED <<panel, store, drops, served, overlap>>

\* The task has dropped its sender and all events are delivered.
StreamEnds(f) ==
    /\ fetch[f].es = "open"
    /\ task[<<f, fetch[f].slot>>] = [pc |-> None, out |-> <<>>]
    /\ fetch' = [fetch EXCEPT ![f].es = "connecting"]
    /\ extra' = [extra EXCEPT ![f] = IF f \in served THEN @ ELSE @ - 1]
    /\ UNCHANGED <<panel, task, store, drops, served, overlap>>

\* What was sent and not delivered is lost; the task goes on.
ConnectionLost(f) ==
    /\ fetch[f].es = "open" /\ drops < MaxDrops
    /\ drops' = drops + 1
    /\ fetch' = [fetch EXCEPT ![f].es = "connecting"]
    /\ task' = [task EXCEPT ![<<f, fetch[f].slot>>].out = <<>>]
    /\ extra' = [extra EXCEPT ![f] = @ - 1]
    /\ UNCHANGED <<panel, store, served, overlap>>

-----------------------------------------------------------------------------
(* The task: resolve_blob_with_progress.                                   *)

\* detect_mime reads bytes 8 to 11 of what is longer than 8 bytes and begins
\* with RIFF: the slice panics when there are fewer than 12.
detect_mime_ok(b) == b \in Riff /\ Size[b] > 8 => Size[b] >= 12

Listens(f, s) == fetch[f].es = "open" /\ fetch[f].slot = s

\* The task sends events, which are dropped if nobody listens, and goes on
\* at pc; None is its end, by a return or a panic.
Proceed(f, s, events, pc) ==
    task' = [task EXCEPT ![<<f, s>>] =
               [pc |-> pc,
                out |-> IF Listens(f, s) THEN @.out \o events ELSE <<>>]]

TaskStarts(f, s) ==
    /\ task[<<f, s>>].pc = "start"
    /\ IF fetch[f].blob \in Invalid
       THEN Proceed(f, s, <<"error">>, None)
       ELSE Proceed(f, s, <<"status">>, "cache")
    /\ UNCHANGED store

\* Mutant: no return after the result of a hit.
CacheReadOn(f, s) ==
    /\ task[<<f, s>>].pc = "cache"
    /\ IF fetch[f].blob \notin store THEN Proceed(f, s, <<"status">>, "resolve")
       ELSE Proceed(f, s, <<"result", "status">>, "resolve")
    /\ UNCHANGED store

\* A hit: the result is sent before the blob is announced.
CacheRead(f, s) ==
    /\ task[<<f, s>>].pc = "cache"
    /\ IF fetch[f].blob \notin store THEN Proceed(f, s, <<"status">>, "resolve")
       ELSE IF detect_mime_ok(fetch[f].blob)
       THEN Proceed(f, s, <<"result">>, "hit")
       ELSE Proceed(f, s, <<>>, None)
    /\ UNCHANGED store

HitAnnounced(f, s) ==
    /\ task[<<f, s>>].pc = "hit"
    /\ Proceed(f, s, <<>>, None)
    /\ UNCHANGED store

\* Mutant: an error of the resolver ends the task without an event.
ResolvedSilently(f, s) ==
    /\ task[<<f, s>>].pc = "resolve"
    /\ \/ IF detect_mime_ok(fetch[f].blob)
          THEN Proceed(f, s, <<"status">>, "announce")
          ELSE Proceed(f, s, <<"status">>, None)
       \/ Proceed(f, s, <<>>, None)
    /\ store' \in {store, store \cup {fetch[f].blob}}

\* Resolver::resolve: the blob, which the cache keeps unless the put failed
\* or the eviction took it at once, or an error, which may follow a put too
\* (resolve_from_walrus, when the eviction fails).
Resolved(f, s) ==
    /\ task[<<f, s>>].pc = "resolve"
    /\ \/ IF detect_mime_ok(fetch[f].blob)
          THEN Proceed(f, s, <<"status">>, "announce")
          ELSE Proceed(f, s, <<"status">>, None)
       \/ Proceed(f, s, <<"error">>, None)
    /\ store' \in {store, store \cup {fetch[f].blob}}

\* The blob is announced before its result is sent.
Announced(f, s) ==
    /\ task[<<f, s>>].pc = "announce"
    /\ Proceed(f, s, <<"result">>, None)
    /\ UNCHANGED store

TaskStep(f, s) ==
    /\ \/ TaskStarts(f, s) \/ CacheRead(f, s) \/ HitAnnounced(f, s)
       \/ Resolved(f, s) \/ Announced(f, s)
    /\ UNCHANGED <<panel, fetch, drops, history>>

\* Eviction and the delete button.
BlobLeaves(b) ==
    /\ b \in store /\ store' = store \ {b}
    /\ UNCHANGED <<panel, fetch, task, drops, history>>

-----------------------------------------------------------------------------

Init ==
    /\ loading = FALSE /\ info = None /\ err = None
    /\ fetch = [f \in Fetch |-> [blob |-> None, slot |-> 1, es |-> None]]
    /\ task = [x \in Fetch \X Slot |-> [pc |-> None, out |-> <<>>]]
    /\ store \in SUBSET (Blob \ Invalid)
    /\ drops = 0 /\ overlap = FALSE
    /\ extra = [f \in Fetch |-> 0] /\ served = {}

Next ==
    \/ \E f \in Fetch :
        \/ \E b \in Blob : Click(f, b)
        \/ Deliver(f) \/ Connect(f) \/ StreamEnds(f) \/ ConnectionLost(f)
        \/ \E s \in Slot : TaskStep(f, s)
    \/ \E b \in Blob : BlobLeaves(b)

\* The browser connects and delivers; the runtime runs the tasks, and
\* Resolver::resolve returns (the liveness part of FetchImplemented).
Spec ==
    /\ Init /\ [][Next]_vars
    /\ \A f \in Fetch :
        /\ WF_vars(Connect(f)) /\ WF_vars(Deliver(f)) /\ WF_vars(StreamEnds(f))
        /\ \A s \in Slot : WF_vars(TaskStep(f, s))

-----------------------------------------------------------------------------
(* Properties.                                                             *)

\* Every connection after the first, and with it every further resolution
\* of the blob and its payment, is due to a lost connection or a task that
\* died: an EventSource whose result or error arrived never connects again.
ResolvedAgainOnlyAfterLoss ==
    \A f \in Fetch : extra[f] <= 1

\* While fetches do not overlap, the panel tells the truth about the last
\* one: it shows Fetching until the end of the stream, and then what the
\* blob brought, a result or an error and not both.
PanelHonest ==
    \A f \in Fetch :
        /\ ~overlap /\ fetch[f].es # None
        /\ f < MaxFetch => fetch[f + 1].es = None
        => /\ loading = (fetch[f].es # "closed")
           /\ IF loading THEN info = None /\ err = None
              ELSE {info, err} = {fetch[f].blob, None}

\* A fetch comes to its end, with lost connections and with blobs that come
\* and go in the cache, if detect_mime survives the blob.
FetchesEnd ==
    \A f \in Fetch :
        fetch[f].es # None
        ~> fetch[f].es = "closed" \/ ~detect_mime_ok(fetch[f].blob)

=============================================================================
