------------------------- MODULE BlobBrowserProofs -------------------------
(***************************************************************************)
(* The blob browser, for any blobs, any number of clicks and any number of *)
(* lost connections: what an EventSource costs, and what the panel shows.  *)
(***************************************************************************)
EXTENDS BlobBrowser, TLAPS

Event == {"status", "result", "error"}
TaskPc == {None, "start", "cache", "hit", "resolve", "announce"}

\* What a task may have sent by the time it is at pc.
Room(pc) ==
    IF pc = "start" THEN 0 ELSE IF pc = "cache" THEN 1
    ELSE IF pc \in {"hit", "resolve"} THEN 2 ELSE IF pc = "announce" THEN 3
    ELSE 4

OutFits == \A x \in Fetch \X Slot : Len(task[x].out) <= Room(task[x].pc)

\* A task belongs to a fetch that has begun, and past its start the text of
\* the fetch is a blob id.
BlobsGiven == \A f \in Fetch : fetch[f].es # None => fetch[f].blob \in Blob
TasksStarted ==
    \A f \in Fetch, s \in Slot :
        /\ task[<<f, s>>].pc # None => fetch[f].es # None
        /\ task[<<f, s>>].pc \notin {None, "start"} => fetch[f].blob \notin Invalid

\* A fetch counts one connection while its EventSource is open or closed,
\* and none before and between: it is closed when its result or error is
\* delivered, and by nothing else.
ConnectionsCounted ==
    \A f \in Fetch :
        extra[f] = IF fetch[f].es \in {"open", "closed"} THEN 1 ELSE 0
ServedClosed == \A f \in Fetch : f \in served <=> fetch[f].es = "closed"

\* The fetches are begun in order, each after the end of the ones before
\* unless an overlap is on record.
InOrder ==
    \A f, g \in Fetch : f < g /\ fetch[g].es # None => fetch[f].es # None
OneAtATime ==
    ~overlap => \A f, g \in Fetch :
                    f < g /\ fetch[g].es # None => fetch[f].es = "closed"

IInv ==
    /\ TypeOK /\ OutFits /\ BlobsGiven /\ TasksStarted
    /\ ConnectionsCounted /\ ServedClosed
    /\ InOrder /\ OneAtATime /\ PanelHonest

-----------------------------------------------------------------------------
(* The parts of the state.                                                 *)

LEMMA FetchTyped ==
    ASSUME IInv, NEW f \in Fetch
    PROVE  /\ fetch[f].blob \in Blob \cup {None} /\ fetch[f].slot \in Slot
           /\ fetch[f].es \in {None, "connecting", "open", "closed"}
           /\ <<f, fetch[f].slot>> \in Fetch \X Slot
           /\ f \in Nat /\ f >= 1
    BY BlobBrowserAssumption
       DEF IInv, TypeOK, Fetches, Fetch, Slot, BlobBrowserAssumption

LEMMA TaskTyped ==
    ASSUME IInv, NEW x \in Fetch \X Slot
    PROVE  task[x].pc \in TaskPc /\ task[x].out \in Seq(Event)
    BY DEF IInv, TypeOK, Tasks, TaskPc, Event

\* Only the events of a task change.
LEMMA TaskOut ==
    ASSUME NEW t \in Tasks, NEW o \in Seq(Event)
    PROVE  /\ [t EXCEPT !.out = o] = [pc |-> t.pc, out |-> o]
           /\ [pc |-> t.pc, out |-> o] \in Tasks
    BY DEF Tasks, Event

\* The fetch after f is a fetch too.
LEMMA NextFetch ==
    ASSUME NEW f \in Fetch, f < MaxFetch
    PROVE  f + 1 \in Fetch /\ f < f + 1
    BY BlobBrowserAssumption DEF Fetch, BlobBrowserAssumption

\* The panel stays honest while it, the begun and the closed fetches stay.
LEMMA PanelKept ==
    ASSUME IInv,
           \A g \in Fetch : /\ fetch'[g].es = None <=> fetch[g].es = None
                            /\ fetch'[g].es = "closed" <=> fetch[g].es = "closed"
                            /\ fetch'[g].blob = fetch[g].blob,
           loading' = loading, info' = info, err' = err, overlap' = overlap
    PROVE  PanelHonest'
<1>1. SUFFICES ASSUME NEW g \in Fetch, ~overlap, fetch'[g].es # None,
                      g < MaxFetch => fetch'[g + 1].es = None
               PROVE  /\ loading' = (fetch'[g].es # "closed")
                      /\ IF loading' THEN info' = None /\ err' = None
                         ELSE {info', err'} = {fetch'[g].blob, None}
    BY DEF PanelHonest
<1>2. fetch[g].es # None /\ (g < MaxFetch => fetch[g + 1].es = None)
    BY <1>1, NextFetch
<1>3. /\ loading = (fetch[g].es # "closed")
      /\ IF loading THEN info = None /\ err = None
         ELSE {info, err} = {fetch[g].blob, None}
    BY <1>1, <1>2 DEF IInv, PanelHonest
<1> QED
    BY <1>3

\* A step that moves one EventSource between "connecting" and "open" and
\* leaves the panel alone.
LEMMA SourceMoves ==
    ASSUME IInv, NEW f \in Fetch,
           {fetch[f].es, fetch'[f].es} \subseteq {"connecting", "open"},
           fetch'[f].blob = fetch[f].blob,
           extra'[f] = IF fetch'[f].es = "open" THEN 1 ELSE 0,
           \A g \in Fetch \ {f} : fetch'[g] = fetch[g] /\ extra'[g] = extra[g],
           UNCHANGED <<panel, served, overlap>>
    PROVE  /\ BlobsGiven' /\ ConnectionsCounted' /\ ServedClosed'
           /\ InOrder' /\ OneAtATime' /\ PanelHonest'
<1>1. \A g \in Fetch : /\ fetch'[g].es = None <=> fetch[g].es = None
                       /\ fetch'[g].es = "closed" <=> fetch[g].es = "closed"
                       /\ fetch'[g].blob = fetch[g].blob
    BY DEF None
<1>2. /\ loading' = loading /\ info' = info /\ err' = err
      /\ served' = served /\ overlap' = overlap
    BY DEF panel
<1>3. ConnectionsCounted'
    BY DEF IInv, ConnectionsCounted
<1>4. BlobsGiven' /\ ServedClosed' /\ InOrder' /\ OneAtATime'
    BY <1>1, <1>2 DEF IInv, BlobsGiven, ServedClosed, InOrder, OneAtATime
<1>5. PanelHonest'
    BY <1>1, <1>2, PanelKept
<1> QED
    BY <1>3, <1>4, <1>5

\* What a step on the tasks and the cache alone leaves as it was.
LEMMA SourcesUntouched ==
    ASSUME IInv, UNCHANGED <<panel, fetch, history>>
    PROVE  /\ BlobsGiven' /\ ConnectionsCounted' /\ ServedClosed'
           /\ InOrder' /\ OneAtATime' /\ PanelHonest'
<1>1. /\ loading' = loading /\ info' = info /\ err' = err /\ fetch' = fetch
      /\ extra' = extra /\ served' = served /\ overlap' = overlap
    BY DEF panel, history
<1> QED
    BY <1>1 DEF IInv, BlobsGiven, ConnectionsCounted, ServedClosed, InOrder,
                OneAtATime, PanelHonest

\* One task changes.
LEMMA TaskMoves ==
    ASSUME IInv, NEW x \in Fetch \X Slot, NEW new \in Tasks,
           Len(new.out) <= Room(new.pc), task' = [task EXCEPT ![x] = new]
    PROVE  /\ task' \in [Fetch \X Slot -> Tasks] /\ OutFits'
           /\ \A f \in Fetch, s \in Slot : Len(task'[<<f, s>>].out) <= 4
<1>1. \A y \in Fetch \X Slot : task'[y] = IF y = x THEN new ELSE task[y]
    BY DEF IInv, TypeOK
<1>2. task' \in [Fetch \X Slot -> Tasks]
    BY DEF IInv, TypeOK
<1>3. OutFits'
    BY <1>1 DEF IInv, OutFits
<1>4. \A y \in Fetch \X Slot : Len(task'[y].out) <= 4
    <2>1. SUFFICES ASSUME NEW y \in Fetch \X Slot
                   PROVE  Len(task'[y].out) <= 4
        OBVIOUS
    <2>2. task'[y].out \in Seq(Event) /\ Len(task'[y].out) \in Nat
        BY <1>2 DEF Tasks, Event
    <2> QED
        BY <1>3, <2>2 DEF OutFits, Room
<1> QED
    BY <1>2, <1>3, <1>4

-----------------------------------------------------------------------------
(* Each kind of step keeps the invariant.                                  *)

\* Where a task goes on to, and what it sends on the way.
LEMMA ProceedKeeps ==
    ASSUME IInv, NEW f \in Fetch, NEW s \in Slot, NEW events \in Seq(Event),
           NEW pc \in TaskPc, Room(task[<<f, s>>].pc) + Len(events) <= Room(pc),
           Proceed(f, s, events, pc)
    PROVE  /\ task' \in [Fetch \X Slot -> Tasks] /\ OutFits'
           /\ \A g \in Fetch, t \in Slot : Len(task'[<<g, t>>].out) <= 4
<1> DEFINE x == <<f, s>>
           out == IF Listens(f, s) THEN task[x].out \o events ELSE <<>>
           new == [pc |-> pc, out |-> out]
<1>1. x \in Fetch \X Slot
    OBVIOUS
<1>2. task[x].pc \in TaskPc /\ task[x].out \in Seq(Event)
    BY <1>1, TaskTyped
<1>3. task' = [task EXCEPT ![x] = new]
    BY DEF Proceed
<1>4. Len(task[x].out) <= Room(task[x].pc) /\ Room(task[x].pc) \in Nat
    BY <1>1 DEF IInv, OutFits, Room
<1>5. Room(pc) \in Nat /\ Len(events) \in Nat /\ Len(task[x].out) \in Nat
    BY <1>2 DEF Room
<1>6. out \in Seq(Event) /\ Len(out) <= Room(pc)
    BY <1>2, <1>4, <1>5
<1>7. new \in Tasks /\ new.out = out /\ new.pc = pc
    BY <1>6 DEF Tasks, TaskPc, Event
<1> HIDE DEF x, out, new
<1> QED
    BY <1>1, <1>3, <1>6, <1>7, TaskMoves

\* A step of resolve_blob_with_progress.
LEMMA TaskStepKeeps ==
    ASSUME IInv, NEW f \in Fetch, NEW s \in Slot, TaskStep(f, s)
    PROVE  IInv'
<1>1. UNCHANGED <<panel, fetch, history>> /\ drops' = drops
    BY DEF TaskStep
<1>2. /\ <<>> \in Seq(Event) /\ Len(<<>>) = 0
      /\ \A e \in Event : <<e>> \in Seq(Event) /\ Len(<<e>>) = 1
    OBVIOUS
<1>3. <<f, s>> \in Fetch \X Slot
    OBVIOUS
<1> DEFINE Goes(events, pc) ==
              /\ Proceed(f, s, events, pc)
              /\ Room(task[<<f, s>>].pc) + Len(events) <= Room(pc)
              /\ task[<<f, s>>].pc # None
              /\ pc # None => pc # "start"
              /\ pc # None /\ task[<<f, s>>].pc = "start" =>
                    fetch[f].blob \notin Invalid
<1>4. \E events \in {<<>>} \cup {<<e>> : e \in Event}, pc \in TaskPc :
          Goes(events, pc)
    <2>1. CASE TaskStarts(f, s)
        <3>1. Goes(<<"error">>, None) \/ Goes(<<"status">>, "cache")
            BY <2>1, <1>2 DEF TaskStarts, Room, None, Event
        <3> QED
            BY <3>1 DEF TaskPc, Event
    <2>2. CASE CacheRead(f, s)
        <3>1. \/ Goes(<<"status">>, "resolve") \/ Goes(<<"result">>, "hit")
              \/ Goes(<<>>, None)
            BY <2>2, <1>2 DEF CacheRead, Room, None, Event
        <3> QED
            BY <3>1 DEF TaskPc, Event
    <2>3. CASE HitAnnounced(f, s)
        <3>1. Goes(<<>>, None)
            BY <2>3, <1>2 DEF HitAnnounced, Room, None, Event
        <3> QED
            BY <3>1 DEF TaskPc, Event
    <2>4. CASE Resolved(f, s)
        <3>1. \/ Goes(<<"status">>, "announce") \/ Goes(<<"status">>, None)
              \/ Goes(<<"error">>, None)
            BY <2>4, <1>2 DEF Resolved, Room, None, Event
        <3> QED
            BY <3>1 DEF TaskPc, Event
    <2>5. CASE Announced(f, s)
        <3>1. Goes(<<"result">>, None)
            BY <2>5, <1>2 DEF Announced, Room, None, Event
        <3> QED
            BY <3>1 DEF TaskPc, Event
    <2> QED
        BY <2>1, <2>2, <2>3, <2>4, <2>5 DEF TaskStep
<1>4a. PICK events \in {<<>>} \cup {<<e>> : e \in Event}, pc \in TaskPc :
          Goes(events, pc)
    BY <1>4
<1>5. /\ task' \in [Fetch \X Slot -> Tasks] /\ OutFits'
      /\ \A g \in Fetch, t \in Slot : Len(task'[<<g, t>>].out) <= 4
    <2>1. events \in Seq(Event)
        BY <1>2
    <2> QED
        BY <1>4a, <2>1, ProceedKeeps
<1>6. TasksStarted'
    <2>1. /\ task'[<<f, s>>].pc = pc
          /\ \A y \in Fetch \X Slot : y # <<f, s>> => task'[y] = task[y]
        BY <1>3, <1>4a DEF Proceed, IInv, TypeOK
    <2>2. SUFFICES ASSUME NEW g \in Fetch, NEW t \in Slot
                   PROVE  /\ task'[<<g, t>>].pc # None => fetch[g].es # None
                          /\ task'[<<g, t>>].pc \notin {None, "start"} =>
                                fetch[g].blob \notin Invalid
        BY <1>1 DEF TasksStarted
    <2>3. CASE <<g, t>> = <<f, s>>
        BY <1>4a, <2>1, <2>3 DEF IInv, TasksStarted
    <2>4. CASE <<g, t>> # <<f, s>>
        BY <2>1, <2>4 DEF IInv, TasksStarted
    <2> QED
        BY <2>3, <2>4
<1>7. store' \subseteq Blob \ Invalid
    <2>1. \/ store' = store
          \/ /\ store' = store \cup {fetch[f].blob}
             /\ task[<<f, s>>].pc = "resolve"
        BY DEF TaskStep, TaskStarts, CacheRead, HitAnnounced, Resolved, Announced
    <2>2. task[<<f, s>>].pc = "resolve" => fetch[f].blob \in Blob \ Invalid
        BY DEF IInv, TasksStarted, BlobsGiven, None
    <2> QED
        BY <2>1, <2>2 DEF IInv, TypeOK
<1>8. TypeOK'
    BY <1>1, <1>5, <1>7 DEF IInv, TypeOK, panel, history
<1> QED
    BY <1>1, <1>5, <1>6, <1>8, SourcesUntouched DEF IInv

\* A blob leaves the cache.
LEMMA LeaveKeeps ==
    ASSUME IInv, NEW b \in Blob, BlobLeaves(b)
    PROVE  IInv'
<1>1. /\ UNCHANGED <<panel, fetch, history>> /\ store' \subseteq store
      /\ task' = task /\ drops' = drops
    BY DEF BlobLeaves
<1>2. TypeOK'
    BY <1>1 DEF IInv, TypeOK, panel, history
<1>3. OutFits' /\ TasksStarted'
    BY <1>1 DEF IInv, OutFits, TasksStarted
<1> QED
    BY <1>1, <1>2, <1>3, SourcesUntouched DEF IInv

\* The tasks of every fetch stay where they are, and so do the blob and the
\* begun state of their fetches.
LEMMA TasksKept ==
    ASSUME IInv,
           \A x \in Fetch \X Slot : task'[x].pc = task[x].pc,
           \A g \in Fetch : fetch[g].es # None =>
               fetch'[g].es # None /\ fetch'[g].blob = fetch[g].blob
    PROVE  TasksStarted'
<1>1. SUFFICES ASSUME NEW g \in Fetch, NEW t \in Slot
               PROVE  /\ task'[<<g, t>>].pc # None => fetch'[g].es # None
                      /\ task'[<<g, t>>].pc \notin {None, "start"} =>
                            fetch'[g].blob \notin Invalid
    BY DEF TasksStarted
<1>2. task'[<<g, t>>].pc = task[<<g, t>>].pc
    OBVIOUS
<1> QED
    BY <1>2 DEF IInv, TasksStarted

\* A click on Fetch: the last fetch is now f, which was not begun.
LEMMA ClickKeeps ==
    ASSUME IInv, NEW f \in Fetch, NEW b \in Blob, Click(f, b)
    PROVE  IInv'
<1>1. /\ fetch[f].es = None
      /\ f > 1 => fetch[f - 1].es # None
      /\ loading' = TRUE /\ info' = None /\ err' = None
      /\ fetch' = [fetch EXCEPT ![f].blob = b, ![f].es = "connecting"]
      /\ overlap' = (overlap \/ (f > 1 /\ fetch[f - 1].es # "closed"))
      /\ task' = task /\ store' = store /\ drops' = drops
      /\ extra' = extra /\ served' = served
    BY DEF Click, Clicked
<1>2. /\ fetch'[f].es = "connecting" /\ fetch'[f].blob = b
      /\ \A g \in Fetch \ {f} : fetch'[g] = fetch[g]
      /\ fetch' \in [Fetch -> Fetches]
    <2>1. fetch' = [fetch EXCEPT ![f] = [@ EXCEPT !.blob = b, !.es = "connecting"]]
        BY <1>1
    <2> QED
        BY <2>1 DEF IInv, TypeOK, Fetches
<1>3. Fetch \subseteq Nat /\ \A g \in Fetch : g >= 1 /\ g <= MaxFetch
    BY BlobBrowserAssumption DEF Fetch, BlobBrowserAssumption
<1>4. f > 1 => f - 1 \in Fetch
    BY <1>3, BlobBrowserAssumption DEF Fetch, BlobBrowserAssumption
<1>5. overlap \in BOOLEAN /\ overlap' \in BOOLEAN
    BY <1>1 DEF IInv, TypeOK
<1>6. TypeOK'
    BY <1>1, <1>2, <1>5 DEF IInv, TypeOK
<1>7. OutFits' /\ TasksStarted'
    BY <1>1, <1>2, TasksKept DEF IInv, OutFits
<1>8. BlobsGiven' /\ ConnectionsCounted' /\ ServedClosed'
    BY <1>1, <1>2 DEF IInv, BlobsGiven, ConnectionsCounted, ServedClosed, None
<1>9. \A g \in Fetch : g > f => fetch[g].es = None
    BY <1>1, <1>3 DEF IInv, InOrder
<1>10. \A g \in Fetch : g < f => fetch[g].es # None
    <2>1. SUFFICES ASSUME NEW g \in Fetch, g < f, fetch[g].es = None
                   PROVE  FALSE
        OBVIOUS
    <2>2. f > 1 /\ f - 1 \in Fetch /\ (g = f - 1 \/ g < f - 1)
        BY <1>3, <1>4, <2>1
    <2> QED
        BY <1>1, <2>1, <2>2 DEF IInv, InOrder
<1>11. InOrder'
    BY <1>2, <1>3, <1>9, <1>10 DEF IInv, InOrder, None
<1>12. ~overlap' => \A g \in Fetch : g < f => fetch[g].es = "closed"
    <2>1. SUFFICES ASSUME ~overlap', NEW g \in Fetch, g < f
                   PROVE  fetch[g].es = "closed"
        OBVIOUS
    <2>2. f > 1 /\ f - 1 \in Fetch /\ (g = f - 1 \/ g < f - 1)
        BY <1>3, <1>4, <2>1
    <2>3. ~overlap /\ fetch[f - 1].es = "closed"
        BY <1>1, <1>5, <2>1, <2>2
    <2> QED
        BY <1>1, <2>2, <2>3 DEF IInv, OneAtATime
<1>13. OneAtATime'
    <2>1. SUFFICES ASSUME ~overlap', NEW g \in Fetch, NEW h \in Fetch,
                          g < h, fetch'[h].es # None
                   PROVE  fetch'[g].es = "closed"
        BY DEF OneAtATime
    <2>2. ~overlap
        BY <1>1, <1>5, <2>1
    <2>3. h = f \/ (h # f /\ h < f)
        BY <1>2, <1>3, <1>9, <2>1
    <2>4. g < f /\ g # f
        BY <1>3, <2>1, <2>3
    <2> QED
        BY <1>2, <1>12, <2>1, <2>4
<1>14. PanelHonest'
    <2>1. SUFFICES ASSUME NEW g \in Fetch, fetch'[g].es # None,
                          g < MaxFetch => fetch'[g + 1].es = None
                   PROVE  /\ loading' = (fetch'[g].es # "closed")
                          /\ IF loading' THEN info' = None /\ err' = None
                             ELSE {info', err'} = {fetch'[g].blob, None}
        BY DEF PanelHonest
    <2>2. g = f
        <3>1. g <= f
            BY <1>2, <1>3, <1>9, <2>1
        <3>2. CASE g < f
            <4>1. g < MaxFetch /\ g + 1 \in Fetch /\ (g + 1 = f \/ g + 1 < f)
                BY <1>3, <3>2, BlobBrowserAssumption
                   DEF Fetch, BlobBrowserAssumption
            <4>2. fetch'[g + 1].es # None
                BY <1>2, <1>10, <4>1 DEF None
            <4> QED
                BY <2>1, <4>1, <4>2
        <3> QED
            BY <1>3, <3>1, <3>2
    <2> QED
        BY <1>1, <1>2, <2>2
<1> QED
    BY <1>6, <1>7, <1>8, <1>11, <1>13, <1>14 DEF IInv

\* An EventSource connects: a task starts.
LEMMA ConnectKeeps ==
    ASSUME IInv, NEW f \in Fetch, Connect(f)
    PROVE  IInv'
<1>1. /\ fetch[f].es = "connecting"
      /\ extra' = [extra EXCEPT ![f] = @ + 1]
      /\ UNCHANGED <<panel, served, overlap>>
      /\ store' = store /\ drops' = drops
    BY DEF Connect
<1>2. PICK s \in Slot :
        /\ task[<<f, s>>] = [pc |-> None, out |-> <<>>]
        /\ fetch' = [fetch EXCEPT ![f].es = "open", ![f].slot = s]
        /\ task' = [task EXCEPT ![<<f, s>>].pc = "start"]
    BY DEF Connect
<1> DEFINE new == [pc |-> "start", out |-> <<>>]
<1>3. <<f, s>> \in Fetch \X Slot
    OBVIOUS
<1>4. task' = [task EXCEPT ![<<f, s>>] = new]
    <2>1. [task[<<f, s>>] EXCEPT !.pc = "start"] = new
        BY <1>2
    <2> QED
        BY <1>2, <2>1
<1>5. new \in Tasks /\ Len(new.out) <= Room(new.pc)
    BY DEF Tasks, Room
<1> HIDE DEF new
<1>6. /\ task' \in [Fetch \X Slot -> Tasks] /\ OutFits'
      /\ \A g \in Fetch, t \in Slot : Len(task'[<<g, t>>].out) <= 4
    BY <1>3, <1>4, <1>5, TaskMoves
<1>7. /\ extra' \in [Fetch -> Int] /\ extra'[f] = 1
      /\ \A g \in Fetch \ {f} : extra'[g] = extra[g]
    <2>1. extra[f] = 0
        BY <1>1 DEF IInv, ConnectionsCounted
    <2> QED
        BY <1>1, <2>1 DEF IInv, TypeOK
<1>8. /\ fetch'[f].es = "open" /\ fetch'[f].blob = fetch[f].blob
      /\ fetch' \in [Fetch -> Fetches]
      /\ \A g \in Fetch \ {f} : fetch'[g] = fetch[g]
    <2>1. fetch' = [fetch EXCEPT ![f] = [@ EXCEPT !.es = "open", !.slot = s]]
        BY <1>2
    <2> QED
        BY <2>1 DEF IInv, TypeOK, Fetches
<1>9. /\ BlobsGiven' /\ ConnectionsCounted' /\ ServedClosed'
      /\ InOrder' /\ OneAtATime' /\ PanelHonest'
    BY <1>1, <1>7, <1>8, SourceMoves
<1>10. TypeOK'
    BY <1>1, <1>6, <1>7, <1>8 DEF IInv, TypeOK, panel
<1>11. TasksStarted'
    <2>1. \A g \in Fetch : g # f => fetch'[g] = fetch[g]
        BY <1>8
    <2>2. task'[<<f, s>>].pc = "start"
        BY <1>4, <1>3 DEF IInv, TypeOK, new
    <2>3. \A y \in Fetch \X Slot : y # <<f, s>> => task'[y] = task[y]
        BY <1>4 DEF IInv, TypeOK
    <2>4. SUFFICES ASSUME NEW g \in Fetch, NEW t \in Slot
                   PROVE  /\ task'[<<g, t>>].pc # None => fetch'[g].es # None
                          /\ task'[<<g, t>>].pc \notin {None, "start"} =>
                                fetch'[g].blob \notin Invalid
        BY DEF TasksStarted
    <2>5. CASE <<g, t>> = <<f, s>>
        BY <1>8, <2>2, <2>5 DEF None
    <2>6. CASE <<g, t>> # <<f, s>>
        BY <1>8, <2>1, <2>3, <2>6 DEF IInv, TasksStarted, None
    <2> QED
        BY <2>5, <2>6
<1> QED
    BY <1>6, <1>9, <1>10, <1>11 DEF IInv

\* A stream ends without a result or an error, and the EventSource connects
\* again; one that had its result or error is closed and does not.
LEMMA StreamEndKeeps ==
    ASSUME IInv, NEW f \in Fetch, StreamEnds(f)
    PROVE  IInv'
<1>1. /\ fetch[f].es = "open"
      /\ fetch' = [fetch EXCEPT ![f].es = "connecting"]
      /\ extra' = [extra EXCEPT ![f] = IF f \in served THEN @ ELSE @ - 1]
      /\ UNCHANGED <<panel, served, overlap>>
      /\ task' = task /\ store' = store /\ drops' = drops
    BY DEF StreamEnds
<1>2. /\ fetch'[f].es = "connecting" /\ fetch'[f].blob = fetch[f].blob
      /\ fetch' \in [Fetch -> Fetches]
      /\ \A g \in Fetch \ {f} : fetch'[g] = fetch[g]
    BY <1>1 DEF IInv, TypeOK, Fetches
<1>3. /\ extra' \in [Fetch -> Int] /\ extra'[f] = 0
      /\ \A g \in Fetch \ {f} : extra'[g] = extra[g]
    <2>1. extra[f] = 1 /\ f \notin served
        BY <1>1 DEF IInv, ConnectionsCounted, ServedClosed
    <2> QED
        BY <1>1, <2>1 DEF IInv, TypeOK
<1>4. /\ BlobsGiven' /\ ConnectionsCounted' /\ ServedClosed'
      /\ InOrder' /\ OneAtATime' /\ PanelHonest'
    BY <1>1, <1>2, <1>3, SourceMoves
<1>5. TypeOK'
    BY <1>1, <1>2, <1>3 DEF IInv, TypeOK, panel
<1>6. OutFits' /\ TasksStarted'
    BY <1>1, <1>2, TasksKept DEF IInv, OutFits, None
<1> QED
    BY <1>4, <1>5, <1>6 DEF IInv

\* A connection is lost with the events on it; its task goes on.
LEMMA LossKeeps ==
    ASSUME IInv, NEW f \in Fetch, ConnectionLost(f)
    PROVE  IInv'
<1> DEFINE x == <<f, fetch[f].slot>>
           new == [pc |-> task[x].pc, out |-> <<>>]
<1>1. /\ fetch[f].es = "open" /\ drops < MaxDrops /\ drops' = drops + 1
      /\ fetch' = [fetch EXCEPT ![f].es = "connecting"]
      /\ task' = [task EXCEPT ![x].out = <<>>]
      /\ extra' = [extra EXCEPT ![f] = @ - 1]
      /\ UNCHANGED <<panel, served, overlap>> /\ store' = store
    BY DEF ConnectionLost
<1>2. /\ fetch'[f].es = "connecting" /\ fetch'[f].blob = fetch[f].blob
      /\ fetch' \in [Fetch -> Fetches]
      /\ \A g \in Fetch \ {f} : fetch'[g] = fetch[g]
    BY <1>1 DEF IInv, TypeOK, Fetches
<1>3. /\ extra' \in [Fetch -> Int] /\ extra'[f] = 0
      /\ \A g \in Fetch \ {f} : extra'[g] = extra[g]
    <2>1. extra[f] = 1
        BY <1>1 DEF IInv, ConnectionsCounted
    <2> QED
        BY <1>1, <2>1 DEF IInv, TypeOK
<1>4. x \in Fetch \X Slot
    BY FetchTyped
<1>5. task[x].pc \in TaskPc /\ task[x] \in Tasks
    BY <1>4, TaskTyped DEF IInv, TypeOK
<1>6. [task[x] EXCEPT !.out = <<>>] = new /\ new \in Tasks /\ new.out = <<>>
    BY <1>5 DEF Tasks
<1>7. task' = [task EXCEPT ![x] = new]
    BY <1>1, <1>6
<1>8. Len(new.out) <= Room(new.pc)
    BY <1>6 DEF Room
<1>9. \A y \in Fetch \X Slot : task'[y].pc = task[y].pc
    BY <1>4, <1>7 DEF IInv, TypeOK
<1> HIDE DEF x, new
<1>10. /\ task' \in [Fetch \X Slot -> Tasks] /\ OutFits'
       /\ \A g \in Fetch, t \in Slot : Len(task'[<<g, t>>].out) <= 4
    BY <1>4, <1>6, <1>7, <1>8, TaskMoves
<1>11. TasksStarted'
    BY <1>2, <1>9, TasksKept DEF None
<1>12. /\ BlobsGiven' /\ ConnectionsCounted' /\ ServedClosed'
       /\ InOrder' /\ OneAtATime' /\ PanelHonest'
    BY <1>1, <1>2, <1>3, SourceMoves
<1>13. drops' \in 0 .. MaxDrops
    BY <1>1, BlobBrowserAssumption DEF IInv, TypeOK, BlobBrowserAssumption
<1>14. TypeOK'
    BY <1>1, <1>2, <1>3, <1>10, <1>13 DEF IInv, TypeOK, panel
<1> QED
    BY <1>10, <1>11, <1>12, <1>14 DEF IInv

\* An event is delivered: a result or an error is what the panel shows from
\* then on, and it closes the EventSource.
LEMMA DeliverKeeps ==
    ASSUME IInv, NEW f \in Fetch, Deliver(f)
    PROVE  IInv'
<1> DEFINE x == <<f, fetch[f].slot>>
           event == Head(task[x].out)
           new == [pc |-> task[x].pc, out |-> Tail(task[x].out)]
<1>1. /\ fetch[f].es = "open" /\ task[x].out # <<>>
      /\ info' = IF event = "result" THEN fetch[f].blob ELSE info
      /\ err' = IF event = "error" THEN fetch[f].blob ELSE err
      /\ loading' = (loading /\ event = "status")
      /\ fetch' = IF event = "status" THEN fetch
                  ELSE [fetch EXCEPT ![f].es = "closed"]
      /\ task' = [task EXCEPT ![x].out = Tail(@)]
      /\ served' = IF event = "status" THEN served ELSE served \cup {f}
      /\ store' = store /\ drops' = drops
      /\ extra' = extra /\ overlap' = overlap
    BY DEF Deliver, OnMessage
<1>2. x \in Fetch \X Slot /\ fetch[f].blob \in Blob \cup {None}
    BY FetchTyped
<1>3. /\ task[x].pc \in TaskPc /\ task[x].out \in Seq(Event)
      /\ task[x] \in Tasks
    BY <1>2, TaskTyped DEF IInv, TypeOK
<1>4. /\ event \in Event /\ Tail(task[x].out) \in Seq(Event)
      /\ Len(task[x].out) \in Nat
      /\ Len(Tail(task[x].out)) \in Nat
      /\ Len(Tail(task[x].out)) <= Len(task[x].out)
    BY <1>1, <1>3
<1>5. /\ [task[x] EXCEPT !.out = Tail(@)] = new /\ new \in Tasks
      /\ new.out = Tail(task[x].out) /\ new.pc = task[x].pc
    BY <1>3, <1>4, TaskOut
<1>6. task' = [task EXCEPT ![x] = new]
    BY <1>1, <1>5
<1>7. Len(new.out) <= Room(new.pc)
    <2>1. Len(task[x].out) <= Room(task[x].pc) /\ Room(task[x].pc) \in Nat
        BY <1>2 DEF IInv, OutFits, Room
    <2> QED
        BY <1>4, <1>5, <2>1
<1>8. \A y \in Fetch \X Slot : task'[y].pc = task[y].pc
    BY <1>2, <1>6 DEF IInv, TypeOK
<1> HIDE DEF x, new, event
<1>9. /\ task' \in [Fetch \X Slot -> Tasks] /\ OutFits'
      /\ \A g \in Fetch, t \in Slot : Len(task'[<<g, t>>].out) <= 4
    BY <1>2, <1>5, <1>6, <1>7, TaskMoves
<1>10. CASE event = "status"
    <2>1. /\ info' = info /\ err' = err /\ fetch' = fetch /\ served' = served
          /\ loading' = loading
        BY <1>1, <1>10 DEF IInv, TypeOK
    <2>2. TypeOK'
        BY <1>1, <1>9, <2>1 DEF IInv, TypeOK
    <2>3. TasksStarted'
        BY <1>8, <2>1, TasksKept
    <2>4. /\ BlobsGiven' /\ ConnectionsCounted' /\ ServedClosed'
          /\ InOrder' /\ OneAtATime' /\ PanelHonest'
        BY <1>1, <2>1, SourcesUntouched DEF panel, history
    <2> QED
        BY <1>9, <2>2, <2>3, <2>4 DEF IInv
<1>11. CASE event # "status"
    <2>1. /\ fetch' = [fetch EXCEPT ![f].es = "closed"]
          /\ served' = served \cup {f} /\ loading' = FALSE
        BY <1>1, <1>11
    <2>2. /\ fetch'[f].es = "closed" /\ fetch'[f].blob = fetch[f].blob
          /\ fetch' \in [Fetch -> Fetches]
          /\ \A g \in Fetch \ {f} : fetch'[g] = fetch[g]
        BY <2>1 DEF IInv, TypeOK, Fetches
    <2>3. TypeOK'
        BY <1>1, <1>2, <1>9, <2>1, <2>2 DEF IInv, TypeOK
    <2>4. TasksStarted'
        BY <1>8, <2>2, TasksKept DEF None
    <2>5. BlobsGiven' /\ ConnectionsCounted' /\ ServedClosed' /\ InOrder'
        BY <1>1, <2>1, <2>2
           DEF IInv, BlobsGiven, ConnectionsCounted, ServedClosed, InOrder, None
    <2>6. OneAtATime'
        BY <1>1, <2>2 DEF IInv, OneAtATime, None
    <2>7. PanelHonest'
        <3>1. SUFFICES ASSUME NEW g \in Fetch, ~overlap, fetch'[g].es # None,
                              g < MaxFetch => fetch'[g + 1].es = None
                       PROVE  /\ loading' = (fetch'[g].es # "closed")
                              /\ IF loading' THEN info' = None /\ err' = None
                                 ELSE {info', err'} = {fetch'[g].blob, None}
            BY <1>1 DEF PanelHonest
        <3>2. f \in Nat /\ g \in Nat
            BY FetchTyped
        <3>3. fetch[g].es # None
            BY <1>1, <2>2, <3>1 DEF None
        <3>4. g < MaxFetch => g + 1 \in Fetch /\ fetch[g + 1].es = None
            BY <2>2, <3>1, NextFetch DEF None
        <3>5. ~(f < g)
            BY <1>1, <3>1, <3>3 DEF IInv, OneAtATime
        <3>6. ~(g < f)
            <4>1. SUFFICES ASSUME g < f PROVE FALSE
                OBVIOUS
            <4>2. g < MaxFetch /\ (f = g + 1 \/ g + 1 < f)
                BY <3>2, <4>1, BlobBrowserAssumption
                   DEF Fetch, BlobBrowserAssumption
            <4> QED
                BY <1>1, <3>4, <4>2 DEF IInv, InOrder, None
        <3>7. g = f
            BY <3>2, <3>5, <3>6
        <3>8. loading = (fetch[f].es # "closed")
              /\ IF loading THEN info = None /\ err = None
                 ELSE {info, err} = {fetch[f].blob, None}
            BY <3>1, <3>3, <3>4, <3>7 DEF IInv, PanelHonest
        <3>9. info = None /\ err = None
            BY <1>1, <3>8
        <3>10. {info', err'} = {fetch[f].blob, None}
            BY <1>1, <1>4, <1>11, <3>9 DEF Event
        <3> QED
            BY <2>1, <2>2, <3>7, <3>10
    <2> QED
        BY <1>9, <2>3, <2>4, <2>5, <2>6, <2>7 DEF IInv
<1> QED
    BY <1>10, <1>11

LEMMA InitEstablishes == Init => IInv
<1> SUFFICES ASSUME Init PROVE IInv
    OBVIOUS
<1>1. /\ fetch = [f \in Fetch |-> [blob |-> None, slot |-> 1, es |-> None]]
      /\ task = [x \in Fetch \X Slot |-> [pc |-> None, out |-> <<>>]]
      /\ extra = [f \in Fetch |-> 0] /\ served = {}
      /\ overlap = FALSE /\ drops = 0
    BY DEF Init
<1>2. 1 \in Slot /\ 0 \in 0 .. MaxDrops
    BY BlobBrowserAssumption DEF Slot, BlobBrowserAssumption
<1>3. \A f \in Fetch : fetch[f].es = None
    BY <1>1
<1>4. \A x \in Fetch \X Slot : task[x].pc = None /\ Len(task[x].out) = 0
    BY <1>1
<1>5. \A f \in Fetch, s \in Slot :
          task[<<f, s>>].pc = None /\ Len(task[<<f, s>>].out) = 0
    BY <1>4
<1>6. fetch \in [Fetch -> Fetches] /\ task \in [Fetch \X Slot -> Tasks]
    BY <1>1, <1>2 DEF Fetches, Tasks
<1>7. TypeOK
    <2>1. loading = FALSE /\ info = None /\ err = None /\ store \subseteq Blob \ Invalid
        BY DEF Init
    <2>2. extra \in [Fetch -> Int] /\ served \subseteq Fetch /\ drops \in 0 .. MaxDrops
        BY <1>1, <1>2
    <2>3. \A f \in Fetch, s \in Slot : Len(task[<<f, s>>].out) <= 4
        <3>1. SUFFICES ASSUME NEW f \in Fetch, NEW s \in Slot
                       PROVE  Len(task[<<f, s>>].out) <= 4
            OBVIOUS
        <3>2. Len(task[<<f, s>>].out) = 0
            BY <1>5
        <3> QED
            BY <3>2
    <2> QED
        BY <1>1, <1>6, <2>1, <2>2, <2>3 DEF TypeOK
<1>8. OutFits /\ TasksStarted
    BY <1>4, <1>5 DEF OutFits, TasksStarted, Room, None
<1>9. /\ BlobsGiven /\ ConnectionsCounted /\ ServedClosed
      /\ InOrder /\ OneAtATime /\ PanelHonest
    BY <1>1, <1>3 DEF BlobsGiven, ConnectionsCounted, ServedClosed, InOrder,
                      OneAtATime, PanelHonest, None
<1> QED
    BY <1>7, <1>8, <1>9 DEF IInv

-----------------------------------------------------------------------------
(* The theorems.                                                           *)

\* The inductive invariant: each fetch pays for one connection at a time,
\* is closed exactly when its result or error has been delivered, and runs
\* alone unless an overlap is on record.
THEOREM BrowserInductive == Spec => []IInv
<1>1. IInv /\ [Next]_vars => IInv'
    <2> SUFFICES ASSUME IInv, [Next]_vars PROVE IInv'
        OBVIOUS
    <2>1. ASSUME NEW f \in Fetch, NEW b \in Blob, Click(f, b) PROVE IInv'
        BY <2>1, ClickKeeps
    <2>2. ASSUME NEW f \in Fetch, Deliver(f) PROVE IInv'
        BY <2>2, DeliverKeeps
    <2>3. ASSUME NEW f \in Fetch, Connect(f) PROVE IInv'
        BY <2>3, ConnectKeeps
    <2>4. ASSUME NEW f \in Fetch, StreamEnds(f) PROVE IInv'
        BY <2>4, StreamEndKeeps
    <2>5. ASSUME NEW f \in Fetch, ConnectionLost(f) PROVE IInv'
        BY <2>5, LossKeeps
    <2>6. ASSUME NEW f \in Fetch, NEW s \in Slot, TaskStep(f, s) PROVE IInv'
        BY <2>6, TaskStepKeeps
    <2>7. ASSUME NEW b \in Blob, BlobLeaves(b) PROVE IInv'
        BY <2>7, LeaveKeeps
    <2>8. CASE UNCHANGED vars
        <3>1. /\ UNCHANGED <<panel, fetch, history>>
              /\ task' = task /\ store' = store /\ drops' = drops
            BY <2>8 DEF vars
        <3>2. TypeOK'
            BY <3>1 DEF IInv, TypeOK, panel, history
        <3>3. OutFits' /\ TasksStarted'
            BY <3>1 DEF IInv, OutFits, TasksStarted
        <3> QED
            BY <3>1, <3>2, <3>3, SourcesUntouched DEF IInv
    <2> QED
        BY <2>1, <2>2, <2>3, <2>4, <2>5, <2>6, <2>7, <2>8 DEF Next
<1> QED
    BY InitEstablishes, <1>1, PTL DEF Spec

\* Type correctness, with at most four events of a task on their way, and
\* nothing in the cache that is not a blob id: resolve_blob_with_progress
\* parses the text before it resolves.
THEOREM BrowserTypeCorrect == Spec => []TypeOK
<1>1. IInv => TypeOK
    BY DEF IInv
<1> QED
    BY <1>1, BrowserInductive, PTL

\* However often connections are lost and whichever blobs panic
\* detect_mime, an EventSource whose result or error arrived connects no
\* more, so no blob is resolved and paid for again without such a loss.
THEOREM PaidAgainOnlyAfterLoss == Spec => []ResolvedAgainOnlyAfterLoss
<1>1. IInv => ResolvedAgainOnlyAfterLoss
    BY DEF IInv, ConnectionsCounted, ResolvedAgainOnlyAfterLoss
<1> QED
    BY <1>1, BrowserInductive, PTL

\* Any number of fetches one after the other leave the panel with what the
\* last one brought (the signals of components/blob.rs).
THEOREM PanelTellsTruth == Spec => []PanelHonest
<1>1. IInv => PanelHonest
    BY DEF IInv
<1> QED
    BY <1>1, BrowserInductive, PTL

=============================================================================
