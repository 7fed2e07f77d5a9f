----------------------- MODULE ExtensionLoaderProofs -----------------------
(***************************************************************************)
(* Proofs about ExtensionLoader, for any peers, chains, timeouts and       *)
(* bounds: the loader and the appender agree on what is being applied, no  *)
(* wait is forgotten, an extension is a segment of the chain of its peer,  *)
(* and no honest peer is the first to be blamed for one.                   *)
(***************************************************************************)
EXTENDS ExtensionLoader, Induction, TLAPS

\* A queue with at most one item.
AtMostOne(q) == q = <<>> \/ q = <<q[1]>>

\* Either nothing is under way and nothing is buffered, or the applier is
\* Applying and exactly one of the two queues holds one item.
UnderWay ==
  /\ applier = [st |-> applier.st, buf |-> applier.buf, ext |-> applier.ext]
  /\ AtMostOne(work) /\ AtMostOne(results)
  /\ \/ applier.st = "Idle" /\ applier.buf = NoBuffer /\ work = <<>> /\ results = <<>>
     \/ applier.st = "Applying" /\ work = <<>> /\ results # <<>>
     \/ applier.st = "Applying" /\ work # <<>> /\ results = <<>>

-----------------------------------------------------------------------------
\* Queues of at most one item, whatever the item is.
LEMMA OneItem ==
  ASSUME NEW x
  PROVE  /\ Append(<<>>, x) = <<x>> /\ <<x>> # <<>> /\ <<x>>[1] = x
         /\ Tail(<<x>>) = <<>> /\ Head(<<x>>) = x /\ Len(<<x>>) = 1 /\ Len(<<>>) = 0
  OBVIOUS

\* A step that touches neither the applier nor the queues.
LEMMA Untouched ==
  ASSUME UnderWay, UNCHANGED <<applier, work, results>>
  PROVE  UnderWay'
  BY DEF UnderWay, AtMostOne

\* OneExtensionAtATime is what the invariant says about lengths.
LEMMA UnderWayCounts == UnderWay => OneExtensionAtATime
<1> SUFFICES ASSUME UnderWay PROVE OneExtensionAtATime
  OBVIOUS
<1>1. \A q : AtMostOne(q) => Len(q) = IF q = <<>> THEN 0 ELSE 1
  BY OneItem DEF AtMostOne
<1>2. Len(work) = (IF work = <<>> THEN 0 ELSE 1) /\ Len(results) = (IF results = <<>> THEN 0 ELSE 1)
  BY <1>1 DEF UnderWay
<1> QED BY <1>2 DEF UnderWay, OneExtensionAtATime

-----------------------------------------------------------------------------
\* extensionLoadingFinished hands over an extension only when nothing is under
\* way, and buffers only while something is.
LEMMA FinishedUnderWay ==
  ASSUME UnderWay, NEW ch, NEW ext, NEW rest,
         ExtensionLoadingFinished(ch, ext, rest), UNCHANGED results
  PROVE  UnderWay'
<1>1. CASE ApplierFree
  <2>1. work' = Append(work, [ch |-> ch, ext |-> ext]) /\ applier' = Applying(NoBuffer, ext)
    BY <1>1 DEF ExtensionLoadingFinished
  <2>2. work = <<>> /\ results = <<>>
    BY <1>1 DEF UnderWay, ApplierFree
  <2>3. work' = <<[ch |-> ch, ext |-> ext]>>
    BY <2>1, <2>2, OneItem
  <2> QED BY <2>1, <2>2, <2>3, OneItem DEF UnderWay, AtMostOne, Applying
<1>2. CASE ~ApplierFree
  <2>1. /\ work' = work
        /\ applier' = applier \/ applier' = [applier EXCEPT !.buf = [ch |-> ch, ext |-> ext]]
    BY <1>2 DEF ExtensionLoadingFinished
  <2>2. applier.st = "Applying"
    BY <1>2 DEF UnderWay, ApplierFree
  <2>3. applier'.st = "Applying" /\ applier' = [st |-> applier'.st, buf |-> applier'.buf, ext |-> applier'.ext]
    BY <2>1, <2>2 DEF UnderWay
  <2> QED BY <2>1, <2>2, <2>3 DEF UnderWay, AtMostOne
<1> QED BY <1>1, <1>2

\* onBlock
LEMMA OnBlockUnderWay ==
  ASSUME UnderWay, OnBlock
  PROVE  UnderWay'
<1>1. PICK m \in net :
        /\ UNCHANGED results
        /\ \/ ExtensionLoadingFinished(loader.ch, loader.all, net \ {m})
           \/ UNCHANGED <<applier, work>>
  BY DEF OnBlock
<1> QED BY <1>1, FinishedUnderWay, Untouched

\* onExtensionApplied: the outcome it takes was the only thing under way.
LEMMA OnExtensionAppliedUnderWay ==
  ASSUME UnderWay, OnExtensionApplied
  PROVE  UnderWay'
<1>1. /\ results # <<>> /\ results' = Tail(results)
      /\ \/ applier' = IdleApplier /\ work' = work
         \/ work' = Append(work, applier.buf) /\ applier' = Applying(NoBuffer, applier.buf.ext)
  BY DEF OnExtensionApplied
<1>2. work = <<>> /\ results = <<results[1]>>
  BY <1>1 DEF UnderWay, AtMostOne
<1>3. results' = <<>>
  BY <1>1, <1>2, OneItem
<1>4. CASE applier' = IdleApplier /\ work' = work
  BY <1>2, <1>3, <1>4 DEF UnderWay, AtMostOne, IdleApplier
<1>5. CASE work' = Append(work, applier.buf) /\ applier' = Applying(NoBuffer, applier.buf.ext)
  <2>1. work' = <<applier.buf>>
    BY <1>2, <1>5, OneItem
  <2> QED BY <1>3, <1>5, <2>1, OneItem DEF UnderWay, AtMostOne, Applying
<1> QED BY <1>1, <1>4, <1>5

\* The appender replaces the extension it takes by its outcome.
LEMMA ApplyUnderWay ==
  ASSUME UnderWay, Apply
  PROVE  UnderWay'
<1>1. /\ work # <<>> /\ work' = Tail(work) /\ applier' = applier
      /\ \E r : results' = Append(results, r)
  BY DEF Apply
<1>2. results = <<>> /\ work = <<work[1]>> /\ applier.st = "Applying"
  BY <1>1 DEF UnderWay, AtMostOne
<1>3. work' = <<>>
  BY <1>1, <1>2, OneItem
<1>4. PICK r : results' = <<r>>
  BY <1>1, <1>2, OneItem
<1> QED BY <1>1, <1>2, <1>3, <1>4, OneItem DEF UnderWay, AtMostOne

\* Every step keeps it.
LEMMA UnderWayNext ==
  ASSUME UnderWay, [Next]_vars
  PROVE  UnderWay'
<1>1. CASE Observe
  BY <1>1, Untouched DEF Observe, loaderVars
<1>2. CASE OnNewSyncWith
  BY <1>2, Untouched DEF OnNewSyncWith
<1>3. CASE OnNewSignatures
  BY <1>3, Untouched DEF OnNewSignatures
<1>4. CASE OnBlock
  BY <1>4, OnBlockUnderWay
<1>5. CASE OnExtensionApplied
  BY <1>5, OnExtensionAppliedUnderWay
<1>6. CASE Timeout
  BY <1>6, Untouched DEF Timeout
<1>7. ASSUME NEW ch \in Channels, Reply(ch) \/ PeerGrows(ch) \/ PeerLeaves(ch) \/ Expire(ch)
      PROVE  UnderWay'
  BY <1>7, Untouched DEF Reply, PeerGrows, PeerLeaves, Expire, loaderVars
<1>8. CASE Apply
  BY <1>8, ApplyUnderWay
<1>9. CASE AppendStray
  BY <1>9, Untouched DEF AppendStray
<1>10. CASE UNCHANGED vars
  BY <1>10, Untouched DEF vars, loaderVars
<1> QED
  BY <1>1, <1>2, <1>3, <1>4, <1>5, <1>6, <1>7, <1>8, <1>9, <1>10 DEF Next, LoaderStep, AppenderStep

-----------------------------------------------------------------------------
\* Whatever peers answer, leave or announce, the appender never has more than
\* one extension of the loader, and the loader never believes it to be busy
\* when it is not: RxExtensionLoader.extensionLoadingFinished, onBlock and
\* onExtensionApplied agree with ExtensionAppender.
THEOREM OneAtATime == Spec => []OneExtensionAtATime
<1>1. Init => UnderWay
  BY DEF Init, UnderWay, AtMostOne, IdleApplier
<1>2. UnderWay /\ [Next]_vars => UnderWay'
  BY UnderWayNext
<1> QED BY <1>1, <1>2, UnderWayCounts, PTL DEF Spec

-----------------------------------------------------------------------------
(* Why the loader is never left waiting for a channel that has closed.  A     *)
(* channel that has closed and is still known to the observer, as a cached    *)
(* score or as the best channel, has a notice under way; an item that names   *)
(* it, and is still in the queue, is followed by one that takes it back; and  *)
(* distinctUntilChanged swallows an item only if the loader has yet to handle *)
(* its twin or does not wait for the channel it names.                        *)

Queue(q) == \E S : q \in Seq(S)
Noted(c) == c \in closedNotes \union timeoutNotes
Frees(e, c) == e.closed = c \/ e.sync.ch = NoChannel

ScoresSound == \A c \in DOMAIN scores : c \in Channels /\ (c \notin open => Noted(c))

\* An item does not name the channel it reports as closed.
ItemSound(e) == e.sync.ch # NoChannel => e.sync.ch # e.closed
EmittedSound ==
  ItemSound(emitted)
  /\ (emitted.sync.ch # NoChannel /\ emitted.sync.ch \notin open => Noted(emitted.sync.ch))

Retracted(i, c) == Noted(c) \/ \E j \in i + 1 .. Len(events) : Frees(events[j], c)
EventsSound ==
  /\ Queue(events)
  /\ events # <<>> => events[Len(events)] = emitted
  /\ \A i \in 1 .. Len(events) :
       LET c == events[i].sync.ch
       IN c # NoChannel /\ c \notin open => Retracted(i, c)
  /\ \A i \in 1 .. Len(events) : ItemSound(events[i])

LoaderShape(l) ==
  l = [st |-> l.st, ch |-> l.ch, known |-> l.known, all |-> l.all, expected |-> l.expected,
       armed |-> l.armed]
LoaderSound ==
  /\ LoaderShape(loader)
  /\ loader.st # "Idle" =>
       /\ loader.ch # NoChannel
       /\ loader.ch \notin open => Retracted(0, loader.ch)
       /\ events = <<>> => emitted.closed # loader.ch

WaitInv == ScoresSound /\ EmittedSound /\ EventsSound /\ LoaderSound

\* Appending to a queue, and taking its head.
LEMMA QueueAppend ==
  ASSUME NEW q, Queue(q), NEW x
  PROVE  /\ Queue(Append(q, x)) /\ Append(q, x) # <<>>
         /\ Len(q) \in Nat /\ Len(Append(q, x)) = Len(q) + 1
         /\ \A i \in 1 .. Len(q) : Append(q, x)[i] = q[i]
         /\ Append(q, x)[Len(q) + 1] = x
<1>1. PICK S : q \in Seq(S)
  BY DEF Queue
<1>2. q \in Seq(S \union {x})
  BY <1>1, SeqMonotonic
<1> QED BY <1>2, AppendProperties, LenProperties DEF Queue

LEMMA QueueTail ==
  ASSUME NEW q, Queue(q), q # <<>>
  PROVE  /\ Queue(Tail(q)) /\ Head(q) = q[1]
         /\ Len(q) \in Nat \ {0} /\ Len(Tail(q)) = Len(q) - 1
         /\ \A i \in 1 .. Len(q) - 1 : Tail(q)[i] = q[i + 1]
         /\ Tail(q) # <<>> => Len(q) - 1 \in 1 .. Len(q) - 1
<1>1. PICK S : q \in Seq(S)
  BY DEF Queue
<1>2. /\ Len(q) \in Nat \ {0} /\ Len(Tail(q)) = Len(q) - 1 /\ Tail(q) \in Seq(S)
      /\ \A i \in 1 .. Len(Tail(q)) : Tail(q)[i] = q[i + 1]
  BY <1>1, HeadTailProperties, EmptySeq
<1>3. Head(q) = q[1]
  BY <1>1
<1>4. Tail(q) # <<>> => Len(Tail(q)) \in Nat \ {0}
  BY <1>2, EmptySeq
<1>5. Tail(q) # <<>> => Len(q) - 1 \in 1 .. Len(q) - 1
  BY <1>2, <1>4
<1> QED BY <1>2, <1>3, <1>5 DEF Queue

\* A channel to synchronise with has a score.
LEMMA SyncWithFacts ==
  ASSUME NEW best, NEW lc, NEW sc, NEW sw \in CalcSyncWith(best, lc, sc)
  PROVE  sw.ch = NoChannel \/ sw.ch \in DOMAIN sc
BY DEF CalcSyncWith, NoSync

LEMMA PublishFacts ==
  ASSUME NEW closed, Publish(closed)
  PROVE  /\ emitted'.closed = closed
         /\ emitted'.sync.ch = NoChannel \/ emitted'.sync.ch \in DOMAIN scores'
         /\ events' = IF emitted' = emitted THEN events ELSE Append(events, emitted')
BY SyncWithFacts DEF Publish

-----------------------------------------------------------------------------
\* An item is published, or swallowed because it repeats the last one.
LEMMA PublishKeeps ==
  ASSUME WaitInv, NEW closed, Publish(closed), ScoresSound', loader' = loader, open' = open,
         closed = NoChannel \/ closed \notin DOMAIN scores',
         \A c : Noted(c) => Noted(c)' \/ c = closed
  PROVE  WaitInv'
<1>1. /\ emitted'.closed = closed
      /\ emitted'.sync.ch = NoChannel \/ emitted'.sync.ch \in DOMAIN scores'
      /\ events' = IF emitted' = emitted THEN events ELSE Append(events, emitted')
  BY PublishFacts
<1>2. ScoresSound /\ EmittedSound /\ EventsSound /\ LoaderSound /\ Queue(events) /\ Len(events) \in Nat
  BY QueueAppend DEF WaitInv, EventsSound
<1>3. EmittedSound'
  <2>1. emitted'.sync.ch # NoChannel => emitted'.sync.ch # closed
    BY <1>1
  <2>2. emitted'.sync.ch # NoChannel /\ emitted'.sync.ch \notin open' => Noted(emitted.sync.ch)'
    BY <1>1 DEF ScoresSound, Noted
  <2> QED BY <1>1, <2>1, <2>2 DEF EmittedSound, ItemSound, Noted
<1>4. CASE emitted' = emitted
  <2>1. events' = events /\ emitted.closed = closed
    BY <1>1, <1>4
  <2>2. ASSUME NEW i \in 0 .. Len(events), NEW c, Retracted(i, c),
               i < Len(events) \/ c # closed
        PROVE  Retracted(i, c)'
    <3>1. CASE \E j \in i + 1 .. Len(events) : Frees(events[j], c)
      BY <2>1, <3>1 DEF Retracted, Frees
    <3>2. CASE Noted(c) /\ Noted(c)'
      BY <3>2 DEF Retracted, Noted
    <3>3. CASE c = closed
      <4>1. events # <<>> /\ Len(events) \in i + 1 .. Len(events)
        BY <1>2, <2>2, <3>3
      <4>2. Frees(events[Len(events)], c)
        BY <1>2, <2>1, <3>3, <4>1 DEF EventsSound, Frees
      <4> QED BY <2>1, <4>1, <4>2 DEF Retracted, Frees
    <3> QED BY <2>2, <3>1, <3>2, <3>3 DEF Retracted
  <2>3. EventsSound'
    <3>1. ASSUME NEW i \in 1 .. Len(events), events[i].sync.ch # NoChannel,
                 events[i].sync.ch \notin open
          PROVE  Retracted(i, events[i].sync.ch)'
      <4>1. Retracted(i, events[i].sync.ch) /\ ItemSound(events[i])
        BY <1>2, <3>1 DEF EventsSound
      <4>2. ASSUME i = Len(events) PROVE events[i].sync.ch # closed
        <5>1. events # <<>>
          BY <1>2, <4>2
        <5>2. events[i] = emitted
          BY <1>2, <4>2, <5>1 DEF EventsSound
        <5> QED BY <2>1, <3>1, <4>1, <5>2 DEF ItemSound
      <4>3. PICK c : c = events[i].sync.ch
        OBVIOUS
      <4>4. i \in 0 .. Len(events) /\ (i < Len(events) \/ i = Len(events))
        BY <1>2
      <4>5. Retracted(i, c)'
        BY <2>2, <4>1, <4>2, <4>3, <4>4
      <4> QED BY <2>1, <4>3, <4>5
    <3> QED BY <1>2, <1>4, <2>1, <3>1 DEF EventsSound, ItemSound
  <2>4. LoaderSound'
    <3>1. ASSUME loader.st # "Idle", loader.ch \notin open PROVE Retracted(0, loader.ch)'
      <4>1. Retracted(0, loader.ch) /\ (events = <<>> => closed # loader.ch)
        BY <1>2, <2>1, <3>1 DEF LoaderSound
      <4>2. PICK c : c = loader.ch
        OBVIOUS
      <4>3. 0 \in 0 .. Len(events) /\ (0 < Len(events) \/ events = <<>>)
        BY <1>2, EmptySeq DEF Queue
      <4>4. Retracted(0, c)'
        BY <2>2, <4>1, <4>2, <4>3
      <4> QED BY <4>2, <4>4
    <3> QED BY <1>2, <1>4, <2>1, <3>1 DEF LoaderSound
  <2> QED BY <1>3, <2>3, <2>4 DEF WaitInv
<1>5. CASE emitted' # emitted
  <2>1. /\ Queue(events') /\ events' # <<>> /\ Len(events') = Len(events) + 1
        /\ \A i \in 1 .. Len(events) : events'[i] = events[i]
        /\ events'[Len(events) + 1] = emitted'
    BY <1>1, <1>2, <1>5, QueueAppend
  <2>2. ASSUME NEW i \in 0 .. Len(events), NEW c, Retracted(i, c) PROVE Retracted(i, c)'
    <3>1. ASSUME NEW j \in i + 1 .. Len(events), Frees(events[j], c)
          PROVE  Retracted(i, c)'
      <4>1. j \in 1 .. Len(events) /\ j \in i + 1 .. Len(events')
        BY <1>2, <2>1
      <4> QED BY <2>1, <3>1, <4>1 DEF Retracted, Frees
    <3>2. CASE Noted(c)'
      BY <3>2 DEF Retracted, Noted
    <3>3. CASE c = closed
      <4>1. Len(events) + 1 \in i + 1 .. Len(events')
        BY <1>2, <2>1
      <4> QED BY <1>1, <2>1, <3>3, <4>1 DEF Retracted, Frees
    <3> QED BY <2>2, <3>1, <3>2, <3>3 DEF Retracted
  <2>3. EventsSound'
    <3>1. ASSUME NEW i \in 1 .. Len(events'), events'[i].sync.ch # NoChannel,
                 events'[i].sync.ch \notin open
          PROVE  Retracted(i, events[i].sync.ch)'
      <4>1. CASE i = Len(events) + 1
        BY <1>3, <2>1, <3>1, <4>1 DEF EmittedSound, Retracted, Noted
      <4>2. CASE i # Len(events) + 1
        <5>1. i \in 1 .. Len(events) /\ i \in 0 .. Len(events)
          BY <1>2, <2>1, <4>2
        <5>2. PICK c : c = events[i].sync.ch
          OBVIOUS
        <5>3. Retracted(i, c) /\ events'[i].sync.ch = c
          BY <1>2, <2>1, <3>1, <5>1, <5>2 DEF EventsSound
        <5>4. Retracted(i, c)'
          BY <2>2, <5>1, <5>3
        <5> QED BY <5>3, <5>4
      <4> QED BY <4>1, <4>2
    <3>2. ASSUME NEW i \in 1 .. Len(events') PROVE ItemSound(events'[i])
      <4>1. i \in 1 .. Len(events) \/ i = Len(events) + 1
        BY <1>2, <2>1
      <4> QED BY <1>2, <1>3, <2>1, <4>1 DEF EventsSound, EmittedSound
    <3> QED BY <2>1, <3>1, <3>2 DEF EventsSound
  <2>4. LoaderSound'
    <3>1. ASSUME loader.st # "Idle", loader.ch \notin open PROVE Retracted(0, loader.ch)'
      <4>1. PICK c : c = loader.ch
        OBVIOUS
      <4>2. Retracted(0, c) /\ 0 \in 0 .. Len(events)
        BY <1>2, <3>1, <4>1 DEF LoaderSound
      <4>3. Retracted(0, c)'
        BY <2>2, <4>2
      <4> QED BY <4>1, <4>3
    <3> QED BY <1>2, <2>1, <3>1 DEF LoaderSound
  <2> QED BY <1>3, <2>3, <2>4 DEF WaitInv
<1> QED BY <1>4, <1>5

\* Steps beside the observer: channels may close, each with a notice, and
\* notices are only added.
Calm ==
  /\ open' \subseteq open
  /\ \A c \in open \ open' : c \in closedNotes'
  /\ closedNotes \subseteq closedNotes' /\ timeoutNotes \subseteq timeoutNotes'
  /\ UNCHANGED <<scores, emitted, events>>

LEMMA CloseIsCalm ==
  ASSUME NEW ch, Close(ch), timeoutNotes \subseteq timeoutNotes', UNCHANGED events
  PROVE  Calm
BY DEF Close, Calm

LEMMA StillIsCalm ==
  ASSUME UNCHANGED <<open, closedNotes, timeoutNotes, scores, emitted, events>>
  PROVE  Calm
BY DEF Calm

\* The loader becomes idle, keeps its channel, or takes the best channel of the
\* last item.
LoaderStays == loader.st # "Idle" /\ loader'.ch = loader.ch
LoaderAsks == loader'.ch = emitted.sync.ch /\ emitted.sync.ch # NoChannel

LEMMA CalmKeeps ==
  ASSUME WaitInv, Calm, LoaderShape(loader)',
         loader'.st = "Idle" \/ LoaderStays \/ LoaderAsks
  PROVE  WaitInv'
<1>1. ScoresSound /\ EmittedSound /\ EventsSound /\ LoaderSound
  BY DEF WaitInv
<1>2. ASSUME NEW c PROVE Noted(c) => Noted(c)'
  BY DEF Calm, Noted
<1>3. ASSUME NEW c, c \in open, c \notin open' PROVE Noted(c)'
  BY <1>3 DEF Calm, Noted
<1>4. ScoresSound'
  <2>1. ASSUME NEW c \in DOMAIN scores', c \notin open' PROVE c \in Channels /\ Noted(c)'
    BY <1>1, <1>2, <1>3, <2>1 DEF ScoresSound, Calm
  <2>2. \A c \in DOMAIN scores' : c \in Channels
    BY <1>1 DEF ScoresSound, Calm
  <2> QED BY <2>1, <2>2 DEF ScoresSound, Noted
<1>5. EmittedSound'
  <2>1. PICK c : c = emitted.sync.ch
    OBVIOUS
  <2>2. c # NoChannel /\ c \notin open' => Noted(c)'
    BY <1>1, <1>2, <1>3, <2>1 DEF EmittedSound
  <2> QED BY <1>1, <2>1, <2>2 DEF EmittedSound, Calm, Noted
<1>6. ASSUME NEW i, NEW c, Retracted(i, c) PROVE Retracted(i, c)'
  BY <1>2, <1>6 DEF Retracted, Calm, Frees
<1>7. EventsSound'
  <2>1. ASSUME NEW i \in 1 .. Len(events), events[i].sync.ch # NoChannel,
               events[i].sync.ch \notin open'
        PROVE  Retracted(i, events[i].sync.ch)'
    <3>1. PICK c : c = events[i].sync.ch
      OBVIOUS
    <3>2. CASE c \in open
      BY <1>3, <2>1, <3>1, <3>2 DEF Retracted, Calm
    <3>3. CASE c \notin open
      <4>1. Retracted(i, c)
        BY <1>1, <2>1, <3>1, <3>3 DEF EventsSound
      <4>2. Retracted(i, c)'
        BY <1>6, <4>1
      <4> QED BY <3>1, <4>2 DEF Calm
    <3> QED BY <3>2, <3>3
  <2> QED BY <1>1, <2>1 DEF EventsSound, Calm
<1>8. LoaderSound'
  <2>1. CASE loader'.st = "Idle"
    BY <2>1 DEF LoaderSound
  <2>2. CASE LoaderStays
    <3>1. PICK c : c = loader.ch
      OBVIOUS
    <3>2. c \notin open' => Retracted(0, c)'
      <4>1. CASE c \in open
        BY <1>3, <4>1 DEF Retracted
      <4>2. CASE c \notin open
        BY <1>1, <1>6, <2>2, <3>1, <4>2 DEF LoaderSound, LoaderStays
      <4> QED BY <4>1, <4>2
    <3>3. loader'.ch = c
      BY <2>2, <3>1 DEF LoaderStays
    <3>4. c # NoChannel /\ (events' = <<>> => emitted'.closed # c)
      BY <1>1, <2>2, <3>1 DEF LoaderStays, LoaderSound, Calm
    <3> QED BY <3>2, <3>3, <3>4 DEF LoaderSound
  <2>3. CASE LoaderAsks
    <3>1. loader'.ch = emitted'.sync.ch /\ loader'.ch # NoChannel
      BY <2>3 DEF LoaderAsks, Calm
    <3>2. loader'.ch \notin open' => Retracted(0, loader.ch)'
      BY <1>5, <3>1 DEF EmittedSound, Retracted, Noted
    <3>3. emitted'.closed # loader'.ch
      BY <1>5, <3>1 DEF EmittedSound, ItemSound
    <3> QED BY <3>1, <3>2, <3>3 DEF LoaderSound
  <2> QED BY <2>1, <2>2, <2>3
<1> QED BY <1>4, <1>5, <1>7, <1>8 DEF WaitInv

\* The states of the loader, spelled out.
LEMMA LoaderStates ==
  /\ LoaderShape(IdleLoader) /\ IdleLoader.st = "Idle"
  /\ \A ch, k : /\ LoaderShape(ExpectingSignatures(ch, k))
                /\ ExpectingSignatures(ch, k).ch = ch
                /\ ExpectingSignatures(ch, k).st = "Signatures"
  /\ \A ch, a, x : /\ LoaderShape(ExpectingBlocks(ch, a, x))
                   /\ ExpectingBlocks(ch, a, x).ch = ch
                   /\ ExpectingBlocks(ch, a, x).st = "Blocks"
                   /\ ExpectingBlocks(ch, a, x).all = a
BY DEF LoaderShape, IdleLoader, ExpectingSignatures, ExpectingBlocks

\* What syncNext makes of a loader.
LEMMA SyncNextFacts ==
  ASSUME NEW ld, NEW ap, NEW sw, LoaderShape(ld), NEW r, r = SyncNext(ld, ap, sw)
  PROVE  /\ LoaderShape(r)
         /\ \/ r.st = "Idle"
            \/ ld.st # "Idle" /\ r = ld /\ sw.ch # NoChannel
            \/ ld.st = "Idle" /\ r.ch = sw.ch /\ sw.ch # NoChannel
<1>1. LoaderShape(IdleLoader) /\ IdleLoader.st = "Idle"
  BY DEF LoaderShape, IdleLoader
<1>2. ASSUME NEW k PROVE LoaderShape(ExpectingSignatures(sw.ch, k)) /\ ExpectingSignatures(sw.ch, k).ch = sw.ch
  BY LoaderStates
<1>3. CASE sw.ch = NoChannel
  BY <1>1, <1>3 DEF SyncNext
<1>4. CASE sw.ch # NoChannel /\ ld.st # "Idle"
  BY <1>4 DEF SyncNext
<1>5. CASE sw.ch # NoChannel /\ ld.st = "Idle"
  <2>1. r = ld \/ \E k : r = ExpectingSignatures(sw.ch, k)
    BY <1>5 DEF SyncNext
  <2> QED BY <1>2, <1>5, <2>1
<1> QED BY <1>3, <1>4, <1>5

\* The loader handles an item of the observer.
LEMMA ItemKeeps ==
  ASSUME WaitInv, OnNewSyncWith
  PROVE  WaitInv'
<1> DEFINE e == Head(events)
           n == Len(events)
<1>1. ScoresSound /\ EmittedSound /\ EventsSound /\ LoaderSound /\ Queue(events) /\ events # <<>>
  BY DEF WaitInv, EventsSound, OnNewSyncWith
<1>2. /\ UNCHANGED <<open, closedNotes, timeoutNotes, scores, emitted>>
      /\ events' = Tail(events)
      /\ loader' = SyncNext(Freed(e), applier, e.sync)
  BY DEF OnNewSyncWith, AfterItem
<1>3. /\ Queue(events') /\ e = events[1] /\ n \in Nat \ {0} /\ Len(events') = n - 1
      /\ \A i \in 1 .. n - 1 : events'[i] = events[i + 1]
      /\ events' # <<>> => n - 1 \in 1 .. n - 1
  BY <1>1, <1>2, QueueTail
<1> HIDE DEF e, n
<1>4. ASSUME NEW i \in Nat, NEW c, Retracted(i + 1, c) PROVE Retracted(i, c)'
  <2>1. ASSUME NEW j \in i + 1 + 1 .. n, Frees(events[j], c) PROVE Retracted(i, c)'
    <3>1. j - 1 \in i + 1 .. Len(events') /\ j - 1 \in 1 .. n - 1 /\ (j - 1) + 1 = j
      BY <1>3
    <3>2. Frees(events'[j - 1], c)
      BY <1>3, <2>1, <3>1
    <3> QED BY <3>1, <3>2 DEF Retracted, Frees
  <2>2. CASE Noted(c)
    BY <1>2, <2>2 DEF Retracted, Noted
  <2> QED BY <1>4, <2>1, <2>2 DEF Retracted, n
<1>5. EventsSound'
  <2>1. ASSUME NEW i \in 1 .. n - 1, events'[i].sync.ch # NoChannel, events'[i].sync.ch \notin open
        PROVE  Retracted(i, events[i].sync.ch)'
    <3>1. PICK c : c = events'[i].sync.ch
      OBVIOUS
    <3>2. i + 1 \in 1 .. n /\ i \in Nat
      BY <1>3
    <3>3. Retracted(i + 1, c)
      BY <1>1, <1>3, <2>1, <3>1, <3>2 DEF EventsSound, n
    <3>4. Retracted(i, c)'
      BY <1>4, <3>2, <3>3
    <3> QED BY <3>1, <3>4
  <2>2. ASSUME NEW i \in 1 .. n - 1 PROVE ItemSound(events'[i])
    <3>1. i + 1 \in 1 .. n
      BY <1>3
    <3> QED BY <1>1, <1>3, <3>1 DEF EventsSound, n
  <2>3. events' # <<>> => events'[Len(events')] = emitted'
    <3>1. ASSUME events' # <<>> PROVE events'[n - 1] = events[n]
      <4>1. (n - 1) + 1 = n
        BY <1>3
      <4> QED BY <1>3, <3>1, <4>1
    <3> QED BY <1>1, <1>2, <1>3, <3>1 DEF EventsSound, n
  <2> QED BY <1>2, <1>3, <2>1, <2>2, <2>3 DEF EventsSound
<1>6. ScoresSound' /\ EmittedSound'
  BY <1>1, <1>2 DEF ScoresSound, EmittedSound, Noted
<1>7. ItemSound(e) /\ (n = 1 => emitted = e)
  <2>1. 1 \in 1 .. n
    BY <1>3
  <2> QED BY <1>1, <1>3, <2>1 DEF EventsSound, n
<1>8. events' = <<>> => n = 1
  BY <1>3
<1>9. LoaderSound'
  <2>1. LoaderShape(Freed(e))
    BY <1>1 DEF Freed, LoaderSound, LoaderShape, IdleLoader
  <2>2. /\ LoaderShape(loader)'
        /\ \/ loader'.st = "Idle"
           \/ Freed(e).st # "Idle" /\ loader' = Freed(e) /\ e.sync.ch # NoChannel
           \/ loader'.ch = e.sync.ch /\ e.sync.ch # NoChannel
    BY <1>2, <2>1, SyncNextFacts DEF LoaderShape
  <2>3. CASE loader'.st = "Idle"
    BY <2>2, <2>3 DEF LoaderSound
  <2>4. CASE Freed(e).st # "Idle" /\ loader' = Freed(e) /\ e.sync.ch # NoChannel
    <3>1. loader' = loader /\ loader.st # "Idle" /\ (e.closed = NoChannel \/ e.closed # loader.ch)
      BY <2>4 DEF Freed, IdleLoader
    <3>2. loader.ch # NoChannel /\ ~Frees(e, loader.ch)
      BY <1>1, <2>4, <3>1 DEF LoaderSound, Frees
    <3>3. ASSUME loader.ch \notin open PROVE Retracted(0, loader.ch)'
      <4>1. PICK c : c = loader.ch
        OBVIOUS
      <4>2. Retracted(0, c) /\ ~Frees(events[1], c)
        BY <1>1, <1>3, <3>1, <3>2, <3>3, <4>1 DEF LoaderSound
      <4>3. Retracted(0 + 1, c)
        <5>1. \A j \in 0 + 1 .. n : j = 1 \/ j \in 0 + 1 + 1 .. n
          BY <1>3
        <5> QED BY <4>2, <5>1 DEF Retracted, n
      <4>4. Retracted(0, c)'
        BY <1>4, <4>3
      <4> QED BY <3>1, <4>1, <4>4
    <3>4. events' = <<>> => emitted'.closed # loader.ch
      BY <1>2, <1>7, <1>8, <3>2 DEF Frees
    <3> QED BY <1>2, <2>2, <3>1, <3>2, <3>3, <3>4 DEF LoaderSound
  <2>5. CASE loader'.ch = e.sync.ch /\ e.sync.ch # NoChannel
    <3>1. PICK c : c = e.sync.ch
      OBVIOUS
    <3>2. ASSUME c \notin open PROVE Retracted(0, c)'
      <4>1. 1 \in 1 .. n
        BY <1>3
      <4>2. Retracted(0 + 1, c)
        BY <1>1, <1>3, <2>5, <3>1, <3>2, <4>1 DEF EventsSound, n
      <4> QED BY <1>4, <4>2
    <3>3. events' = <<>> => emitted'.closed # c
      BY <1>2, <1>7, <1>8, <2>5, <3>1 DEF ItemSound
    <3> QED BY <1>2, <2>2, <2>5, <3>1, <3>2, <3>3 DEF LoaderSound
  <2> QED BY <2>2, <2>3, <2>4, <2>5
<1> QED BY <1>5, <1>6, <1>9 DEF WaitInv

\* The observer handles a score, a closed channel or a timeout.
LEMMA ObserverKeeps ==
  ASSUME WaitInv, ObserverStep, loader' = loader
  PROVE  WaitInv'
<1>1. ScoresSound /\ LoaderShape(loader)
  BY DEF WaitInv, LoaderSound
<1>2. ASSUME UNCHANGED <<open, closedNotes, timeoutNotes, scores, emitted, events>>
      PROVE  WaitInv'
  <2>1. Calm
    BY <1>2, StillIsCalm
  <2>2. LoaderShape(loader)' /\ (loader'.st = "Idle" \/ LoaderStays)
    BY <1>1 DEF LoaderShape, LoaderStays
  <2> QED BY <2>1, <2>2, CalmKeeps
<1>3. ASSUME LocalScoreSeen PROVE WaitInv'
  <2>1. UNCHANGED <<open, closedNotes, timeoutNotes, scores>>
    BY <1>3 DEF LocalScoreSeen
  <2>2. UNCHANGED <<emitted, events>> \/ Publish(NoChannel)
    BY <1>3 DEF LocalScoreSeen
  <2>3. ScoresSound' /\ \A c : Noted(c) => Noted(c)' \/ c = NoChannel
    BY <1>1, <2>1 DEF ScoresSound, Noted
  <2> QED BY <1>2, <2>1, <2>2, <2>3, PublishKeeps
<1>4. ASSUME NEW ch \in Channels, RemoteScoreSeen(ch) PROVE WaitInv'
  <2>1. UNCHANGED <<open, closedNotes, timeoutNotes>>
    BY <1>4 DEF RemoteScoreSeen
  <2>2. CASE ch \in open
    <3>1. Publish(NoChannel) /\ DOMAIN scores' = DOMAIN scores \union {ch}
      BY <1>4, <2>2 DEF RemoteScoreSeen
    <3>2. ScoresSound' /\ \A c : Noted(c) => Noted(c)' \/ c = NoChannel
      BY <1>1, <2>1, <2>2, <3>1 DEF ScoresSound, Noted
    <3> QED BY <2>1, <3>1, <3>2, PublishKeeps
  <2>3. CASE ch \notin open
    BY <1>2, <1>4, <2>1, <2>3 DEF RemoteScoreSeen
  <2> QED BY <2>2, <2>3
<1>5. ASSUME NEW ch \in Channels, ChannelGone(ch) PROVE WaitInv'
  <2>1. /\ open' = open /\ Publish(ch) /\ DOMAIN scores' = DOMAIN scores \ {ch}
        /\ \A c : Noted(c) => Noted(c)' \/ c = ch
    BY <1>5 DEF ChannelGone, Restrict, Noted
  <2>2. ScoresSound'
    BY <1>1, <2>1 DEF ScoresSound
  <2> QED BY <2>1, <2>2, PublishKeeps
<1> QED BY <1>3, <1>4, <1>5 DEF ObserverStep

\* The loader handles an answer, an outcome or a timeout.
LEMMA AnswersKeep ==
  ASSUME WaitInv, OnNewSignatures \/ OnBlock \/ OnExtensionApplied \/ Timeout
  PROVE  WaitInv'
<1>1. LoaderShape(loader)
  BY DEF WaitInv, LoaderSound
<1>2. ASSUME NEW ld, LoaderShape(ld), NEW ap, loader' = SyncNext(ld, ap, LastSyncWith), Calm,
             ld = loader \/ ld.st = "Idle"
      PROVE  WaitInv'
  <2>1. /\ LoaderShape(loader')
        /\ \/ loader'.st = "Idle"
           \/ ld.st # "Idle" /\ loader' = ld /\ LastSyncWith.ch # NoChannel
           \/ ld.st = "Idle" /\ loader'.ch = LastSyncWith.ch /\ LastSyncWith.ch # NoChannel
    BY <1>2, SyncNextFacts
  <2>2. LoaderShape(loader)' /\ (loader'.st = "Idle" \/ LoaderStays \/ LoaderAsks)
    BY <1>2, <2>1 DEF LoaderShape, LoaderStays, LoaderAsks, LastSyncWith
  <2> QED BY <1>2, <2>2, CalmKeeps
<1>3. ASSUME Calm, loader' = loader \/ loader' = IdleLoader PROVE WaitInv'
  <2>1. LoaderShape(loader)' /\ (loader'.st = "Idle" \/ LoaderStays)
    BY <1>1, <1>3, LoaderStates DEF LoaderShape, LoaderStays
  <2> QED BY <1>3, <2>1, CalmKeeps
<1>4. ASSUME Calm, loader.st # "Idle", NEW a, NEW x, loader' = ExpectingBlocks(loader.ch, a, x)
      PROVE  WaitInv'
  <2>1. LoaderShape(loader)' /\ LoaderStays
    BY <1>4, LoaderStates DEF LoaderShape, LoaderStays
  <2> QED BY <1>4, <2>1, CalmKeeps
<1>5. LoaderShape(IdleLoader) /\ IdleLoader.st = "Idle"
  BY LoaderStates
<1>6. CASE OnNewSignatures
  <2>1. PICK m \in net :
          /\ UNCHANGED <<timeoutNotes, events>>
          /\ \/ UNCHANGED <<observerVars, loader>>
             \/ Close(m.ch) /\ loader' = SyncNext(IdleLoader, applier, LastSyncWith)
             \/ UNCHANGED observerVars /\ loader' = IdleLoader
             \/ /\ UNCHANGED observerVars /\ loader.st # "Idle"
                /\ \E a, x : loader' = ExpectingBlocks(loader.ch, a, x)
    BY <1>6 DEF OnNewSignatures
  <2>2. CASE Close(m.ch) /\ loader' = SyncNext(IdleLoader, applier, LastSyncWith)
    <3>1. Calm
      BY <2>1, <2>2, CloseIsCalm
    <3> QED BY <1>2, <1>5, <2>2, <3>1
  <2>3. CASE UNCHANGED observerVars
    <3>1. Calm
      BY <2>3, StillIsCalm DEF observerVars
    <3> QED BY <1>3, <1>4, <2>1, <2>2, <3>1
  <2> QED BY <2>1, <2>2, <2>3
<1>7. CASE OnBlock
  <2>1. Calm
    BY <1>7, StillIsCalm DEF OnBlock, observerVars
  <2>2. \/ loader' = loader \/ loader' = IdleLoader
        \/ \E ap : loader' = SyncNext(IdleLoader, ap, LastSyncWith)
        \/ loader.st # "Idle" /\ \E a, x : loader' = ExpectingBlocks(loader.ch, a, x)
    BY <1>7 DEF OnBlock, ExtensionLoadingFinished
  <2> QED BY <1>2, <1>3, <1>4, <1>5, <2>1, <2>2
<1>8. CASE OnExtensionApplied
  <2>1. Calm
    BY <1>8, StillIsCalm DEF OnExtensionApplied, observerVars
  <2>2. loader' = loader \/ \E ap : loader' = SyncNext(loader, ap, LastSyncWith)
    BY <1>8 DEF OnExtensionApplied
  <2> QED BY <1>1, <1>2, <1>3, <2>1, <2>2
<1>9. CASE Timeout
  <2>1. /\ loader' = [loader EXCEPT !.armed = FALSE] /\ Close(loader.ch)
        /\ timeoutNotes \subseteq timeoutNotes' /\ UNCHANGED events
    BY <1>9 DEF Timeout
  <2>2. Calm
    BY <2>1, CloseIsCalm
  <2>3. LoaderShape(loader)' /\ loader'.st = loader.st /\ loader'.ch = loader.ch
    BY <1>1, <2>1 DEF LoaderShape
  <2>4. loader'.st = "Idle" \/ LoaderStays
    BY <2>3 DEF LoaderStays
  <2> QED BY <2>2, <2>3, <2>4, CalmKeeps
<1> QED BY <1>6, <1>7, <1>8, <1>9

\* The peers, the appender and the expiry of a score.
LEMMA OthersKeep ==
  ASSUME WaitInv, loader' = loader, Calm \/ \E ch : ScoreExpires(ch)
  PROVE  WaitInv'
<1>1. LoaderShape(loader)
  BY DEF WaitInv, LoaderSound
<1>2. CASE Calm
  <2>1. LoaderShape(loader)' /\ (loader'.st = "Idle" \/ LoaderStays)
    BY <1>1 DEF LoaderShape, LoaderStays
  <2> QED BY <1>2, <2>1, CalmKeeps
<1>3. ASSUME NEW ch, ScoreExpires(ch) PROVE WaitInv'
  <2>1. /\ UNCHANGED <<open, closedNotes, timeoutNotes, emitted, events, loader>>
        /\ DOMAIN scores' = DOMAIN scores \ {ch}
    BY <1>3 DEF ScoreExpires, Restrict
  <2>2. ScoresSound'
    BY <2>1 DEF WaitInv, ScoresSound, Noted
  <2>3. EmittedSound' /\ EventsSound' /\ LoaderSound'
    BY <2>1 DEF WaitInv, EmittedSound, EventsSound, LoaderSound, Noted, Retracted, LoaderShape
  <2> QED BY <2>2, <2>3 DEF WaitInv
<1> QED BY <1>2, <1>3

\* The loader never waits for a closed channel that nobody will report to it,
\* whatever the peers, the timers, the debounce and distinctUntilChanged do.
THEOREM WaitRescued == Spec => []WaitIsRescued
<1>1. Init => WaitInv
  <2> SUFFICES ASSUME Init PROVE WaitInv
    OBVIOUS
  <2>1. ScoresSound
    BY DEF Init, ScoresSound
  <2>2. EmittedSound
    BY DEF Init, EmittedSound, ItemSound, Nothing
  <2>3. Queue(events) /\ events = <<>> /\ Len(events) = 0
    BY EmptySeq DEF Init, Queue
  <2>4. EventsSound
    BY <2>3 DEF EventsSound
  <2>5. LoaderSound
    BY LoaderStates DEF Init, LoaderSound
  <2> QED BY <2>1, <2>2, <2>4, <2>5 DEF WaitInv
<1>2. WaitInv /\ [Next]_vars => WaitInv'
  <2> SUFFICES ASSUME WaitInv, [Next]_vars PROVE WaitInv'
    OBVIOUS
  <2>1. CASE Observe
    BY <2>1, ObserverKeeps DEF Observe, loaderVars
  <2>2. CASE OnNewSyncWith
    BY <2>2, ItemKeeps
  <2>3. CASE OnNewSignatures \/ OnBlock \/ OnExtensionApplied \/ Timeout
    BY <2>3, AnswersKeep
  <2>4. ASSUME NEW ch \in Channels, Reply(ch) PROVE WaitInv'
    BY <2>4, OthersKeep, StillIsCalm DEF Reply, observerVars
  <2>5. ASSUME NEW ch \in Channels, PeerGrows(ch) PROVE WaitInv'
    BY <2>5, OthersKeep, StillIsCalm DEF PeerGrows
  <2>6. ASSUME NEW ch \in Channels, PeerLeaves(ch) PROVE WaitInv'
    BY <2>6, OthersKeep, CloseIsCalm DEF PeerLeaves
  <2>7. ASSUME NEW ch \in Channels, Expire(ch) PROVE WaitInv'
    BY <2>7, OthersKeep DEF Expire, loaderVars
  <2>8. CASE Apply
    <3>1. /\ UNCHANGED <<timeoutNotes, events, loader>>
          /\ (\E ch : Close(ch)) \/ UNCHANGED <<open, closedNotes, scores, emitted>>
      BY <2>8 DEF Apply
    <3>2. Calm
      BY <3>1, CloseIsCalm, StillIsCalm
    <3> QED BY <3>1, <3>2, OthersKeep
  <2>9. CASE AppendStray
    BY <2>9, OthersKeep, StillIsCalm DEF AppendStray
  <2>10. CASE UNCHANGED vars
    BY <2>10, OthersKeep, StillIsCalm DEF vars, observerVars, loaderVars
  <2> QED BY <2>1, <2>2, <2>3, <2>4, <2>5, <2>6, <2>7, <2>8, <2>9, <2>10
          DEF Next, LoaderStep, AppenderStep
<1>3. WaitInv => WaitIsRescued
  <2> SUFFICES ASSUME WaitInv, loader.st # "Idle", loader.ch \notin open
               PROVE  \/ loader.ch \in closedNotes \union timeoutNotes
                      \/ \E i \in DOMAIN events : events[i].closed = loader.ch
                                                   \/ events[i].sync.ch = NoChannel
    BY DEF WaitIsRescued
  <2>1. Retracted(0, loader.ch) /\ Queue(events)
    BY DEF WaitInv, LoaderSound, EventsSound
  <2>2. DOMAIN events = 1 .. Len(events)
    BY <2>1, LenProperties DEF Queue
  <2> QED BY <2>1, <2>2 DEF Retracted, Noted, Frees
<1> QED BY <1>1, <1>2, <1>3, PTL DEF Spec

-----------------------------------------------------------------------------
(* Why an extension is a segment of the chain of the peer it is attributed    *)
(* to.  The signatures a peer answers with are one, a peer's chain only       *)
(* grows, the loader takes signatures only from the channel it has asked, and *)
(* what it drops of them is a prefix.                                         *)

Segment(h, ch, s) ==
  ch \in Channels
  /\ \E j \in 1 .. h[ch] : \E k \in j .. h[ch] : s = SubSeq(Chain[ch], j, k)

HeightsSound ==
  height \in [Channels -> Nat] /\ \A ch \in Channels : height[ch] \in 1 .. Len(Chain[ch])
MessageSound(m) ==
  /\ m = [kind |-> m.kind, ch |-> m.ch, ids |-> m.ids]
  /\ DOMAIN m.ids \subseteq Nat
NetSound == \A m \in net : MessageSound(m) /\ (m.kind = "Signatures" => Segment(height, m.ch, m.ids))
LoadSound == loader.st = "Blocks" => Segment(height, loader.ch, loader.all)
BufferSound == applier.buf = NoBuffer \/ Segment(height, applier.buf.ch, applier.buf.ext)
WorkSound == Queue(work) /\ \A i \in 1 .. Len(work) : Segment(height, work[i].ch, work[i].ext)

SegmentInv ==
  /\ LoaderShape(loader)
  /\ applier = [st |-> applier.st, buf |-> applier.buf, ext |-> applier.ext]
  /\ HeightsSound /\ NetSound /\ LoadSound /\ BufferSound /\ WorkSound

\* The chain of a peer, and a segment of it.
LEMMA ChainFacts ==
  ASSUME NEW ch \in Channels
  PROVE  Chain[ch] \in Seq(Range(Chain[ch])) /\ Len(Chain[ch]) \in Nat
<1>1. Chain[ch] \in ChainsOf
  BY LoaderAssumption DEF ChainsOf, Range
<1>2. Chain[ch] \in Seq(Range(Chain[ch]))
  BY <1>1, LoaderAssumption
<1> QED BY <1>2, LenProperties

LEMMA SubSegment ==
  ASSUME HeightsSound, NEW ch \in Channels, NEW j \in 1 .. height[ch], NEW k \in j .. height[ch],
         NEW s, s = SubSeq(Chain[ch], j, k)
  PROVE  /\ s \in Seq(Range(Chain[ch])) /\ Len(s) = k - j + 1 /\ DOMAIN s = 1 .. k - j + 1
         /\ \A x \in 1 .. k - j + 1 : \A y \in x .. k - j + 1 :
              SubSeq(s, x, y) = SubSeq(Chain[ch], j + x - 1, j + y - 1)
<1> DEFINE C == Chain[ch]
           S == Range(C)
           h == height[ch]
<1>1. C \in Seq(S) /\ Len(C) \in Nat /\ h \in 1 .. Len(C)
  BY ChainFacts DEF HeightsSound
<1> HIDE DEF C, S, h
<1>2. j \in 1 .. h /\ k \in j .. h /\ s = SubSeq(C, j, k)
  BY DEF C, h
<1>3. j \in Int /\ k \in Int /\ \A i \in j .. k : C[i] \in S
  <2>1. \A i \in j .. k : i \in 1 .. Len(C)
    BY <1>1, <1>2
  <2>2. \A i \in j .. k : C[i] \in S
    BY <1>1, <2>1, ElementOfSeq
  <2> QED BY <1>1, <1>2, <2>2
<1>4. s \in Seq(S) /\ Len(s) = IF j <= k THEN k - j + 1 ELSE 0
  BY <1>2, <1>3, SubSeqProperties
<1>5. Len(s) = k - j + 1
  BY <1>1, <1>2, <1>4
<1>6. ASSUME NEW x \in 1 .. k - j + 1, NEW y \in x .. k - j + 1
      PROVE  SubSeq(s, x, y) = SubSeq(C, j + x - 1, j + y - 1)
  <2>1. j \in 1 .. Len(C) /\ k \in 1 .. Len(C) /\ y \in 1 .. k - j + 1
    BY <1>1, <1>2, <1>3
  <2>2. SubSeq(SubSeq(C, j, k), x, y) = SubSeq(C, j + x - 1, j + y - 1)
    BY <1>1, <2>1, SubSeqOfSubSeq
  <2> QED BY <1>2, <2>2, Zenon
<1>7. DOMAIN s = 1 .. Len(s)
  BY <1>4, LenProperties
<1> QED BY <1>4, <1>5, <1>6, <1>7 DEF C, S

LEMMA SegmentFacts ==
  ASSUME HeightsSound, NEW ch, NEW s, Segment(height, ch, s)
  PROVE  /\ DOMAIN s \subseteq Nat /\ DOMAIN s = 1 .. Len(s) /\ Len(s) \in Nat
         /\ \A x \in DOMAIN s : Segment(height, ch, SubSeq(s, x, Len(s)))
<1>0. PICK j \in 1 .. height[ch] : \E k \in j .. height[ch] : s = SubSeq(Chain[ch], j, k)
  BY DEF Segment
<1>1. PICK k \in j .. height[ch] : s = SubSeq(Chain[ch], j, k)
  BY <1>0
<1>2. ch \in Channels /\ height[ch] \in Nat
  BY DEF Segment, HeightsSound
<1>3. /\ Len(s) = k - j + 1 /\ DOMAIN s = 1 .. k - j + 1
      /\ \A x \in 1 .. k - j + 1 : \A y \in x .. k - j + 1 :
           SubSeq(s, x, y) = SubSeq(Chain[ch], j + x - 1, j + y - 1)
  BY <1>1, <1>2, SubSegment
<1>4. k - j + 1 \in Nat /\ \A x \in 1 .. k - j + 1 : x \in Nat
  BY <1>1, <1>2
<1>5. ASSUME NEW x \in 1 .. k - j + 1 PROVE Segment(height, ch, SubSeq(s, x, Len(s)))
  <2>1. k - j + 1 \in x .. k - j + 1 /\ j + (k - j + 1) - 1 = k
    BY <1>1, <1>2, <1>5
  <2>2. SubSeq(s, x, Len(s)) = SubSeq(Chain[ch], j + x - 1, k)
    BY <1>3, <2>1
  <2>3. j + x - 1 \in 1 .. height[ch] /\ k \in j + x - 1 .. height[ch]
    BY <1>1, <1>2, <1>5
  <2> QED BY <1>2, <2>2, <2>3 DEF Segment
<1> QED BY <1>3, <1>4, <1>5

\* The part that dropWhile leaves is a segment if it is not empty.
LEMMA DropKnownSegment ==
  ASSUME HeightsSound, NEW ch, NEW s, Segment(height, ch, s), NEW known, DropKnown(s, known) # <<>>
  PROVE  Segment(height, ch, DropKnown(s, known))
<1> DEFINE u == {i \in DOMAIN s : s[i] \notin known}
<1>1. u # {} /\ DropKnown(s, known) = SubSeq(s, Min(u), Len(s))
  BY DEF DropKnown
<1>2. u \in SUBSET Nat
  BY SegmentFacts
<1>3. \E x \in u : \A y \in u : x <= y
  BY <1>1, <1>2, Least
<1>4. Min(u) \in u
  BY <1>3 DEF Min
<1> QED BY <1>1, <1>4, SegmentFacts

\* A taller chain has the segments of the shorter one.
LEMMA SegmentGrows ==
  ASSUME HeightsSound, NEW h \in [Channels -> Nat], \A c \in Channels : height[c] <= h[c],
         NEW ch, NEW s, Segment(height, ch, s)
  PROVE  Segment(h, ch, s)
<1>0. PICK j \in 1 .. height[ch] : \E k \in j .. height[ch] : s = SubSeq(Chain[ch], j, k)
  BY DEF Segment
<1>1. PICK k \in j .. height[ch] : s = SubSeq(Chain[ch], j, k)
  BY <1>0
<1>2. ch \in Channels /\ height[ch] \in Nat /\ h[ch] \in Nat /\ height[ch] <= h[ch]
  BY DEF Segment, HeightsSound
<1>3. j \in 1 .. h[ch] /\ k \in j .. h[ch]
  BY <1>1, <1>2
<1> QED BY <1>1, <1>2, <1>3 DEF Segment

\* The request of syncNext is no answer, and syncNext starts no load of blocks.
LEMMA AskedFacts ==
  ASSUME NEW ld, LoaderShape(ld), NEW ap, NEW sw, NEW r, r = SyncNext(ld, ap, sw)
  PROVE  /\ LoaderShape(r)
         /\ r.st = "Blocks" => r = ld
         /\ \A m \in Asked(ld, r) : MessageSound(m) /\ m.kind # "Signatures"
<1>1. ASSUME NEW q PROVE DOMAIN Reverse(q) \subseteq Nat
  BY DEF Reverse
<1>2. r = IdleLoader \/ r = ld \/ \E k : r = ExpectingSignatures(sw.ch, k) /\ DOMAIN k \subseteq Nat
  BY <1>1 DEF SyncNext, LastBlockIds
<1>3. LoaderShape(r) /\ (r.st = "Blocks" => r = ld)
  BY <1>2, LoaderStates
<1>4. ASSUME NEW m \in Asked(ld, r) PROVE MessageSound(m) /\ m.kind # "Signatures"
  <2>1. r # ld /\ r.st = "Signatures" /\ m = [kind |-> "GetSignatures", ch |-> r.ch, ids |-> r.known]
    BY DEF Asked
  <2>2. DOMAIN r.known \subseteq Nat
    BY <1>2, <2>1, LoaderStates DEF ExpectingSignatures
  <2> QED BY <2>1, <2>2 DEF MessageSound
<1> QED BY <1>3, <1>4

\* Steps that leave the heights alone: what must be shown of them.
Fits(m) == MessageSound(m) /\ (m.kind = "Signatures" => Segment(height, m.ch, m.ids))

LEMMA StepKeeps ==
  ASSUME SegmentInv, UNCHANGED height,
         LoaderShape(loader)',
         loader'.st = "Blocks" => \/ loader.st = "Blocks" /\ loader'.ch = loader.ch /\ loader'.all = loader.all
                                  \/ Segment(height, loader'.ch, loader'.all),
         applier' = [st |-> applier'.st, buf |-> applier'.buf, ext |-> applier'.ext],
         applier'.buf = applier.buf \/ applier'.buf = NoBuffer
           \/ Segment(height, applier'.buf.ch, applier'.buf.ext),
         \A m \in net' : m \in net \/ Fits(m),
         \/ work' = work
         \/ work # <<>> /\ work' = Tail(work)
         \/ \E w : work' = Append(work, w) /\ Segment(height, w.ch, w.ext)
  PROVE  SegmentInv'
<1>1. HeightsSound'
  BY DEF SegmentInv, HeightsSound
<1>2. NetSound'
  BY DEF SegmentInv, NetSound, Fits, MessageSound
<1>3. LoadSound'
  BY DEF SegmentInv, LoadSound
<1>4. BufferSound'
  BY DEF SegmentInv, BufferSound
<1>5. Queue(work) /\ \A i \in 1 .. Len(work) : Segment(height, work[i].ch, work[i].ext)
  BY DEF SegmentInv, WorkSound
<1>6. WorkSound'
  <2>1. CASE work' = work
    BY <1>5, <2>1 DEF WorkSound
  <2>2. CASE work # <<>> /\ work' = Tail(work)
    <3>1. /\ Queue(work') /\ Len(work) \in Nat \ {0} /\ Len(work') = Len(work) - 1
          /\ \A i \in 1 .. Len(work) - 1 : work'[i] = work[i + 1]
      BY <1>5, <2>2, QueueTail
    <3>2. \A i \in 1 .. Len(work) - 1 : i + 1 \in 1 .. Len(work)
      BY <3>1
    <3> QED BY <1>5, <3>1, <3>2 DEF WorkSound
  <2>3. ASSUME NEW w, work' = Append(work, w), Segment(height, w.ch, w.ext) PROVE WorkSound'
    <3>1. /\ Queue(work') /\ Len(work) \in Nat /\ Len(work') = Len(work) + 1
          /\ \A i \in 1 .. Len(work) : work'[i] = work[i]
          /\ work'[Len(work) + 1] = w
      BY <1>5, <2>3, QueueAppend
    <3>2. \A i \in 1 .. Len(work) + 1 : i \in 1 .. Len(work) \/ i = Len(work) + 1
      BY <3>1
    <3> QED BY <1>5, <2>3, <3>1, <3>2 DEF WorkSound
  <2> QED BY <2>1, <2>2, <2>3
<1> QED BY <1>1, <1>2, <1>3, <1>4, <1>6 DEF SegmentInv

\* The loader handles an item of the observer.
LEMMA ItemKeepsSegments ==
  ASSUME SegmentInv, OnNewSyncWith
  PROVE  SegmentInv'
<1> DEFINE ld == Freed(Head(events))
<1>1. /\ UNCHANGED <<height, applier, work>>
      /\ loader' = SyncNext(ld, applier, Head(events).sync)
      /\ net' = net \union Asked(ld, loader')
  BY DEF OnNewSyncWith, AfterItem
<1>2. LoaderShape(ld) /\ (ld.st = "Blocks" => ld = loader)
  BY LoaderStates DEF SegmentInv, Freed
<1> HIDE DEF ld
<1>3. /\ LoaderShape(loader')
      /\ loader'.st = "Blocks" => loader' = ld
      /\ \A m \in Asked(ld, loader') : MessageSound(m) /\ m.kind # "Signatures"
  BY <1>1, <1>2, AskedFacts
<1>4. LoaderShape(loader)' /\ (loader'.st = "Blocks" => loader' = loader)
  BY <1>2, <1>3 DEF LoaderShape
<1>5. \A m \in net' : m \in net \/ Fits(m)
  BY <1>1, <1>3 DEF Fits
<1> QED BY <1>1, <1>4, <1>5, StepKeeps DEF SegmentInv

\* Signatures: the loader drops a prefix of those it has asked for.
LEMMA SignaturesKeepSegments ==
  ASSUME SegmentInv, OnNewSignatures
  PROVE  SegmentInv'
<1>1. PICK m \in net :
        /\ m.kind = "Signatures" /\ UNCHANGED <<height, applier, work>>
        /\ LET unknown == DropKnown(m.ids, Range(loader.known))
           IN \/ net' = net \ {m} /\ UNCHANGED loader
              \/ /\ loader' = SyncNext(IdleLoader, applier, LastSyncWith)
                 /\ net' = Cut(net \ {m}, m.ch) \union Asked(IdleLoader, loader')
              \/ loader' = IdleLoader /\ net' = net \ {m}
              \/ /\ unknown # <<>> /\ loader.ch = m.ch
                 /\ loader' = ExpectingBlocks(loader.ch, unknown, Range(unknown))
                 /\ net' \subseteq net \union
                      {[kind |-> "GetBlock", ch |-> loader.ch, ids |-> <<b>>] : b \in Range(unknown)}
  BY DEF OnNewSignatures, FromPeer
<1> DEFINE unknown == DropKnown(m.ids, Range(loader.known))
<1>2. LoaderShape(loader) /\ LoaderShape(IdleLoader) /\ IdleLoader.st = "Idle" /\ HeightsSound
  BY LoaderStates DEF SegmentInv
<1>3. Segment(height, m.ch, m.ids)
  BY <1>1 DEF SegmentInv, NetSound
<1>4. CASE UNCHANGED loader /\ net' = net \ {m}
  <2>1. LoaderShape(loader)'
    BY <1>2, <1>4 DEF LoaderShape
  <2> QED BY <1>1, <1>4, <2>1, StepKeeps DEF SegmentInv
<1>5. CASE loader' = IdleLoader /\ net' = net \ {m}
  <2>1. LoaderShape(loader)' /\ loader'.st # "Blocks"
    BY <1>2, <1>5 DEF LoaderShape
  <2> QED BY <1>1, <1>5, <2>1, StepKeeps DEF SegmentInv
<1>6. CASE /\ loader' = SyncNext(IdleLoader, applier, LastSyncWith)
           /\ net' = Cut(net \ {m}, m.ch) \union Asked(IdleLoader, loader')
  <2>1. /\ LoaderShape(loader') /\ (loader'.st = "Blocks" => loader' = IdleLoader)
        /\ \A n \in Asked(IdleLoader, loader') : MessageSound(n) /\ n.kind # "Signatures"
    BY <1>2, <1>6, AskedFacts
  <2>2. LoaderShape(loader)' /\ loader'.st # "Blocks"
    BY <1>2, <2>1 DEF LoaderShape
  <2>3. \A n \in net' : n \in net \/ Fits(n)
    BY <1>6, <2>1 DEF Fits, Cut
  <2> QED BY <1>1, <2>2, <2>3, StepKeeps DEF SegmentInv
<1>7. CASE /\ unknown # <<>> /\ loader.ch = m.ch
           /\ loader' = ExpectingBlocks(loader.ch, unknown, Range(unknown))
           /\ net' \subseteq net \union
                {[kind |-> "GetBlock", ch |-> loader.ch, ids |-> <<b>>] : b \in Range(unknown)}
  <2>1. Segment(height, m.ch, unknown)
    BY <1>2, <1>3, <1>7, DropKnownSegment
  <2>2. ASSUME NEW b PROVE Fits([kind |-> "GetBlock", ch |-> loader.ch, ids |-> <<b>>])
    <3>1. DOMAIN <<b>> \subseteq Nat
      OBVIOUS
    <3> QED BY <3>1 DEF Fits, MessageSound
  <2> HIDE DEF unknown
  <2>3. LoaderShape(loader') /\ loader'.ch = m.ch /\ loader'.all = unknown
    BY <1>7, LoaderStates
  <2>4. LoaderShape(loader)' /\ Segment(height, loader'.ch, loader'.all)
    BY <2>1, <2>3 DEF LoaderShape
  <2>5. \A n \in net' : n \in net \/ Fits(n)
    BY <1>7, <2>2
  <2> QED BY <1>1, <2>4, <2>5, StepKeeps DEF SegmentInv
<1> QED BY <1>1, <1>4, <1>5, <1>6, <1>7

\* A block, and the end of a load.
LEMMA BlockKeepsSegments ==
  ASSUME SegmentInv, OnBlock
  PROVE  SegmentInv'
<1>1. PICK m \in net :
        /\ UNCHANGED height
        /\ \/ UNCHANGED <<loader, applier, work>> /\ net' = net \ {m}
           \/ /\ loader.st = "Blocks"
              /\ \/ ExtensionLoadingFinished(loader.ch, loader.all, net \ {m})
                 \/ /\ \E x : loader' = ExpectingBlocks(loader.ch, loader.all, x)
                    /\ net' = net \ {m} /\ UNCHANGED <<applier, work>>
  BY DEF OnBlock
<1>2. /\ LoaderShape(loader) /\ LoaderShape(IdleLoader) /\ IdleLoader.st = "Idle"
      /\ applier = [st |-> applier.st, buf |-> applier.buf, ext |-> applier.ext]
      /\ loader.st = "Blocks" => Segment(height, loader.ch, loader.all)
  BY LoaderStates DEF SegmentInv, LoadSound
<1>3. CASE UNCHANGED <<loader, applier, work>> /\ net' = net \ {m}
  <2>1. LoaderShape(loader)'
    BY <1>2, <1>3 DEF LoaderShape
  <2> QED BY <1>1, <1>2, <1>3, <2>1, StepKeeps
<1>4. ASSUME loader.st = "Blocks", NEW x, loader' = ExpectingBlocks(loader.ch, loader.all, x),
             net' = net \ {m}, UNCHANGED <<applier, work>>
      PROVE  SegmentInv'
  <2>1. LoaderShape(loader') /\ loader'.ch = loader.ch /\ loader'.all = loader.all
    BY <1>4, LoaderStates
  <2>2. LoaderShape(loader)'
    BY <2>1 DEF LoaderShape
  <2> QED BY <1>1, <1>2, <1>4, <2>1, <2>2, StepKeeps
<1>5. ASSUME loader.st = "Blocks", ExtensionLoadingFinished(loader.ch, loader.all, net \ {m})
      PROVE  SegmentInv'
  <2> DEFINE w == [ch |-> loader.ch, ext |-> loader.all]
  <2>1. w.ch = loader.ch /\ w.ext = loader.all /\ Segment(height, w.ch, w.ext)
    BY <1>2, <1>5
  <2>2. CASE ApplierFree
    <3>1. /\ work' = Append(work, w) /\ applier' = Applying(NoBuffer, loader.all)
          /\ loader' = SyncNext(IdleLoader, applier', LastSyncWith)
          /\ net' = (net \ {m}) \union Asked(IdleLoader, loader')
      BY <1>5, <2>2 DEF ExtensionLoadingFinished
    <3>2. /\ LoaderShape(loader') /\ (loader'.st = "Blocks" => loader' = IdleLoader)
          /\ \A n \in Asked(IdleLoader, loader') : MessageSound(n) /\ n.kind # "Signatures"
      BY <1>2, <3>1, AskedFacts
    <3>3. LoaderShape(loader)' /\ loader'.st # "Blocks"
      BY <1>2, <3>2 DEF LoaderShape
    <3>4. \A n \in net' : n \in net \/ Fits(n)
      BY <3>1, <3>2 DEF Fits
    <3>5. applier' = [st |-> applier'.st, buf |-> applier'.buf, ext |-> applier'.ext] /\ applier'.buf = NoBuffer
      BY <3>1 DEF Applying
    <3>6. \E v : work' = Append(work, v) /\ Segment(height, v.ch, v.ext)
      BY <2>1, <3>1
    <3> QED BY <1>1, <3>3, <3>4, <3>5, <3>6, StepKeeps
  <2>3. CASE ~ApplierFree
    <3>1. /\ applier' = IF applier.buf = NoBuffer THEN [applier EXCEPT !.buf = w] ELSE applier
          /\ loader' = IdleLoader /\ net' = net \ {m} /\ work' = work
      BY <1>5, <2>3 DEF ExtensionLoadingFinished
    <3>2. LoaderShape(loader)' /\ loader'.st # "Blocks"
      BY <1>2, <3>1 DEF LoaderShape
    <3> HIDE DEF w
    <3>3. applier' = [st |-> applier'.st, buf |-> applier'.buf, ext |-> applier'.ext]
          /\ (applier'.buf = applier.buf \/ applier'.buf = w)
      BY <1>2, <3>1
    <3>4. applier'.buf = applier.buf \/ Segment(height, applier'.buf.ch, applier'.buf.ext)
      BY <2>1, <3>3
    <3> QED BY <1>1, <3>1, <3>2, <3>3, <3>4, StepKeeps
  <2> QED BY <2>2, <2>3
<1> QED BY <1>1, <1>3, <1>4, <1>5

\* An outcome: the buffered extension follows.
LEMMA OutcomeKeepsSegments ==
  ASSUME SegmentInv, OnExtensionApplied
  PROVE  SegmentInv'
<1>1. LoaderShape(loader) /\ UNCHANGED height /\ BufferSound
  BY DEF SegmentInv, OnExtensionApplied
<1>2. IdleApplier = [st |-> IdleApplier.st, buf |-> IdleApplier.buf, ext |-> IdleApplier.ext]
      /\ IdleApplier.buf = NoBuffer
  BY DEF IdleApplier
<1>3. CASE applier.buf = NoBuffer
  <2>1. applier' = IdleApplier /\ UNCHANGED <<loader, net, work>>
    BY <1>3 DEF OnExtensionApplied
  <2>2. LoaderShape(loader)'
    BY <1>1, <2>1 DEF LoaderShape
  <2> QED BY <1>1, <1>2, <2>1, <2>2, StepKeeps
<1>4. CASE applier.buf # NoBuffer
  <2>1. /\ \/ work' = Append(work, applier.buf) /\ applier' = Applying(NoBuffer, applier.buf.ext)
           \/ applier' = IdleApplier /\ work' = work
        /\ loader' = SyncNext(loader, applier', LastSyncWith)
        /\ net' = net \union Asked(loader, loader')
    BY <1>4 DEF OnExtensionApplied
  <2>2. /\ LoaderShape(loader') /\ (loader'.st = "Blocks" => loader' = loader)
        /\ \A n \in Asked(loader, loader') : MessageSound(n) /\ n.kind # "Signatures"
    BY <1>1, <2>1, AskedFacts
  <2>3. LoaderShape(loader)'
    BY <2>2 DEF LoaderShape
  <2>4. \A n \in net' : n \in net \/ Fits(n)
    BY <2>1, <2>2 DEF Fits
  <2>5. applier' = [st |-> applier'.st, buf |-> applier'.buf, ext |-> applier'.ext] /\ applier'.buf = NoBuffer
    BY <1>2, <2>1 DEF Applying
  <2>6. work' = work \/ \E v : work' = Append(work, v) /\ Segment(height, v.ch, v.ext)
    BY <1>1, <1>4, <2>1 DEF BufferSound
  <2> QED BY <1>1, <2>2, <2>3, <2>4, <2>5, <2>6, StepKeeps
<1> QED BY <1>3, <1>4

\* Steps that lose messages, or hand an extension to the chain.
LEMMA LossKeepsSegments ==
  ASSUME SegmentInv, UNCHANGED <<height, applier>>, net' \subseteq net,
         loader' = loader \/ loader' = [loader EXCEPT !.armed = FALSE],
         work' = work \/ (work # <<>> /\ work' = Tail(work))
  PROVE  SegmentInv'
<1>1. LoaderShape(loader)
  BY DEF SegmentInv
<1>2. LoaderShape(loader') /\ loader'.st = loader.st /\ loader'.ch = loader.ch /\ loader'.all = loader.all
  BY <1>1 DEF LoaderShape
<1>3. LoaderShape(loader)'
  BY <1>2 DEF LoaderShape
<1> QED BY <1>2, <1>3, StepKeeps DEF SegmentInv

\* A peer answers with a segment of its chain.
LEMMA ReplyKeepsSegments ==
  ASSUME SegmentInv, NEW ch \in Channels, Reply(ch)
  PROVE  SegmentInv'
<1> DEFINE c == PeerChain(ch)
           h == height[ch]
<1>1. PICK m \in net :
        /\ m.ch = ch /\ m.kind \in {"GetSignatures", "GetBlock"}
        /\ UNCHANGED <<height, loader, applier, work>>
        /\ LET common == {k \in DOMAIN m.ids : m.ids[k] \in Range(c)}
               i == HeightIn(c, m.ids[Min(common)])
           IN net' = (net \ {m}) \union
                IF common = {} THEN {}
                ELSE IF m.kind = "GetBlock" THEN {[m EXCEPT !.kind = "Block"]}
                ELSE {[kind |-> "Signatures", ch |-> m.ch,
                       ids |-> SubSeq(c, i, Min({i + MaxChainLength, Len(c)}))]}
  BY ZenonT(60) DEF Reply
<1> DEFINE common == {k \in DOMAIN m.ids : m.ids[k] \in Range(c)}
           i == HeightIn(c, m.ids[Min(common)])
           e == Min({i + MaxChainLength, Len(c)})
<1>2. MessageSound(m) /\ HeightsSound /\ h \in Nat \ {0}
  BY <1>1 DEF SegmentInv, NetSound, HeightsSound
<1>3. /\ 1 \in 1 .. h /\ h \in 1 .. h /\ c = SubSeq(Chain[ch], 1, h) /\ h - 1 + 1 = h
  BY <1>2 DEF PeerChain
<1>4. /\ Len(c) = h /\ DOMAIN c = 1 .. h
      /\ \A x \in 1 .. h : \A y \in x .. h : SubSeq(c, x, y) = SubSeq(Chain[ch], 1 + x - 1, 1 + y - 1)
  <2> HIDE DEF c
  <2>1. /\ Len(c) = h - 1 + 1 /\ DOMAIN c = 1 .. h - 1 + 1
        /\ \A x \in 1 .. h - 1 + 1 : \A y \in x .. h - 1 + 1 :
             SubSeq(c, x, y) = SubSeq(Chain[ch], 1 + x - 1, 1 + y - 1)
    BY <1>2, <1>3, SubSegment
  <2> QED BY <1>3, <2>1
<1>5. ASSUME NEW n \in net' PROVE n \in net \/ Fits(n)
  <2>1. CASE common = {}
    BY <1>1, <2>1
  <2>2. CASE common # {} /\ m.kind = "GetBlock"
    <3>1. n \in net \/ n = [m EXCEPT !.kind = "Block"]
      BY <1>1, <2>2
    <3>2. ASSUME n = [m EXCEPT !.kind = "Block"] PROVE Fits(n)
      <4>1. n = [kind |-> "Block", ch |-> m.ch, ids |-> m.ids]
        BY <1>2, <3>2 DEF MessageSound
      <4> QED BY <1>2, <4>1 DEF Fits, MessageSound
    <3> QED BY <3>1, <3>2
  <2>3. CASE common # {} /\ m.kind = "GetSignatures"
    <3>1. n \in net \/ n = [kind |-> "Signatures", ch |-> ch, ids |-> SubSeq(c, i, e)]
      BY <1>1, <2>3
    <3>2. common \in SUBSET Nat /\ common # {}
      BY <1>2, <2>3 DEF MessageSound
    <3>3. \E x \in common : \A y \in common : x <= y
      BY <3>2, Least
    <3>4. Min(common) \in common
      BY <3>3 DEF Min
    <3>5. m.ids[Min(common)] \in Range(c)
      BY <3>4
    <3>6. i \in 1 .. h
      <4> HIDE DEF common, c
      <4>1. \E x \in DOMAIN c : c[x] = m.ids[Min(common)]
        BY <3>5 DEF Range
      <4> QED BY <1>4, <4>1 DEF HeightIn
    <3> HIDE DEF i, c, common
    <3>7. e \in i .. h
      <4>1. i \in Nat /\ h \in Nat /\ i <= h /\ MaxChainLength \in Nat /\ e = Min({i + MaxChainLength, h})
        BY <1>2, <1>4, <3>6, LoaderAssumption
      <4>2. \E x \in {i + MaxChainLength, h} : \A y \in {i + MaxChainLength, h} : x <= y
        BY <4>1
      <4>3. e \in {i + MaxChainLength, h} /\ e <= i + MaxChainLength /\ e <= h
        BY <4>1, <4>2 DEF Min
      <4> QED BY <4>1, <4>3
    <3> HIDE DEF e
    <3>8. SubSeq(c, i, e) = SubSeq(Chain[ch], i, e)
      <4>1. 1 + i - 1 = i /\ 1 + e - 1 = e
        BY <1>2, <3>6, <3>7
      <4> QED BY <1>4, <3>6, <3>7, <4>1
    <3>9. Segment(height, ch, SubSeq(c, i, e))
      BY <3>6, <3>7, <3>8 DEF Segment
    <3>10. DOMAIN SubSeq(c, i, e) \subseteq Nat
      BY <1>2, <3>9, SegmentFacts
    <3>11. PICK ids : ids = SubSeq(c, i, e)
      OBVIOUS
    <3>12. Fits([kind |-> "Signatures", ch |-> ch, ids |-> ids])
      BY <3>9, <3>10, <3>11 DEF Fits, MessageSound
    <3> QED BY <3>1, <3>11, <3>12
  <2> QED BY <1>1, <2>1, <2>2, <2>3
<1>6. LoaderShape(loader)'
  BY <1>1 DEF SegmentInv, LoaderShape
<1> QED BY <1>1, <1>5, <1>6, StepKeeps DEF SegmentInv

\* A peer's chain grows.
LEMMA GrowthKeepsSegments ==
  ASSUME SegmentInv, NEW ch \in Channels, PeerGrows(ch)
  PROVE  SegmentInv'
<1>1. /\ height[ch] < Len(Chain[ch]) /\ height' = [height EXCEPT ![ch] = @ + 1]
      /\ \E b : net' = net \union {[kind |-> "Block", ch |-> ch, ids |-> <<b>>]}
      /\ UNCHANGED <<loader, applier, work>>
  BY DEF PeerGrows
<1>2. HeightsSound /\ Len(Chain[ch]) \in Nat
  BY ChainFacts DEF SegmentInv
<1>3. height' \in [Channels -> Nat] /\ \A c \in Channels : height[c] <= height'[c] /\ height'[c] \in 1 .. Len(Chain[c])
  <2>1. height \in [Channels -> Nat] /\ \A c \in Channels : height[c] \in 1 .. Len(Chain[c])
    BY <1>2 DEF HeightsSound
  <2>2. height' \in [Channels -> Nat] /\ \A c \in Channels : height'[c] = IF c = ch THEN height[c] + 1 ELSE height[c]
    BY <1>1, <2>1
  <2> QED BY <1>1, <1>2, <2>1, <2>2
<1>4. HeightsSound'
  BY <1>3 DEF HeightsSound
<1>5. ASSUME NEW c, NEW s, Segment(height, c, s) PROVE Segment(height', c, s)
  BY <1>2, <1>3, <1>5, SegmentGrows
<1>6. NetSound'
  <2>1. ASSUME NEW b PROVE MessageSound([kind |-> "Block", ch |-> ch, ids |-> <<b>>])
    BY DEF MessageSound
  <2>2. \A m \in net' : MessageSound(m) /\ (m.kind = "Signatures" => Segment(height, m.ch, m.ids))
    BY <1>1, <2>1 DEF SegmentInv, NetSound
  <2>3. \A m \in net' : MessageSound(m) /\ (m.kind = "Signatures" => Segment(height', m.ch, m.ids))
    BY <1>5, <2>2
  <2> QED BY <2>3 DEF NetSound, MessageSound
<1>7. LoadSound' /\ BufferSound'
  BY <1>1, <1>5 DEF SegmentInv, LoadSound, BufferSound
<1>8. WorkSound'
  BY <1>1, <1>5 DEF SegmentInv, WorkSound
<1> QED BY <1>1, <1>4, <1>6, <1>7, <1>8 DEF SegmentInv, LoaderShape

\* The first state has the invariant, and every step keeps it.
LEMMA SegmentInit == Init => SegmentInv
<1> SUFFICES ASSUME Init PROVE SegmentInv
  OBVIOUS
<1>1. HeightsSound
  BY LoaderAssumption DEF Init, HeightsSound
<1>2. Queue(work) /\ Len(work) = 0
  BY EmptySeq DEF Init, Queue
<1>3. NetSound /\ BufferSound
  BY DEF Init, NetSound, BufferSound, IdleApplier
<1>4. LoadSound /\ LoaderShape(loader)
  BY LoaderStates DEF Init, LoadSound
<1>5. WorkSound
  BY <1>2 DEF WorkSound
<1>6. applier = [st |-> applier.st, buf |-> applier.buf, ext |-> applier.ext]
  BY DEF Init, IdleApplier
<1> QED BY <1>1, <1>3, <1>4, <1>5, <1>6 DEF SegmentInv

LEMMA SegmentNext ==
  ASSUME SegmentInv, [Next]_vars
  PROVE  SegmentInv'
<1>1. ASSUME UNCHANGED loaderVars PROVE SegmentInv'
  BY <1>1, LossKeepsSegments DEF loaderVars
<1>2. CASE Observe
  BY <1>1, <1>2 DEF Observe
<1>3. CASE OnNewSyncWith
  BY <1>3, ItemKeepsSegments
<1>4. CASE OnNewSignatures
  BY <1>4, SignaturesKeepSegments
<1>5. CASE OnBlock
  BY <1>5, BlockKeepsSegments
<1>6. CASE OnExtensionApplied
  BY <1>6, OutcomeKeepsSegments
<1>7. CASE Timeout
  BY <1>7, LossKeepsSegments DEF Timeout, Cut
<1>8. ASSUME NEW ch \in Channels, Reply(ch) PROVE SegmentInv'
  BY <1>8, ReplyKeepsSegments
<1>9. ASSUME NEW ch \in Channels, PeerGrows(ch) PROVE SegmentInv'
  BY <1>9, GrowthKeepsSegments
<1>10. ASSUME NEW ch \in Channels, PeerLeaves(ch) PROVE SegmentInv'
  BY <1>10, LossKeepsSegments DEF PeerLeaves, Cut
<1>11. ASSUME NEW ch \in Channels, Expire(ch) PROVE SegmentInv'
  BY <1>1, <1>11 DEF Expire
<1>12. CASE Apply
  <2>1. /\ UNCHANGED <<height, applier, loader>> /\ work # <<>> /\ work' = Tail(work)
        /\ net' = net \/ \E ch : net' = Cut(net, ch)
    BY <1>12 DEF Apply
  <2>2. net' \subseteq net
    BY <2>1 DEF Cut
  <2> QED BY <2>1, <2>2, LossKeepsSegments
<1>13. CASE AppendStray
  BY <1>13, LossKeepsSegments DEF AppendStray
<1>14. CASE UNCHANGED vars
  BY <1>1, <1>14 DEF vars
<1> QED BY <1>2, <1>3, <1>4, <1>5, <1>6, <1>7, <1>8, <1>9, <1>10, <1>11, <1>12, <1>13, <1>14
        DEF Next, LoaderStep, AppenderStep

\* Whatever answers come late, and from whom, an extension handed to the
\* appender is a segment, in order and without gaps, of the chain of the peer
\* that the loader attributes it to (and would blacklist for it).
THEOREM ExtensionsSegments == Spec => []ExtensionsAreSegments
<1>1. Init => SegmentInv
  BY SegmentInit
<1>2. SegmentInv /\ [Next]_vars => SegmentInv'
  BY SegmentNext
<1>3. SegmentInv => ExtensionsAreSegments
  <2> SUFFICES ASSUME SegmentInv, NEW x \in DOMAIN work
               PROVE  LET c == PeerChain(work[x].ch)
                          ext == work[x].ext
                      IN \E j \in DOMAIN c : ext = SubSeq(c, j, j + Len(ext) - 1)
    BY DEF ExtensionsAreSegments
  <2> DEFINE ch == work[x].ch
             ext == work[x].ext
             c == PeerChain(ch)
             h == height[ch]
  <2>1. HeightsSound /\ Segment(height, ch, ext)
    <3>1. Queue(work)
      BY DEF SegmentInv, WorkSound
    <3>2. DOMAIN work = 1 .. Len(work)
      BY <3>1, LenProperties DEF Queue
    <3> QED BY <3>2 DEF SegmentInv, WorkSound
  <2> HIDE DEF ch, ext
  <2>2. ch \in Channels /\ h \in Nat \ {0}
    BY <2>1 DEF Segment, HeightsSound
  <2>3. PICK j \in 1 .. h : \E k \in j .. h : ext = SubSeq(Chain[ch], j, k)
    BY <2>1 DEF Segment
  <2>4. PICK k \in j .. h : ext = SubSeq(Chain[ch], j, k)
    BY <2>3
  <2>5. Len(ext) = k - j + 1
    BY <2>1, <2>2, <2>4, SubSegment
  <2>6. 1 \in 1 .. h /\ h \in 1 .. h /\ c = SubSeq(Chain[ch], 1, h) /\ h - 1 + 1 = h
    BY <2>2 DEF PeerChain
  <2> HIDE DEF c
  <2>7. /\ DOMAIN c = 1 .. h - 1 + 1
        /\ \A y \in 1 .. h - 1 + 1 : \A z \in y .. h - 1 + 1 :
             SubSeq(c, y, z) = SubSeq(Chain[ch], 1 + y - 1, 1 + z - 1)
    BY <2>1, <2>2, <2>6, SubSegment
  <2>8. j \in DOMAIN c /\ SubSeq(c, j, k) = SubSeq(Chain[ch], 1 + j - 1, 1 + k - 1)
    BY <2>6, <2>7
  <2>9. j + Len(ext) - 1 = k /\ 1 + j - 1 = j /\ 1 + k - 1 = k
    BY <2>2, <2>5
  <2>10. ext = SubSeq(c, j, j + Len(ext) - 1)
    BY <2>4, <2>8, <2>9
  <2> QED BY <2>8, <2>10 DEF c, ch, ext
<1> QED BY <1>1, <1>2, <1>3, PTL DEF Spec
-----------------------------------------------------------------------------
(* Why no peer with a valid chain is the first to be blacklisted for what an  *)
(* extension contained.  The node's chain is the lower part of one of the     *)
(* chains; the first block of what is loaded, buffered or handed over has its *)
(* parent there, or in the extension the appender is still busy with, as long *)
(* as nobody is blamed and no late answer was taken.                          *)

LocalSound ==
  /\ local \in Seq(Blocks) /\ local # <<>>
  /\ \E c \in ChainsOf : Len(local) <= Len(c) /\ \A i \in 1 .. Len(local) : local[i] = c[i]
StraysSound ==
  /\ strays \in Seq(Blocks)
  /\ \A m \in net : m.kind \in {"GetBlock", "Block"} => m.ids[1] \in Blocks

\* The blocks that the node's chain will hold when the appender is done.
Ground == IF work = <<>> THEN Range(local) ELSE Range(applier.ext)
Grounded(s) == Parent(s[1]) \in Ground
SureInv ==
  /\ work # <<>> => work[1].ext = applier.ext /\ Parent(applier.ext[1]) \in Range(local)
  /\ applier.st = "Applying" => applier.ext \in Seq(Blocks) /\ Range(applier.ext) \subseteq Ground
  /\ applier.buf # NoBuffer => loader.st = "Idle" /\ Grounded(applier.buf.ext)
  /\ loader.st = "Signatures" => Range(loader.known) \subseteq Ground
  /\ loader.st = "Blocks" => Grounded(loader.all)
Unblamed == blamed = {} /\ late = {}
BlameInv ==
  /\ UnderWay /\ SegmentInv /\ LocalSound /\ StraysSound
  /\ BlameHasCause /\ (Unblamed => SureInv)

\* The chains, and where the parent of a block is.
LEMMA ChainsAre ==
  ASSUME NEW c \in ChainsOf
  PROVE  /\ c \in Seq(Blocks) /\ Len(c) \in Nat \ {0} /\ DOMAIN c = 1 .. Len(c)
         /\ c[1] = StartChain[1]
<1>1. c \in Seq(Range(c)) /\ c # <<>> /\ c[1] = StartChain[1]
  BY LoaderAssumption
<1>2. Range(c) \subseteq Blocks
  BY DEF Blocks
<1>3. c \in Seq(Blocks)
  BY <1>1, <1>2, SeqMonotonic
<1> QED BY <1>1, <1>3, EmptySeq, LenProperties

LEMMA SameHeight ==
  ASSUME NEW c \in ChainsOf, NEW d \in ChainsOf, NEW i \in 1 .. Len(c), NEW j \in 1 .. Len(d),
         c[i] = d[j]
  PROVE  i = j /\ \A k \in 1 .. i : c[k] = d[k]
<1>1. /\ c \in Seq(Blocks) /\ d \in Seq(Blocks) /\ Len(c) \in Nat /\ Len(d) \in Nat
      /\ i \in DOMAIN c /\ j \in DOMAIN d
  BY ChainsAre
<1>2. i = j /\ SubSeq(c, 1, i) = SubSeq(d, 1, i)
  BY <1>1, LoaderAssumption
<1>3. ASSUME NEW k \in 1 .. i PROVE c[k] = d[k]
  <2>1. SubSeq(c, 1, i)[k] = c[k] /\ SubSeq(d, 1, i)[k] = d[k]
    BY <1>1, <1>2
  <2> QED BY <1>2, <2>1
<1> QED BY <1>2, <1>3

LEMMA ParentIs ==
  ASSUME NEW c \in ChainsOf, NEW i \in 2 .. Len(c)
  PROVE  Parent(c[i]) = c[i - 1]
<1> DEFINE d == CHOOSE d \in ChainsOf : c[i] \in Range(d)
           h == HeightIn(d, c[i])
<1>1. Len(c) \in Nat /\ DOMAIN c = 1 .. Len(c) /\ i \in 1 .. Len(c) /\ i - 1 \in 1 .. i
  BY ChainsAre
<1>2. c[i] \in Range(c)
  BY <1>1 DEF Range
<1>3. d \in ChainsOf /\ c[i] \in Range(d)
  BY <1>2
<1>4. Parent(c[i]) = d[h - 1]
  BY DEF Parent
<1> HIDE DEF d
<1>5. DOMAIN d = 1 .. Len(d)
  BY <1>3, ChainsAre
<1>6. h \in 1 .. Len(d) /\ d[h] = c[i]
  <2>1. \E k \in DOMAIN d : d[k] = c[i]
    BY <1>3 DEF Range
  <2> QED BY <1>5, <2>1 DEF HeightIn
<1> HIDE DEF h
<1>7. i = h /\ \A k \in 1 .. i : c[k] = d[k]
  BY <1>1, <1>3, <1>6, SameHeight
<1> QED BY <1>1, <1>4, <1>7

\* A segment, position by position.
LEMMA SegmentIs ==
  ASSUME HeightsSound, NEW ch, NEW s, Segment(height, ch, s)
  PROVE  /\ ch \in Channels /\ Chain[ch] \in ChainsOf
         /\ s \in Seq(Blocks) /\ s \in Seq(Range(Chain[ch])) /\ Len(s) \in Nat \ {0}
         /\ \E j \in 1 .. Len(Chain[ch]) :
              /\ j + Len(s) - 1 <= Len(Chain[ch])
              /\ \A i \in 1 .. Len(s) : s[i] = Chain[ch][j + i - 1]
<1>0. PICK j \in 1 .. height[ch] : \E k \in j .. height[ch] : s = SubSeq(Chain[ch], j, k)
  BY DEF Segment
<1>1. PICK k \in j .. height[ch] : s = SubSeq(Chain[ch], j, k)
  BY <1>0
<1> DEFINE C == Chain[ch]
<1>2. ch \in Channels /\ height[ch] \in Nat /\ height[ch] <= Len(C) /\ Len(C) \in Nat
  BY ChainFacts DEF Segment, HeightsSound
<1>3. C \in ChainsOf
  BY <1>2, LoaderAssumption DEF ChainsOf, Range
<1>4. C \in Seq(Range(C)) /\ C \in Seq(Blocks) /\ Range(C) \subseteq Blocks
  BY <1>2, <1>3, ChainFacts, ChainsAre DEF Blocks
<1>5. s \in Seq(Range(C)) /\ Len(s) = k - j + 1
  BY <1>1, <1>2, SubSegment
<1>6. s \in Seq(Blocks)
  BY <1>4, <1>5, SeqMonotonic
<1>7. j \in 1 .. Len(C) /\ j + Len(s) - 1 <= Len(C) /\ Len(s) \in Nat \ {0}
  BY <1>1, <1>2, <1>5
<1>8. ASSUME NEW i \in 1 .. Len(s) PROVE s[i] = C[j + i - 1]
  <2> HIDE DEF C
  <2>1. s = SubSeq(C, j, k)
    BY <1>1 DEF C
  <2>2. j \in Int /\ k \in Int /\ i \in 1 .. k - j + 1
    BY <1>1, <1>2, <1>5
  <2> QED BY <1>4, <2>1, <2>2
<1> QED BY <1>2, <1>3, <1>5, <1>6, <1>7, <1>8

LEMMA SegmentParents ==
  ASSUME HeightsSound, NEW ch, NEW s, Segment(height, ch, s), NEW i \in 2 .. Len(s)
  PROVE  Parent(s[i]) = s[i - 1]
<1>1. PICK j \in 1 .. Len(Chain[ch]) :
        j + Len(s) - 1 <= Len(Chain[ch]) /\ \A n \in 1 .. Len(s) : s[n] = Chain[ch][j + n - 1]
  BY SegmentIs
<1>2. Chain[ch] \in ChainsOf /\ Len(s) \in Nat /\ Len(Chain[ch]) \in Nat
  BY SegmentIs, ChainsAre
<1>3. i \in 1 .. Len(s) /\ i - 1 \in 1 .. Len(s)
  BY <1>2
<1>4. s[i] = Chain[ch][j + i - 1] /\ s[i - 1] = Chain[ch][j + (i - 1) - 1]
  BY <1>1, <1>3
<1>5. j + i - 1 \in 2 .. Len(Chain[ch]) /\ j + (i - 1) - 1 = (j + i - 1) - 1
  BY <1>1, <1>2
<1> QED BY <1>2, <1>4, <1>5, ParentIs

\* dropWhile, position by position.
LEMMA DropKnownIs ==
  ASSUME NEW S, NEW s \in Seq(S), NEW known
  PROVE  \/ DropKnown(s, known) = <<>> /\ Range(s) \subseteq known
         \/ \E x \in 1 .. Len(s) :
              /\ s[x] \notin known /\ \A y \in 1 .. x - 1 : s[y] \in known
              /\ DropKnown(s, known) = SubSeq(s, x, Len(s))
              /\ DropKnown(s, known) \in Seq(S) /\ Len(DropKnown(s, known)) = Len(s) - x + 1
              /\ \A i \in 1 .. Len(s) - x + 1 : DropKnown(s, known)[i] = s[x + i - 1]
<1> DEFINE u == {i \in DOMAIN s : s[i] \notin known}
<1>1. Len(s) \in Nat /\ DOMAIN s = 1 .. Len(s)
  BY LenProperties
<1>2. CASE u = {}
  BY <1>2 DEF DropKnown, Range
<1>3. CASE u # {}
  <2> DEFINE x == Min(u)
  <2>1. u \in SUBSET Nat /\ u # {}
    BY <1>1, <1>3
  <2>2. \E z \in u : \A y \in u : z <= y
    BY <2>1, Least
  <2>3. x \in u /\ \A y \in u : x <= y
    BY <2>2 DEF Min
  <2>4. DropKnown(s, known) = SubSeq(s, x, Len(s))
    BY <1>3 DEF DropKnown
  <2> HIDE DEF x
  <2>5. x \in 1 .. Len(s) /\ s[x] \notin known
    BY <1>1, <2>3
  <2>6. ASSUME NEW y \in 1 .. x - 1 PROVE s[y] \in known
    BY <1>1, <2>3, <2>5
  <2>7. /\ SubSeq(s, x, Len(s)) \in Seq(S) /\ Len(SubSeq(s, x, Len(s))) = Len(s) - x + 1
        /\ \A i \in 1 .. Len(s) - x + 1 : SubSeq(s, x, Len(s))[i] = s[x + i - 1]
    <3> HIDE DEF u
    <3> QED BY <1>1, <2>5
  <2> QED BY <2>4, <2>5, <2>6, <2>7
<1> QED BY <1>2, <1>3

LEMMA AllKnown ==
  ASSUME NEW S, NEW s \in Seq(S), NEW known, DropKnown(s, known) = <<>>
  PROVE  Range(s) \subseteq known
<1>1. Len(s) \in Nat /\ Len(<<>>) = 0
  BY LenProperties
<1>2. \A x \in 1 .. Len(s) : Len(DropKnown(s, known)) # Len(s) - x + 1
  BY <1>1
<1>3. \/ Range(s) \subseteq known
      \/ \E x \in 1 .. Len(s) : Len(DropKnown(s, known)) = Len(s) - x + 1
  BY DropKnownIs
<1> QED BY <1>2, <1>3

\* What is left of an answer that starts with a known block is grounded there.
LEMMA UnknownGrounded ==
  ASSUME HeightsSound, NEW ch, NEW s, Segment(height, ch, s), NEW known, s[1] \in known,
         DropKnown(s, known) # <<>>
  PROVE  Parent(DropKnown(s, known)[1]) \in known
<1> DEFINE u == DropKnown(s, known)
<1>1. s \in Seq(Blocks) /\ Len(s) \in Nat \ {0}
  BY SegmentIs
<1>2. PICK x \in 1 .. Len(s) :
        /\ s[x] \notin known /\ \A y \in 1 .. x - 1 : s[y] \in known
        /\ \A i \in 1 .. Len(s) - x + 1 : u[i] = s[x + i - 1]
  BY <1>1, DropKnownIs
<1> HIDE DEF u
<1>3. x \in 2 .. Len(s) /\ x - 1 \in 1 .. x - 1 /\ 1 \in 1 .. Len(s) - x + 1 /\ x + 1 - 1 = x
  <2>1. x # 1
    BY <1>2
  <2> QED BY <1>1, <2>1
<1>4. u[1] = s[x] /\ Parent(s[x]) = s[x - 1] /\ s[x - 1] \in known
  BY <1>2, <1>3, SegmentParents
<1> QED BY <1>4 DEF u

\* The rest of a grounded extension, without the blocks the chain has, is not
\* detached.
LEMMA RestGrounded ==
  ASSUME HeightsSound, NEW ch, NEW s, Segment(height, ch, s), NEW known,
         Parent(s[1]) \in known, DropKnown(s, known) # <<>>
  PROVE  Parent(DropKnown(s, known)[1]) \in known
<1>1. s \in Seq(Blocks) /\ Len(s) \in Nat \ {0}
  BY SegmentIs
<1>2. CASE s[1] \in known
  BY <1>2, UnknownGrounded
<1>3. CASE s[1] \notin known
  <2> DEFINE u == DropKnown(s, known)
  <2>1. PICK x \in 1 .. Len(s) :
          /\ \A y \in 1 .. x - 1 : s[y] \in known
          /\ \A i \in 1 .. Len(s) - x + 1 : u[i] = s[x + i - 1]
    BY <1>1, DropKnownIs
  <2> HIDE DEF u
  <2>2. ~(1 \in 1 .. x - 1)
    BY <1>3, <2>1
  <2>3. x = 1 /\ 1 \in 1 .. Len(s) - x + 1 /\ x + 1 - 1 = 1
    BY <1>1, <2>2
  <2>4. u[1] = s[1]
    BY <2>1, <2>3
  <2> QED BY <2>4 DEF u
<1> QED BY <1>2, <1>3

\* What is left of an extension without the blocks the node's chain has, as a
\* piece of the peer's chain above the genesis block.
RestAt(c, e, ext) ==
  /\ c \in ChainsOf /\ e \in 2 .. Len(c) /\ ext \in Seq(Blocks) /\ Len(ext) \in Nat \ {0}
  /\ e + Len(ext) - 1 <= Len(c)
  /\ \A i \in 1 .. Len(ext) : ext[i] = c[e + i - 1]

LEMMA RestIs ==
  ASSUME HeightsSound, LocalSound, NEW ch, NEW s, Segment(height, ch, s),
         DropKnown(s, Range(local)) # <<>>
  PROVE  \E c \in ChainsOf : \E e \in 2 .. Len(c) :
           /\ RestAt(c, e, DropKnown(s, Range(local)))
           /\ \A b \in Range(s) : \E k \in 1 .. e + Len(DropKnown(s, Range(local))) - 1 : b = c[k]
<1>1. /\ Chain[ch] \in ChainsOf /\ s \in Seq(Blocks) /\ Len(s) \in Nat \ {0}
      /\ \E j \in 1 .. Len(Chain[ch]) :
           /\ j + Len(s) - 1 <= Len(Chain[ch])
           /\ \A i \in 1 .. Len(s) : s[i] = Chain[ch][j + i - 1]
  BY SegmentIs
<1>2. PICK c : c = Chain[ch]
  OBVIOUS
<1>3. PICK j \in 1 .. Len(c) : j + Len(s) - 1 <= Len(c) /\ \A i \in 1 .. Len(s) : s[i] = c[j + i - 1]
  BY <1>1, <1>2
<1>4. PICK ext : ext = DropKnown(s, Range(local))
  OBVIOUS
<1>5. PICK known : known = Range(local)
  OBVIOUS
<1>6. PICK x \in 1 .. Len(s) :
        /\ s[x] \notin known
        /\ ext \in Seq(Blocks) /\ Len(ext) = Len(s) - x + 1
        /\ \A i \in 1 .. Len(s) - x + 1 : ext[i] = s[x + i - 1]
  <2>1. \E y \in 1 .. Len(s) :
          /\ s[y] \notin known
          /\ DropKnown(s, known) \in Seq(Blocks) /\ Len(DropKnown(s, known)) = Len(s) - y + 1
          /\ \A i \in 1 .. Len(s) - y + 1 : DropKnown(s, known)[i] = s[y + i - 1]
    <3>1. DropKnown(s, known) # <<>>
      BY <1>5
    <3> QED BY <1>1, <3>1, DropKnownIs
  <2> QED BY <1>4, <1>5, <2>1
<1>7. Len(c) \in Nat
  BY <1>1, <1>2, ChainsAre
<1>8. PICK e : e = j + x - 1
  OBVIOUS
<1>9. e \in 1 .. Len(c) /\ e + Len(ext) - 1 = j + Len(s) - 1 /\ Len(ext) \in Nat \ {0}
  <2>1. /\ j \in 1 .. Len(c) /\ x \in 1 .. Len(s) /\ Len(s) \in Nat /\ Len(ext) = Len(s) - x + 1
        /\ j + Len(s) - 1 <= Len(c)
    BY <1>1, <1>3, <1>6
  <2> QED BY <1>7, <1>8, <2>1
<1>10. ASSUME NEW i \in 1 .. Len(ext) PROVE ext[i] = c[e + i - 1]
  <2>0. /\ j \in Int /\ x \in 1 .. Len(s) /\ Len(s) \in Nat /\ Len(ext) = Len(s) - x + 1
        /\ e = j + x - 1
    BY <1>1, <1>6, <1>8
  <2>1. i \in 1 .. Len(s) - x + 1 /\ x + i - 1 \in 1 .. Len(s) /\ j + (x + i - 1) - 1 = e + i - 1
    BY <1>10, <2>0
  <2>2. ext[i] = s[x + i - 1] /\ s[x + i - 1] = c[j + (x + i - 1) - 1]
    BY <1>3, <1>6, <2>1
  <2> QED BY <2>1, <2>2
<1>11. s[x] = c[e]
  <2>1. x \in 1 .. Len(s) /\ j + x - 1 = e
    BY <1>8
  <2> QED BY <1>3, <2>1
<1>12. e # 1
  <2>1. /\ local \in Seq(Blocks) /\ Len(local) \in Nat \ {0} /\ DOMAIN local = 1 .. Len(local)
    BY EmptySeq, LenProperties DEF LocalSound
  <2>2. PICK d \in ChainsOf : Len(local) <= Len(d) /\ \A i \in 1 .. Len(local) : local[i] = d[i]
    BY DEF LocalSound
  <2>3. c[1] = d[1]
    BY <1>1, <1>2, <2>2, ChainsAre
  <2>4. local[1] = d[1] /\ local[1] \in known
    BY <1>5, <2>1, <2>2 DEF Range
  <2> QED BY <1>6, <1>11, <2>3, <2>4
<1>13. e \in 2 .. Len(c)
  BY <1>7, <1>9, <1>12
<1>14. RestAt(c, e, ext)
  BY <1>1, <1>2, <1>3, <1>6, <1>9, <1>10, <1>13 DEF RestAt
<1>15. ASSUME NEW b \in Range(s) PROVE \E k \in 1 .. e + Len(ext) - 1 : b = c[k]
  <2>1. DOMAIN s = 1 .. Len(s)
    BY <1>1, LenProperties
  <2>2. PICK i \in 1 .. Len(s) : b = s[i]
    BY <2>1 DEF Range
  <2>3. j + i - 1 \in 1 .. j + Len(s) - 1
    BY <1>1
  <2> QED BY <1>3, <1>9, <2>2, <2>3
<1>16. c \in ChainsOf /\ RestAt(c, e, DropKnown(s, Range(local)))
       /\ \A b \in Range(s) : \E k \in 1 .. e + Len(DropKnown(s, Range(local))) - 1 : b = c[k]
  BY <1>1, <1>2, <1>4, <1>14, <1>15
<1> QED BY <1>13, <1>16

\* The parent of such a piece is one height below it, in the node's chain too.
LEMMA RestParent ==
  ASSUME LocalSound, NEW c \in ChainsOf, NEW e \in 2 .. Len(c), NEW ext, RestAt(c, e, ext),
         Parent(ext[1]) \in Range(local)
  PROVE  /\ HeightIn(local, Parent(ext[1])) = e - 1 /\ e - 1 \in 1 .. Len(local)
         /\ \A k \in 1 .. e - 1 : local[k] = c[k]
<1>1. /\ local \in Seq(Blocks) /\ Len(local) \in Nat \ {0} /\ DOMAIN local = 1 .. Len(local)
      /\ Len(c) \in Nat
  BY EmptySeq, LenProperties, ChainsAre DEF LocalSound
<1>2. PICK d \in ChainsOf : Len(local) <= Len(d) /\ \A i \in 1 .. Len(local) : local[i] = d[i]
  BY DEF LocalSound
<1>3. ext[1] = c[e]
  <2>1. 1 \in 1 .. Len(ext) /\ e + 1 - 1 = e
    BY <1>1 DEF RestAt
  <2> QED BY <2>1 DEF RestAt
<1>4. Parent(ext[1]) = c[e - 1]
  BY <1>3, ParentIs
<1>5. PICK h : h = HeightIn(local, Parent(ext[1]))
  OBVIOUS
<1>6. h \in 1 .. Len(local) /\ local[h] = c[e - 1]
  <2>1. \E i \in DOMAIN local : local[i] = Parent(ext[1])
    BY DEF Range
  <2> QED BY <1>1, <1>4, <1>5, <2>1 DEF HeightIn
<1>7. PICK p : p = e - 1
  OBVIOUS
<1>8. p \in 1 .. Len(c)
  BY <1>1, <1>7
<1>9. h \in 1 .. Len(d) /\ d[h] = c[p] /\ Len(d) \in Nat
  BY <1>1, <1>2, <1>6, <1>7, ChainsAre
<1>10. p = h /\ \A k \in 1 .. p : c[k] = d[k]
  BY <1>2, <1>8, <1>9, SameHeight
<1>11. \A k \in 1 .. p : local[k] = c[k]
  <2>1. \A k \in 1 .. p : k \in 1 .. Len(local)
    BY <1>1, <1>6, <1>8, <1>10
  <2> QED BY <1>2, <1>10, <2>1
<1> QED BY <1>5, <1>6, <1>7, <1>10, <1>11

\* An extension put on its common block: the lower part of the peer's chain.
LEMMA Joined ==
  ASSUME LocalSound, NEW c \in ChainsOf, NEW e \in 2 .. Len(c), NEW ext, RestAt(c, e, ext),
         e - 1 \in 1 .. Len(local), \A k \in 1 .. e - 1 : local[k] = c[k],
         local' = SubSeq(local, 1, e - 1) \o ext
  PROVE  /\ local' \in Seq(Blocks) /\ Len(local') = e + Len(ext) - 1 /\ Len(local') \in Nat \ {0}
         /\ \A k \in 1 .. Len(local') : local'[k] = c[k]
<1>0. PICK new : new = local'
  OBVIOUS
<1>1. local \in Seq(Blocks) /\ Len(local) \in Nat /\ Len(c) \in Nat
  BY LenProperties, ChainsAre DEF LocalSound
<1>2. ext \in Seq(Blocks) /\ Len(ext) \in Nat \ {0} /\ \A i \in 1 .. Len(ext) : ext[i] = c[e + i - 1]
  BY DEF RestAt
<1>3. PICK low : low = SubSeq(local, 1, e - 1)
  OBVIOUS
<1>4. /\ low \in Seq(Blocks) /\ Len(low) = e - 1
      /\ \A k \in 1 .. e - 1 : low[k] = local[k]
  <2>1. PICK p : p = e - 1
    OBVIOUS
  <2>2. p \in 1 .. Len(local) /\ p \in Nat
    BY <1>1, <2>1
  <2>3. /\ SubSeq(local, 1, p) \in Seq(Blocks) /\ Len(SubSeq(local, 1, p)) = p
        /\ \A k \in 1 .. p : SubSeq(local, 1, p)[k] = local[k]
    BY <1>1, <2>2
  <2> QED BY <1>3, <2>1, <2>3
<1>5. /\ new \in Seq(Blocks) /\ Len(new) = Len(low) + Len(ext)
      /\ \A k \in 1 .. Len(new) : new[k] = IF k <= Len(low) THEN low[k] ELSE ext[k - Len(low)]
  <2>1. new = low \o ext
    BY <1>0, <1>3
  <2>2. /\ low \o ext \in Seq(Blocks) /\ Len(low \o ext) = Len(low) + Len(ext)
        /\ \A k \in 1 .. Len(low) + Len(ext) :
             (low \o ext)[k] = IF k <= Len(low) THEN low[k] ELSE ext[k - Len(low)]
    BY <1>2, <1>4, ConcatProperties
  <2> QED BY <2>1, <2>2
<1>6. Len(new) = e + Len(ext) - 1 /\ Len(new) \in Nat \ {0}
  BY <1>1, <1>2, <1>4, <1>5
<1>7. ASSUME NEW k \in 1 .. Len(new) PROVE new[k] = c[k]
  <2>1. CASE k <= Len(low)
    <3>1. k \in 1 .. e - 1
      BY <1>1, <1>4, <1>6, <1>7, <2>1
    <3> QED BY <1>4, <1>5, <2>1, <3>1
  <2>2. CASE ~(k <= Len(low))
    <3>1. PICK i : i = k - Len(low)
      OBVIOUS
    <3>2. i \in 1 .. Len(ext) /\ e + i - 1 = k
      BY <1>1, <1>2, <1>4, <1>6, <1>7, <2>2, <3>1
    <3> QED BY <1>2, <1>5, <2>2, <3>1, <3>2
  <2> QED BY <2>1, <2>2
<1> QED BY <1>0, <1>5, <1>6, <1>7

\* The same for what the appender does with an extension: all its blocks are in
\* the new chain.
LEMMA SwitchedChain ==
  ASSUME HeightsSound, LocalSound, NEW ch, NEW s, Segment(height, ch, s),
         DropKnown(s, Range(local)) # <<>>, Parent(DropKnown(s, Range(local))[1]) \in Range(local),
         local' = SubSeq(local, 1, HeightIn(local, Parent(DropKnown(s, Range(local))[1])))
                    \o DropKnown(s, Range(local))
  PROVE  LocalSound' /\ Range(s) \subseteq Range(local')
<1>1. PICK ext : ext = DropKnown(s, Range(local))
  OBVIOUS
<1>0. PICK c \in ChainsOf : \E e \in 2 .. Len(c) :
        /\ RestAt(c, e, DropKnown(s, Range(local)))
        /\ \A b \in Range(s) : \E k \in 1 .. e + Len(DropKnown(s, Range(local))) - 1 : b = c[k]
  BY RestIs
<1>2. PICK e \in 2 .. Len(c) :
        RestAt(c, e, ext) /\ \A b \in Range(s) : \E k \in 1 .. e + Len(ext) - 1 : b = c[k]
  BY <1>0, <1>1
<1>3. /\ HeightIn(local, Parent(ext[1])) = e - 1 /\ e - 1 \in 1 .. Len(local)
      /\ \A k \in 1 .. e - 1 : local[k] = c[k]
  BY <1>1, <1>2, RestParent
<1>4. local' = SubSeq(local, 1, e - 1) \o ext
  BY <1>1, <1>3
<1>5. /\ local' \in Seq(Blocks) /\ Len(local') = e + Len(ext) - 1 /\ Len(local') \in Nat \ {0}
      /\ \A k \in 1 .. Len(local') : local'[k] = c[k]
  BY <1>0, <1>2, <1>3, <1>4, Joined
<1>6. DOMAIN local' = 1 .. Len(local') /\ local' # <<>>
  BY <1>5, LenProperties, EmptySeq
<1>7. Len(local') <= Len(c)
  BY <1>2, <1>5 DEF RestAt
<1>8. ASSUME NEW b \in Range(s) PROVE b \in Range(local')
  <2>1. PICK k \in 1 .. e + Len(ext) - 1 : b = c[k]
    BY <1>2
  <2>2. k \in DOMAIN local' /\ local'[k] = b
    BY <1>5, <1>6, <2>1
  <2> QED BY <2>2 DEF Range
<1> QED BY <1>0, <1>5, <1>6, <1>7, <1>8 DEF LocalSound, ChainsOf, Blocks

\* A block whose parent is the last one extends the lower part of a chain.
LEMMA StrayExtends ==
  ASSUME LocalSound, NEW b \in Blocks, b \notin Range(local), Parent(b) = Last(local),
         local' = Append(local, b)
  PROVE  LocalSound' /\ Range(local) \subseteq Range(local')
<1>1. /\ local \in Seq(Blocks) /\ Len(local) \in Nat \ {0} /\ DOMAIN local = 1 .. Len(local)
  BY EmptySeq, LenProperties DEF LocalSound
<1>2. PICK d \in ChainsOf : Len(local) <= Len(d) /\ \A i \in 1 .. Len(local) : local[i] = d[i]
  BY DEF LocalSound
<1>3. PICK c \in ChainsOf : b \in Range(c)
  BY DEF Blocks
<1>4. Len(c) \in Nat /\ Len(d) \in Nat /\ DOMAIN c = 1 .. Len(c) /\ c[1] = d[1]
  BY <1>2, <1>3, ChainsAre
<1>5. PICK i \in 1 .. Len(c) : c[i] = b
  BY <1>3, <1>4 DEF Range
<1>6. i # 1
  <2>1. 1 \in 1 .. Len(local) /\ local[1] = d[1]
    BY <1>1, <1>2
  <2> QED BY <1>1, <1>4, <1>5, <2>1 DEF Range
<1>7. i \in 2 .. Len(c) /\ i - 1 \in 1 .. Len(c)
  BY <1>4, <1>6
<1>8. c[i - 1] = local[Len(local)]
  BY <1>5, <1>7, ParentIs DEF Last
<1>9. Len(local) \in 1 .. Len(local) /\ Len(local) \in 1 .. Len(d)
  BY <1>1, <1>2, <1>4
<1>10. i - 1 = Len(local) /\ \A k \in 1 .. i - 1 : c[k] = d[k]
  <2>1. PICK p : p = i - 1
    OBVIOUS
  <2>2. PICK n : n = Len(local)
    OBVIOUS
  <2>3. p \in 1 .. Len(c) /\ n \in 1 .. Len(d) /\ c[p] = d[n]
    BY <1>2, <1>7, <1>8, <1>9, <2>1, <2>2
  <2>4. p = n /\ \A k \in 1 .. p : c[k] = d[k]
    BY <1>2, <2>3, SameHeight
  <2> QED BY <2>1, <2>2, <2>4
<1>11. /\ local' \in Seq(Blocks) /\ local' # <<>> /\ Len(local') = Len(local) + 1
       /\ \A k \in 1 .. Len(local) : local'[k] = local[k]
       /\ local'[Len(local) + 1] = b
  BY <1>1, AppendProperties
<1>12. Len(local') <= Len(c) /\ \A k \in 1 .. Len(local') : local'[k] = c[k]
  <2>1. Len(local') = i
    BY <1>1, <1>7, <1>10, <1>11
  <2>2. ASSUME NEW k \in 1 .. i PROVE local'[k] = c[k]
    <3>1. k \in 1 .. Len(local) \/ k = Len(local) + 1
      BY <1>1, <1>7, <1>10
    <3> QED BY <1>2, <1>5, <1>10, <1>11, <2>1, <3>1
  <2> QED BY <1>4, <2>1, <2>2
<1>13. LocalSound'
  BY <1>3, <1>11, <1>12 DEF LocalSound, ChainsOf, Blocks
<1>14. DOMAIN local' = 1 .. Len(local) + 1
  BY <1>11, LenProperties
<1>15. \A k \in 1 .. Len(local) : k \in 1 .. Len(local) + 1
  BY <1>1
<1> QED BY <1>1, <1>11, <1>13, <1>14, <1>15 DEF Range

-----------------------------------------------------------------------------
\* The blocks of stray messages are blocks of the chains.
LEMMA StraysNext ==
  ASSUME SegmentInv, StraysSound, [Next]_vars
  PROVE  StraysSound'
<1> DEFINE Sound(m) == m.kind \in {"GetBlock", "Block"} => m.ids[1] \in Blocks
<1>1. strays \in Seq(Blocks) /\ \A m \in net : Sound(m)
  BY DEF StraysSound
<1>2. ASSUME strays' = strays, \A m \in net' : m \in net \/ Sound(m) PROVE StraysSound'
  BY <1>1, <1>2 DEF StraysSound
<1>3. ASSUME NEW ch, NEW msgs \in SUBSET net PROVE Cut(msgs, ch) \subseteq net
  BY DEF Cut
<1>4. ASSUME NEW ld, NEW new, NEW m \in Asked(ld, new) PROVE Sound(m)
  BY DEF Asked
<1>5. CASE UNCHANGED <<strays, net>>
  BY <1>2, <1>5
<1>6. CASE OnNewSyncWith
  BY <1>2, <1>4, <1>6 DEF OnNewSyncWith
<1>7. CASE OnNewSignatures
  <2>1. PICK m \in net :
          /\ m.kind = "Signatures" /\ strays' = strays
          /\ LET unknown == DropKnown(m.ids, Range(loader.known))
             IN \/ net' \subseteq net \union Asked(IdleLoader, loader')
                \/ /\ unknown # <<>>
                   /\ net' \subseteq net \union
                        {[kind |-> "GetBlock", ch |-> loader.ch, ids |-> <<b>>] : b \in Range(unknown)}
    BY <1>7 DEF OnNewSignatures, Cut
  <2>2. PICK unknown : unknown = DropKnown(m.ids, Range(loader.known))
    OBVIOUS
  <2>3. CASE net' \subseteq net \union Asked(IdleLoader, loader')
    BY <1>2, <1>4, <2>1, <2>3
  <2>4. CASE /\ unknown # <<>>
             /\ net' \subseteq net \union
                  {[kind |-> "GetBlock", ch |-> loader.ch, ids |-> <<b>>] : b \in Range(unknown)}
    <3>1. HeightsSound /\ Segment(height, m.ch, m.ids)
      BY <2>1 DEF SegmentInv, NetSound
    <3>2. Segment(height, m.ch, unknown)
      BY <2>2, <2>4, <3>1, DropKnownSegment
    <3>3. unknown \in Seq(Blocks)
      BY <3>1, <3>2, SegmentIs
    <3>4. \A b \in Range(unknown) : b \in Blocks
      BY <3>3, LenProperties DEF Range
    <3>5. ASSUME NEW b \in Range(unknown) PROVE Sound([kind |-> "GetBlock", ch |-> loader.ch, ids |-> <<b>>])
      <4>1. <<b>>[1] = b
        OBVIOUS
      <4> QED BY <3>4, <4>1
    <3> HIDE DEF Sound
    <3> QED BY <1>2, <2>1, <2>4, <3>5
  <2> QED BY <2>1, <2>2, <2>3, <2>4
<1>8. CASE OnBlock
  <2>1. PICK m \in net :
          /\ m.kind = "Block"
          /\ strays' = strays \/ strays' = Append(strays, m.ids[1])
          /\ net' \subseteq net \union Asked(IdleLoader, loader')
    BY <1>8 DEF OnBlock, ExtensionLoadingFinished
  <2>2. m.ids[1] \in Blocks
    BY <1>1, <2>1
  <2>3. strays' \in Seq(Blocks)
    BY <1>1, <2>1, <2>2, AppendProperties
  <2>4. \A n \in net' : Sound(n)
    BY <1>1, <1>4, <2>1
  <2> QED BY <2>3, <2>4 DEF StraysSound
<1>9. CASE OnExtensionApplied
  <2>1. strays' = strays /\ (net' = net \/ net' = net \union Asked(loader, loader'))
    BY <1>9 DEF OnExtensionApplied
  <2> QED BY <1>2, <1>4, <2>1
<1>10. CASE Timeout
  BY <1>2, <1>3, <1>10 DEF Timeout
<1>11. ASSUME NEW ch \in Channels, Reply(ch) PROVE StraysSound'
  <2>1. PICK m \in net :
          /\ m.kind \in {"GetSignatures", "GetBlock"} /\ strays' = strays
          /\ \A n \in net' : \/ n \in net \/ n.kind = "Signatures"
                             \/ m.kind = "GetBlock" /\ n = [m EXCEPT !.kind = "Block"]
    BY <1>11 DEF Reply
  <2>2. m = [kind |-> m.kind, ch |-> m.ch, ids |-> m.ids]
    BY <2>1 DEF SegmentInv, NetSound, MessageSound
  <2>3. [m EXCEPT !.kind = "Block"].ids = m.ids
    BY <2>2
  <2>4. ASSUME NEW n \in net' PROVE n \in net \/ Sound(n)
    BY <1>1, <2>1, <2>3
  <2> QED BY <1>2, <2>1, <2>4
<1>12. ASSUME NEW ch \in Channels, PeerGrows(ch) PROVE StraysSound'
  <2>1. PICK b : b = Chain[ch][height'[ch]]
    OBVIOUS
  <2>2. /\ net' = net \union {[kind |-> "Block", ch |-> ch, ids |-> <<b>>]} /\ strays' = strays
        /\ height' = [height EXCEPT ![ch] = @ + 1] /\ height[ch] < Len(Chain[ch])
    BY <1>12, <2>1 DEF PeerGrows
  <2>3. height[ch] \in Nat /\ height'[ch] = height[ch] + 1 /\ Len(Chain[ch]) \in Nat
    BY <2>2, ChainFacts DEF SegmentInv, HeightsSound
  <2>4. Chain[ch] \in ChainsOf
    BY LoaderAssumption DEF ChainsOf, Range
  <2>5. height'[ch] \in DOMAIN Chain[ch]
    BY <2>2, <2>3, <2>4, ChainsAre
  <2>6. b \in Blocks
    BY <2>1, <2>4, <2>5 DEF Blocks, Range
  <2>7. <<b>>[1] = b
    OBVIOUS
  <2> QED BY <1>2, <2>2, <2>6, <2>7
<1>13. ASSUME NEW ch \in Channels, PeerLeaves(ch) PROVE StraysSound'
  BY <1>2, <1>3, <1>13 DEF PeerLeaves
<1>14. CASE Apply
  <2>1. strays' = strays /\ (net' = net \/ \E ch : net' = Cut(net, ch))
    BY <1>14 DEF Apply
  <2> QED BY <1>2, <1>3, <2>1
<1>15. CASE AppendStray
  <2>1. strays # <<>> /\ strays' = Tail(strays) /\ net' = net
    BY <1>15 DEF AppendStray
  <2>2. strays' \in Seq(Blocks)
    BY <1>1, <2>1, HeadTailProperties
  <2> QED BY <1>1, <2>1, <2>2 DEF StraysSound
<1>16. CASE Observe \/ UNCHANGED vars \/ \E ch \in Channels : Expire(ch)
  BY <1>5, <1>16 DEF Observe, Expire, vars, loaderVars
<1> QED
  BY <1>6, <1>7, <1>8, <1>9, <1>10, <1>11, <1>12, <1>13, <1>14, <1>15, <1>16
  DEF Next, LoaderStep, AppenderStep

\* The node's chain stays the lower part of one of the chains.
LEMMA LocalNext ==
  ASSUME SegmentInv, LocalSound, StraysSound, [Next]_vars
  PROVE  LocalSound'
<1>1. CASE local' = local
  BY <1>1 DEF LocalSound
<1>2. CASE Apply
  <2>1. PICK w : w = Head(work)
    OBVIOUS
  <2>2. PICK ext : ext = DropKnown(w.ext, Range(local))
    OBVIOUS
  <2>3. \/ local' = local
        \/ /\ ext # <<>> /\ Parent(ext[1]) \in Range(local)
           /\ local' = SubSeq(local, 1, HeightIn(local, Parent(ext[1]))) \o ext
    BY <1>2, <2>1, <2>2 DEF Apply
  <2>4. HeightsSound /\ Segment(height, w.ch, w.ext)
    <3>1. work # <<>> /\ Queue(work) /\ \A i \in 1 .. Len(work) : Segment(height, work[i].ch, work[i].ext)
      BY <1>2 DEF Apply, SegmentInv, WorkSound
    <3>2. Len(work) \in Nat \ {0} /\ w = work[1]
      BY <2>1, <3>1, EmptySeq, LenProperties DEF Queue
    <3> QED BY <3>1, <3>2 DEF SegmentInv
  <2> QED BY <1>1, <2>2, <2>3, <2>4, SwitchedChain
<1>3. CASE AppendStray
  <2>1. PICK b : b = Head(strays)
    OBVIOUS
  <2>2. strays # <<>> /\ (local' = local \/ (b \notin Range(local) /\ Parent(b) = Last(local) /\ local' = Append(local, b)))
    BY <1>3, <2>1 DEF AppendStray
  <2>3. b \in Blocks
    BY <2>1, <2>2, HeadTailProperties DEF StraysSound
  <2> QED BY <1>1, <2>2, <2>3, StrayExtends
<1> QED
  BY <1>1, <1>2, <1>3 DEF Next, LoaderStep, AppenderStep, Observe, OnNewSyncWith, OnNewSignatures, OnBlock,
     OnExtensionApplied, Timeout, Reply, PeerGrows, PeerLeaves, Expire, vars, loaderVars

-----------------------------------------------------------------------------
\* The ids syncNext asks with are those of the node's chain or of the extension
\* the appender is busy with.
LEMMA ReverseIs ==
  ASSUME NEW S, NEW s \in Seq(S)
  PROVE  Range(Reverse(s)) \subseteq Range(s)
<1>1. Len(s) \in Nat /\ DOMAIN s = 1 .. Len(s)
  BY LenProperties
<1>2. DOMAIN Reverse(s) = 1 .. Len(s) /\ \A i \in 1 .. Len(s) : Reverse(s)[i] = s[(Len(s) - i) + 1]
  BY <1>1 DEF Reverse
<1>3. \A i \in 1 .. Len(s) : (Len(s) - i) + 1 \in 1 .. Len(s)
  BY <1>1
<1> QED BY <1>1, <1>2, <1>3 DEF Range

LEMMA LastBlockIdsAre ==
  ASSUME LocalSound
  PROVE  Range(LastBlockIds) \subseteq Range(local)
<1>1. local \in Seq(Blocks) /\ Len(local) \in Nat \ {0} /\ DOMAIN local = 1 .. Len(local)
  BY EmptySeq, LenProperties DEF LocalSound
<1>2. PICK n : n = Len(local)
  OBVIOUS
<1>3. PICK x : x = Max({1, n - MaxRollback + 1})
  OBVIOUS
<1>4. x \in 1 .. n
  <2>1. n \in Nat \ {0} /\ MaxRollback \in Nat \ {0}
    BY <1>1, <1>2, LoaderAssumption
  <2>2. \E z \in {1, n - MaxRollback + 1} : \A y \in {1, n - MaxRollback + 1} : z >= y
    BY <2>1
  <2>3. x \in {1, n - MaxRollback + 1} /\ x >= 1
    BY <1>3, <2>2 DEF Max
  <2> QED BY <2>1, <2>3
<1>5. /\ SubSeq(local, x, n) \in Seq(Blocks) /\ Len(SubSeq(local, x, n)) = n - x + 1
      /\ \A i \in 1 .. n - x + 1 : SubSeq(local, x, n)[i] = local[x + i - 1]
  BY <1>1, <1>2, <1>4
<1>6. \A i \in 1 .. n - x + 1 : x + i - 1 \in 1 .. n
  BY <1>1, <1>2, <1>4
<1>7. Range(SubSeq(local, x, n)) \subseteq Range(local)
  <2>1. PICK s : s = SubSeq(local, x, n)
    OBVIOUS
  <2>2. DOMAIN s = 1 .. n - x + 1
    BY <1>5, <2>1, LenProperties
  <2>3. \A i \in DOMAIN s : \E j \in DOMAIN local : s[i] = local[j]
    BY <1>1, <1>2, <1>5, <1>6, <2>1, <2>2
  <2> QED BY <2>1, <2>3 DEF Range
<1>8. Range(LastBlockIds) \subseteq Range(SubSeq(local, x, n))
  BY <1>2, <1>3, <1>5, ReverseIs DEF LastBlockIds
<1> QED BY <1>7, <1>8

LEMMA SyncGrounded ==
  ASSUME LocalSound, NEW ld, NEW ap, NEW sw, NEW r, r = SyncNext(ld, ap, sw),
         ap.st # "Idle" => ap.ext \in Seq(Blocks)
  PROVE  \/ r.st = "Idle"
         \/ ld.st # "Idle" /\ r = ld
         \/ /\ r.st = "Signatures" /\ ap.st = "Idle"
            /\ Range(r.known) \subseteq Range(local)
         \/ /\ r.st = "Signatures" /\ ap.st # "Idle" /\ ap.buf = NoBuffer
            /\ Range(r.known) \subseteq Range(ap.ext)
<1>1. IdleLoader.st = "Idle"
  BY LoaderStates
<1>2. \A ch, known : ExpectingSignatures(ch, known).st = "Signatures" /\ ExpectingSignatures(ch, known).known = known
  BY DEF ExpectingSignatures
<1>3. ap.st # "Idle" => Range(Reverse(ap.ext)) \subseteq Range(ap.ext)
  BY ReverseIs
<1> QED BY <1>1, <1>2, <1>3, LastBlockIdsAre DEF SyncNext

\* Steps of the loader, the observer and the peers that leave the applier alone.
LEMMA LoaderMoves ==
  ASSUME SureInv, UNCHANGED <<applier, work>>, Range(local) \subseteq Range(local'),
         applier.buf # NoBuffer => loader'.st = "Idle",
         loader'.st = "Signatures" => Range(loader'.known) \subseteq Ground,
         loader'.st = "Blocks" => Grounded(loader'.all)
  PROVE  SureInv'
<1>1. Ground \subseteq Ground'
  BY DEF Ground
<1>2. \A s : Parent(s[1]) \in Ground => Parent(s[1]) \in Ground'
  BY <1>1
<1>3. work # <<>> => work[1].ext = applier.ext /\ Parent(applier.ext[1]) \in Range(local')
  BY DEF SureInv
<1>4. applier.st = "Applying" => applier.ext \in Seq(Blocks) /\ Range(applier.ext) \subseteq Ground'
  BY <1>1 DEF SureInv
<1>5. applier.buf # NoBuffer => Parent(applier.buf.ext[1]) \in Ground'
  BY <1>1 DEF SureInv, Grounded
<1>6. loader'.st = "Blocks" => Parent(loader'.all[1]) \in Ground'
  BY <1>1 DEF Grounded
<1>7. loader'.st = "Signatures" => Range(loader'.known) \subseteq Ground'
  BY <1>1
<1> QED BY <1>3, <1>4, <1>5, <1>6, <1>7 DEF SureInv, Grounded

\* An extension is handed over while nothing else is under way.
LEMMA HandedOver ==
  ASSUME LocalSound, UNCHANGED local, work = <<>>, NEW w, work' = <<w>>, w.ext \in Seq(Blocks),
         Parent(w.ext[1]) \in Range(local), applier' = Applying(NoBuffer, w.ext),
         NEW ld, ld.st = "Idle", NEW sw, loader' = SyncNext(ld, applier', sw)
  PROVE  SureInv'
<1>1. /\ applier'.st = "Applying" /\ applier'.buf = NoBuffer /\ applier'.ext = w.ext
  BY DEF Applying
<1>2. work' # <<>> /\ work'[1] = w
  BY OneItem
<1>3. Ground' = Range(w.ext)
  BY <1>1, <1>2 DEF Ground
<1>4. loader'.st = "Idle" \/ (loader'.st = "Signatures" /\ Range(loader'.known) \subseteq Range(w.ext))
  BY <1>1, SyncGrounded
<1> QED BY <1>1, <1>2, <1>3, <1>4 DEF SureInv

\* What the loader does with an item, an answer, a block and an outcome.
LEMMA ItemSure ==
  ASSUME UnderWay, LocalSound, SureInv, OnNewSyncWith
  PROVE  SureInv'
<1> DEFINE ld == Freed(Head(events))
           sw == Head(events).sync
<1>1. UNCHANGED <<applier, work, local>> /\ loader' = SyncNext(ld, applier, sw)
  BY DEF OnNewSyncWith, AfterItem
<1>2. ld = loader \/ ld.st = "Idle"
  BY LoaderStates DEF Freed
<1>3. applier.st # "Idle" => applier.st = "Applying" /\ applier.ext \in Seq(Blocks)
  BY DEF UnderWay, SureInv
<1>4. applier.st = "Idle" => work = <<>> /\ applier.buf = NoBuffer
  BY DEF UnderWay
<1> HIDE DEF ld, sw
<1>5. \/ loader'.st = "Idle"
      \/ ld.st # "Idle" /\ loader' = loader
      \/ /\ loader'.st = "Signatures" /\ applier.buf = NoBuffer
         /\ Range(loader'.known) \subseteq Ground
  <2>1. \/ loader'.st = "Idle"
        \/ ld.st # "Idle" /\ loader' = ld
        \/ /\ loader'.st = "Signatures" /\ applier.st = "Idle"
           /\ Range(loader'.known) \subseteq Range(local)
        \/ /\ loader'.st = "Signatures" /\ applier.st # "Idle" /\ applier.buf = NoBuffer
           /\ Range(loader'.known) \subseteq Range(applier.ext)
    BY <1>1, <1>3, SyncGrounded
  <2>2. applier.st = "Idle" => Ground = Range(local) /\ applier.buf = NoBuffer
    BY <1>4 DEF Ground
  <2>3. applier.st # "Idle" => Range(applier.ext) \subseteq Ground
    BY <1>3 DEF SureInv
  <2> QED BY <1>2, <2>1, <2>2, <2>3
<1>6. /\ applier.buf # NoBuffer => loader'.st = "Idle"
      /\ loader'.st = "Signatures" => Range(loader'.known) \subseteq Ground
      /\ loader'.st = "Blocks" => Grounded(loader'.all)
  BY <1>2, <1>5 DEF SureInv
<1> QED BY <1>1, <1>6, LoaderMoves

LEMMA SignaturesSure ==
  ASSUME UnderWay, SegmentInv, LocalSound, SureInv, Unblamed', OnNewSignatures
  PROVE  SureInv'
<1>1. PICK m \in net :
        /\ m.kind = "Signatures" /\ UNCHANGED <<local, applier, work>>
        /\ LET unknown == DropKnown(m.ids, Range(loader.known))
           IN \/ UNCHANGED loader
              \/ loader' = SyncNext(IdleLoader, applier, LastSyncWith)
              \/ loader' = IdleLoader
              \/ /\ loader.st = "Signatures" /\ unknown # <<>>
                 /\ late' = late \union (IF Late(m) THEN {m.ch} ELSE {})
                 /\ loader' = ExpectingBlocks(loader.ch, unknown, Range(unknown))
  BY DEF OnNewSignatures
<1>2. PICK unknown : unknown = DropKnown(m.ids, Range(loader.known))
  OBVIOUS
<1>3. CASE UNCHANGED loader
  BY <1>1, <1>3, LoaderMoves DEF SureInv
<1>4. CASE loader' = IdleLoader
  BY <1>1, <1>4, LoaderMoves, LoaderStates
<1>5. CASE loader' = SyncNext(IdleLoader, applier, LastSyncWith)
  <2>1. applier.st # "Idle" => applier.st = "Applying" /\ applier.ext \in Seq(Blocks)
    BY DEF UnderWay, SureInv
  <2>2. \/ loader'.st = "Idle"
        \/ /\ loader'.st = "Signatures" /\ applier.st = "Idle"
           /\ Range(loader'.known) \subseteq Range(local)
        \/ /\ loader'.st = "Signatures" /\ applier.st # "Idle" /\ applier.buf = NoBuffer
           /\ Range(loader'.known) \subseteq Range(applier.ext)
    BY <1>5, <2>1, SyncGrounded, LoaderStates
  <2>3. applier.st = "Idle" => Ground = Range(local) /\ applier.buf = NoBuffer
    BY DEF Ground, UnderWay
  <2>4. applier.st # "Idle" => Range(applier.ext) \subseteq Ground
    BY <2>1 DEF SureInv
  <2>5. /\ applier.buf # NoBuffer => loader'.st = "Idle"
        /\ loader'.st = "Signatures" => Range(loader'.known) \subseteq Ground
        /\ loader'.st # "Blocks"
    BY <2>2, <2>3, <2>4
  <2> QED BY <1>1, <2>5, LoaderMoves
<1>6. CASE /\ loader.st = "Signatures" /\ unknown # <<>>
           /\ late' = late \union (IF Late(m) THEN {m.ch} ELSE {})
           /\ loader' = ExpectingBlocks(loader.ch, unknown, Range(unknown))
  <2>1. m.ids[1] \in Range(loader.known)
    BY <1>6 DEF Unblamed, Late
  <2>2. HeightsSound /\ Segment(height, m.ch, m.ids)
    BY <1>1 DEF SegmentInv, NetSound
  <2>3. Parent(unknown[1]) \in Range(loader.known)
    BY <1>2, <1>6, <2>1, <2>2, UnknownGrounded
  <2>4. Range(loader.known) \subseteq Ground /\ applier.buf = NoBuffer
    BY <1>6 DEF SureInv
  <2>5. loader'.st = "Blocks" /\ loader'.all = unknown
    BY <1>6 DEF ExpectingBlocks
  <2>6. Grounded(loader'.all)
    BY <2>3, <2>4, <2>5 DEF Grounded
  <2> QED BY <1>1, <2>4, <2>5, <2>6, LoaderMoves
<1> QED BY <1>1, <1>2, <1>3, <1>4, <1>5, <1>6

LEMMA BlockSure ==
  ASSUME UnderWay, SegmentInv, LocalSound, SureInv, OnBlock
  PROVE  SureInv'
<1>1. PICK m \in net :
        /\ UNCHANGED local
        /\ \/ UNCHANGED <<loader, applier, work>>
           \/ /\ loader.st = "Blocks"
              /\ \/ ExtensionLoadingFinished(loader.ch, loader.all, net \ {m})
                 \/ /\ \E x : loader' = ExpectingBlocks(loader.ch, loader.all, x)
                    /\ UNCHANGED <<applier, work>>
  BY DEF OnBlock
<1>2. CASE UNCHANGED <<loader, applier, work>>
  BY <1>1, <1>2, LoaderMoves DEF SureInv
<1>3. ASSUME loader.st = "Blocks", NEW x, loader' = ExpectingBlocks(loader.ch, loader.all, x),
             UNCHANGED <<applier, work>>
      PROVE  SureInv'
  <2>1. loader'.st = "Blocks" /\ loader'.all = loader.all
    BY <1>3 DEF ExpectingBlocks
  <2>2. Grounded(loader'.all) /\ applier.buf = NoBuffer
    BY <1>3, <2>1 DEF SureInv
  <2> QED BY <1>1, <1>3, <2>1, <2>2, LoaderMoves
<1>4. ASSUME loader.st = "Blocks", ExtensionLoadingFinished(loader.ch, loader.all, net \ {m})
      PROVE  SureInv'
  <2>1. PICK w : w = [ch |-> loader.ch, ext |-> loader.all]
    OBVIOUS
  <2>2. w.ext = loader.all /\ applier.buf = NoBuffer /\ Parent(w.ext[1]) \in Ground
    BY <1>4, <2>1 DEF SureInv, Grounded
  <2>3. CASE ApplierFree
    <3>1. work = <<>> /\ Ground = Range(local)
      BY <2>3 DEF UnderWay, ApplierFree, Ground
    <3>2. work' = Append(work, w) /\ applier' = Applying(NoBuffer, w.ext)
          /\ loader' = SyncNext(IdleLoader, applier', LastSyncWith)
      BY <1>4, <2>1, <2>2, <2>3 DEF ExtensionLoadingFinished
    <3>3. work' = <<w>>
      BY <3>1, <3>2, OneItem
    <3>4. w.ext \in Seq(Blocks)
      BY <1>4, <2>2, SegmentIs DEF SegmentInv, LoadSound
    <3> QED BY <1>1, <2>2, <3>1, <3>2, <3>3, <3>4, LoaderStates, HandedOver
  <2>4. CASE ~ApplierFree
    <3>1. applier' = [applier EXCEPT !.buf = w] /\ loader' = IdleLoader /\ work' = work
      BY <1>4, <2>1, <2>2, <2>4 DEF ExtensionLoadingFinished
    <3>2. applier'.buf = w /\ applier'.st = applier.st /\ applier'.ext = applier.ext
      BY <3>1 DEF UnderWay
    <3>3. loader'.st = "Idle"
      BY <3>1, LoaderStates
    <3>4. Ground' = Ground
      BY <1>1, <3>1, <3>2 DEF Ground
    <3> QED BY <1>1, <2>2, <3>1, <3>2, <3>3, <3>4 DEF SureInv, Grounded
  <2> QED BY <2>3, <2>4
<1> QED BY <1>1, <1>2, <1>3, <1>4

LEMMA OutcomeSure ==
  ASSUME UnderWay, SegmentInv, LocalSound, SureInv, OnExtensionApplied
  PROVE  SureInv'
<1>1. work = <<>> /\ Ground = Range(local) /\ UNCHANGED local
  BY DEF UnderWay, OnExtensionApplied, Ground
<1>2. IdleApplier.st = "Idle" /\ IdleApplier.buf = NoBuffer
  BY DEF IdleApplier
<1>3. ASSUME applier' = IdleApplier, work' = work,
             loader'.st = "Signatures" => Range(loader'.known) \subseteq Range(local),
             loader'.st = "Blocks" => Parent(loader'.all[1]) \in Range(local)
      PROVE  SureInv'
  <2>1. Ground' = Range(local) /\ work' = <<>>
    BY <1>1, <1>3 DEF Ground
  <2> QED BY <1>2, <1>3, <2>1 DEF SureInv, Grounded
<1>4. CASE applier.buf = NoBuffer
  <2>1. applier' = IdleApplier /\ UNCHANGED <<loader, work>>
    BY <1>4 DEF OnExtensionApplied
  <2> QED BY <1>1, <1>3, <2>1 DEF SureInv, Grounded
<1>5. CASE applier.buf # NoBuffer
  <2>1. loader.st = "Idle" /\ Parent(applier.buf.ext[1]) \in Range(local)
    BY <1>1, <1>5 DEF SureInv, Grounded
  <2>2. /\ \/ work' = Append(work, applier.buf) /\ applier' = Applying(NoBuffer, applier.buf.ext)
           \/ applier' = IdleApplier /\ work' = work
        /\ loader' = SyncNext(loader, applier', LastSyncWith)
    BY <1>5 DEF OnExtensionApplied
  <2>3. CASE applier' = IdleApplier /\ work' = work
    <3>1. loader'.st = "Idle" \/ (loader'.st = "Signatures" /\ Range(loader'.known) \subseteq Range(local))
      BY <1>2, <2>1, <2>2, <2>3, SyncGrounded
    <3> QED BY <1>3, <2>3, <3>1
  <2>4. CASE work' = Append(work, applier.buf) /\ applier' = Applying(NoBuffer, applier.buf.ext)
    <3>1. work' = <<applier.buf>>
      BY <1>1, <2>4, OneItem
    <3>2. applier.buf.ext \in Seq(Blocks)
      BY <1>5, SegmentIs DEF SegmentInv, BufferSound
    <3> QED BY <1>1, <2>1, <2>2, <2>4, <3>1, <3>2, HandedOver
  <2> QED BY <2>2, <2>3, <2>4
<1> QED BY <1>4, <1>5

\* The appender takes an extension: one of a valid chain is applied, and once one
\* is applied its blocks are the node's.
LEMMA ApplySure ==
  ASSUME UnderWay, SegmentInv, LocalSound, SureInv, Apply
  PROVE  /\ Unblamed' => SureInv'
         /\ blamed' = blamed \/ \E ch \in blamed' : ch \notin Honest
<1>1. PICK w : w = Head(work)
  OBVIOUS
<1>2. PICK ext : ext = DropKnown(w.ext, Range(local))
  OBVIOUS
<1>3. work = <<w>> /\ w = work[1] /\ work' = <<>> /\ UNCHANGED <<applier, loader>>
  <2>1. work # <<>> /\ work' = Tail(work) /\ UNCHANGED <<applier, loader>>
    BY DEF Apply
  <2>2. work = <<work[1]>>
    BY <2>1 DEF UnderWay, AtMostOne
  <2>3. Head(work) = work[1] /\ Tail(work) = <<>>
    BY <2>2, OneItem
  <2> QED BY <1>1, <2>1, <2>2, <2>3
<1>4. /\ w.ext = applier.ext /\ Parent(w.ext[1]) \in Range(local)
      /\ applier.st = "Applying" /\ applier.ext \in Seq(Blocks) /\ Ground = Range(w.ext)
  <2>1. work # <<>>
    BY <1>3
  <2> QED BY <1>3, <2>1 DEF SureInv, UnderWay, Ground
<1>5. HeightsSound /\ Segment(height, w.ch, w.ext)
  <2>1. 1 \in 1 .. Len(work)
    BY <1>3, OneItem
  <2> QED BY <1>3, <2>1 DEF SegmentInv, WorkSound
<1>6. ext # <<>> => Parent(ext[1]) \in Range(local)
  BY <1>2, <1>4, <1>5, RestGrounded
<1>7. \/ /\ \E i \in DOMAIN ext : ext[i] \in Bad
         /\ ext # <<>> /\ blamed' = blamed \union {w.ch}
      \/ blamed' = blamed /\ ext = <<>> /\ local' = local
      \/ /\ blamed' = blamed /\ ext # <<>>
         /\ local' = SubSeq(local, 1, HeightIn(local, Parent(ext[1]))) \o ext
  <2>1. PICK bad : bad = {i \in DOMAIN ext : ext[i] \in Bad}
    OBVIOUS
  <2>2. PICK ok \in BOOLEAN : ok = (ext = <<>> \/ (~(ext # <<>> /\ Parent(ext[1]) \notin Range(local)) /\ bad = {}))
    OBVIOUS
  <2>3. /\ ~ok => blamed' = blamed \union {w.ch}
        /\ ok => /\ blamed' = blamed
                 /\ IF ext = <<>> THEN local' = local
                    ELSE local' = SubSeq(local, 1, HeightIn(local, Parent(ext[1]))) \o ext
    BY <1>1, <1>2, <2>1, <2>2 DEF Apply
  <2> QED BY <1>6, <2>1, <2>2, <2>3
<1>8. ASSUME NEW i \in DOMAIN ext, ext[i] \in Bad, ext # <<>> PROVE w.ch \notin Honest
  <2>1. w.ext \in Seq(Range(Chain[w.ch]))
    BY <1>5, SegmentIs
  <2>2. ext \in Seq(Range(Chain[w.ch]))
    BY <1>2, <1>8, <2>1, DropKnownIs
  <2>3. ext[i] \in Range(Chain[w.ch])
    BY <1>8, <2>2, LenProperties, ElementOfSeq
  <2> QED BY <1>8, <2>3 DEF Honest
<1>9. blamed' = blamed \/ \E ch \in blamed' : ch \notin Honest
  BY <1>7, <1>8
<1>10. ASSUME Unblamed' PROVE SureInv'
  <2>1. Range(w.ext) \subseteq Range(local')
    <3>1. CASE ext = <<>> /\ local' = local
      <4>1. Range(w.ext) \subseteq Range(local)
        BY <1>2, <1>4, <3>1, AllKnown
      <4> QED BY <3>1, <4>1
    <3>2. CASE /\ ext # <<>>
               /\ local' = SubSeq(local, 1, HeightIn(local, Parent(ext[1]))) \o ext
      BY <1>2, <1>5, <1>6, <3>2, SwitchedChain
    <3> QED BY <1>7, <1>10, <3>1, <3>2 DEF Unblamed
  <2>2. Ground' = Range(local')
    BY <1>3 DEF Ground
  <2>3. Ground \subseteq Ground' /\ Range(applier'.ext) \subseteq Ground'
    BY <1>3, <1>4, <2>1, <2>2
  <2>4. \A s : Grounded(s) => Parent(s[1]) \in Ground'
    BY <2>3 DEF Grounded
  <2>5. /\ applier'.buf # NoBuffer => loader'.st = "Idle" /\ Parent(applier'.buf.ext[1]) \in Ground'
        /\ loader'.st = "Signatures" => Range(loader'.known) \subseteq Ground'
        /\ loader'.st = "Blocks" => Parent(loader'.all[1]) \in Ground'
    BY <1>3, <2>3, <2>4 DEF SureInv
  <2> QED BY <1>3, <1>4, <2>3, <2>5 DEF SureInv, Grounded
<1> QED BY <1>9, <1>10

\* Blame and late answers are never forgotten.
LEMMA BlameGrows ==
  ASSUME [Next]_vars
  PROVE  blamed \subseteq blamed' /\ late \subseteq late' /\ (Apply \/ blamed' = blamed)
<1>1. CASE OnNewSignatures
  BY <1>1 DEF OnNewSignatures
<1>2. CASE Apply
  BY <1>2 DEF Apply
<1> QED
  BY <1>1, <1>2 DEF Next, LoaderStep, AppenderStep, Observe, OnNewSyncWith, OnBlock, AppendStray,
     OnExtensionApplied, Timeout, Reply, PeerGrows, PeerLeaves, Expire, vars, loaderVars

LEMMA SureNext ==
  ASSUME UnderWay, SegmentInv, LocalSound, StraysSound, SureInv, Unblamed', [Next]_vars
  PROVE  SureInv'
<1>1. ASSUME UNCHANGED <<applier, work, loader, local>> PROVE SureInv'
  BY <1>1, LoaderMoves DEF SureInv
<1>2. CASE OnNewSyncWith
  BY <1>2, ItemSure
<1>3. CASE OnNewSignatures
  BY <1>3, SignaturesSure
<1>4. CASE OnBlock
  BY <1>4, BlockSure
<1>5. CASE OnExtensionApplied
  BY <1>5, OutcomeSure
<1>6. CASE Timeout
  <2>1. UNCHANGED <<applier, work, local>> /\ loader' = [loader EXCEPT !.armed = FALSE]
    BY <1>6 DEF Timeout
  <2>2. loader'.st = loader.st /\ loader'.known = loader.known /\ loader'.all = loader.all
    BY <2>1 DEF SegmentInv, LoaderShape
  <2> QED BY <2>1, <2>2, LoaderMoves DEF SureInv
<1>7. CASE Apply
  BY <1>7, ApplySure
<1>8. CASE AppendStray
  <2>1. PICK b : b = Head(strays)
    OBVIOUS
  <2>2. /\ strays # <<>> /\ UNCHANGED <<applier, work, loader>>
        /\ \/ local' = local
           \/ b \notin Range(local) /\ Parent(b) = Last(local) /\ local' = Append(local, b)
    BY <1>8, <2>1 DEF AppendStray
  <2>3. b \in Blocks
    BY <2>1, <2>2, HeadTailProperties DEF StraysSound
  <2>4. Range(local) \subseteq Range(local')
    BY <2>2, <2>3, StrayExtends
  <2> QED BY <2>2, <2>4, LoaderMoves DEF SureInv
<1> QED
  BY <1>1, <1>2, <1>3, <1>4, <1>5, <1>6, <1>7, <1>8 DEF Next, LoaderStep, AppenderStep, Observe, Reply,
     PeerGrows, PeerLeaves, Expire, vars, loaderVars

\* A peer whose chain validates is blacklisted for what an extension contained
\* only in the wake of one that was rightly blacklisted, or of a late answer
\* taken for the present one: processAndBlacklistOnFailure in ExtensionAppender
\* never hits the peers of an honest network, whatever they answer, whenever
\* channels close and blocks arrive, and while the next extension is loaded on
\* top of one that is still being applied (RxExtensionLoader's optimism).
THEOREM BlameJustified == Spec => []BlameHasCause
<1>1. Init => BlameInv
  <2> SUFFICES ASSUME Init PROVE BlameInv
    OBVIOUS
  <2>1. UnderWay
    BY DEF Init, UnderWay, AtMostOne, IdleApplier
  <2>2. SegmentInv
    BY SegmentInit
  <2>3. LocalSound
    <3>1. StartChain \in ChainsOf
      BY DEF ChainsOf
    <3>2. StartChain \in Seq(Blocks) /\ Len(StartChain) \in Nat /\ StartChain # <<>>
      BY <3>1, ChainsAre, LoaderAssumption
    <3> QED BY <3>1, <3>2 DEF Init, LocalSound, ChainsOf, Blocks
  <2>4. StraysSound
    BY EmptySeq DEF Init, StraysSound
  <2>5. SureInv
    BY LoaderStates DEF Init, SureInv, IdleApplier
  <2> QED BY <2>1, <2>2, <2>3, <2>4, <2>5 DEF Init, BlameHasCause, BlameInv
<1>2. BlameInv /\ [Next]_vars => BlameInv'
  <2> SUFFICES ASSUME BlameInv, [Next]_vars PROVE BlameInv'
    OBVIOUS
  <2>1. UnderWay /\ SegmentInv /\ LocalSound /\ StraysSound
    BY DEF BlameInv
  <2>2. UnderWay' /\ SegmentInv' /\ LocalSound' /\ StraysSound'
    BY <2>1, UnderWayNext, SegmentNext, LocalNext, StraysNext
  <2>3. blamed \subseteq blamed' /\ late \subseteq late' /\ (Apply \/ blamed' = blamed)
    BY BlameGrows
  <2>4. Unblamed' => Unblamed
    BY <2>3 DEF Unblamed
  <2>5. Unblamed' => SureInv'
    BY <2>1, <2>4, SureNext DEF BlameInv
  <2>6. BlameHasCause'
    <3> SUFFICES ASSUME blamed' \subseteq Honest, late' = {} PROVE blamed' = {}
      BY DEF BlameHasCause, Honest
    <3>1. blamed = {} /\ late = {} /\ SureInv
      BY <2>3 DEF BlameInv, BlameHasCause, Unblamed
    <3>2. Apply => blamed' = blamed
      BY <2>1, <3>1, ApplySure
    <3> QED BY <2>3, <3>1, <3>2
  <2> QED BY <2>2, <2>5, <2>6 DEF BlameInv
<1>3. BlameInv => BlameHasCause
  BY DEF BlameInv
<1> QED BY <1>1, <1>2, <1>3, PTL DEF Spec
=============================================================================
