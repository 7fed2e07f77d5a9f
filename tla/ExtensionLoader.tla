-------------------------- MODULE ExtensionLoader --------------------------
(***************************************************************************)
(* Loading the blocks of a better chain from a peer:                       *)
(* network/RxExtensionLoader.scala, with the answers of a peer             *)
(* (network/HistoryReplier.scala), the application of what was loaded      *)
(* (state/appender/ExtensionAppender.scala and BlockAppender.scala, as the *)
(* loader sees them) and the score observer that drives it.                *)
(*                                                                         *)
(* The loader runs on one thread; the appender, the observer and the peers *)
(* run beside it.  While an extension is being applied the next one is     *)
(* loaded optimistically and buffered.                                     *)
(***************************************************************************)
EXTENDS ScoreObserver, SequencesExt

CONSTANTS
  Chain,           \* Chain[ch]: the chain the peer behind ch ends with
  StartHeight,     \* StartHeight[ch]: how much of it the peer has at first
  StartChain,      \* the node's own chain at first
  Bad,             \* blocks that do not validate
  MaxChainLength,  \* synchronization.max-chain-length
  MaxRollback,     \* synchronization.max-rollback
  Flaky            \* peers that may leave, answer after synchronization-timeout, or
                   \* announce nothing for longer than score-ttl

ChainsOf == Range(Chain) \union {StartChain}
Blocks == UNION {Range(c) : c \in ChainsOf}

\* Chains share a prefix, with the genesis block, and nothing after it;
\* max-chain-length (101) is above max-rollback (100), which is below
\* max-rollback-depth.
ASSUME LoaderAssumption ==
  /\ \A c \in ChainsOf : c \in Seq(Range(c))
  /\ DOMAIN Chain = Channels /\ StartHeight \in [Channels -> Nat]
  /\ MaxRollback \in Nat \ {0} /\ MaxChainLength \in Nat /\ MaxChainLength > MaxRollback
  /\ \A c, d \in ChainsOf : \A i \in DOMAIN c, j \in DOMAIN d :
       c[i] = d[j] => i = j /\ SubSeq(c, 1, i) = SubSeq(d, 1, j)
  /\ \A c \in ChainsOf : c # <<>> /\ c[1] = StartChain[1]
  /\ \A ch \in Channels : StartHeight[ch] \in 1 .. Len(Chain[ch])

VARIABLES
  height,    \* height[ch]: the height of the peer's chain
  local,     \* the node's chain
  invalid,   \* knownInvalidBlocks
  net,       \* messages in flight; the replier's pool may answer them in any order
  loader,    \* the loader's state
  applier,   \* the applier's state
  work,      \* extensions handed to the appender
  results,   \* queue: outcomes of the appender not yet seen by the loader
  strays,    \* queue: blocks nobody expected, on their way to the appender
  blamed,    \* channels blacklisted because of what an extension contained
  late       \* channels whose answer to an earlier request was taken for the one to the present

loaderVars == <<height, local, invalid, net, loader, applier, work, results, strays, blamed, late>>
vars == <<observerVars, loaderVars>>

IdleLoader == [st |-> "Idle", ch |-> NoChannel, known |-> <<>>, all |-> <<>>, expected |-> {}, armed |-> FALSE]
ExpectingSignatures(ch, known) ==
  [st |-> "Signatures", ch |-> ch, known |-> known, all |-> <<>>, expected |-> {}, armed |-> TRUE]
ExpectingBlocks(ch, all, expected) ==
  [st |-> "Blocks", ch |-> ch, known |-> <<>>, all |-> all, expected |-> expected, armed |-> TRUE]

NoBuffer == [ch |-> NoChannel, ext |-> <<>>]
IdleApplier == [st |-> "Idle", buf |-> NoBuffer, ext |-> <<>>]
Applying(buf, ext) == [st |-> "Applying", buf |-> buf, ext |-> ext]

PeerChain(ch) == SubSeq(Chain[ch], 1, height[ch])
HeightIn(c, b) == CHOOSE i \in DOMAIN c : c[i] = b
Parent(b) == LET c == CHOOSE c \in ChainsOf : b \in Range(c)
             IN c[HeightIn(c, b) - 1]
LastBlockIds == Reverse(SubSeq(local, Max({1, Len(local) - MaxRollback + 1}), Len(local)))

\* xs.dropWhile(_ \in known), the second part of span
DropKnown(xs, known) ==
  LET unknown == {i \in DOMAIN xs : xs[i] \notin known}
  IN IF unknown = {} THEN <<>> ELSE SubSeq(xs, Min(unknown), Len(xs))

-----------------------------------------------------------------------------
\* peerDatabase.blacklistAndClose: the observer is told by another thread.
Close(ch) ==
  /\ open' = open \ {ch}
  /\ closedNotes' = IF ch \in open THEN closedNotes \union {ch} ELSE closedNotes
  /\ UNCHANGED <<localScores, announced, scores, localScore, currentBestChannel, emitted>>

\* What a closed channel had to deliver to the peer is lost; what it had
\* received may still be on its way to the loader.
Cut(msgs, ch) == {m \in msgs : m.ch # ch \/ m.kind \in {"Signatures", "Block"}}

\* What syncNext makes of the loader.
SyncNext(ld, ap, sw) ==
  IF sw.ch = NoChannel THEN IdleLoader
  ELSE IF ld.st # "Idle" THEN ld
  ELSE IF ap.st = "Idle" THEN ExpectingSignatures(sw.ch, LastBlockIds)
  ELSE IF ap.buf = NoBuffer THEN ExpectingSignatures(sw.ch, Reverse(ap.ext))
  ELSE ld

\* The request syncNext writes when it turns loader ld into new; nothing is sent
\* to a channel that is closed.
Asked(ld, new) ==
  IF new # ld /\ new.st = "Signatures" /\ new.ch \in open'
  THEN {[kind |-> "GetSignatures", ch |-> new.ch, ids |-> new.known]} ELSE {}

LastSyncWith == emitted.sync

\* The loader an item starts from: idle if a channel has closed, unless the
\* loader waits for another one.
Freed(cc) ==
  IF cc.closed = NoChannel \/ (loader.st # "Idle" /\ cc.closed # loader.ch)
  THEN loader ELSE IdleLoader

\* Mutant: a channel that closes while another one loads stops the loading.
AfterItemForgetful(cc) ==
  IF cc.closed # NoChannel /\ loader.st # "Idle" /\ cc.closed # loader.ch
  THEN IdleLoader ELSE SyncNext(Freed(cc), applier, cc.sync)

AfterItem(cc) == SyncNext(Freed(cc), applier, cc.sync)

\* onNewSyncWithChannelClosed
OnNewSyncWith ==
  /\ events # <<>>
  /\ events' = Tail(events)
  /\ UNCHANGED <<open, localScores, announced, closedNotes, timeoutNotes, scores, localScore,
                 currentBestChannel, emitted, height, local, invalid, applier, work, results, strays, blamed, late>>
  /\ loader' = AfterItem(Head(events))
  /\ net' = net \union Asked(Freed(Head(events)), AfterItem(Head(events)))

\* Mutant: an answer counts whatever channel it comes from.
FromAnyone(m) == TRUE

\* c == ch: the message comes from the channel the loader waits for.
FromPeer(m) == loader.ch = m.ch

\* An answer starts with a block the peer was asked about; one that starts with
\* another is the answer to an earlier request.  Nothing in the code tells.
Late(m) == m.ids[1] \notin Range(loader.known)

\* onNewSignatures
OnNewSignatures ==
  \E m \in net :
    /\ m.kind = "Signatures"
    /\ UNCHANGED <<timeoutNotes, events, height, local, invalid, applier, work, results, strays, blamed>>
    /\ LET unknown == DropKnown(m.ids, Range(loader.known))
           rest == net \ {m}
       IN IF loader.st # "Signatures" \/ ~FromPeer(m)
          THEN net' = rest /\ UNCHANGED <<observerVars, loader, late>>
          ELSE IF Range(m.ids) \intersect invalid # {}
          THEN /\ Close(m.ch) /\ UNCHANGED late
               /\ loader' = SyncNext(IdleLoader, applier, LastSyncWith)
               /\ net' = Cut(rest, m.ch) \union Asked(IdleLoader, loader')
          ELSE /\ UNCHANGED observerVars
               /\ IF unknown = <<>>
                  THEN loader' = IdleLoader /\ net' = rest /\ UNCHANGED late
                  ELSE /\ late' = late \union (IF Late(m) THEN {m.ch} ELSE {})
                       /\ loader' = ExpectingBlocks(loader.ch, unknown, Range(unknown))
                       /\ net' = rest \union
                            IF loader.ch \in open THEN {[kind |-> "GetBlock", ch |-> loader.ch, ids |-> <<b>>] : b \in Range(unknown)}
                                             ELSE {}

\* Mutant: an extension loaded while another one is applied is handed over at once.
ApplierFreeEager == applier.buf = NoBuffer

ApplierFree == applier.st = "Idle"

\* extensionLoadingFinished, on the loader made idle.
ExtensionLoadingFinished(ch, ext, rest) ==
  IF ApplierFree
  THEN /\ work' = Append(work, [ch |-> ch, ext |-> ext])
       /\ applier' = Applying(NoBuffer, ext)
       /\ loader' = SyncNext(IdleLoader, applier', LastSyncWith)
       /\ net' = rest \union Asked(IdleLoader, loader')
  ELSE /\ applier' = IF applier.buf = NoBuffer
                     THEN [applier EXCEPT !.buf = [ch |-> ch, ext |-> ext]] ELSE applier
       /\ loader' = IdleLoader
       /\ net' = rest
       /\ UNCHANGED work

\* onBlock
OnBlock ==
  \E m \in net :
    /\ m.kind = "Block"
    /\ UNCHANGED <<observerVars, height, local, invalid, results, blamed, late>>
    /\ LET b == m.ids[1]
           rest == net \ {m}
       IN IF loader.st = "Blocks" /\ FromPeer(m) /\ b \in loader.expected
          THEN /\ UNCHANGED strays
               /\ IF loader.expected = {b}
                  THEN ExtensionLoadingFinished(loader.ch, loader.all, rest)
                  ELSE /\ loader' = ExpectingBlocks(loader.ch, loader.all, loader.expected \ {b})
                       /\ net' = rest
                       /\ UNCHANGED <<applier, work>>
          ELSE /\ strays' = Append(strays, b)
               /\ net' = rest
               /\ UNCHANGED <<loader, applier, work>>

\* onExtensionApplied
OnExtensionApplied ==
  /\ results # <<>>
  /\ results' = Tail(results)
  /\ UNCHANGED <<observerVars, height, local, invalid, strays, blamed, late>>
  /\ IF applier.buf = NoBuffer
     THEN applier' = IdleApplier /\ UNCHANGED <<loader, net, work>>
     ELSE /\ IF Head(results).ok
             THEN /\ work' = Append(work, applier.buf)
                  /\ applier' = Applying(NoBuffer, applier.buf.ext)
             ELSE applier' = IdleApplier /\ UNCHANGED work
          /\ loader' = SyncNext(loader, applier', LastSyncWith)
          /\ net' = net \union Asked(loader, loader')

\* scheduleBlacklist: the timer of the loader's present state goes off.
Timeout ==
  /\ loader.armed
  /\ loader.ch \in Flaky \/ \A m \in net : m.ch # loader.ch
  /\ loader' = [loader EXCEPT !.armed = FALSE]
  /\ timeoutNotes' = timeoutNotes \union {loader.ch}
  /\ Close(loader.ch)
  /\ net' = Cut(net, loader.ch)
  /\ UNCHANGED <<events, height, local, invalid, applier, work, results, strays, blamed, late>>

-----------------------------------------------------------------------------
\* HistoryReplier: the ids after the first known one, or no answer at all; a
\* block the peer has, or no answer.
Reply(ch) ==
  \E m \in net :
    /\ m.ch = ch /\ m.kind \in {"GetSignatures", "GetBlock"}
    /\ UNCHANGED <<observerVars, height, local, invalid, loader, applier, work, results, strays, blamed, late>>
    /\ LET c == PeerChain(m.ch)
           common == {k \in DOMAIN m.ids : m.ids[k] \in Range(c)}
           i == HeightIn(c, m.ids[Min(common)])
       IN net' = (net \ {m}) \union
            IF common = {} THEN {}
            ELSE IF m.kind = "GetBlock" THEN {[m EXCEPT !.kind = "Block"]}
            ELSE {[kind |-> "Signatures", ch |-> m.ch,
                   ids |-> SubSeq(c, i, Min({i + MaxChainLength, Len(c)}))]}

\* A peer's chain grows: it announces its score and broadcasts the block.
PeerGrows(ch) ==
  /\ ch \in open /\ height[ch] < Len(Chain[ch])
  /\ height' = [height EXCEPT ![ch] = @ + 1]
  /\ announced' = [announced EXCEPT ![ch] = height'[ch]]
  /\ net' = net \union {[kind |-> "Block", ch |-> ch, ids |-> <<Chain[ch][height'[ch]]>>]}
  /\ UNCHANGED <<open, localScores, closedNotes, timeoutNotes, scores, localScore, currentBestChannel,
                 emitted, events, local, invalid, loader, applier, work, results, strays, blamed, late>>

PeerLeaves(ch) ==
  /\ ch \in open \intersect Flaky
  /\ Close(ch)
  /\ net' = Cut(net, ch)
  /\ UNCHANGED <<timeoutNotes, events, height, local, invalid, loader, applier, work, results, strays, blamed, late>>

-----------------------------------------------------------------------------
\* ExtensionAppender, as one step: the extension without the blocks the chain
\* has, after its common block, if all its blocks validate.
Apply ==
  /\ work # <<>>
  /\ work' = Tail(work)
  /\ UNCHANGED <<height, loader, applier, strays, late, timeoutNotes, events>>
  /\ LET w == Head(work)
         ext == DropKnown(w.ext, Range(local))
         bad == {i \in DOMAIN ext : ext[i] \in Bad}
         common == HeightIn(local, Parent(ext[1]))
         detached == ext # <<>> /\ Parent(ext[1]) \notin Range(local)
         ok == ext = <<>> \/ (~detached /\ bad = {})
     IN /\ results' = Append(results, [ext |-> w.ext, ok |-> ok])
        /\ IF ~ok
           THEN /\ Close(w.ch)
                /\ net' = Cut(net, w.ch)
                /\ blamed' = blamed \union {w.ch}
                /\ invalid' = invalid \union (IF detached THEN {} ELSE {ext[Min(bad)]})
                /\ UNCHANGED local
           ELSE /\ UNCHANGED <<net, invalid, blamed, open, closedNotes, announced, scores, localScore, currentBestChannel, emitted>>
                /\ IF ext = <<>> THEN UNCHANGED <<local, localScores>>
                   ELSE /\ local' = SubSeq(local, 1, common) \o ext
                        /\ localScores' = localScores \o
                             (IF common < Len(local) THEN <<common>> ELSE <<>>) \o <<Len(local')>>

\* BlockAppender: a block nobody asked for is appended if it extends the chain.
AppendStray ==
  /\ strays # <<>>
  /\ strays' = Tail(strays)
  /\ UNCHANGED <<open, announced, closedNotes, timeoutNotes, scores, localScore, currentBestChannel, emitted,
                 events, height, invalid, net, loader, applier, work, results, blamed, late>>
  /\ LET b == Head(strays)
     IN IF b \notin Bad /\ b \notin Range(local) /\ Parent(b) = Last(local)
        THEN local' = Append(local, b) /\ localScores' = Append(localScores, Len(local'))
        ELSE UNCHANGED <<local, localScores>>

-----------------------------------------------------------------------------
Init ==
  /\ open = Channels /\ localScores = <<>> /\ announced = StartHeight
  /\ closedNotes = {} /\ timeoutNotes = {} /\ scores = <<>>
  /\ localScore = Len(StartChain) /\ currentBestChannel = NoChannel
  /\ emitted = Nothing /\ events = <<>>
  /\ height = StartHeight /\ local = StartChain /\ invalid = {} /\ net = {}
  /\ loader = IdleLoader /\ applier = IdleApplier
  /\ work = <<>> /\ results = <<>> /\ strays = <<>> /\ blamed = {} /\ late = {}

Observe == ObserverStep /\ UNCHANGED loaderVars

Expire(ch) == ch \in Flaky /\ ScoreExpires(ch) /\ UNCHANGED loaderVars

LoaderStep == OnNewSyncWith \/ OnNewSignatures \/ OnBlock \/ OnExtensionApplied
AppenderStep == Apply \/ AppendStray

Next ==
  \/ Observe
  \/ LoaderStep \/ Timeout
  \/ \E ch \in Channels : Reply(ch) \/ PeerGrows(ch) \/ PeerLeaves(ch) \/ Expire(ch)
  \/ AppenderStep

Spec == Init /\ [][Next]_vars

\* Each thread takes its next item in the end, and a timer nobody cancels goes off.
Fairness == WF_vars(Observe) /\ WF_vars(LoaderStep) /\ WF_vars(AppenderStep) /\ WF_vars(Timeout)
            /\ \A ch \in Channels \ Flaky : WF_vars(Reply(ch))

FairSpec == Spec /\ Fairness

-----------------------------------------------------------------------------
\* The channels whose chain validates.
Honest == {ch \in Channels : Range(Chain[ch]) \intersect Bad = {}}

\* A peer whose chain is valid is blacklisted for what an extension contained
\* (processAndBlacklistOnFailure) only in the wake of one that was rightly
\* blacklisted, or of a late answer.  The first exception is there because
\* onExtensionApplied does not discard a load that was started on top of an
\* extension that then failed, unless it is complete; the second because
\* onNewSignatures takes an answer to an earlier request for the present one.
BlameHasCause == blamed \subseteq Honest /\ late = {} => blamed = {}

\* The loader never waits for a closed channel that nobody will report to it:
\* a notice of the closing, or an item that frees the loader, is on its way.
\* distinctUntilChanged, the debounce and the two reports of a timeout (by
\* timeoutSubject and by the channel) must not swallow all of them.
WaitIsRescued ==
  loader.st # "Idle" /\ loader.ch \notin open =>
    \/ loader.ch \in closedNotes \union timeoutNotes
    \/ \E i \in DOMAIN events : events[i].closed = loader.ch \/ events[i].sync.ch = NoChannel

\* Whatever answers come late, and from whom, an extension handed to the
\* appender is a segment of the chain of the peer it is attributed to, without
\* gaps and in order.
ExtensionsAreSegments ==
  \A i \in DOMAIN work : LET c == PeerChain(work[i].ch)
                             ext == work[i].ext
                         IN \E j \in DOMAIN c : ext = SubSeq(c, j, j + Len(ext) - 1)

\* The loader's view of the appender is right: exactly one extension, or its
\* outcome, is under way while the applier is Applying, and none otherwise.
OneExtensionAtATime == Len(work) + Len(results) = IF applier.st = "Applying" THEN 1 ELSE 0

\* A best channel the loader learns of while it is idle is followed: the node
\* reaches the score that was announced, or the channel closes, whatever other
\* channels close, time out or announce meanwhile.
AskedPeerIsFollowed ==
  \A ch \in Channels \ Flaky : \A n \in StartHeight[ch] .. Len(Chain[ch]) :
    (/\ loader.st = "Idle" /\ applier.st = "Idle"
     /\ events # <<>> /\ Head(events).sync = [ch |-> ch, score |-> n])
      ~> (ch \notin open \/ Len(local) >= n)
=============================================================================
