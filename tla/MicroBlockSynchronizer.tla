----------------------- MODULE MicroBlockSynchronizer -----------------------
(***************************************************************************)
(* How a node fetches the microblocks its peers announce:                  *)
(* network/MicroBlockSynchronizer.scala, with the observation of the last  *)
(* block (network/package.scala), the appender behind it                   *)
(* (state/appender/MicroblockAppender.scala) and the peers' replier        *)
(* (network/HistoryReplier.scala).                                         *)
(*                                                                         *)
(* Announcements and answers are handled one after the other on the        *)
(* synchroniser's thread, and so is every round of a download task but the *)
(* first one of a task that the publication of a new last block starts:    *)
(* the subscribers of the last block run on the appender's thread, which   *)
(* interleaves with the synchroniser's.  A download task goes on at any    *)
(* time: no answer is assumed to be in time.                               *)
(***************************************************************************)
EXTENDS Integers, Sequences, FiniteSets

CONSTANTS
  Peers,
  Flaky,         \* peers that may answer late or never, or close the channel
  MicroBlocks,   \* total signatures of the microblocks there are
  KeyBlocks,     \* ids of the key blocks the node may switch to
  Prev,          \* Prev[m]: prevResBlockSig
  Invs,          \* announcements the peers will make, <<peer, microblock>>
  Start,         \* the key block the node is on at first
  MaxBlocks,     \* bound: switches to a key block
  None

Ids == MicroBlocks \union KeyBlocks
MicroBlockDownloadAttempts == 2

ASSUME MicroAssumption ==
  /\ Flaky \subseteq Peers /\ Start \in KeyBlocks
  /\ Prev \in [MicroBlocks -> Ids] /\ MicroBlocks \intersect KeyBlocks = {}
  /\ None \notin Ids /\ Invs \subseteq Peers \X MicroBlocks /\ MaxBlocks \in Nat

VARIABLES
  tip,        \* the last block of the node, key block or microblock
  blocks,     \* switches to a key block so far
  published,  \* the id being published: [id, pc, ask], or None
  lastBlockId,
  invs,       \* announcements still to come
  inv,        \* the one being handled, or None
  closed,     \* peers whose channel is closed
  microBlockOwners, nextInvs, awaiting, successfullyReceived,   \* the caches
  tasks,      \* download tasks between two rounds: [micro, exclude, by]
  asked,      \* requests not answered yet, <<peer, microblock>>
  sink,       \* microblocks passed on to the appender
  unawaited   \* history: microblocks whose answer nobody awaited any more

vars == <<tip, blocks, published, lastBlockId, invs, inv, closed, microBlockOwners, nextInvs, awaiting,
          successfullyReceived, tasks, asked, sink, unawaited>>
cacheVars == <<microBlockOwners, nextInvs, awaiting, successfullyReceived>>
nodeVars == <<tip, blocks, published, lastBlockId>>

-----------------------------------------------------------------------------
\* Whom a round of a task may ask: a random owner that was not asked yet,
\* closed channels being skipped at once.
Candidates(m, exclude) ==
  IF Cardinality(exclude) >= MicroBlockDownloadAttempts \/ m \in successfullyReceived
  THEN {} ELSE microBlockOwners[m] \ (exclude \union closed)

Request(m, p, exclude, by, others) ==
  /\ asked' = asked \union {<<p, m>>}
  /\ awaiting' = awaiting \union {m}
  /\ tasks' = others \union {[micro |-> m, exclude |-> exclude \union {p}, by |-> by]}

\* One round of requestMicroBlock's task.
Round(m, exclude, by, others) ==
  \/ \E p \in Candidates(m, exclude) : Request(m, p, exclude, by, others)
  \/ Candidates(m, exclude) = {} /\ tasks' = others /\ UNCHANGED <<asked, awaiting>>

RunTask ==
  /\ \E k \in tasks : Round(k.micro, k.exclude, k.by, tasks \ {k})
  /\ UNCHANGED <<nodeVars, invs, inv, closed, microBlockOwners, nextInvs, successfullyReceived, sink, unawaited>>

\* An announcement is remembered ...
RememberInv(p, m) ==
  /\ inv = None /\ <<p, m>> \in invs /\ p \notin closed
  /\ invs' = invs \ {<<p, m>>}
  /\ inv' = <<p, m>>
  /\ microBlockOwners' = [microBlockOwners EXCEPT ![m] = @ \union {p}]
  /\ nextInvs' = [nextInvs EXCEPT ![Prev[m]] = IF @ = None THEN m ELSE @]
  /\ UNCHANGED <<nodeVars, closed, awaiting, successfullyReceived, tasks, asked, sink, unawaited>>

\* ... and, if it continues the last block, what was announced first on top of
\* that block is downloaded.
HandleInv ==
  /\ inv # None
  /\ LET prev == Prev[inv[2]]
     IN IF lastBlockId = prev /\ inv[2] \notin awaiting
        THEN Round(nextInvs[prev], {}, "inv", tasks)
        ELSE UNCHANGED <<tasks, asked, awaiting>>
  /\ inv' = None
  /\ UNCHANGED <<nodeVars, invs, closed, microBlockOwners, nextInvs, successfullyReceived, sink, unawaited>>

\* tryDownloadNext on the appender's thread, up to the choice of a peer.
TryDownloadNext(id, next) ==
  LET m == nextInvs[id]
      candidates == IF m = None THEN {} ELSE Candidates(m, {})
  IN \/ candidates = {} /\ published' = next
     \/ \E p \in candidates : published' = [id |-> id, pc |-> "send", ask |-> <<p, m>>]

Observe(next) == lastBlockId' = published.id /\ published' = next

SendRequest ==
  /\ published # None /\ published.pc = "send"
  /\ Request(published.ask[2], published.ask[1], {}, "block", tasks)
  /\ published' = None
  /\ UNCHANGED <<tip, blocks, lastBlockId, invs, inv, closed, microBlockOwners, nextInvs, successfullyReceived,
                 sink, unawaited>>

\* Mutant: the next microblock is looked for before the id is observed.
PublishDownloadFirst ==
  /\ published # None
  /\ \/ /\ published.pc = "observe"
        /\ TryDownloadNext(published.id, [published EXCEPT !.pc = "download"])
        /\ lastBlockId' = IF published'.pc = "send" THEN published.id ELSE lastBlockId
     \/ published.pc = "download" /\ Observe(None)
  /\ UNCHANGED <<tip, blocks, invs, inv, closed, cacheVars, tasks, asked, sink, unawaited>>

\* The subscribers of a new last block: lastObserved, then tryDownloadNext.
Publish ==
  /\ published # None
  /\ \/ published.pc = "observe" /\ Observe([published EXCEPT !.pc = "download"])
     \/ published.pc = "download" /\ TryDownloadNext(published.id, None) /\ UNCHANGED lastBlockId
  /\ UNCHANGED <<tip, blocks, invs, inv, closed, cacheVars, tasks, asked, sink, unawaited>>

-----------------------------------------------------------------------------
\* MicroBlockResponse: passed on if it is awaited.
Receive(p, m) ==
  /\ <<p, m>> \in asked /\ p \notin closed
  /\ asked' = asked \ {<<p, m>>}
  /\ successfullyReceived' = successfullyReceived \union {m}
  /\ IF m \in awaiting
     THEN awaiting' = awaiting \ {m} /\ sink' = Append(sink, m) /\ UNCHANGED unawaited
     ELSE UNCHANGED <<awaiting, sink>> /\ unawaited' = unawaited \union {m}
  /\ UNCHANGED <<nodeVars, invs, inv, closed, microBlockOwners, nextInvs, tasks>>

Switch(id) == tip' = id /\ published' = [id |-> id, pc |-> "observe", ask |-> None]

\* processMicroBlock, refused if it does not continue the last block.
AppendMicroBlock ==
  /\ sink # <<>> /\ published = None
  /\ sink' = Tail(sink)
  /\ IF Prev[Head(sink)] = tip THEN Switch(Head(sink)) ELSE UNCHANGED <<tip, published>>
  /\ UNCHANGED <<blocks, lastBlockId, invs, inv, closed, cacheVars, tasks, asked, unawaited>>

\* A key block, on top or instead of what is there, or a rollback to one.
AppendBlock(b) ==
  /\ published = None /\ b # tip /\ blocks < MaxBlocks
  /\ blocks' = blocks + 1
  /\ Switch(b)
  /\ UNCHANGED <<lastBlockId, invs, inv, closed, cacheVars, tasks, asked, sink, unawaited>>

Close(p) ==
  /\ p \in Flaky \ closed
  /\ closed' = closed \union {p}
  /\ UNCHANGED <<nodeVars, invs, inv, cacheVars, tasks, asked, sink, unawaited>>

\* inv-cache-timeout is far longer than a handler, a task or an answer in time.
Quiet(m) ==
  /\ inv = None /\ published = None
  /\ \A k \in tasks : k.micro # m
  /\ \A p \in Peers \ Flaky : <<p, m>> \notin asked

\* The entries of the caches expire.
ExpireInv(m) ==
  /\ Quiet(m) /\ microBlockOwners[m] # {}
  /\ microBlockOwners' = [microBlockOwners EXCEPT ![m] = {}]
  /\ nextInvs' = [nextInvs EXCEPT ![Prev[m]] = IF @ = m THEN None ELSE @]
  /\ UNCHANGED <<nodeVars, invs, inv, closed, awaiting, successfullyReceived, tasks, asked, sink, unawaited>>

ExpireAwaiting(m) ==
  /\ Quiet(m) /\ m \in awaiting
  /\ awaiting' = awaiting \ {m}
  /\ UNCHANGED <<nodeVars, invs, inv, closed, microBlockOwners, nextInvs, successfullyReceived, tasks, asked, sink, unawaited>>

ExpireReceived(m) ==
  /\ Quiet(m) /\ m \in successfullyReceived
  /\ successfullyReceived' = successfullyReceived \ {m}
  /\ UNCHANGED <<nodeVars, invs, inv, closed, microBlockOwners, nextInvs, awaiting, tasks, asked, sink, unawaited>>

Init ==
  /\ tip = Start /\ lastBlockId = Start /\ blocks = 0 /\ published = None
  /\ invs = Invs /\ inv = None /\ closed = {}
  /\ microBlockOwners = [m \in MicroBlocks |-> {}]
  /\ nextInvs = [id \in Ids |-> None]
  /\ awaiting = {} /\ successfullyReceived = {}
  /\ tasks = {} /\ asked = {} /\ sink = <<>> /\ unawaited = {}

Next ==
  \/ HandleInv \/ Publish \/ SendRequest \/ RunTask \/ AppendMicroBlock
  \/ \E p \in Peers, m \in MicroBlocks : RememberInv(p, m) \/ Receive(p, m)
  \/ \E b \in KeyBlocks : AppendBlock(b)
  \/ \E p \in Peers : Close(p)
  \/ \E m \in MicroBlocks : ExpireInv(m) \/ ExpireAwaiting(m) \/ ExpireReceived(m)

Spec == Init /\ [][Next]_vars

\* The threads go on with their work, and peers that are not flaky answer.
FairSpec ==
  /\ Spec
  /\ WF_vars(HandleInv) /\ WF_vars(Publish \/ SendRequest) /\ WF_vars(RunTask) /\ WF_vars(AppendMicroBlock)
  /\ \A p \in Peers \ Flaky, m \in MicroBlocks : WF_vars(Receive(p, m))

-----------------------------------------------------------------------------
\* The continuation of the last block has been announced by a peer that
\* answers, and either that announcement is being handled or the block is being
\* published, on two threads and in any order.
Wanted(m) ==
  /\ Prev[m] = tip /\ nextInvs[tip] = m
  /\ m \notin awaiting \union successfullyReceived
  /\ microBlockOwners[m] \ Flaky # {}
  /\ \/ inv # None /\ inv[2] = m
     \/ published # None /\ published.id = tip

\* Then the node moves on: neither the race of the two threads, nor a flaky
\* owner that is asked first, nor a second task for the same microblock makes
\* it miss the microblock.  The exception is an answer that came when nobody
\* awaited it any more: it is remembered as received and thrown away.
NextIsFetched == \A m \in MicroBlocks : Wanted(m) ~> (tip # Prev[m] \/ m \in unawaited)
=============================================================================
