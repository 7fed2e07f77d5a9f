------------------------- MODULE BlockchainUpdates -------------------------
(***************************************************************************)
(* The event stream of the updater and the extension that writes it to     *)
(* Kafka: state/BlockchainUpdated.scala and                                *)
(* blockchain-updates/.../events/BlockchainUpdates.scala.                  *)
(*                                                                         *)
(* Every event carries a height.  Events pass through an asynchronous      *)
(* subject and the producer's buffer, in order; what is still there when   *)
(* the node stops is lost.  At the start the extension compares the height *)
(* of the last event in Kafka with the node's and rolls the node back.     *)
(* Kafka itself is external: it keeps what was delivered.                  *)
(***************************************************************************)
EXTENDS BlockchainUpdater

CONSTANT MaxPending   \* what the producer buffers before send blocks
ASSUME PendingAssumption == MaxPending \in Nat \ {0}

VARIABLES
  pending,  \* heights of events sent and not delivered, repetitions collapsed
  kafka,    \* height of the last event in the topic, 0 if there is none
  node      \* "up", "starting", "rewinding" or "failed"

eventVars == <<vars, pending, kafka, node>>

-----------------------------------------------------------------------------
LastEvent == IF pending = <<>> THEN kafka ELSE pending[Len(pending)]

\* onNext: the producer sends the event.
Announce ==
  /\ pending' = IF announced' = LastEvent THEN pending ELSE Append(pending, announced')
  /\ Len(pending') <= MaxPending

\* Steps of the running node with and without an event.
Loud ==
  /\ node = "up"
  /\ \/ \E b \in Blocks : ProcessBlock(b)
     \/ \E m \in Micros : ProcessMicroBlock(m)
     \/ \E id \in Ids : RemoveAfterInLiquid(id)
     \/ RemoveAfterDone
  /\ Announce
  /\ UNCHANGED <<kafka, node>>

Quiet ==
  /\ node = "up"
  /\ \/ \E id \in Ids : RemoveAfterRefused(id) \/ RemoveAfterStart(id)
     \/ RollbackStep
  /\ UNCHANGED <<pending, kafka, node>>

Deliver ==
  /\ pending # <<>>
  /\ kafka' = pending[1]
  /\ pending' = SubSeq(pending, 2, Len(pending))
  /\ UNCHANGED <<vars, node>>

\* The node stops, or is stopped by an error of the producer; the updater of the
\* next process publishes the last persisted block.
Crash ==
  /\ ng' = NoNg
  /\ rest' = MaxTotal
  /\ rolling' = 0
  /\ UNCHANGED <<chain, safe, announced>>
  /\ Publish
  /\ pending' = <<>>
  /\ node' = "starting"
  /\ UNCHANGED kafka

-----------------------------------------------------------------------------
\* startupCheck; the conditions of its exceptions.
NoEvents == kafka = 0 /\ Len(chain) > 1
BehindKafka == kafka > Len(chain) + 1 \/ (kafka # 0 /\ Len(chain) = 0)

\* Mutant: the node is rolled back to the height of the last event itself.
RollbackTargetOfLast == kafka

RollbackTarget == IF kafka > 1 THEN kafka - 1 ELSE 1

StartupRefused ==
  /\ node = "starting"
  /\ NoEvents \/ BehindKafka
  /\ node' = "failed"
  /\ UNCHANGED <<vars, pending, kafka>>

\* The topic is empty: there is nothing to compare; checkGenesis comes next.
StartupEmpty ==
  /\ node = "starting"
  /\ ~NoEvents /\ kafka = 0
  /\ Restart
  /\ IF chain = <<>> THEN Announce ELSE UNCHANGED pending
  /\ node' = "up"
  /\ UNCHANGED kafka

\* context.rollbackTo(blockInfo(heightToRollbackTo).get.signature)
StartupRewind ==
  /\ node = "starting"
  /\ ~BehindKafka /\ kafka # 0
  /\ RollbackTarget \in 1 .. Len(chain)
  /\ LET id == chain[RollbackTarget].block.id
     IN \/ RemoveAfterStart(id) /\ node' = "rewinding"
        \/ RemoveAfterRefused(id) /\ node' = "failed"
  /\ UNCHANGED <<pending, kafka>>

Rewinding ==
  /\ node = "rewinding"
  /\ \/ RollbackStep /\ UNCHANGED <<pending, node>>
     \/ RemoveAfterDone /\ Announce /\ node' = "up"
  /\ UNCHANGED kafka

\* The first start: an empty database, an empty topic, the genesis event sent.
EventInit == Init /\ pending = <<1>> /\ kafka = 0 /\ node = "up"

EventNext ==
  \/ Loud \/ Quiet \/ Deliver \/ Crash
  \/ StartupRefused \/ StartupEmpty \/ StartupRewind \/ Rewinding

EventSpec == EventInit /\ [][EventNext]_eventVars

-----------------------------------------------------------------------------
\* The last event sent carries the node's height, so that a consumer that has
\* read everything is where the node is.  Two gaps: a refused rollback drops
\* the liquid block without an event, and a topic that lost the first events
\* stays empty when the node restarts on genesis.
EventsFollowChain ==
  node = "up" /\ rolling = 0 =>
    \/ LastEvent = HeightOf(chain, ng)
    \/ ng = NoNg /\ LastEvent = Len(chain) + 1
    \/ ng = NoNg /\ LastEvent = 0 /\ Len(chain) = 1

\* "guaranteed not to fail by previous checks on heights": the block the start
\* rolls back to exists, whatever was lost between the node and the topic.
RollbackTargetExists ==
  node = "starting" /\ ~NoEvents /\ ~BehindKafka /\ kafka # 0 =>
    RollbackTarget \in 1 .. Len(chain)
=============================================================================
