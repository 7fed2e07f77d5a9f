--------------------------- MODULE ScoreObserver ---------------------------
(***************************************************************************)
(* Which peer the node synchronises with: network/RxScoreObserver.scala.   *)
(*                                                                         *)
(* The observer merges three streams on one thread: the node's own scores, *)
(* the scores peers announce, and the channels that closed or timed out.   *)
(* After each item it computes the best channel again and publishes it,    *)
(* with the channel that closed, unless it would repeat the last item.     *)
(***************************************************************************)
EXTENDS Integers, Sequences, FiniteSetsExt, Functions

CONSTANTS Channels, NoChannel

ASSUME ChannelAssumption == NoChannel \notin Channels

VARIABLES
  open,          \* channels still open (ch.isOpen)
  localScores,   \* queue: scores of the node's own chain, not yet observed
  announced,     \* the score a channel announced last and the observer has not taken, or 0
  closedNotes,   \* channels whose closing the observer has not seen
  timeoutNotes,  \* channels of timeoutSubject the observer has not seen
  scores,        \* the cache of remote scores
  localScore, currentBestChannel,
  emitted,       \* the last item, for distinctUntilChanged and for lastObserved
  events         \* queue: the items published and not yet handled by the extension loader

observerVars == <<open, localScores, announced, closedNotes, timeoutNotes,
                  scores, localScore, currentBestChannel, emitted, events>>

NoSync == [ch |-> NoChannel, score |-> 0]
Nothing == [closed |-> NoChannel, sync |-> [ch |-> NoChannel, score |-> -1]]

-----------------------------------------------------------------------------
\* The channels with the best score; the current one is kept if it is among
\* them, else any may be the head of the list.
CalcSyncWith(best, local, sc) ==
  LET bestScore == Max({0} \union Range(sc))
      bestChannels == {ch \in DOMAIN sc : sc[ch] = bestScore}
  IN IF bestScore > local /\ bestChannels # {}
     THEN {[ch |-> ch, score |-> bestScore] :
             ch \in IF best \in bestChannels THEN {best} ELSE bestChannels}
     ELSE {NoSync}

\* The common end of the three streams; closed is the channel of the item.
Publish(closed) ==
  \E sw \in CalcSyncWith(IF currentBestChannel = closed THEN NoChannel ELSE currentBestChannel,
                         localScore', scores') :
    LET item == [closed |-> closed, sync |-> sw]
    IN /\ currentBestChannel' = sw.ch
       /\ emitted' = item
       /\ events' = IF item = emitted THEN events ELSE Append(events, item)

\* ls: a new score of the node's own chain.
LocalScoreSeen ==
  /\ localScores # <<>>
  /\ localScores' = Tail(localScores)
  /\ localScore' = Head(localScores)
  /\ UNCHANGED <<open, announced, closedNotes, timeoutNotes, scores>>
  /\ IF Head(localScores) = localScore
     THEN UNCHANGED <<currentBestChannel, emitted, events>>
     ELSE Publish(NoChannel)

\* Mutant: the announced score is taken even if its channel has closed meanwhile.
RemoteScoreSeenLate(ch) ==
  /\ announced[ch] # 0
  /\ announced' = [announced EXCEPT ![ch] = 0]
  /\ UNCHANGED <<open, localScores, closedNotes, timeoutNotes, localScore>>
  /\ scores' = [c \in DOMAIN scores \union {ch} |-> IF c = ch THEN announced[ch] ELSE scores[c]]
  /\ Publish(NoChannel)

\* rs: a peer's score, debounced, is taken only while its channel is open.
RemoteScoreSeen(ch) ==
  /\ announced[ch] # 0
  /\ announced' = [announced EXCEPT ![ch] = 0]
  /\ UNCHANGED <<open, localScores, closedNotes, timeoutNotes, localScore>>
  /\ IF ch \in open
     THEN /\ scores' = [c \in DOMAIN scores \union {ch} |-> IF c = ch THEN announced[ch] ELSE scores[c]]
          /\ Publish(NoChannel)
     ELSE UNCHANGED <<scores, currentBestChannel, emitted, events>>

\* cc: a channel has closed, or the extension loader gave it up.
ChannelGone(ch) ==
  /\ \/ ch \in closedNotes /\ closedNotes' = closedNotes \ {ch} /\ UNCHANGED timeoutNotes
     \/ ch \in timeoutNotes /\ timeoutNotes' = timeoutNotes \ {ch} /\ UNCHANGED closedNotes
  /\ scores' = Restrict(scores, DOMAIN scores \ {ch})
  /\ UNCHANGED <<open, localScores, announced, localScore>>
  /\ Publish(ch)

\* An entry of the cache expires (expireAfterWrite) without an item.
ScoreExpires(ch) ==
  /\ ch \in DOMAIN scores
  /\ scores' = Restrict(scores, DOMAIN scores \ {ch})
  /\ UNCHANGED <<open, localScores, announced, closedNotes, timeoutNotes, localScore,
                 currentBestChannel, emitted, events>>

ObserverStep ==
  \/ LocalScoreSeen
  \/ \E ch \in Channels : RemoteScoreSeen(ch) \/ ChannelGone(ch)
=============================================================================
