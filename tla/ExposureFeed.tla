---------------------------- MODULE ExposureFeed ----------------------------
(***************************************************************************)
(* The consumers of exposure.Tracker's snapshots: the Snapshotter, which   *)
(* persists what arrives on its channel and, on every tick, the position   *)
(* of every currency; and the gRPC handler StreamExposure.  A step is one  *)
(* critical section of the tracker or of the store, or one channel receive *)
(* with what is done to the value.                                         *)
(*                                                                         *)
(* Positions change by whole calls of AddExposure and AddCoverage.         *)
(***************************************************************************)
EXTENDS Tracker, FiniteSetsExt

CONSTANTS
  SnapChannel,  \* the channel NewSnapshotter makes
  Stream,       \* the channels StreamExposure makes, one for each stream
  Change,       \* the amounts positions change by
  MaxChanges    \* bound: updates of all currencies

ASSUME FeedAssumption ==
  /\ Channel = Stream \cup {SnapChannel} /\ SnapChannel \notin Stream
  /\ Change \subseteq Int /\ MaxChanges \in Nat

VARIABLES
  expRows,   \* the rows of MemStore.expRows, equal rows kept once
  ticked,    \* the snapshots of a tick that are not persisted yet
  snapPc,    \* "running" or "returned": Snapshotter.Run
  stopPc,    \* "none", "waiting" or "returned": Snapshotter.Stop
  streamPc,  \* streamPc[ch]: "closed", "first", "open" or "done"
  wanted,    \* wanted[ch]: the currency of the stream
  sent       \* sent[ch]: what was sent to the client

feedVars == <<expRows, ticked, snapPc, stopPc, streamPc, wanted, sent>>
exposureFeedVars == <<trackerVars, feedVars>>

FeedTypeOK ==
  /\ TrackerTypeOK
  /\ expRows \subseteq Exposure
  /\ ticked \subseteq Exposure
  /\ snapPc \in {"running", "returned"}
  /\ stopPc \in {"none", "waiting", "returned"}
  /\ streamPc \in [Stream -> {"closed", "first", "open", "done"}]
  /\ wanted \in [Stream -> Currency]
  /\ sent \in [Stream -> Seq(Exposure)]
  /\ \A ch \in Channel : Len(queue[ch]) <= ChannelCap[ch]

(* NewSnapshotter subscribes before any request is served. *)
FeedInit ==
  /\ net = [c \in Currency |-> 0] /\ netKeys = {}
  /\ coverage = [c \in Currency |-> 0] /\ coverageKeys = {}
  /\ updatedAt = [c \in Currency |-> 0]
  /\ seen = {}
  /\ subs = {SnapChannel}
  /\ queue = [ch \in Channel |-> <<>>]
  /\ expRows = {}
  /\ ticked = {}
  /\ snapPc = "running"
  /\ stopPc = "none"
  /\ streamPc = [ch \in Stream |-> "closed"]
  /\ wanted \in [Stream -> Currency]
  /\ sent = [ch \in Stream |-> <<>>]

-----------------------------------------------------------------------------
PositionChanges ==
  /\ MapThenSumSet(LAMBDA c : updatedAt[c], Currency) < MaxChanges
  /\ \E c \in Currency, a \in Change : AddExposure(c, a) \/ AddCoverage(c, a)
  /\ UNCHANGED feedVars

Receive(ch) ==
  /\ queue[ch] # <<>>
  /\ queue' = [queue EXCEPT ![ch] = Tail(@)]
  /\ UNCHANGED <<positionVars, seen, subs>>

(* MemStore.AppendExposureSnapshot.  ExposureSnapshots sorts the rows by   *)
(* UpdatedAt, so the order they were appended in is not kept.              *)
AppendExposureSnapshot(e) == expRows' = expRows \cup {e}

(* One turn of Snapshotter.Run's loop on the channel. *)
PersistChange ==
  /\ snapPc = "running" /\ ticked = {}
  /\ Receive(SnapChannel)
  /\ AppendExposureSnapshot(Head(queue[SnapChannel]))
  /\ UNCHANGED <<ticked, snapPc, stopPc, streamPc, wanted, sent>>

(* A tick that does nothing. *)
TickIgnored ==
  /\ snapPc = "running" /\ ticked = {}
  /\ UNCHANGED exposureFeedVars

(* The ticker fires: AllExposures is one critical section,                 *)
(* and each of its snapshots is persisted in one of its own.               *)
Tick ==
  /\ snapPc = "running" /\ ticked = {}
  /\ ticked' = AllExposures
  /\ UNCHANGED <<trackerVars, expRows, snapPc, stopPc, streamPc, wanted, sent>>

PersistTicked ==
  /\ \E e \in ticked :
       /\ ticked' = ticked \ {e}
       /\ AppendExposureSnapshot(e)
  /\ UNCHANGED <<trackerVars, snapPc, stopPc, streamPc, wanted, sent>>

(* The context of Run is cancelled. *)
Cancelled ==
  /\ snapPc = "running" /\ ticked = {}
  /\ snapPc' = "returned"
  /\ UNCHANGED <<trackerVars, expRows, ticked, stopPc, streamPc, wanted, sent>>

(* Snapshotter.Stop unsubscribes the channel and waits for Run. *)
Stop ==
  /\ stopPc = "none"
  /\ stopPc' = "waiting"
  /\ Unsubscribe(SnapChannel)
  /\ UNCHANGED <<expRows, ticked, snapPc, streamPc, wanted, sent>>

StopReturns ==
  /\ stopPc = "waiting" /\ snapPc = "returned"
  /\ stopPc' = "returned"
  /\ UNCHANGED <<trackerVars, expRows, ticked, snapPc, streamPc, wanted, sent>>

-----------------------------------------------------------------------------
(* StreamExposure subscribes first and reads the position afterwards. *)
OpenStream(ch) ==
  /\ streamPc[ch] = "closed"
  /\ streamPc' = [streamPc EXCEPT ![ch] = "first"]
  /\ Subscribe(ch)
  /\ UNCHANGED <<expRows, ticked, snapPc, stopPc, wanted, sent>>

(* A stream that waits for the first update. *)
SendFirstSkipped(ch) ==
  /\ streamPc[ch] = "first"
  /\ streamPc' = [streamPc EXCEPT ![ch] = "open"]
  /\ UNCHANGED <<trackerVars, expRows, ticked, snapPc, stopPc, wanted, sent>>

SendFirst(ch) ==
  /\ streamPc[ch] = "first"
  /\ streamPc' = [streamPc EXCEPT ![ch] = "open"]
  /\ sent' = IF wanted[ch] \in netKeys
               THEN [sent EXCEPT ![ch] = Append(@, GetExposure(wanted[ch]))] ELSE sent
  /\ UNCHANGED <<trackerVars, expRows, ticked, snapPc, stopPc, wanted>>

(* A stream that does not look at the currency of a snapshot. *)
SendAnyUpdate(ch) ==
  /\ streamPc[ch] = "open"
  /\ Receive(ch)
  /\ sent' = [sent EXCEPT ![ch] = Append(@, Head(queue[ch]))]
  /\ UNCHANGED <<expRows, ticked, snapPc, stopPc, streamPc, wanted>>

SendUpdate(ch) ==
  /\ streamPc[ch] = "open"
  /\ Receive(ch)
  /\ sent' = IF Head(queue[ch]).currency = wanted[ch]
               THEN [sent EXCEPT ![ch] = Append(@, Head(queue[ch]))] ELSE sent
  /\ UNCHANGED <<expRows, ticked, snapPc, stopPc, streamPc, wanted>>

(* The client cancels, or a Send fails: the deferred Unsubscribe runs. *)
EndStream(ch) ==
  /\ \/ streamPc[ch] = "open"
     \/ streamPc[ch] = "first" /\ wanted[ch] \in netKeys
  /\ streamPc' = [streamPc EXCEPT ![ch] = "done"]
  /\ Unsubscribe(ch)
  /\ UNCHANGED <<expRows, ticked, snapPc, stopPc, wanted, sent>>

StreamStep(ch) == SendFirst(ch) \/ SendUpdate(ch)

FeedNext ==
  \/ PositionChanges
  \/ PersistChange \/ Tick \/ PersistTicked \/ Cancelled \/ Stop \/ StopReturns
  \/ \E ch \in Stream : OpenStream(ch) \/ StreamStep(ch) \/ EndStream(ch)

FeedSpec == FeedInit /\ [][FeedNext]_exposureFeedVars

(* The snapshotter's goroutine is scheduled again and again, the ticker    *)
(* keeps firing, and select picks at random among the cases that are       *)
(* ready, so none is passed over for ever; a stream's Send returns.  That  *)
(* the context is cancelled, or a stream ended, is never owed.             *)
FairFeedSpec ==
  /\ FeedSpec
  /\ SF_exposureFeedVars(PersistChange) /\ SF_exposureFeedVars(Tick)
  /\ WF_exposureFeedVars(PersistTicked) /\ WF_exposureFeedVars(StopReturns)
  /\ \A ch \in Stream : WF_exposureFeedVars(StreamStep(ch))

-----------------------------------------------------------------------------
(***************************************************************************)
(* Properties.                                                             *)
(***************************************************************************)
Views ==
  expRows \cup ticked
    \cup (UNION {{queue[ch][i] : i \in DOMAIN queue[ch]} : ch \in Channel})
    \cup (UNION {{sent[ch][i] : i \in DOMAIN sent[ch]} : ch \in Stream})

(* The snapshots of Tracker.applyDelta, AddCoverage, GetExposure and       *)
(* AllExposures agree wherever they went: two with the same currency and   *)
(* instant are equal, so ExposureSnapshots has no ties to break, none is   *)
(* from the future, and one of the latest instant is the position.         *)
ConsistentViews ==
  /\ \A e, f \in Views : e.currency = f.currency /\ e.updatedAt = f.updatedAt => e = f
  /\ \A e \in Views : /\ e.updatedAt <= updatedAt[e.currency]
                      /\ e.updatedAt = updatedAt[e.currency] => e = Snapshot(e.currency)

(* A StreamExposure client only gets snapshots of its currency, and the    *)
(* updates after its first message in the order they happened, whatever    *)
(* the buffer dropped.                                                     *)
UpdatesInOrder ==
  \A ch \in Stream : \A i, j \in DOMAIN sent[ch] :
    /\ sent[ch][i].currency = wanted[ch]
    /\ 1 < i /\ i < j => sent[ch][i].updatedAt < sent[ch][j].updatedAt

Persisted(c, n) == \E e \in expRows : e.currency = c /\ e.updatedAt >= n

(* Every update is persisted by Snapshotter.Run, or a later position of    *)
(* its currency is, even if the channel was full: the next tick makes up   *)
(* for it, after Stop as well.                                             *)
SnapshotsCatchUp ==
  \A c \in Currency, n \in 1 .. MaxChanges :
    updatedAt[c] = n ~> Persisted(c, n) \/ snapPc = "returned"

Streamed(ch, n) == \E i \in DOMAIN sent[ch] : sent[ch][i].updatedAt >= n

(* A StreamExposure client gets the position there was when it subscribed, *)
(* or a later one, and every update that found room in its channel: only a *)
(* full channel loses updates, and an update between the subscription and  *)
(* the first message is not lost.                                          *)
StreamDelivers ==
  \A ch \in Stream, n \in 1 .. MaxChanges :
    (\/ streamPc[ch] = "first" /\ wanted[ch] \in netKeys /\ updatedAt[wanted[ch]] = n
     \/ \E i \in DOMAIN queue[ch] : /\ queue[ch][i].currency = wanted[ch]
                                    /\ queue[ch][i].updatedAt = n)
      ~> Streamed(ch, n) \/ streamPc[ch] = "done"
=============================================================================
