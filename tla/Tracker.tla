------------------------------ MODULE Tracker ------------------------------
(***************************************************************************)
(* exposure.Tracker: the in-memory position of every currency, shared by   *)
(* the REST handlers, the gRPC server and the snapshotter.  Every method   *)
(* of the code runs under one RWMutex, so every operator below that primes *)
(* a variable is one indivisible step of the composed specifications.      *)
(*                                                                         *)
(* A Go map is a total function here together with the set of its keys,    *)
(* because the code tells "no entry" from a zero entry (GetExposure        *)
(* returns nil only when net has no key).                                  *)
(***************************************************************************)
EXTENDS Domain

CONSTANTS
  EventId,      \* non-empty event ids
  NoEvent,      \* the empty event id: no idempotency guard
  NoExposure,   \* the nil *domain.Exposure
  Channel,      \* subscriber channels (snapshotter, gRPC streams)
  ChannelCap    \* ChannelCap[ch]: the buffer size of ch

ASSUME TrackerAssumption ==
  /\ NoEvent \notin EventId /\ NoExposure \notin Exposure
  /\ ChannelCap \in [Channel -> Nat]

VARIABLES
  net,          \* net[c]: signed net exposure
  netKeys,      \* the currencies net has an entry for
  coverage,     \* coverage[c]: hedge coverage
  coverageKeys, \* the currencies coverage has an entry for
  updatedAt,    \* updatedAt[c]: instant of c's last update, 0 the zero time
  seen,         \* the event ids already ingested
  subs,         \* the registered channels
  queue         \* queue[ch]: snapshots buffered in ch

positionVars == <<net, netKeys, coverage, coverageKeys, updatedAt>>
trackerVars == <<positionVars, seen, subs, queue>>

TrackerTypeOK ==
  /\ net \in [Currency -> Int]
  /\ netKeys \in SUBSET Currency
  /\ coverage \in [Currency -> Int]
  /\ coverageKeys \in SUBSET Currency
  /\ updatedAt \in [Currency -> Nat]
  /\ seen \in SUBSET EventId
  /\ subs \in SUBSET Channel
  /\ queue \in [Channel -> Seq(Exposure)]

(* exposure.New *)
TrackerInit ==
  /\ net = [c \in Currency |-> 0]
  /\ netKeys = {}
  /\ coverage = [c \in Currency |-> 0]
  /\ coverageKeys = {}
  /\ updatedAt = [c \in Currency |-> 0]
  /\ seen = {}
  /\ subs = {}
  /\ queue = [ch \in Channel |-> <<>>]

-----------------------------------------------------------------------------
Open(c) == net[c] - coverage[c]

Snapshot(c) ==
  [currency |-> c, netAmount |-> net[c], hedgeCoverage |-> coverage[c],
   openAmount |-> Open(c), updatedAt |-> updatedAt[c]]

GetExposure(c) == IF c \in netKeys THEN Snapshot(c) ELSE NoExposure

AllExposures == {Snapshot(c) : c \in netKeys \cup coverageKeys}

(* The non-blocking send to every subscriber: a full channel loses snap. *)
Notify(snap) ==
  queue' = [ch \in Channel |->
              IF ch \in subs /\ Len(queue[ch]) < ChannelCap[ch]
                THEN Append(queue[ch], snap) ELSE queue[ch]]

applyDelta(c, amount) ==
  /\ net' = [net EXCEPT ![c] = @ + amount]
  /\ netKeys' = netKeys \cup {c}
  /\ updatedAt' = [updatedAt EXCEPT ![c] = @ + 1]
  /\ UNCHANGED <<coverage, coverageKeys, subs>>
  /\ Notify(Snapshot(c)')

AddExposure(c, amount) ==
  /\ applyDelta(c, amount)
  /\ UNCHANGED seen

(* AddEvent that forgets to look the id up before it applies the delta. *)
AddEventUnchecked(c, amount, e) ==
  /\ seen' = seen \cup {e}
  /\ applyDelta(c, amount)

(* AddEvent with a non-empty id: the lookup, the insertion and the delta   *)
(* are one critical section.                                               *)
AddEvent(c, amount, e) ==
  \/ /\ e \in seen
     /\ UNCHANGED trackerVars
  \/ /\ e \notin seen
     /\ seen' = seen \cup {e}
     /\ applyDelta(c, amount)

(* AddCoverage that leaves the instant of the last update alone. *)
AddCoverageUntimed(c, amount) ==
  /\ coverage' = [coverage EXCEPT ![c] = @ + amount]
  /\ coverageKeys' = coverageKeys \cup {c}
  /\ UNCHANGED <<net, netKeys, updatedAt, seen, subs>>
  /\ Notify(Snapshot(c)')

AddCoverage(c, amount) ==
  /\ coverage' = [coverage EXCEPT ![c] = @ + amount]
  /\ coverageKeys' = coverageKeys \cup {c}
  /\ updatedAt' = [updatedAt EXCEPT ![c] = @ + 1]
  /\ UNCHANGED <<net, netKeys, seen, subs>>
  /\ Notify(Snapshot(c)')

Subscribe(ch) ==
  /\ subs' = subs \cup {ch}
  /\ UNCHANGED <<positionVars, seen, queue>>

Unsubscribe(ch) ==
  /\ subs' = subs \ {ch}
  /\ UNCHANGED <<positionVars, seen, queue>>
=============================================================================
