------------------------------ MODULE Delivery ------------------------------
(***************************************************************************)
(* The outbound clients: AuditClient.Emit and ReconClient.publish, called  *)
(* by any number of handler goroutines, and the in-memory dead-letter      *)
(* store.  Both post a record with an idempotency key, retry twice and     *)
(* dead-letter the record when the last attempt fails; Emit does all of it *)
(* under the client's mutex, publish holds no lock.  One attempt is one    *)
(* step: the request, its answer or the lack of one.  The callers pass     *)
(* context.Background(), so no call is cancelled.                          *)
(*                                                                         *)
(* The receiving service is external.  It keeps the first record it gets   *)
(* under a key; a request the client gave up on may have been stored, be   *)
(* lost or be stored at any later time.  Of Kafka, stored is the order in  *)
(* which the brokers took the messages; how a consumer merges the          *)
(* partitions of the topic is not modelled.                                *)
(***************************************************************************)
EXTENDS Naturals, Sequences, FiniteSets

CONSTANTS
  Sender,      \* goroutines that call the client
  NoSender,    \* nobody
  Record,      \* the records, each passed to the client once
  NoRecord,    \* a goroutine that sends nothing
  KeyOf,       \* KeyOf[r]: the Idempotency-Key of r
  Modes        \* the clients and transports the service may start with

ASSUME DeliveryAssumption ==
  /\ NoSender \notin Sender /\ NoRecord \notin Record
  /\ Record = DOMAIN KeyOf
  /\ Modes \subseteq [client: {"audit"}, transport: {"http", "kafka", "none"}]
               \cup [client: {"recon"}, transport: {"http", "none"}]

VARIABLES
  mode,         \* which client this is, and its transport (NewAuditClient)
  sendPc,       \* sendPc[s]: the step of s
  sending,      \* sending[s]: the record s passes
  attempt,      \* attempt[s]: failed attempts so far
  holder,       \* who holds AuditClient.mu
  emitted,      \* the records in the order their calls began
  underway,     \* requests that may still arrive
  stored,       \* what the receiving service keeps, oldest first
  deadLetters,  \* MemDeadLetter.row
  result        \* result[r]: what the call for r returned

deliveryVars == <<mode, sendPc, sending, attempt, holder, emitted, underway,
                  stored, deadLetters, result>>

(* Emit runs under the client's mutex, publish under none. *)
Serialised == mode.client = "audit"

(* The client posts up to three times; the Kafka writer is called once. *)
Attempts == IF mode.transport = "kafka" THEN 1 ELSE 3

DeliveryTypeOK ==
  /\ mode \in Modes
  /\ sendPc \in [Sender -> {"idle", "enter", "post"}]
  /\ sending \in [Sender -> Record \cup {NoRecord}]
  /\ \A s \in Sender : sending[s] = NoRecord <=> sendPc[s] = "idle"
  /\ attempt \in [Sender -> 0 .. Attempts - 1]
  /\ holder \in Sender \cup {NoSender}
  /\ underway \subseteq Record
  /\ {emitted, stored, deadLetters} \subseteq Seq(Record)
  /\ result \in [Record -> {"none", "ok", "rejected", "unavailable"}]

DeliveryInit ==
  /\ mode \in Modes
  /\ sendPc = [s \in Sender |-> "idle"]
  /\ sending = [s \in Sender |-> NoRecord]
  /\ attempt = [s \in Sender |-> 0]
  /\ holder = NoSender
  /\ emitted = <<>>
  /\ underway = {}
  /\ stored = <<>>
  /\ deadLetters = <<>>
  /\ result = [r \in Record |-> "none"]

-----------------------------------------------------------------------------
(* The receiving service has a record under the key of r. *)
KeyStored(r) == \E i \in DOMAIN stored : KeyOf[stored[i]] = KeyOf[r]

(* The receiving service gets r. *)
Store(r) == stored' = IF KeyStored(r) THEN stored ELSE Append(stored, r)

(* A return that does not release the mutex. *)
ReturnLocked(s, res) ==
  /\ sendPc' = [sendPc EXCEPT ![s] = "idle"]
  /\ sending' = [sending EXCEPT ![s] = NoRecord]
  /\ attempt' = [attempt EXCEPT ![s] = 0]
  /\ result' = [result EXCEPT ![sending[s]] = res]
  /\ UNCHANGED holder

(* The call returns, and the deferred Unlock runs. *)
Return(s, res) ==
  /\ sendPc' = [sendPc EXCEPT ![s] = "idle"]
  /\ sending' = [sending EXCEPT ![s] = NoRecord]
  /\ attempt' = [attempt EXCEPT ![s] = 0]
  /\ result' = [result EXCEPT ![sending[s]] = res]
  /\ holder' = NoSender

Call(s) ==
  /\ sendPc[s] = "idle"
  /\ sendPc' = [sendPc EXCEPT ![s] = "enter"]
  /\ \E r \in Record :
       /\ result[r] = "none"
       /\ \A t \in Sender : sending[t] # r
       /\ sending' = [sending EXCEPT ![s] = r]
  /\ UNCHANGED <<mode, attempt, holder, emitted, underway, stored, deadLetters, result>>

(* A mutex that is released before the post. *)
EnterBriefly(s) ==
  /\ sendPc[s] = "enter"
  /\ emitted' = Append(emitted, sending[s])
  /\ sendPc' = [sendPc EXCEPT ![s] = "post"]
  /\ UNCHANGED <<mode, sending, attempt, holder, underway, stored, deadLetters, result>>

(* Emit locks the mutex; without a URL nothing is sent. *)
Enter(s) ==
  /\ sendPc[s] = "enter"
  /\ Serialised => holder = NoSender
  /\ emitted' = Append(emitted, sending[s])
  /\ \/ /\ mode.transport = "none"
        /\ Return(s, "ok")
     \/ /\ mode.transport # "none"
        /\ sendPc' = [sendPc EXCEPT ![s] = "post"]
        /\ holder' = IF Serialised THEN s ELSE NoSender
        /\ UNCHANGED <<sending, attempt, result>>
  /\ UNCHANGED <<mode, underway, stored, deadLetters>>

(* A 2xx answer. *)
Accepted(s) ==
  /\ sendPc[s] = "post"
  /\ Store(sending[s])
  /\ Return(s, "ok")
  /\ UNCHANGED <<mode, emitted, underway, deadLetters>>

(* A 400 answer: an error, without a retry. *)
Rejected(s) ==
  /\ sendPc[s] = "post"
  /\ mode.transport = "http"
  /\ Return(s, "rejected")
  /\ UNCHANGED <<mode, emitted, underway, stored, deadLetters>>

(* A failed attempt that is dead-lettered each time. *)
FailedNoting(s) ==
  /\ sendPc[s] = "post"
  /\ Store(sending[s]) \/ UNCHANGED stored
  /\ deadLetters' = Append(deadLetters, sending[s])
  /\ \/ /\ attempt[s] < Attempts - 1
        /\ attempt' = [attempt EXCEPT ![s] = @ + 1]
        /\ UNCHANGED <<sendPc, sending, holder, result>>
     \/ /\ attempt[s] = Attempts - 1
        /\ Return(s, "unavailable")
  /\ UNCHANGED <<mode, emitted, underway>>

(* No answer in time, or any other status: the call backs off and retries  *)
(* or, after the last attempt, dead-letters the record.                    *)
Failed(s) ==
  /\ sendPc[s] = "post"
  /\ Store(sending[s]) \/ UNCHANGED stored
  /\ underway' = underway \cup {sending[s]}
  /\ \/ /\ attempt[s] < Attempts - 1
        /\ attempt' = [attempt EXCEPT ![s] = @ + 1]
        /\ UNCHANGED <<sendPc, sending, holder, deadLetters, result>>
     \/ /\ attempt[s] = Attempts - 1
        /\ deadLetters' = Append(deadLetters, sending[s])
        /\ Return(s, "unavailable")
  /\ UNCHANGED <<mode, emitted>>

LateArrives ==
  /\ \E r \in underway :
       /\ underway' = underway \ {r}
       /\ Store(r)
  /\ UNCHANGED <<mode, sendPc, sending, attempt, holder, emitted, deadLetters, result>>

ClientStep(s) == Enter(s) \/ Accepted(s) \/ Rejected(s) \/ Failed(s)

DeliveryNext ==
  \/ \E s \in Sender : Call(s) \/ ClientStep(s)
  \/ LateArrives

DeliverySpec == DeliveryInit /\ [][DeliveryNext]_deliveryVars

(* A request ends, at the latest, with the HTTP client's timeout or the    *)
(* Kafka writer's; sync.Mutex hands itself to a waiter that was passed     *)
(* over for long, hence the strong fairness of Enter.                      *)
FairDeliverySpec ==
  DeliverySpec /\ \A s \in Sender : /\ WF_deliveryVars(ClientStep(s))
                                    /\ SF_deliveryVars(Enter(s))

-----------------------------------------------------------------------------
Count(seq, r) == Cardinality({i \in DOMAIN seq : seq[i] = r})

(* No record is lost silently and none is dead-lettered in vain: a call    *)
(* that returned nil was stored under its key, one that gave up is in the  *)
(* dead-letter store exactly once, and nothing else is.                    *)
Accounted ==
  \A r \in Record :
    /\ result[r] = "ok" /\ mode.transport # "none" => KeyStored(r)
    /\ Count(deadLetters, r) = IF result[r] = "unavailable" THEN 1 ELSE 0

(* Audit events are stored in the order their Emit calls took the mutex,   *)
(* whichever attempts fail, whichever answers are lost: an event that is   *)
(* stored after one emitted later is one whose Emit had given up, and of   *)
(* which a request was still on its way.                                   *)
AuditOrdered ==
  Serialised => \A i, j \in DOMAIN stored : i < j =>
    \/ \E m, n \in DOMAIN emitted :
         m < n /\ emitted[m] = stored[i] /\ emitted[n] = stored[j]
    \/ result[stored[j]] \in {"rejected", "unavailable"}

(* Every call returns: three attempts at most, and no caller is left       *)
(* waiting for AuditClient.mu.                                             *)
CallReturns == \A s \in Sender : sendPc[s] = "enter" ~> sendPc[s] = "idle"

(* As publishExecutionToRecon is documented: per-fill execution records    *)
(* are published, so every record that was accepted is kept.               *)
EveryRecordKept ==
  \A r \in Record : result[r] = "ok" => \E i \in DOMAIN stored : stored[i] = r
=============================================================================
