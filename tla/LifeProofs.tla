----------------------------- MODULE LifeProofs -----------------------------
(***************************************************************************)
(* The process and what outlives a call or the process, each for every     *)
(* value of its constants: the live rate that is served, the connection    *)
(* pool, the migrations, the records Delivery hands over, and the tables   *)
(* ServiceLife leaves wherever the process ended.                          *)
(***************************************************************************)
EXTENDS LiveRate, ConnPool, Migrations, Delivery, ServiceLife, FiniteSetTheorems, TLAPS

-----------------------------------------------------------------------------
(***************************************************************************)
(* The live rate.  A rate that Get returned was recorded no later than the *)
(* rate the cache has when CrossCheck looks, because Update only ever      *)
(* replaces a rate by one recorded now.                                    *)
(***************************************************************************)
HeldRate == [kind: {"rate"}, currency: Priced, entry: RateEntry, got: Nat]
ServedRate == [kind: {"served"}, entry: RateEntry, got: Nat, latest: RateEntry, reval: Nat]

LiveRateInv ==
  /\ clock \in Nat
  /\ rates \in [Currency -> RateEntry \cup {NoRate}]
  /\ \A c \in Currency : rates[c] \in RateEntry => rates[c].at <= clock
  /\ reval \in [Currency -> Nat]
  /\ held \in [Pricer -> HeldRate \cup {Nothing}]
  /\ \A p \in Pricer : held[p] # Nothing =>
       /\ rates[held[p].currency] \in RateEntry
       /\ held[p].entry.at <= rates[held[p].currency].at
       /\ TTL > 0 => held[p].got - held[p].entry.at \in 0 .. TTL
  /\ answer \in [Pricer -> ServedRate \cup {Nothing, Error}]
  /\ ServedRateChecked

(* What ServedRateChecked says of one answer. *)
WellServed(a) ==
  a.kind = "served" =>
    /\ TTL > 0 => a.got - a.entry.at \in 0 .. TTL
    /\ a.entry.at <= a.latest.at
    /\ a.entry = a.latest => Within(a.entry.rate, a.reval)

(* The invariant behind ServedRateChecked is inductive. *)
LEMMA LiveRateInductive == LiveRateInv /\ [LiveRateNext]_liveRateVars => LiveRateInv'
<1> SUFFICES ASSUME LiveRateInv, [LiveRateNext]_liveRateVars PROVE LiveRateInv'
  BY Zenon
<1>0. /\ ServedRateChecked <=> \A p \in Pricer : WellServed(answer[p])
      /\ ServedRateChecked' <=> \A p \in Pricer : WellServed(answer'[p])
  BY Zenon DEF ServedRateChecked, WellServed
<1>1. CASE UNCHANGED liveRateVars
  BY <1>0, <1>1, Zenon DEF liveRateVars, LiveRateInv
<1>2. CASE Tick
  BY <1>0, <1>2 DEF Tick, LiveRateInv, RateEntry
<1>3. ASSUME NEW c \in Priced, NEW r \in Rate, FeedRate(c, r) PROVE LiveRateInv'
  <2>1. c \in Currency /\ r \in Int
    BY LiveRateAssumption
  <2>2. PICK e \in RateEntry : e.at = clock /\ rates' = [rates EXCEPT ![c] = e]
    BY <1>3, <2>1, Zenon DEF FeedRate, Update, RateEntry, LiveRateInv
  <2>3. UNCHANGED <<reval, clock, held, answer>>
    BY <1>3, Zenon DEF FeedRate
  <2>4. ASSUME NEW p \in Pricer, held[p] # Nothing
        PROVE  /\ rates'[held[p].currency] \in RateEntry
               /\ held[p].entry.at <= rates'[held[p].currency].at
    <3>1. /\ held[p] \in HeldRate /\ rates[held[p].currency] \in RateEntry
          /\ held[p].entry.at <= rates[held[p].currency].at
      BY <2>4, Zenon DEF LiveRateInv
    <3>2. held[p].currency \in Currency /\ held[p].entry.at \in Nat
      BY <3>1, LiveRateAssumption, Zenon DEF HeldRate, RateEntry
    <3>3. rates[held[p].currency].at <= clock /\ rates[held[p].currency].at \in Nat /\ clock \in Nat
      BY <3>1, <3>2, Zenon DEF LiveRateInv, RateEntry
    <3>4. rates'[held[p].currency] \in {e, rates[held[p].currency]}
      BY <2>2, <3>2, Zenon DEF LiveRateInv
    <3> QED
      BY <2>2, <3>1, <3>2, <3>3, <3>4
  <2>5. /\ rates' \in [Currency -> RateEntry \cup {NoRate}]
        /\ \A d \in Currency : rates'[d] \in RateEntry => rates'[d].at <= clock
    BY <2>1, <2>2 DEF LiveRateInv
  <2> QED
    BY <1>0, <2>3, <2>4, <2>5, Zenon DEF LiveRateInv
<1>4. ASSUME NEW c \in Priced, NEW r \in Rate, SetRevaluationRate(c, r) PROVE LiveRateInv'
  BY <1>0, <1>4, LiveRateAssumption, Zenon DEF SetRevaluationRate, LiveRateInv
<1>5. ASSUME NEW p \in Pricer, NEW c \in Priced, GetRate(p, c) PROVE LiveRateInv'
  <2>1. c \in Currency
    BY LiveRateAssumption, Zenon
  <2>2. CASE Fresh(c, clock, TTL)
    <3>1. rates[c] \in RateEntry /\ (TTL = 0 \/ clock - rates[c].at <= TTL) /\ rates[c].at <= clock
      BY <2>1, <2>2, Zenon DEF Fresh, LiveRateInv
    <3>2. PICK h \in HeldRate :
            /\ h.currency = c /\ h.entry = rates[c] /\ h.got = clock
            /\ held' = [held EXCEPT ![p] = h]
      BY <1>5, <2>2, <3>1, Zenon DEF GetRate, HeldRate, LiveRateInv
    <3>3. TTL > 0 => h.got - h.entry.at \in 0 .. TTL
      BY <3>1, <3>2, LiveRateAssumption DEF RateEntry, LiveRateInv
    <3>4. h.entry.at <= rates[c].at
      BY <3>1, <3>2 DEF RateEntry
    <3>5. UNCHANGED <<rates, reval, clock, answer>>
      BY <1>5, <2>2, Zenon DEF GetRate
    <3> QED
      BY <1>0, <3>1, <3>2, <3>3, <3>4, <3>5, Zenon DEF LiveRateInv
  <2>3. CASE ~ Fresh(c, clock, TTL)
    <3>1. answer' = [answer EXCEPT ![p] = Error] /\ UNCHANGED <<rates, reval, clock, held>>
      BY <1>5, <2>3, Zenon DEF GetRate
    <3>2. WellServed(Error)
      BY Zenon DEF WellServed, Error
    <3> QED
      BY <1>0, <3>1, <3>2, Zenon DEF LiveRateInv
  <2> QED
    BY <2>2, <2>3, Zenon
<1>6. ASSUME NEW p \in Pricer, CheckRate(p) PROVE LiveRateInv'
  <2>1. /\ held[p] # Nothing /\ held' = [held EXCEPT ![p] = Nothing] /\ UNCHANGED <<rates, reval, clock>>
    BY <1>6, Zenon DEF CheckRate
  <2>2. PICK h \in HeldRate :
          /\ h = held[p] /\ rates[h.currency] \in RateEntry
          /\ h.entry.at <= rates[h.currency].at
          /\ TTL > 0 => h.got - h.entry.at \in 0 .. TTL
    BY <2>1, Zenon DEF LiveRateInv
  <2>3. h.currency \in Currency /\ h.entry \in RateEntry /\ h.got \in Nat
    BY LiveRateAssumption, Zenon DEF HeldRate
  <2>4. PICK a \in ServedRate \cup {Error} : WellServed(a) /\ answer' = [answer EXCEPT ![p] = a]
    <3>1. CASE CrossCheck(h.currency)
      <4>1. PICK a \in ServedRate :
              /\ a.entry = h.entry /\ a.got = h.got /\ a.latest = rates[h.currency]
              /\ a.reval = reval[h.currency] /\ answer' = [answer EXCEPT ![p] = a]
        <5>1. reval[h.currency] \in Nat
          BY <2>3, Zenon DEF LiveRateInv
        <5> DEFINE b == [kind |-> "served", entry |-> h.entry, got |-> h.got,
                         latest |-> rates[h.currency], reval |-> reval[h.currency]]
        <5>2. b \in ServedRate
          BY <2>2, <2>3, <5>1, Zenon DEF ServedRate
        <5>3. answer' = [answer EXCEPT ![p] = b]
          BY <1>6, <2>2, <3>1, Zenon DEF CheckRate
        <5> QED
          BY <5>2, <5>3, Zenon
      <4>2. Within(rates[h.currency].rate, reval[h.currency])
        BY <3>1, Zenon DEF CrossCheck
      <4>3. WellServed(a)
        BY <2>2, <4>1, <4>2, Zenon DEF WellServed
      <4> QED
        BY <4>1, <4>3, Zenon
    <3>2. CASE ~ CrossCheck(h.currency)
      <4>1. answer' = [answer EXCEPT ![p] = Error]
        BY <1>6, <2>2, <3>2, Zenon DEF CheckRate
      <4>2. WellServed(Error)
        BY Zenon DEF WellServed, Error
      <4> QED
        BY <4>1, <4>2, Zenon
    <3> QED
      BY <3>1, <3>2, Zenon
  <2> QED
    BY <1>0, <2>1, <2>4, Zenon DEF LiveRateInv
<1> QED
  BY <1>1, <1>2, <1>3, <1>4, <1>5, <1>6, Zenon DEF LiveRateNext

(* GetLiveRate serves only rates that were fresh and, unless replaced in   *)
(* between, checked against the revaluation rate, for any number of        *)
(* callers and any TTL and tolerance (ServedRateChecked).                  *)
THEOREM ServedRateAlwaysChecked == LiveRateSpec => []ServedRateChecked
<1>1. LiveRateInit => LiveRateInv
  <2> SUFFICES ASSUME LiveRateInit PROVE LiveRateInv
    BY Zenon
  <2>1. ServedRateChecked
    BY Zenon DEF LiveRateInit, ServedRateChecked, Nothing
  <2>2. /\ \A c \in Currency : rates[c] = NoRate /\ reval[c] = 0
        /\ \A p \in Pricer : held[p] = Nothing
        /\ clock = 0
    BY Zenon DEF LiveRateInit, RateInit
  <2>3. /\ rates \in [Currency -> RateEntry \cup {NoRate}] /\ reval \in [Currency -> Nat]
        /\ held \in [Pricer -> HeldRate \cup {Nothing}]
        /\ answer \in [Pricer -> ServedRate \cup {Nothing, Error}]
    BY Zenon DEF LiveRateInit, RateInit
  <2> QED
    BY <2>1, <2>2, <2>3, RateAssumption, Zenon DEF LiveRateInv
<1>2. LiveRateInv => ServedRateChecked
  BY Zenon DEF LiveRateInv
<1> QED
  BY <1>1, <1>2, LiveRateInductive, PTL DEF LiveRateSpec

-----------------------------------------------------------------------------
(***************************************************************************)
(* PoolGoesOn for every pool size and number of callers.  Only a listing   *)
(* waits for a connection while it holds one (SecondOnlyToList).  So when  *)
(* nobody runs, the connections in use are those of open listings, and     *)
(* with fewer listings than connections one is free.                       *)
(***************************************************************************)
(* The inductive invariant behind PoolGoesOn. *)
PoolInv == PoolTypeOK /\ SecondOnlyToList

(* Every step of ConnPool keeps the inductive invariant. *)
LEMMA PoolInductive == PoolInv /\ [PoolNext]_poolVars => PoolInv'
PROOF
  <1> USE DEF PoolInv, PoolTypeOK, SecondOnlyToList, Stage, Op
  <1>1. ASSUME PoolInv, UNCHANGED poolVars PROVE PoolInv'
    BY <1>1, Zenon DEF poolVars
  <1>2. ASSUME PoolInv, NEW g \in Caller, NEW o \in Op, CallStore(g, o) PROVE PoolInv'
    BY <1>2, Zenon DEF CallStore, GoOn
  <1>3. ASSUME PoolInv, NEW g \in Caller, Acquire(g) \/ Release(g) PROVE PoolInv'
    BY <1>3, Zenon DEF Acquire, Release, GoOn
  <1>4. ASSUME PoolInv, NEW g \in Caller, RowThenFills(g) PROVE PoolInv'
    BY <1>4, Zenon DEF RowThenFills, GoOn
  <1>5. ASSUME PoolInv, NEW g \in Caller, ScanRow(g) PROVE PoolInv'
    BY <1>5, Zenon DEF ScanRow, GoOn
  <1>6. ASSUME PoolInv, NEW g \in Caller, AcquireFills(g) \/ ReleaseFills(g) PROVE PoolInv'
    BY <1>6, Zenon DEF AcquireFills, ReleaseFills, GoOn
  <1> QED BY <1>1, <1>2, <1>3, <1>4, <1>5, <1>6, Zenon DEF PoolNext, PoolStep

(* With fewer listings than connections, a caller that is not idle finds   *)
(* somebody who can go on: a statement that runs, or a free connection.    *)
LEMMA NobodyStuck == PoolInv => PoolGoesOn
PROOF
  <1> SUFFICES ASSUME PoolInv, Cardinality(Listing) < MaxConns,
                      NEW g \in Caller, stage[g] # "idle",
                      \A other \in Caller : ~ CanGoOn(other)
               PROVE  FALSE
    BY Zenon DEF PoolGoesOn
  <1>1. \A other \in Caller : stage[other] \notin {"run", "fills"}
    BY Zenon DEF CanGoOn
  <1>2. Inner = {} /\ Outer = Listing
    BY <1>1, Zenon DEF Inner, Outer, Listing, PoolInv, SecondOnlyToList
  <1>3. IsFiniteSet(Listing) /\ Cardinality(Listing) \in Nat
    <2>1. Listing \subseteq Caller
      BY Zenon DEF Listing, Outer
    <2> QED BY <2>1, ConnPoolAssumption, FS_Subset, FS_CardinalityType, Zenon
  <1>4. Cardinality(Inner) = 0
    BY <1>2, FS_EmptySet, Zenon
  <1>5. Free > 0
    BY <1>2, <1>3, <1>4, ConnPoolAssumption DEF Free
  <1>6. stage[g] \in {"want", "wantFills"}
    BY <1>1, Zenon DEF PoolInv, PoolTypeOK, Stage
  <1> QED BY <1>5, <1>6, Zenon DEF CanGoOn

(* Callers of postgres.DB never all wait for each other's connections      *)
(* while fewer listings are open than the pool has connections, for every  *)
(* size of the pool and every number of callers.                           *)
THEOREM PoolAlwaysGoesOn == PoolSpec => []PoolGoesOn
PROOF
  <1>1. PoolInit => PoolInv
    BY Zenon DEF PoolInit, PoolInv, PoolTypeOK, SecondOnlyToList, Stage, Op
  <1> QED BY <1>1, PoolInductive, NobodyStuck, PTL DEF PoolSpec

-----------------------------------------------------------------------------
(***************************************************************************)
(* UpLeavesSchema for any number of versions, migrators and runs.          *)
(*                                                                         *)
(* The argument: a version, once its tables were created, stays among the  *)
(* versions that were created or dropped (Known), whoever runs.  An Up     *)
(* moves past a version only when it is listed or after creating it, and a *)
(* version is listed only after it was created.                            *)
(***************************************************************************)
Known == present \cup reverted

(* How far an Up has come: all versions before this one are known. *)
UpTo(r) ==
  CASE r.step \in {"query", "apply"} -> r.at
    [] r.step = "record" -> r.at + 1
    [] r.step = "done" -> LastVersion + 1
    [] OTHER -> 0

Passed(r, known) == r.cmd = "up" => \A v \in Version : v < UpTo(r) => v \in known

InLoop(r) == r.step \in {"query", "apply", "record"} => r.at \in Version

(* The inductive invariant behind UpLeavesSchema. *)
MigrateInv ==
  /\ MigrateTypeOK
  /\ recorded \subseteq Known
  /\ \A m \in Migrator : InLoop(run[m]) /\ Passed(run[m], Known)

-----------------------------------------------------------------------------
(* The loop's next turn (Turn) keeps a run well typed, at a version of its *)
(* own or done, and it has passed the version it leaves if that is known.  *)
LEMMA TurnLemma ==
  ASSUME NEW r \in Run,
         \/ r.at \in Version
         \/ r.cmd = "up" /\ r.at = 0
         \/ r.cmd = "down" /\ r.at = LastVersion + 1,
         NEW known,
         r.cmd = "up" => \A v \in Version : v <= r.at => v \in known
  PROVE  Turn(r) \in Run /\ InLoop(Turn(r)) /\ Passed(Turn(r), known)
PROOF
  <1> USE MigrationsAssumption DEF Version
  <1>1. NextVersion(r) \in 0 .. LastVersion + 1
    BY DEF NextVersion, Run
  <1>2. /\ Turn(r) \in Run
        /\ Turn(r).cmd = r.cmd /\ Turn(r).at = NextVersion(r)
        /\ Turn(r).step = IF NextVersion(r) \in Version THEN "query" ELSE "done"
    BY <1>1, Zenon DEF Turn, Run
  <1>3. InLoop(Turn(r))
    BY <1>2, Zenon DEF InLoop
  <1>4. ASSUME r.cmd = "up", NEW v \in Version, v < UpTo(Turn(r))
        PROVE  v \in known
    <2>1. NextVersion(r) = r.at + 1
      BY <1>4, Zenon DEF NextVersion
    <2>2. CASE NextVersion(r) \in Version
      <3>1. UpTo(Turn(r)) = r.at + 1
        BY <1>2, <2>1, <2>2, Zenon DEF UpTo
      <3> QED BY <3>1, <1>4
    <2>3. CASE NextVersion(r) \notin Version
      <3>1. v <= r.at
        BY <2>1, <2>3, <1>4
      <3> QED BY <3>1, <1>4, Zenon
    <2> QED BY <2>2, <2>3, Zenon
  <1> QED BY <1>2, <1>3, <1>4, Zenon DEF Passed

(* A step that moves one run to r, and forgets no known version, keeps the *)
(* inductive invariant.                                                    *)
LEMMA OneRunMoves ==
  ASSUME MigrateInv, NEW m \in Migrator, NEW r \in Run,
         run' = [run EXCEPT ![m] = r],
         InLoop(r), Passed(r, Known'), Known \subseteq Known', recorded' \subseteq Known',
         log' \in BOOLEAN, present' \in SUBSET Version,
         reverted' \in SUBSET Version, runs' \in Nat
  PROVE  MigrateInv'
PROOF
  <1>1. MigrateTypeOK'
    BY Zenon DEF MigrateInv, MigrateTypeOK, Known
  <1>2. ASSUME NEW n \in Migrator
        PROVE  InLoop(run'[n]) /\ Passed(run'[n], Known')
    <2>1. CASE n = m
      BY <2>1, Zenon DEF MigrateInv, MigrateTypeOK
    <2>2. CASE n # m
      <3>1. run'[n] = run[n] /\ InLoop(run[n]) /\ Passed(run[n], Known)
        BY <2>2, Zenon DEF MigrateInv, MigrateTypeOK
      <3> QED BY <3>1, Zenon DEF Passed
    <2> QED BY <2>1, <2>2, Zenon
  <1> QED BY <1>1, <1>2, Zenon DEF MigrateInv

(* Every step of Migrations keeps the inductive invariant. *)
LEMMA MigrateInductive == MigrateInv /\ [MigrateNext]_migrateVars => MigrateInv'
PROOF
  <1> SUFFICES ASSUME MigrateInv, [MigrateNext]_migrateVars PROVE MigrateInv'
    OBVIOUS
  <1> USE MigrationsAssumption
  <1>0. CASE UNCHANGED migrateVars
    <2>1. Known' = Known /\ run' = run /\ recorded' = recorded /\ MigrateTypeOK'
      BY <1>0, Zenon DEF migrateVars, MigrateInv, MigrateTypeOK, Known
    <2> QED BY <2>1, Zenon DEF MigrateInv
  <1>a. MigrateTypeOK /\ recorded \subseteq Known
    BY Zenon DEF MigrateInv
  <1>b. ASSUME NEW m \in Migrator
        PROVE  run[m] \in Run /\ InLoop(run[m]) /\ Passed(run[m], Known)
    BY <1>a, Zenon DEF MigrateInv, MigrateTypeOK
  <1>1. ASSUME NEW m \in Migrator, NEW cmd, NEW before, Begin(m, cmd, before),
               log' \in BOOLEAN,
               \/ cmd = "up" /\ before = 0
               \/ cmd = "down" /\ before = LastVersion + 1
        PROVE  MigrateInv'
    <2> DEFINE r == [cmd |-> cmd, at |-> before, step |-> "query"]
    <2>1. r \in Run
      BY <1>1 DEF Run
    <2>2. r.cmd = "up" => \A v \in Version : v <= r.at => v \in Known
      BY <1>1 DEF Version
    <2>3. Turn(r) \in Run /\ InLoop(Turn(r)) /\ Passed(Turn(r), Known)
      BY <1>1, <2>1, <2>2, TurnLemma, Zenon
    <2>4. Known' = Known /\ run' = [run EXCEPT ![m] = Turn(r)] /\ runs' \in Nat
      BY <1>1, <1>a DEF Begin, Known, MigrateTypeOK
    <2> QED BY <1>1, <1>a, <2>3, <2>4, OneRunMoves, Zenon DEF Begin, MigrateTypeOK
  <1>2. ASSUME NEW m \in Migrator, SkipVersion(m) PROVE MigrateInv'
    <2>1. run[m].cmd = "up" => \A v \in Version : v <= run[m].at => v \in Known
      <3>1. UpTo(run[m]) = run[m].at
        BY <1>2, Zenon DEF SkipVersion, Advance, UpTo
      <3> QED BY <3>1, <1>2, <1>a, <1>b DEF SkipVersion, Passed, Version, Run
    <2>2. run[m].at \in Version
      BY <1>2, <1>b, Zenon DEF SkipVersion, Advance, InLoop
    <2>3. Turn(run[m]) \in Run /\ InLoop(Turn(run[m])) /\ Passed(Turn(run[m]), Known)
      BY <2>1, <2>2, <1>b, TurnLemma, Zenon
    <2>4. Known' = Known /\ run' = [run EXCEPT ![m] = Turn(run[m])]
      BY <1>2, <1>a, Zenon DEF SkipVersion, Advance, Known, MigrateTypeOK
    <2> QED BY <1>2, <1>a, <2>3, <2>4, OneRunMoves, Zenon DEF SkipVersion, MigrateTypeOK
  <1>3. ASSUME NEW m \in Migrator, NEW here, NEW next,
               Then(m, here, next), next \in {"apply", "record"}, here \in {"query", "apply"},
               Known \subseteq Known', recorded' = recorded,
               next = "record" /\ run[m].cmd = "up" => run[m].at \in Known',
               log' \in BOOLEAN, present' \in SUBSET Version,
               reverted' \in SUBSET Version, runs' \in Nat
        PROVE  MigrateInv'
    <2> DEFINE r == [run[m] EXCEPT !.step = next]
    <2>1. r \in Run /\ r.at = run[m].at /\ r.cmd = run[m].cmd /\ r.step = next
      BY <1>3, <1>b, Zenon DEF Run
    <2>2. InLoop(r)
      BY <1>3, <1>b, <2>1, Zenon DEF InLoop, Then
    <2>3. UpTo(run[m]) = run[m].at
      BY <1>3, Zenon DEF Then, UpTo
    <2>4. UpTo(r) = IF next = "record" THEN run[m].at + 1 ELSE run[m].at
      BY <1>3, <2>1 DEF UpTo
    <2>5. Passed(r, Known')
      BY <1>3, <1>b, <2>1, <2>3, <2>4 DEF Passed, Version, Run
    <2>6. run' = [run EXCEPT ![m] = r]
      BY <1>3, <1>a, Zenon DEF Then, MigrateTypeOK
    <2>7. recorded' \subseteq Known'
      BY <1>3, <1>a, Zenon
    <2> QED BY <1>3, <2>1, <2>2, <2>5, <2>6, <2>7, OneRunMoves, Zenon
  <1>4. ASSUME NEW m \in Migrator, TakeVersion(m) PROVE MigrateInv'
    <2>1. Known' = Known
      BY <1>4, Zenon DEF TakeVersion, Known
    <2> QED BY <1>3, <1>4, <1>a, <2>1, Zenon DEF TakeVersion, MigrateTypeOK
  <1>5. ASSUME NEW m \in Migrator, ApplyUp(m) \/ ApplyDown(m) PROVE MigrateInv'
    <2>1. run[m].at \in Version
      BY <1>5, <1>b, Zenon DEF ApplyUp, ApplyDown, Then, InLoop
    <2>2. Known' = Known \cup {run[m].at}
      BY <1>5, Zenon DEF ApplyUp, ApplyDown, Known
    <2> QED BY <1>3, <1>5, <1>a, <2>1, <2>2, Zenon DEF ApplyUp, ApplyDown, MigrateTypeOK
  <1>6. ASSUME NEW m \in Migrator, RecordVersion(m) PROVE MigrateInv'
    <2>1. run[m].at \in Version
      BY <1>6, <1>b, Zenon DEF RecordVersion, Advance, InLoop
    <2>2. run[m].cmd = "up" => \A v \in Version : v <= run[m].at => v \in Known
      <3>1. UpTo(run[m]) = run[m].at + 1
        BY <1>6, Zenon DEF RecordVersion, Advance, UpTo
      <3> QED BY <3>1, <1>b DEF Passed, Version, Run
    <2>3. Turn(run[m]) \in Run /\ InLoop(Turn(run[m])) /\ Passed(Turn(run[m]), Known)
      BY <2>1, <2>2, <1>b, TurnLemma, Zenon
    <2>4. Known' = Known /\ run' = [run EXCEPT ![m] = Turn(run[m])]
      BY <1>6, <1>a, Zenon DEF RecordVersion, Advance, Known, MigrateTypeOK
    <2>5. run[m].at \in Version => run[m].at <= run[m].at
      BY DEF Version
    <2>6. recorded' \subseteq Known'
      BY <1>6, <1>a, <2>1, <2>2, <2>4, <2>5, Zenon DEF RecordVersion
    <2> QED BY <1>6, <1>a, <2>3, <2>4, <2>6, OneRunMoves, ZenonT(30) DEF RecordVersion, MigrateTypeOK
  <1>7. ASSUME NEW m \in Migrator, EndRun(m) PROVE MigrateInv'
    <2> DEFINE r == [run[m] EXCEPT !.step = "ended"]
    <2>1. r \in Run /\ r.step = "ended"
      BY <1>b, Zenon DEF Run
    <2>2. InLoop(r)
      BY <2>1, Zenon DEF InLoop
    <2>3. UpTo(r) = 0
      BY <2>1, Zenon DEF UpTo
    <2>4. Passed(r, Known)
      BY <2>3 DEF Passed, Version
    <2>5. Known' = Known /\ run' = [run EXCEPT ![m] = r]
      BY <1>7, <1>a, Zenon DEF EndRun, Known, MigrateTypeOK
    <2> QED BY <1>7, <1>a, <2>1, <2>2, <2>4, <2>5, OneRunMoves, ZenonT(30) DEF EndRun, MigrateTypeOK
  <1>8. ASSUME NEW m \in Migrator, StartUp(m) \/ StartDown(m) PROVE MigrateInv'
    BY <1>8, <1>1, <1>a, Zenon DEF StartUp, StartDown, MigrateTypeOK
  <1> QED BY <1>0, <1>2, <1>4, <1>5, <1>6, <1>7, <1>8, Zenon DEF MigrateNext, MigrateStep

(* Runner.Up returns nil only when every version's tables were created, in *)
(* any interleaving with other runs of Up and Down and wherever they end.  *)
THEOREM UpAlwaysLeavesSchema == MigrateSpec => []UpLeavesSchema
PROOF
  <1>1. MigrateInit => MigrateInv
    <2> SUFFICES ASSUME MigrateInit PROVE MigrateInv
      OBVIOUS
    <2>0. [cmd |-> "up", at |-> 0, step |-> "ended"] \in Run
      BY MigrationsAssumption DEF Run
    <2>1. MigrateTypeOK /\ recorded \subseteq Known
      BY <2>0, Zenon DEF MigrateInit, MigrateTypeOK, Known
    <2>2. \A m \in Migrator : run[m].step = "ended"
      BY Zenon DEF MigrateInit
    <2>3. ASSUME NEW m \in Migrator PROVE InLoop(run[m]) /\ Passed(run[m], Known)
      <3>1. UpTo(run[m]) = 0
        BY <2>2, Zenon DEF UpTo
      <3> QED BY <3>1, <2>2 DEF InLoop, Passed, Version
    <2> QED BY <2>1, <2>3, Zenon DEF MigrateInv
  <1>2. MigrateInv => UpLeavesSchema
    <2> SUFFICES ASSUME MigrateInv, NEW m \in Migrator, run[m].cmd = "up",
                        run[m].step = "done"
                 PROVE  Version \subseteq present \cup reverted
      BY Zenon DEF UpLeavesSchema
    <2>1. UpTo(run[m]) = LastVersion + 1
      BY Zenon DEF UpTo
    <2> QED BY <2>1, MigrationsAssumption DEF MigrateInv, Passed, Known, Version
  <1> QED BY <1>1, <1>2, MigrateInductive, PTL DEF MigrateSpec

-----------------------------------------------------------------------------
(***************************************************************************)
(* Delivery: every record ends with one outcome.                           *)
(***************************************************************************)
(* The record of a call in progress has no result yet, and no other call   *)
(* has it.                                                                 *)
OneCallEach ==
  \A s \in Sender : sendPc[s] # "idle" =>
    /\ result[sending[s]] = "none"
    /\ \A t \in Sender : sending[t] = sending[s] => t = s

(* The dead-letter store holds what its calls gave up on, each once. *)
DeadLettersExact ==
  /\ \A i \in DOMAIN deadLetters : result[deadLetters[i]] = "unavailable"
  /\ \A r \in Record : result[r] = "unavailable" =>
       \E i \in DOMAIN deadLetters : deadLetters[i] = r
  /\ \A i, j \in DOMAIN deadLetters : deadLetters[i] = deadLetters[j] => i = j

(* A call that returned nil left a record under its key. *)
AcceptedKept ==
  \A r \in Record : result[r] = "ok" /\ mode.transport # "none" => KeyStored(r)

(* A call that posts has a transport and, in the audit client, the mutex.  *)
PostsAlone ==
  /\ \A s \in Sender : sendPc[s] = "post" =>
       mode.transport # "none" /\ (Serialised => holder = s)
  /\ underway # {} => mode.transport # "none"

(* Under the mutex the record being posted is the last one emitted; a      *)
(* request still on its way is of that record or of one whose call is      *)
(* over, and everything stored or on its way was emitted.                  *)
EmittedInOrder ==
  Serialised =>
    /\ \A s \in Sender : sendPc[s] = "post" =>
         Len(emitted) > 0 /\ emitted[Len(emitted)] = sending[s]
    /\ \A r \in underway : result[r] = "none" =>
         \E s \in Sender : sendPc[s] = "post" /\ sending[s] = r
    /\ \A r \in underway : \E m \in DOMAIN emitted : emitted[m] = r
    /\ \A i \in DOMAIN stored : \E m \in DOMAIN emitted : emitted[m] = stored[i]

DeliveryInv ==
  /\ DeliveryTypeOK
  /\ OneCallEach
  /\ DeadLettersExact
  /\ AcceptedKept
  /\ PostsAlone
  /\ EmittedInOrder
  /\ AuditOrdered
-----------------------------------------------------------------------------
(* Appending to a sequence, position by position. *)
LEMMA AppendFacts ==
  ASSUME NEW S, NEW q \in Seq(S), NEW e \in S
  PROVE  /\ Append(q, e) \in Seq(S)
         /\ Len(q) \in Nat
         /\ Len(Append(q, e)) = Len(q) + 1
         /\ DOMAIN q = 1 .. Len(q)
         /\ DOMAIN Append(q, e) = 1 .. Len(q) + 1
         /\ \A i \in 1 .. Len(q) : Append(q, e)[i] = q[i]
         /\ Append(q, e)[Len(q) + 1] = e
OBVIOUS

(* The receiving service only ever adds to what it keeps, at the end, and  *)
(* only a record whose key it does not have.                               *)
LEMMA StoreGrows ==
  ASSUME stored \in Seq(Record), NEW r \in Record, Store(r) \/ UNCHANGED stored
  PROVE  /\ stored' \in Seq(Record)
         /\ \A q \in Record : KeyStored(q) => KeyStored(q)'
         /\ Store(r) => KeyStored(r)'
         /\ \A i \in DOMAIN stored' :
              \/ i \in DOMAIN stored /\ stored'[i] = stored[i]
              \/ /\ i = Len(stored) + 1 /\ stored'[i] = r
                 /\ ~ KeyStored(r)
<1>1. CASE stored' = stored
  <2>1. Store(r) => KeyStored(r)
    <3> SUFFICES ASSUME ~ KeyStored(r), Store(r)
                 PROVE  FALSE
      BY Zenon
    <3>1. stored' = Append(stored, r)
      BY Zenon DEF Store
    <3>2. Len(stored') = Len(stored) + 1 /\ Len(stored) \in Nat
      BY <3>1
    <3> QED
      BY <1>1, <3>2
  <2> QED
    BY <1>1, <2>1, Zenon DEF KeyStored
<1>2. CASE stored' # stored
  <2>1. ~ KeyStored(r) /\ stored' = Append(stored, r)
    BY <1>2, Zenon DEF Store
  <2>2. /\ DOMAIN stored' = 1 .. Len(stored) + 1
        /\ DOMAIN stored = 1 .. Len(stored)
        /\ stored'[Len(stored) + 1] = r
        /\ \A i \in 1 .. Len(stored) : stored'[i] = stored[i]
        /\ stored' \in Seq(Record)
        /\ Len(stored) \in Nat
    BY <2>1, AppendFacts
  <2>3. \A q \in Record : KeyStored(q) => KeyStored(q)'
    BY <2>2 DEF KeyStored
  <2>4. KeyStored(r)'
    BY <2>2 DEF KeyStored
  <2>5. \A i \in DOMAIN stored' :
          \/ i \in DOMAIN stored /\ stored'[i] = stored[i]
          \/ i = Len(stored) + 1 /\ stored'[i] = r
    BY <2>2
  <2> QED
    BY <2>1, <2>2, <2>3, <2>4, <2>5, Zenon
<1> QED
  BY <1>1, <1>2, Zenon

(* The four sequences and functions of the client, one by one. *)
LEMMA DeliveryTypes ==
  ASSUME DeliveryTypeOK
  PROVE  /\ emitted \in Seq(Record) /\ stored \in Seq(Record) /\ deadLetters \in Seq(Record)
         /\ sendPc \in [Sender -> {"idle", "enter", "post"}]
         /\ sending \in [Sender -> Record \cup {NoRecord}]
         /\ attempt \in [Sender -> 0 .. Attempts - 1]
         /\ Attempts \in {1, 3}
         /\ result \in [Record -> {"none", "ok", "rejected", "unavailable"}]
         /\ \A s \in Sender : sendPc[s] # "idle" => sending[s] \in Record
BY Zenon DEF DeliveryTypeOK, Attempts

(* The calls below AuditOrdered: a step that may store r keeps the order   *)
(* of what is stored if r is the last record emitted or its call is over   *)
(* without success.                                                        *)
LEMMA OrderKept ==
  ASSUME DeliveryInv, mode' = mode, NEW r \in Record, Store(r) \/ UNCHANGED stored,
         \A m \in DOMAIN emitted : m \in DOMAIN emitted' /\ emitted'[m] = emitted[m],
         \A q \in Record : result[q] \in {"rejected", "unavailable"}
                             => result'[q] = result[q],
         Serialised /\ ~ KeyStored(r) /\ stored' # stored =>
           /\ \E m \in DOMAIN emitted : emitted[m] = r
           /\ \/ result'[r] \in {"rejected", "unavailable"}
              \/ Len(emitted) > 0 /\ emitted[Len(emitted)] = r
  PROVE  /\ AuditOrdered'
         /\ Serialised => \A i \in DOMAIN stored' :
                            \E m \in DOMAIN emitted' : emitted'[m] = stored'[i]
<1> SUFFICES ASSUME Serialised
             PROVE  /\ AuditOrdered'
                    /\ \A i \in DOMAIN stored' :
                         \E m \in DOMAIN emitted' : emitted'[m] = stored'[i]
  BY Zenon DEF AuditOrdered, Serialised
<1>0. /\ stored \in Seq(Record) /\ emitted \in Seq(Record)
      /\ DOMAIN stored = 1 .. Len(stored) /\ Len(stored) \in Nat
      /\ DOMAIN emitted = 1 .. Len(emitted) /\ Len(emitted) \in Nat
  BY DeliveryTypes DEF DeliveryInv
<1>1. /\ AuditOrdered
      /\ \A i \in DOMAIN stored : \E m \in DOMAIN emitted : emitted[m] = stored[i]
  BY Zenon DEF DeliveryInv, EmittedInOrder
<1>2. \A i \in DOMAIN stored' :
        \/ i \in DOMAIN stored /\ stored'[i] = stored[i]
        \/ /\ i = Len(stored) + 1 /\ stored'[i] = r
           /\ ~ KeyStored(r)
  BY <1>0, StoreGrows, Zenon
<1>3. \A i \in DOMAIN stored' : \E m \in DOMAIN emitted : emitted[m] = stored'[i]
  <2> SUFFICES ASSUME NEW i \in DOMAIN stored'
               PROVE  \E m \in DOMAIN emitted : emitted[m] = stored'[i]
    BY Zenon
  <2>1. CASE i \in DOMAIN stored /\ stored'[i] = stored[i]
    BY <1>1, <2>1, Zenon
  <2>2. CASE /\ i = Len(stored) + 1 /\ stored'[i] = r
             /\ ~ KeyStored(r)
    <3>1. stored' # stored
      BY <1>0, <2>2
    <3> QED
      BY <2>2, <3>1, Zenon
  <2> QED
    BY <1>2, <2>1, <2>2, Zenon
<1>4. ASSUME NEW i \in DOMAIN stored', NEW j \in DOMAIN stored', i < j
      PROVE  \/ \E m, n \in DOMAIN emitted' :
                  m < n /\ emitted'[m] = stored'[i] /\ emitted'[n] = stored'[j]
             \/ result'[stored'[j]] \in {"rejected", "unavailable"}
  <2>1. CASE j \in DOMAIN stored /\ stored'[j] = stored[j]
    <3>1. i \in DOMAIN stored /\ stored'[i] = stored[i]
      BY <1>0, <1>2, <1>4, <2>1
    <3>2. \/ \E m, n \in DOMAIN emitted :
               m < n /\ emitted[m] = stored[i] /\ emitted[n] = stored[j]
          \/ result[stored[j]] \in {"rejected", "unavailable"}
      BY <1>1, <1>4, <2>1, <3>1, Zenon DEF AuditOrdered
    <3>3. stored[j] \in Record
      BY <1>0, <2>1
    <3> QED
      BY <2>1, <3>1, <3>2, <3>3, Zenon
  <2>2. CASE /\ j = Len(stored) + 1 /\ stored'[j] = r
             /\ ~ KeyStored(r)
    <3>1. i \in DOMAIN stored /\ stored'[i] = stored[i] /\ stored' # stored
      BY <1>0, <1>2, <1>4, <2>2
    <3>2. stored[i] # r
      BY <2>2, <3>1, Zenon DEF KeyStored
    <3>3. PICK m \in DOMAIN emitted : emitted[m] = stored[i]
      BY <1>1, <3>1, Zenon
    <3>4. CASE result'[r] \in {"rejected", "unavailable"}
      BY <2>2, <3>4, Zenon
    <3>5. CASE Len(emitted) > 0 /\ emitted[Len(emitted)] = r
      <4>1. Len(emitted) \in DOMAIN emitted /\ m < Len(emitted)
        BY <1>0, <3>2, <3>3, <3>5
      <4> QED
        BY <2>2, <3>1, <3>3, <3>5, <4>1, ZenonT(30)
    <3> QED
      BY <2>2, <3>1, <3>4, <3>5, Zenon
  <2> QED
    BY <1>2, <2>1, <2>2, Zenon
<1>5. AuditOrdered'
  BY <1>4, Zenon DEF AuditOrdered
<1> QED
  BY <1>3, <1>5, Zenon

(* A return from the call of s: its record gets the result, s has nothing  *)
(* more in hand and every other call is as it was.                         *)
LEMMA ReturnFrame ==
  ASSUME DeliveryInv, NEW s \in Sender, sendPc[s] # "idle", mode' = mode,
         NEW res \in {"ok", "rejected", "unavailable"}, Return(s, res)
  PROVE  /\ sending[s] \in Record
         /\ result[sending[s]] = "none" /\ result'[sending[s]] = res
         /\ \A q \in Record : q # sending[s] => result'[q] = result[q]
         /\ \A q \in Record : result[q] # "none" => result'[q] = result[q]
         /\ \A t \in Sender : sendPc'[t] # "idle" =>
              /\ t # s /\ sendPc[t] = sendPc'[t] /\ sending'[t] = sending[t]
              /\ sending[t] # sending[s]
         /\ \A t \in Sender : t # s => sendPc'[t] = sendPc[t] /\ sending'[t] = sending[t]
         /\ sendPc' \in [Sender -> {"idle", "enter", "post"}]
         /\ sending' \in [Sender -> Record \cup {NoRecord}]
         /\ \A t \in Sender : sending'[t] = NoRecord <=> sendPc'[t] = "idle"
         /\ attempt' \in [Sender -> 0 .. Attempts - 1]
         /\ Attempts' = Attempts
         /\ holder' \in Sender \cup {NoSender}
         /\ result' \in [Record -> {"none", "ok", "rejected", "unavailable"}]
         /\ OneCallEach'
<1>1. /\ sendPc \in [Sender -> {"idle", "enter", "post"}]
      /\ sending \in [Sender -> Record \cup {NoRecord}]
      /\ attempt \in [Sender -> 0 .. Attempts - 1]
      /\ Attempts \in {1, 3}
      /\ result \in [Record -> {"none", "ok", "rejected", "unavailable"}]
      /\ sending[s] \in Record
  BY DeliveryTypes, Zenon DEF DeliveryInv
<1>2. /\ result[sending[s]] = "none"
      /\ \A t \in Sender : sending[t] = sending[s] => t = s
  BY Zenon DEF DeliveryInv, OneCallEach
<1>3. /\ sendPc' = [sendPc EXCEPT ![s] = "idle"]
      /\ sending' = [sending EXCEPT ![s] = NoRecord]
      /\ attempt' = [attempt EXCEPT ![s] = 0]
      /\ result' = [result EXCEPT ![sending[s]] = res]
      /\ holder' = NoSender
  BY Zenon DEF Return
<1>4. /\ result'[sending[s]] = res
      /\ \A q \in Record : q # sending[s] => result'[q] = result[q]
      /\ result' \in [Record -> {"none", "ok", "rejected", "unavailable"}]
  BY <1>1, <1>3, Zenon
<1>5. \A q \in Record : result[q] # "none" => result'[q] = result[q]
  BY <1>2, <1>4, Zenon
<1>6. \A t \in Sender : sendPc'[t] # "idle" =>
        /\ t # s /\ sendPc[t] = sendPc'[t] /\ sending'[t] = sending[t]
        /\ sending[t] # sending[s]
  BY <1>1, <1>2, <1>3, Zenon
<1>10. \A t \in Sender : t # s => sendPc'[t] = sendPc[t] /\ sending'[t] = sending[t]
  BY <1>1, <1>3, Zenon
<1>7. \A t \in Sender : sending'[t] = NoRecord <=> sendPc'[t] = "idle"
  BY <1>1, <1>3, Zenon DEF DeliveryInv, DeliveryTypeOK
<1>8. Attempts' = Attempts /\ attempt' \in [Sender -> 0 .. Attempts - 1]
  BY <1>1, <1>3 DEF Attempts
<1>9. OneCallEach'
  <2> SUFFICES ASSUME NEW t \in Sender, sendPc'[t] # "idle"
               PROVE  /\ result'[sending'[t]] = "none"
                      /\ \A u \in Sender : sending'[u] = sending'[t] => u = t
    BY Zenon DEF OneCallEach
  <2>1. /\ t # s /\ sendPc[t] # "idle" /\ sending'[t] = sending[t]
        /\ sending[t] # sending[s] /\ sending[t] \in Record
    BY <1>6, DeliveryTypes, Zenon DEF DeliveryInv
  <2>2. result[sending[t]] = "none" /\ \A u \in Sender : sending[u] = sending[t] => u = t
    BY <2>1, Zenon DEF DeliveryInv, OneCallEach
  <2>3. \A u \in Sender : sending'[u] \in {sending[u], NoRecord}
    BY <1>1, <1>3, Zenon
  <2> QED
    BY <1>4, <2>1, <2>2, <2>3, DeliveryAssumption
<1> QED
  BY <1>1, <1>2, <1>3, <1>4, <1>5, <1>6, <1>7, <1>8, <1>9, <1>10, Zenon

(* A call begins: the record is in no other hand and has no result. *)
LEMMA CallKeeps ==
  ASSUME DeliveryInv, NEW s \in Sender, Call(s)
  PROVE  DeliveryInv'
<1>0. PICK r \in Record :
        /\ result[r] = "none"
        /\ \A t \in Sender : sending[t] # r
        /\ sending' = [sending EXCEPT ![s] = r]
  BY Zenon DEF Call
<1>1. /\ sendPc[s] = "idle" /\ sendPc' = [sendPc EXCEPT ![s] = "enter"]
      /\ UNCHANGED <<mode, attempt, holder, emitted, underway, stored, deadLetters, result>>
  BY Zenon DEF Call
<1>2. /\ sendPc \in [Sender -> {"idle", "enter", "post"}]
      /\ sending \in [Sender -> Record \cup {NoRecord}]
      /\ \A t \in Sender : sending[t] = NoRecord <=> sendPc[t] = "idle"
  BY Zenon DEF DeliveryInv, DeliveryTypeOK
<1>3. UNCHANGED <<Attempts, Serialised>>
  BY <1>1, Zenon DEF Attempts, Serialised
<1>4. DeliveryTypeOK'
  <2>1. \A t \in Sender : sending'[t] = NoRecord <=> sendPc'[t] = "idle"
    BY <1>0, <1>1, <1>2, DeliveryAssumption, Zenon
  <2>2. sendPc' \in [Sender -> {"idle", "enter", "post"}] /\ sending' \in [Sender -> Record \cup {NoRecord}]
    BY <1>0, <1>1, <1>2, Zenon
  <2> QED
    BY <1>1, <1>3, <2>1, <2>2, Zenon DEF DeliveryInv, DeliveryTypeOK
<1>5. OneCallEach'
  BY <1>0, <1>1, <1>2, DeliveryAssumption DEF DeliveryInv, OneCallEach
<1>6. DeadLettersExact' /\ AcceptedKept'
  BY <1>1, Zenon DEF DeliveryInv, DeadLettersExact, AcceptedKept, KeyStored
<1>7. \A t \in Sender : /\ sendPc'[t] = "post" <=> sendPc[t] = "post"
                        /\ sendPc[t] = "post" => sending'[t] = sending[t]
  BY <1>0, <1>1, <1>2, Zenon
<1>8. PostsAlone'
  BY <1>1, <1>3, <1>7, Zenon DEF DeliveryInv, PostsAlone
<1>9. EmittedInOrder'
  BY <1>1, <1>3, <1>7 DEF DeliveryInv, EmittedInOrder
<1>10. AuditOrdered'
  BY <1>1, <1>3 DEF DeliveryInv, AuditOrdered
<1> QED
  BY <1>4, <1>5, <1>6, <1>8, <1>9, <1>10, Zenon DEF DeliveryInv

(* One more dead letter, of a record that had no result. *)
LEMMA DeadLetterAdded ==
  ASSUME DeliveryInv, NEW r \in Record, result[r] = "none",
         NEW res \in {"ok", "rejected", "unavailable"}, result'[r] = res,
         \A q \in Record : q # r => result'[q] = result[q],
         deadLetters' = IF res = "unavailable" THEN Append(deadLetters, r) ELSE deadLetters
  PROVE  DeadLettersExact' /\ deadLetters' \in Seq(Record)
<1>1. /\ deadLetters \in Seq(Record) /\ DeadLettersExact
      /\ DOMAIN deadLetters = 1 .. Len(deadLetters) /\ Len(deadLetters) \in Nat
  BY DeliveryTypes DEF DeliveryInv
<1>2. \A i \in DOMAIN deadLetters : deadLetters[i] \in Record /\ deadLetters[i] # r
  BY <1>1 DEF DeadLettersExact
<1>3. CASE res = "unavailable"
  <2>1. /\ DOMAIN deadLetters' = 1 .. Len(deadLetters) + 1
        /\ deadLetters'[Len(deadLetters) + 1] = r
        /\ \A i \in 1 .. Len(deadLetters) : deadLetters'[i] = deadLetters[i]
        /\ deadLetters' \in Seq(Record)
    BY <1>1, <1>3, AppendFacts
  <2>2. \A i \in DOMAIN deadLetters' : result'[deadLetters'[i]] = "unavailable"
    BY <1>1, <1>2, <1>3, <2>1, SMTT(30) DEF DeadLettersExact
  <2>3. \A q \in Record : result'[q] = "unavailable" =>
          \E i \in DOMAIN deadLetters' : deadLetters'[i] = q
    BY <1>1, <1>3, <2>1, SMTT(30) DEF DeadLettersExact
  <2>4. \A i, j \in DOMAIN deadLetters' : deadLetters'[i] = deadLetters'[j] => i = j
    BY <1>1, <1>2, <2>1, SMTT(30) DEF DeadLettersExact
  <2> QED
    BY <2>1, <2>2, <2>3, <2>4, Zenon DEF DeadLettersExact
<1>4. CASE res # "unavailable"
  BY <1>1, <1>2, <1>4 DEF DeadLettersExact
<1> QED
  BY <1>3, <1>4, Zenon

(* A call that posts and returns: with nil once its record was stored,     *)
(* with an error after a 400 or the last attempt, which may have been      *)
(* stored all the same and may arrive later.                               *)
LEMMA PostReturns ==
  ASSUME DeliveryInv, NEW s \in Sender, sendPc[s] = "post",
         UNCHANGED <<mode, emitted>>,
         NEW res \in {"ok", "rejected", "unavailable"}, Return(s, res),
         Store(sending[s]) \/ UNCHANGED stored, res = "ok" => Store(sending[s]),
         underway' = underway \/ underway' = underway \cup {sending[s]},
         deadLetters' = IF res = "unavailable" THEN Append(deadLetters, sending[s])
                                               ELSE deadLetters
  PROVE  DeliveryInv'
<1>0. PICK r \in Record : r = sending[s]
  BY ReturnFrame, ZenonT(30)
<1>1. /\ result[r] = "none" /\ result'[r] = res
      /\ \A q \in Record : q # r => result'[q] = result[q]
      /\ \A q \in Record : result[q] # "none" => result'[q] = result[q]
      /\ \A t \in Sender : sendPc'[t] # "idle" =>
           t # s /\ sendPc[t] = sendPc'[t] /\ sending'[t] = sending[t] /\ sending[t] # r
      /\ \A t \in Sender : t # s => sendPc'[t] = sendPc[t] /\ sending'[t] = sending[t]
      /\ OneCallEach'
  BY <1>0, ReturnFrame
<1>2. /\ sendPc' \in [Sender -> {"idle", "enter", "post"}]
      /\ sending' \in [Sender -> Record \cup {NoRecord}]
      /\ \A t \in Sender : sending'[t] = NoRecord <=> sendPc'[t] = "idle"
      /\ attempt' \in [Sender -> 0 .. Attempts - 1]
      /\ Attempts' = Attempts
      /\ holder' \in Sender \cup {NoSender}
      /\ result' \in [Record -> {"none", "ok", "rejected", "unavailable"}]
  BY ReturnFrame, Zenon
<1>3. /\ DeliveryTypeOK /\ DeadLettersExact /\ AcceptedKept /\ PostsAlone
      /\ EmittedInOrder
      /\ stored \in Seq(Record) /\ emitted \in Seq(Record)
  BY DeliveryTypes, Zenon DEF DeliveryInv
<1>4. mode.transport # "none" /\ (Serialised => holder = s)
  BY <1>3, Zenon DEF PostsAlone
<1>5. Serialised' = Serialised
  BY Zenon DEF Serialised
<1>6. /\ Store(r) \/ UNCHANGED stored
      /\ res = "ok" => Store(r)
      /\ underway' = underway \/ underway' = underway \cup {r}
      /\ deadLetters' = IF res = "unavailable" THEN Append(deadLetters, r) ELSE deadLetters
  BY <1>0, Zenon
<1>7. /\ stored' \in Seq(Record)
      /\ \A q \in Record : KeyStored(q) => KeyStored(q)'
      /\ Store(r) => KeyStored(r)'
  BY <1>3, <1>6, StoreGrows, Zenon
<1>8. DeadLettersExact' /\ deadLetters' \in Seq(Record)
  BY <1>1, <1>6, DeadLetterAdded, Zenon
<1>9. underway' \subseteq Record /\ underway' \subseteq underway \cup {r}
  BY <1>3, <1>6, Zenon DEF DeliveryTypeOK
<1>10. DeliveryTypeOK'
  BY <1>2, <1>3, <1>7, <1>8, <1>9, Zenon DEF DeliveryTypeOK
<1>11. AcceptedKept'
  BY <1>1, <1>3, <1>6, <1>7, Zenon DEF AcceptedKept
<1>12. PostsAlone'
  <2>1. ASSUME NEW t \in Sender, sendPc'[t] = "post"
        PROVE  ~ Serialised /\ mode.transport # "none"
    <3>1. t # s /\ sendPc[t] = "post"
      BY <1>1, <2>1, Zenon
    <3> QED
      BY <1>3, <1>4, <3>1, Zenon DEF PostsAlone
  <2> QED
    BY <1>4, <1>5, <2>1, Zenon DEF PostsAlone
<1>13. Serialised => Len(emitted) > 0 /\ emitted[Len(emitted)] = r /\ Len(emitted) \in DOMAIN emitted
  BY <1>0, <1>3 DEF EmittedInOrder
<1>14. /\ AuditOrdered'
       /\ Serialised => \A i \in DOMAIN stored' :
                          \E m \in DOMAIN emitted' : emitted'[m] = stored'[i]
  <2>1. \A q \in Record : result[q] \in {"rejected", "unavailable"} => result'[q] = result[q]
    BY <1>1, Zenon
  <2>2. \A m \in DOMAIN emitted : m \in DOMAIN emitted' /\ emitted'[m] = emitted[m]
    BY Zenon
  <2> QED
    BY <1>1, <1>6, <1>13, <2>1, <2>2, OrderKept, Zenon
<1>15. EmittedInOrder'
  <2> SUFFICES ASSUME Serialised
               PROVE  /\ \A t \in Sender : sendPc'[t] # "post"
                      /\ \A q \in underway' : result'[q] # "none"
                      /\ \A q \in underway' : \E m \in DOMAIN emitted' : emitted'[m] = q
    BY <1>5, <1>14, Zenon DEF EmittedInOrder
  <2>1. \A t \in Sender : sendPc[t] = "post" => t = s
    BY <1>3, <1>4, Zenon DEF PostsAlone
  <2>2. \A t \in Sender : sendPc'[t] # "post"
    BY <1>1, <2>1, Zenon
  <2>3. \A q \in underway : result[q] = "none" => q = r
    BY <1>0, <1>3, <2>1, Zenon DEF EmittedInOrder
  <2>4. ASSUME NEW q \in underway', result'[q] = "none"
        PROVE  FALSE
    <3>1. q # r /\ q \in underway /\ q \in Record
      BY <1>1, <1>9, <2>4, Zenon
    <3> QED
      BY <1>1, <2>3, <2>4, <3>1, Zenon
  <2>5. \A q \in underway' : \E m \in DOMAIN emitted' : emitted'[m] = q
    BY <1>3, <1>9, <1>13, Zenon DEF EmittedInOrder
  <2> QED
    BY <2>2, <2>4, <2>5, Zenon
<1> QED
  BY <1>1, <1>8, <1>10, <1>11, <1>12, <1>14, <1>15, ZenonT(30) DEF DeliveryInv

(* Emit takes the mutex, or publish begins to post: the record is the last *)
(* one emitted.  Without a transport the call returns at once.             *)
LEMMA EnterKeeps ==
  ASSUME DeliveryInv, NEW s \in Sender, Enter(s)
  PROVE  DeliveryInv'
<1>0. PICK r \in Record : r = sending[s]
  BY DeliveryTypes, Zenon DEF DeliveryInv, Enter
<1>1. /\ sendPc[s] = "enter" /\ (Serialised => holder = NoSender)
      /\ emitted' = Append(emitted, r)
      /\ UNCHANGED <<mode, underway, stored, deadLetters>>
  BY <1>0, Zenon DEF Enter
<1>2. /\ DeliveryTypeOK /\ OneCallEach /\ DeadLettersExact /\ AcceptedKept /\ PostsAlone
      /\ EmittedInOrder /\ AuditOrdered
      /\ stored \in Seq(Record) /\ emitted \in Seq(Record)
      /\ sendPc \in [Sender -> {"idle", "enter", "post"}]
      /\ sending \in [Sender -> Record \cup {NoRecord}]
  BY DeliveryTypes, Zenon DEF DeliveryInv
<1>3. UNCHANGED <<Serialised, Attempts>>
  BY <1>1, Zenon DEF Serialised, Attempts
<1>4. /\ emitted' \in Seq(Record)
      /\ Len(emitted') > 0 /\ emitted'[Len(emitted')] = r
      /\ \A m \in DOMAIN emitted : m \in DOMAIN emitted' /\ emitted'[m] = emitted[m]
  <2>1. /\ emitted' \in Seq(Record)
        /\ Len(emitted) \in Nat
        /\ Len(emitted') = Len(emitted) + 1
        /\ DOMAIN emitted = 1 .. Len(emitted)
        /\ DOMAIN emitted' = 1 .. Len(emitted) + 1
        /\ \A i \in 1 .. Len(emitted) : emitted'[i] = emitted[i]
        /\ emitted'[Len(emitted) + 1] = r
    BY <1>1, <1>2, AppendFacts
  <2> QED
    BY <2>1, SMTT(30)
<1>5. Serialised => \A t \in Sender : sendPc[t] # "post"
  BY <1>1, <1>2, DeliveryAssumption, ZenonT(30) DEF PostsAlone
<1>6. Serialised =>
        /\ \A i \in DOMAIN stored' : \E m \in DOMAIN emitted' : emitted'[m] = stored'[i]
        /\ \A q \in underway' : \E m \in DOMAIN emitted' : emitted'[m] = q
  BY <1>1, <1>2, <1>4, SMTT(30) DEF EmittedInOrder
<1>7. Serialised => \A i, j \in DOMAIN stored : i < j =>
        \/ \E m, n \in DOMAIN emitted' :
             m < n /\ emitted'[m] = stored[i] /\ emitted'[n] = stored[j]
        \/ result[stored[j]] \in {"rejected", "unavailable"}
  BY <1>2, <1>4 DEF AuditOrdered
<1>8. \A i \in DOMAIN stored : stored[i] \in Record
  BY <1>2
<1>9. CASE mode.transport = "none" /\ Return(s, "ok")
  <2>1. /\ result[r] = "none" /\ result'[r] = "ok"
        /\ \A q \in Record : q # r => result'[q] = result[q]
        /\ \A q \in Record : result[q] # "none" => result'[q] = result[q]
        /\ \A t \in Sender : sendPc'[t] # "idle" =>
             t # s /\ sendPc[t] = sendPc'[t] /\ sending'[t] = sending[t] /\ sending[t] # r
        /\ OneCallEach'
    BY <1>0, <1>1, <1>9, ReturnFrame, SMTT(30)
  <2>2. /\ sendPc' \in [Sender -> {"idle", "enter", "post"}]
        /\ sending' \in [Sender -> Record \cup {NoRecord}]
        /\ \A t \in Sender : sending'[t] = NoRecord <=> sendPc'[t] = "idle"
        /\ attempt' \in [Sender -> 0 .. Attempts - 1]
        /\ holder' \in Sender \cup {NoSender}
        /\ result' \in [Record -> {"none", "ok", "rejected", "unavailable"}]
    BY <1>1, <1>9, ReturnFrame, ZenonT(30)
  <2>3. DeliveryTypeOK'
    BY <1>1, <1>2, <1>3, <1>4, <2>2, ZenonT(30) DEF DeliveryTypeOK
  <2>4. DeadLettersExact' /\ deadLetters' \in Seq(Record)
    BY <1>1, <2>1, DeadLetterAdded, Zenon
  <2>5. AcceptedKept'
    BY <1>1, <1>9, Zenon DEF AcceptedKept
  <2>6. underway = {} /\ \A t \in Sender : sendPc[t] # "post"
    BY <1>2, <1>9, ZenonT(30) DEF PostsAlone
  <2>7. PostsAlone' /\ EmittedInOrder'
    BY <1>1, <1>3, <1>6, <2>1, <2>6, SMTT(30) DEF PostsAlone, EmittedInOrder
  <2>8. AuditOrdered'
    BY <1>1, <1>3, <1>7, <1>8, <2>1, SMTT(30) DEF AuditOrdered
  <2> QED
    BY <2>1, <2>3, <2>4, <2>5, <2>7, <2>8, ZenonT(30) DEF DeliveryInv
<1>10. CASE /\ mode.transport # "none"
            /\ sendPc' = [sendPc EXCEPT ![s] = "post"]
            /\ holder' = IF Serialised THEN s ELSE NoSender
            /\ UNCHANGED <<sending, attempt, result>>
  <2>1. /\ sendPc'[s] = "post"
        /\ \A t \in Sender : t # s => sendPc'[t] = sendPc[t]
        /\ sendPc' \in [Sender -> {"idle", "enter", "post"}]
    BY <1>2, <1>10, ZenonT(30)
  <2>2. DeliveryTypeOK'
    <3>1. \A t \in Sender : sending'[t] = NoRecord <=> sendPc'[t] = "idle"
      BY <1>1, <1>2, <1>10, <2>1, Zenon DEF DeliveryTypeOK
    <3>2. attempt' \in [Sender -> 0 .. Attempts' - 1]
      BY <1>2, <1>3, <1>10, Zenon DEF DeliveryTypeOK
    <3>3. holder' \in Sender \cup {NoSender}
      BY <1>10, Zenon
    <3> QED
      BY <1>1, <1>2, <1>4, <1>10, <2>1, <3>1, <3>2, <3>3, ZenonT(30) DEF DeliveryTypeOK
  <2>3. OneCallEach'
    <3>1. \A t \in Sender : sendPc'[t] # "idle" => sendPc[t] # "idle"
      BY <1>1, <2>1, ZenonT(30)
    <3> QED
      BY <1>2, <1>10, <3>1, Zenon DEF OneCallEach
  <2>4. DeadLettersExact' /\ AcceptedKept'
    BY <1>1, <1>2, <1>10 DEF DeadLettersExact, AcceptedKept, KeyStored
  <2>5. PostsAlone'
    BY <1>1, <1>2, <1>3, <1>5, <1>10, <2>1, Zenon DEF PostsAlone
  <2>6. EmittedInOrder'
    <3> SUFFICES ASSUME Serialised
                 PROVE  /\ \A t \in Sender : sendPc'[t] = "post" =>
                             Len(emitted') > 0 /\ emitted'[Len(emitted')] = sending'[t]
                        /\ \A q \in underway' : result'[q] # "none"
      BY <1>3, <1>6, Zenon DEF EmittedInOrder
    <3>1. \A q \in underway : result[q] # "none"
      BY <1>2, <1>5, ZenonT(30) DEF EmittedInOrder
    <3> QED
      BY <1>0, <1>1, <1>4, <1>5, <1>10, <2>1, <3>1, ZenonT(30)
  <2>7. AuditOrdered'
    BY <1>1, <1>3, <1>7, <1>10, SMTT(30) DEF AuditOrdered
  <2> QED
    BY <2>2, <2>3, <2>4, <2>5, <2>6, <2>7, ZenonT(30) DEF DeliveryInv
<1> QED
  BY <1>9, <1>10, Zenon DEF Enter

(* A failed attempt that is not the last: the request may have arrived and *)
(* may arrive again, the call goes on.                                     *)
LEMMA RetryKeeps ==
  ASSUME DeliveryInv, NEW s \in Sender, sendPc[s] = "post",
         Store(sending[s]) \/ UNCHANGED stored,
         underway' = underway \cup {sending[s]},
         attempt[s] < Attempts - 1, attempt' = [attempt EXCEPT ![s] = @ + 1],
         UNCHANGED <<mode, emitted, sendPc, sending, holder, deadLetters, result>>
  PROVE  DeliveryInv'
<1>0. PICK r \in Record : r = sending[s]
  BY DeliveryTypes, Zenon DEF DeliveryInv
<1>1. /\ DeliveryTypeOK /\ OneCallEach /\ DeadLettersExact /\ AcceptedKept /\ PostsAlone
      /\ EmittedInOrder /\ AuditOrdered
      /\ stored \in Seq(Record) /\ emitted \in Seq(Record)
  BY DeliveryTypes, Zenon DEF DeliveryInv
<1>2. UNCHANGED <<Serialised, Attempts>>
  BY Zenon DEF Serialised, Attempts
<1>3. /\ Store(r) \/ UNCHANGED stored
      /\ underway' = underway \cup {r}
  BY <1>0, Zenon
<1>4. /\ stored' \in Seq(Record)
      /\ \A q \in Record : KeyStored(q) => KeyStored(q)'
  BY <1>1, <1>3, StoreGrows, Zenon
<1>5. attempt' \in [Sender -> 0 .. Attempts - 1]
  BY DeliveryTypes DEF DeliveryInv
<1>6. DeliveryTypeOK'
  BY <1>1, <1>2, <1>3, <1>4, <1>5, Zenon DEF DeliveryTypeOK
<1>7. OneCallEach' /\ DeadLettersExact'
  BY <1>1, Zenon DEF OneCallEach, DeadLettersExact
<1>8. AcceptedKept'
  BY <1>1, <1>4, Zenon DEF AcceptedKept
<1>9. PostsAlone'
  BY <1>1, <1>2, ZenonT(30) DEF PostsAlone
<1>10. Serialised => Len(emitted) > 0 /\ emitted[Len(emitted)] = r /\ Len(emitted) \in DOMAIN emitted
  BY <1>0, <1>1 DEF EmittedInOrder
<1>11. /\ AuditOrdered'
       /\ Serialised => \A i \in DOMAIN stored' :
                          \E m \in DOMAIN emitted' : emitted'[m] = stored'[i]
  BY <1>3, <1>10, OrderKept, ZenonT(30)
<1>12. EmittedInOrder'
  BY <1>0, <1>1, <1>2, <1>3, <1>10, <1>11, SMTT(30) DEF EmittedInOrder
<1> QED
  BY <1>6, <1>7, <1>8, <1>9, <1>11, <1>12, Zenon DEF DeliveryInv

(* A request the client gave up on arrives: of the record being posted, or *)
(* of one whose call is over and which, if it succeeded, is stored.        *)
LEMMA LateKeeps ==
  ASSUME DeliveryInv, LateArrives
  PROVE  DeliveryInv'
<1>0. PICK r \in underway : underway' = underway \ {r} /\ Store(r)
  BY Zenon DEF LateArrives
<1>1. /\ DeliveryTypeOK /\ OneCallEach /\ DeadLettersExact /\ AcceptedKept /\ PostsAlone
      /\ EmittedInOrder /\ AuditOrdered
      /\ stored \in Seq(Record) /\ emitted \in Seq(Record)
      /\ result \in [Record -> {"none", "ok", "rejected", "unavailable"}]
  BY DeliveryTypes, Zenon DEF DeliveryInv
<1>2. /\ UNCHANGED <<mode, sendPc, sending, attempt, holder, emitted, deadLetters, result>>
      /\ UNCHANGED <<Serialised, Attempts>>
  BY Zenon DEF LateArrives, Serialised, Attempts
<1>3. r \in Record /\ mode.transport # "none"
  BY <1>1, Zenon DEF DeliveryTypeOK, PostsAlone
<1>4. /\ stored' \in Seq(Record)
      /\ \A q \in Record : KeyStored(q) => KeyStored(q)'
  BY <1>0, <1>1, <1>3, StoreGrows, Zenon
<1>5. DeliveryTypeOK'
  BY <1>0, <1>1, <1>2, <1>4, Zenon DEF DeliveryTypeOK
<1>6. OneCallEach' /\ DeadLettersExact'
  BY <1>1, <1>2, Zenon DEF OneCallEach, DeadLettersExact
<1>7. AcceptedKept'
  BY <1>1, <1>2, <1>4, Zenon DEF AcceptedKept
<1>8. PostsAlone'
  BY <1>1, <1>2, <1>3, Zenon DEF PostsAlone
<1>9. ASSUME Serialised, ~ KeyStored(r)
      PROVE  /\ \E m \in DOMAIN emitted : emitted[m] = r
             /\ \/ result'[r] \in {"rejected", "unavailable"}
                \/ Len(emitted) > 0 /\ emitted[Len(emitted)] = r
  <2>1. \E m \in DOMAIN emitted : emitted[m] = r
    BY <1>1, <1>9, Zenon DEF EmittedInOrder
  <2>2. result[r] # "ok"
    BY <1>1, <1>3, <1>9, Zenon DEF AcceptedKept
  <2>3. result[r] = "none" => Len(emitted) > 0 /\ emitted[Len(emitted)] = r
    BY <1>1, <1>9, Zenon DEF EmittedInOrder
  <2> QED
    BY <1>1, <1>2, <1>3, <2>1, <2>2, <2>3, ZenonT(30)
<1>10. /\ AuditOrdered'
       /\ Serialised => \A i \in DOMAIN stored' :
                          \E m \in DOMAIN emitted' : emitted'[m] = stored'[i]
  BY <1>0, <1>2, <1>3, <1>9, OrderKept, ZenonT(30)
<1>11. EmittedInOrder'
  BY <1>0, <1>1, <1>2, <1>10, SMTT(30) DEF EmittedInOrder
<1> QED
  BY <1>5, <1>6, <1>7, <1>8, <1>10, <1>11, ZenonT(30) DEF DeliveryInv

(* Every step of every call, and every late request, keeps the invariant. *)
LEMMA DeliveryStep == DeliveryInv /\ [DeliveryNext]_deliveryVars => DeliveryInv'
<1> SUFFICES ASSUME DeliveryInv, [DeliveryNext]_deliveryVars
             PROVE  DeliveryInv'
  OBVIOUS
<1>1. ASSUME NEW s \in Sender, Accepted(s)
      PROVE  DeliveryInv'
  BY <1>1, PostReturns, Zenon DEF Accepted
<1>2. ASSUME NEW s \in Sender, Rejected(s)
      PROVE  DeliveryInv'
  BY <1>2, PostReturns, Zenon DEF Rejected
<1>3. ASSUME NEW s \in Sender, Failed(s)
      PROVE  DeliveryInv'
  <2>1. CASE /\ attempt[s] < Attempts - 1
             /\ attempt' = [attempt EXCEPT ![s] = @ + 1]
             /\ UNCHANGED <<sendPc, sending, holder, deadLetters, result>>
    BY <1>3, <2>1, RetryKeeps, Zenon DEF Failed
  <2>2. CASE /\ deadLetters' = Append(deadLetters, sending[s])
             /\ Return(s, "unavailable")
    BY <1>3, <2>2, PostReturns, Zenon DEF Failed
  <2> QED
    BY <1>3, <2>1, <2>2, Zenon DEF Failed
<1>4. CASE UNCHANGED deliveryVars
  <2>1. UNCHANGED <<Serialised, Attempts>>
    BY <1>4, Zenon DEF deliveryVars, Serialised, Attempts
  <2>2. DeliveryTypeOK' /\ OneCallEach'
    BY <1>4, <2>1, Zenon DEF DeliveryInv, deliveryVars, DeliveryTypeOK, OneCallEach
  <2>3. DeadLettersExact' /\ AcceptedKept' /\ PostsAlone'
    BY <1>4, <2>1, ZenonT(30) DEF DeliveryInv, deliveryVars, DeadLettersExact, AcceptedKept, KeyStored,
                      PostsAlone
  <2>4. EmittedInOrder' /\ AuditOrdered'
    BY <1>4, <2>1 DEF DeliveryInv, deliveryVars, EmittedInOrder, AuditOrdered
  <2> QED
    BY <2>2, <2>3, <2>4, Zenon DEF DeliveryInv
<1> QED
  BY <1>1, <1>2, <1>3, <1>4, CallKeeps, EnterKeeps, LateKeeps, Zenon DEF DeliveryNext, ClientStep

(* Before the first call nothing is stored, dead-lettered or on its way. *)
LEMMA DeliveryStart == DeliveryInit => DeliveryInv
<1> SUFFICES ASSUME DeliveryInit
             PROVE  DeliveryInv
  OBVIOUS
<1>1. <<>> \in Seq(Record) /\ DOMAIN <<>> = {}
  OBVIOUS
<1>2. Attempts \in {1, 3}
  BY Zenon DEF Attempts
<1>3. DeliveryTypeOK
  BY <1>1, <1>2 DEF DeliveryInit, DeliveryTypeOK
<1>4. OneCallEach /\ DeadLettersExact /\ AcceptedKept /\ PostsAlone
  BY DEF DeliveryInit, OneCallEach, DeadLettersExact, AcceptedKept, PostsAlone
<1>5. EmittedInOrder /\ AuditOrdered
  BY Zenon DEF DeliveryInit, EmittedInOrder, AuditOrdered
<1> QED
  BY <1>3, <1>4, <1>5, Zenon DEF DeliveryInv

(* Dead letters that are exact are counted exactly. *)
LEMMA DeadLettersCounted == DeliveryInv => Accounted
<1> SUFFICES ASSUME DeliveryInv, NEW r \in Record
             PROVE  /\ result[r] = "ok" /\ mode.transport # "none" => KeyStored(r)
                    /\ Count(deadLetters, r) = IF result[r] = "unavailable" THEN 1 ELSE 0
  BY Zenon DEF Accounted
<1>1. AcceptedKept /\ DeadLettersExact
  BY Zenon DEF DeliveryInv
<1>2. CASE result[r] = "unavailable"
  <2>1. PICK i \in DOMAIN deadLetters : deadLetters[i] = r
    BY <1>1, <1>2, ZenonT(30) DEF DeadLettersExact
  <2>2. {j \in DOMAIN deadLetters : deadLetters[j] = r} = {i}
    BY <1>1, <2>1 DEF DeadLettersExact
  <2> QED
    BY <1>1, <1>2, <2>2, FS_Singleton, Zenon DEF Count
<1>3. CASE result[r] # "unavailable"
  <2>1. {j \in DOMAIN deadLetters : deadLetters[j] = r} = {}
    BY <1>1, <1>3 DEF DeadLettersExact
  <2> QED
    BY <1>1, <1>3, <2>1, FS_EmptySet, ZenonT(30) DEF Count, AcceptedKept
<1> QED
  BY <1>2, <1>3, Zenon

(* Whatever the number of callers of AuditClient.Emit or                   *)
(* ReconClient.publish, the transport and the requests that fail or come   *)
(* late: a record whose call returned nil is stored under its key, one     *)
(* whose call gave up is dead-lettered exactly once, no other is.          *)
THEOREM DeliveryAlwaysAccounted == DeliverySpec => []Accounted
BY DeliveryStart, DeliveryStep, DeadLettersCounted, PTL DEF DeliverySpec

(* Under AuditClient.mu the audit events are stored in the order of their  *)
(* Emit calls, but for those whose Emit failed, for any number of callers, *)
(* events and failing attempts.                                            *)
THEOREM AuditAlwaysOrdered == DeliverySpec => []AuditOrdered
<1>1. DeliveryInv => AuditOrdered
  BY Zenon DEF DeliveryInv
<1> QED
  BY <1>1, DeliveryStart, DeliveryStep, PTL DEF DeliverySpec

-----------------------------------------------------------------------------
(***************************************************************************)
(* ServiceLife: what the tables hold wherever the process ended.  Whatever *)
(* a handler has passed is in the tables or among the statements that      *)
(* failed (Kept), which never shrinks; so a handler that is through has    *)
(* left all it owed, and shutdown only cuts off the handlers it names      *)
(* (cut).                                                                  *)
(***************************************************************************)
Job == [at: {"idle", "quote", "execute", "update", "pnl", "cover", "route", "sample",
             "store", "fills"},
        id: HedgeId \cup {0}, request: Request \cup {""}, dated: BOOLEAN, fill: Nat]
HedgeRow == [status: {"none", "EXECUTING", "EXECUTED", "FAILED"},
             request: Request \cup {""}, dated: BOOLEAN]
Origin == [by: {"none", "rest", "leg"}, fills: Nat]

LifeTypeOK ==
  /\ hedges \in [HedgeId -> HedgeRow]
  /\ work \in [Handler -> Job]
  /\ made \in [HedgeId -> Origin]
  /\ \A id \in HedgeId : <<"hedges", id, 0>> \notin rows

(* The statements that succeeded or failed, those on table hedges included. *)
Kept == rows \cup refused \cup {<<"hedges", id, 0>> : id \in {i \in HedgeId : hedges[i] # NoRow}}

Sampled(id, n, kept) == \A k \in 1 .. n : <<"slippage_samples", id, k>> \in kept
Filled(id, n, kept) == \A k \in 1 .. n : <<"hedge_executions", id, k>> \in kept

(* A CreateHedge handler with job j, whose hedge came about as m. *)
RestOK(j, m, kept) ==
  /\ m.by = "rest"
  /\ j.at \in {"quote", "execute", "sample", "update", "pnl", "cover"}
  /\ j.at # "quote" => <<"hedges", j.id, 0>> \in kept
  /\ j.at = "cover" => <<"fx_pnl", j.id, 0>> \in kept

(* An executeLeg handler. *)
LegOK(j, m, kept) ==
  /\ m.by = "leg"
  /\ j.at \in {"route", "sample", "store", "fills", "cover"}
  /\ j.at \in {"fills", "cover"} => <<"hedges", j.id, 0>> \in kept
  /\ j.at = "fills" => j.fill \in 1 .. m.fills /\ Filled(j.id, j.fill - 1, kept)
  /\ j.at = "cover" => Filled(j.id, m.fills, kept)

JobOK(w, j, m, kept) ==
  /\ j.id \in HedgeId
  /\ IF w \in RestHandler THEN RestOK(j, m, kept) ELSE LegOK(j, m, kept)
  /\ IF j.at \in {"quote", "execute", "route"} THEN m.fills = 0 ELSE m.fills >= 1
  /\ j.at \notin {"sample", "fills"} => j.fill = 1
  /\ j.at = "sample" => j.fill >= 1 /\ Sampled(j.id, j.fill - 1, kept)
  /\ j.at \in {"update", "pnl", "store", "fills", "cover"} => Sampled(j.id, m.fills, kept)

(* Nothing of the hedge is missing. *)
SettledOK(id, m, kept) ==
  m.fills > 0 =>
    /\ <<"hedges", id, 0>> \in kept
    /\ Sampled(id, m.fills, kept)
    /\ IF m.by = "rest" THEN <<"fx_pnl", id, 0>> \in kept ELSE Filled(id, m.fills, kept)

JobsInv ==
  /\ \A w \in Handler : work[w] # Idle => JobOK(w, work[w], made[work[w].id], Kept)
  /\ \A v, w \in Handler :
       work[v] # Idle /\ work[w] # Idle /\ work[v].id = work[w].id => v = w

HedgesInv ==
  /\ \A id \in HedgeId : made[id].by = "none" => made[id].fills = 0
  /\ \A id \in HedgeId \ cut :
       id \notin HedgesOf(Handler) => SettledOK(id, made[id], Kept)

RecordInv ==
  /\ covered \subseteq HedgeId
  /\ \A id \in covered : <<"hedges", id, 0>> \in Kept
  /\ \A id \in HedgeId, k \in Nat :
       <<"hedge_executions", id, k>> \in rows => <<"slippage_samples", id, k>> \in Kept

ProcInv ==
  /\ proc = "stopping" => HedgesOf(RestHandler) \subseteq cut
  /\ proc = "down" => \A w \in Handler : work[w] = Idle

(* The inductive invariant behind the three theorems. *)
LifeInv == LifeTypeOK /\ JobsInv /\ HedgesInv /\ RecordInv /\ ProcInv

-----------------------------------------------------------------------------
(* What a handler has left behind stays: JobOK and SettledOK survive as    *)
(* Kept grows.                                                             *)
LEMMA KeptGrows ==
  ASSUME NEW w, NEW j \in Job, NEW m \in Origin, NEW id, NEW kept, NEW more, kept \subseteq more
  PROVE  /\ JobOK(w, j, m, kept) => JobOK(w, j, m, more)
         /\ SettledOK(id, m, kept) => SettledOK(id, m, more)
PROOF
  <1>1. \A i, n : (Sampled(i, n, kept) => Sampled(i, n, more))
                  /\ (Filled(i, n, kept) => Filled(i, n, more))
    BY Zenon DEF Sampled, Filled
  <1> QED BY <1>1, Zenon DEF JobOK, RestOK, LegOK, SettledOK

(* An INSERT, whether the database answers or not, adds itself to Kept. *)
LEMMA InsertKept ==
  ASSUME LifeTypeOK, NEW table \in {"slippage_samples", "fx_pnl", "hedge_executions"},
         NEW id \in HedgeId, NEW k \in Nat, Insert(table, id, k)
  PROVE  /\ Kept' = Kept \cup {<<table, id, k>>}
         /\ rows' \subseteq rows \cup {<<table, id, k>>}
         /\ hedges' = hedges
         /\ \A i \in HedgeId : <<"hedges", i, 0>> \notin rows'
PROOF
  <1>1. rows' \cup refused' = rows \cup refused \cup {<<table, id, k>>}
    BY Zenon DEF Insert
  <1>2. hedges' = hedges
    BY Zenon DEF Insert
  <1>3. rows' \subseteq rows \cup {<<table, id, k>>}
    BY Zenon DEF Insert
  <1>4. \A i : <<"hedges", i, 0>> # <<table, id, k>>
    BY Zenon
  <1> QED BY <1>1, <1>2, <1>3, <1>4, Zenon DEF Kept, LifeTypeOK

(* A row of table hedges is never taken for NoRow. *)
LEMMA NoRowStatus == NoRow.status = "none"
PROOF BY Zenon DEF NoRow

(* The INSERT of a hedge (CreateHedge) adds itself to Kept. *)
LEMMA CreateKept ==
  ASSUME LifeTypeOK, NEW id \in HedgeId, NEW h \in HedgeRow, h.status # "none",
         CreateHedge(id, h)
  PROVE  /\ Kept' = Kept \cup {<<"hedges", id, 0>>}
         /\ rows' = rows
         /\ hedges' \in [HedgeId -> HedgeRow]
PROOF
  <1>1. h # NoRow
    BY NoRowStatus, Zenon
  <1>2. rows' = rows /\ hedges' \in [HedgeId -> HedgeRow]
    BY Zenon DEF CreateHedge, LifeTypeOK
  <1>3. CASE dbUp
    <2>1. hedges' = [hedges EXCEPT ![id] = h] /\ refused' = refused
      BY <1>3, Zenon DEF CreateHedge
    <2>2. {i \in HedgeId : hedges'[i] # NoRow} = {i \in HedgeId : hedges[i] # NoRow} \cup {id}
      BY <2>1, <1>1, Zenon DEF LifeTypeOK
    <2> QED BY <2>1, <2>2, <1>2 DEF Kept
  <1>4. CASE ~ dbUp
    BY <1>4, <1>2, Zenon DEF Kept, CreateHedge
  <1> QED BY <1>2, <1>3, <1>4, Zenon

(* UpdateHedge of a hedge whose fills are sampled adds only their rows. *)
LEMMA UpdateKept ==
  ASSUME LifeTypeOK, NEW id \in HedgeId, NEW status \in {"FAILED", "EXECUTED"},
         NEW n \in Nat, UpdateHedge(id, status, n)
  PROVE  /\ Kept \subseteq Kept'
         /\ rows' \subseteq rows \cup {<<"hedge_executions", id, k>> : k \in 1 .. n}
         /\ hedges' \in [HedgeId -> HedgeRow]
         /\ \A i \in HedgeId : <<"hedges", i, 0>> \notin rows'
PROOF
  <1>1. CASE Readable(id)
    <2>1. /\ hedges' = [hedges EXCEPT ![id].status = status]
          /\ rows' = rows \cup {<<"hedge_executions", id, k>> : k \in 1 .. n}
          /\ refused' = refused
      BY <1>1, Zenon DEF UpdateHedge
    <2>2. hedges' \in [HedgeId -> HedgeRow]
      BY <2>1, Zenon DEF LifeTypeOK, HedgeRow
    <2>3. hedges'[id].status = status
      BY <2>1, Zenon DEF LifeTypeOK, HedgeRow
    <2>4. hedges'[id] # NoRow
      BY <2>3, NoRowStatus, Zenon
    <2>5. \A i \in HedgeId : hedges[i] # NoRow => hedges'[i] # NoRow
      BY <2>1, <2>4, Zenon DEF LifeTypeOK
    <2>6. \A i \in HedgeId : <<"hedges", i, 0>> \notin rows'
      BY <2>1, Zenon DEF LifeTypeOK
    <2>7. rows' = rows \cup {<<"hedge_executions", id, k>> : k \in 1 .. n} /\ refused' = refused
      BY <2>1, Zenon
    <2>8. Kept \subseteq Kept'
      BY <2>5, <2>7, Zenon DEF Kept
    <2> QED BY <2>2, <2>6, <2>7, <2>8, Zenon
  <1>2. CASE ~ Readable(id)
    <2>1. UNCHANGED dbVars
      BY <1>2, Zenon DEF UpdateHedge
    <2> QED BY <2>1, Zenon DEF dbVars, Kept, LifeTypeOK
  <1> QED BY <1>1, <1>2, Zenon

-----------------------------------------------------------------------------
(* A busy handler works on a hedge of its own, made by its API. *)
LEMMA BusyJob ==
  ASSUME LifeInv, NEW w \in Handler, work[w] # Idle
  PROVE  /\ work[w] \in Job /\ work[w].id \in HedgeId
         /\ JobOK(w, work[w], made[work[w].id], Kept)
         /\ made[work[w].id] \in Origin /\ made[work[w].id].by # "none"
         /\ proc # "down"
PROOF
  <1>1. JobOK(w, work[w], made[work[w].id], Kept) /\ work[w] \in Job /\ proc # "down"
    BY Zenon DEF LifeInv, JobsInv, LifeTypeOK, ProcInv
  <1>2. work[w].id \in HedgeId /\ made[work[w].id].by # "none"
    BY <1>1, Zenon DEF JobOK, RestOK, LegOK
  <1> QED BY <1>1, <1>2, Zenon DEF LifeInv, LifeTypeOK

(* A step of one handler keeps the invariant when it keeps its own part:   *)
(* the handler goes on with its hedge, or leaves it settled.               *)
LEMMA JobStep ==
  ASSUME LifeInv, NEW w \in Handler, work[w] # Idle,
         NEW j \in Job, work' = [work EXCEPT ![w] = j],
         \A id \in HedgeId : id # work[w].id => made'[id] = made[id],
         made'[work[w].id].by = made[work[w].id].by,
         LifeTypeOK', Kept \subseteq Kept', RecordInv',
         proc' = proc, cut' = cut,
         \/ j = Idle /\ SettledOK(work[w].id, made'[work[w].id], Kept')
         \/ j # Idle /\ j.id = work[w].id /\ JobOK(w, j, made'[j.id], Kept')
  PROVE  LifeInv'
PROOF
  <1>1. work \in [Handler -> Job] /\ made \in [HedgeId -> Origin]
    BY Zenon DEF LifeInv, LifeTypeOK
  <1>2. /\ work[w].id \in HedgeId /\ made[work[w].id].by # "none" /\ proc # "down"
    BY BusyJob, Zenon
  <1>3. \A v \in Handler \ {w} : work'[v] = work[v]
    BY <1>1, Zenon
  <1>4. work'[w] = j
    BY <1>1, Zenon
  <1>5. \A v \in Handler \ {w} : work[v] # Idle =>
          work[v].id \in HedgeId /\ work[v].id # work[w].id
    BY BusyJob, Zenon DEF LifeInv, JobsInv
  <1>6. \A v \in Handler \ {w} : work[v] # Idle =>
          JobOK(v, work[v], made'[work[v].id], Kept')
    <2> SUFFICES ASSUME NEW v \in Handler \ {w}, work[v] # Idle
                 PROVE  JobOK(v, work[v], made'[work[v].id], Kept')
      BY Zenon
    <2>1. made'[work[v].id] = made[work[v].id]
      BY <1>5, Zenon
    <2>2. /\ JobOK(v, work[v], made[work[v].id], Kept)
          /\ work[v] \in Job /\ made[work[v].id] \in Origin
      BY BusyJob, Zenon
    <2> QED BY <2>1, <2>2, KeptGrows, Zenon
  <1>7. JobsInv'
    <2>1. \A v \in Handler : work'[v] # Idle => JobOK(v, work'[v], made'[work'[v].id], Kept')
      BY <1>3, <1>4, <1>6, ZenonT(30)
    <2>2. \A u, v \in Handler :
            work'[u] # Idle /\ work'[v] # Idle /\ work'[u].id = work'[v].id => u = v
      BY <1>3, <1>4, <1>5 DEF LifeInv, JobsInv
    <2> QED BY <2>1, <2>2, Zenon DEF JobsInv
  <1>8. HedgesInv'
    <2>1. \A id \in HedgeId : made'[id].by = "none" => made'[id].fills = 0
      BY <1>2, Zenon DEF LifeInv, HedgesInv
    <2>2. ASSUME NEW id \in HedgeId \ cut', id \notin HedgesOf(Handler)'
          PROVE  SettledOK(id, made'[id], Kept')
      <3>1. CASE id = work[w].id
        <4>1. j = Idle
          BY <2>2, <3>1, <1>4, Zenon DEF HedgesOf, Busy
        <4> QED BY <3>1, <4>1, Zenon DEF JobOK
      <3>2. CASE id # work[w].id
        <4>1. id \notin HedgesOf(Handler)
          BY <2>2, <3>2, <1>3 DEF HedgesOf, Busy
        <4>2. SettledOK(id, made[id], Kept)
          BY <2>2, <4>1, Zenon DEF LifeInv, HedgesInv
        <4>3. made'[id] = made[id] /\ made[id] \in Origin
          BY <1>1, <2>2, <3>2, Zenon
        <4> QED BY <1>1, <4>2, <4>3, KeptGrows, ZenonT(30)
      <3> QED BY <3>1, <3>2, Zenon
    <2> QED BY <2>1, <2>2, Zenon DEF HedgesInv
  <1>9. ProcInv'
    <2>1. HedgesOf(RestHandler)' \subseteq HedgesOf(RestHandler)
      <3> SUFFICES ASSUME NEW v \in RestHandler, work'[v] # Idle
                   PROVE  work'[v].id \in HedgesOf(RestHandler)
        BY Zenon DEF HedgesOf, Busy
      <3>1. CASE v = w
        BY <1>4, <3>1, Zenon DEF HedgesOf, Busy
      <3>2. CASE v # w
        BY <1>3, <3>2, Zenon DEF HedgesOf, Busy, Handler
      <3> QED BY <3>1, <3>2, Zenon
    <2> QED BY <1>2, <2>1, Zenon DEF LifeInv, ProcInv
  <1> QED BY <1>7, <1>8, <1>9, Zenon DEF LifeInv

-----------------------------------------------------------------------------
(* The job of a handler that serves nothing. *)
LEMMA IdleJob == Idle \in Job /\ Idle.at = "idle" /\ Idle.id = 0
PROOF BY Zenon DEF Idle, Job

(* A handler that goes to its next statement keeps its hedge. *)
LEMMA GotoJob ==
  ASSUME LifeInv, NEW w \in Handler, NEW here, here # "idle",
         NEW next \in {"execute", "update", "pnl", "cover", "sample", "store", "fills"},
         Goto(w, here, next)
  PROVE  /\ work[w] # Idle
         /\ \E j \in Job : /\ work' = [work EXCEPT ![w] = j] /\ j # Idle
                           /\ j.at = next /\ j.id = work[w].id /\ j.fill = work[w].fill
PROOF
  <1> DEFINE j == [work[w] EXCEPT !.at = next]
  <1>1. work[w] # Idle /\ work[w] \in Job
    BY IdleJob, Zenon DEF Goto, LifeInv, LifeTypeOK
  <1>2. j \in Job /\ j.at = next /\ j.id = work[w].id /\ j.fill = work[w].fill
    BY <1>1, Zenon DEF Job
  <1>3. work' = [work EXCEPT ![w] = j]
    BY Zenon DEF Goto, LifeInv, LifeTypeOK
  <1>4. j # Idle
    BY <1>2, IdleJob, Zenon
  <1> HIDE DEF j
  <1> QED BY <1>1, <1>2, <1>3, <1>4, Zenon

(* A handler that ends leaves its job. *)
LEMMA GotoIdle ==
  ASSUME LifeInv, NEW w \in Handler, NEW here, here # "idle", Goto(w, here, "idle")
  PROVE  work[w] # Idle /\ work[w].at = here /\ work' = [work EXCEPT ![w] = Idle]
PROOF BY IdleJob, Zenon DEF Goto, LifeInv, LifeTypeOK

(* No fill is no work. *)
LEMMA NoFills == 1 .. 0 = {} /\ ~ (0 > 0)
PROOF OBVIOUS

(* Before the first fill nothing is owed. *)
LEMMA FirstFill ==
  ASSUME NEW id, NEW kept, NEW k, k = 1
  PROVE  /\ k >= 1 /\ Sampled(id, k - 1, kept) /\ Filled(id, k - 1, kept)
         /\ \A n \in Nat : n >= 1 => k \in 1 .. n
PROOF BY DEF Sampled, Filled

(* The loop over the fills goes to the next fill, or on after the last. *)
LEMMA EachJob ==
  ASSUME LifeInv, NEW w \in Handler, NEW here \in {"sample", "fills"},
         NEW next \in {"update", "store", "cover"}, EachFill(w, here, next)
  PROVE  /\ work[w] # Idle /\ work[w].at = here
         /\ \E j \in Job :
              /\ work' = [work EXCEPT ![w] = j] /\ j # Idle /\ j.id = work[w].id
              /\ \/ /\ work[w].fill < made[work[w].id].fills
                    /\ j.at = here /\ j.fill = work[w].fill + 1
                 \/ /\ ~ (work[w].fill < made[work[w].id].fills)
                    /\ j.at = next /\ j.fill = 1
PROOF
  <1>1. work[w] # Idle /\ work[w] \in Job /\ work[w].at = here
    BY IdleJob, Zenon DEF EachFill, LifeInv, LifeTypeOK
  <1>2. CASE work[w].fill < made[work[w].id].fills
    <2> DEFINE n == work[w].fill + 1
               j == [work[w] EXCEPT !.fill = n]
    <2>0. n \in Nat
      <3>1. work[w].fill \in Nat
        BY <1>1, Zenon DEF Job
      <3> QED BY <3>1
    <2>2. work' = [work EXCEPT ![w] = j]
      BY <1>2, Zenon DEF EachFill, LifeInv, LifeTypeOK
    <2>1. j \in Job /\ j.at = here /\ j.id = work[w].id /\ j.fill = n
      <3> HIDE DEF n
      <3> QED BY <1>1, <2>0, Zenon DEF Job
    <2>3. j # Idle
      BY <2>1, IdleJob, Zenon
    <2> HIDE DEF j
    <2> QED BY <1>1, <1>2, <2>1, <2>2, <2>3, Zenon
  <1>3. CASE ~ (work[w].fill < made[work[w].id].fills)
    <2> DEFINE i == [work[w] EXCEPT !.fill = 1]
               j == [i EXCEPT !.at = next]
    <2>0. i \in Job /\ i.id = work[w].id /\ i.fill = 1
      BY <1>1, Zenon DEF Job
    <2>2. work' = [work EXCEPT ![w] = j]
      BY <1>3, Zenon DEF EachFill, LifeInv, LifeTypeOK
    <2>1. j \in Job /\ j.at = next /\ j.id = work[w].id /\ j.fill = 1
      <3> HIDE DEF i
      <3> QED BY <2>0, Zenon DEF Job
    <2>3. j # Idle
      BY <2>1, IdleJob, Zenon
    <2> HIDE DEF j
    <2> QED BY <1>1, <1>3, <2>1, <2>2, <2>3, Zenon
  <1> QED BY <1>2, <1>3, Zenon

(* The record stays whole when each new row of hedge_executions has its    *)
(* sample.                                                                 *)
LEMMA RecordKept ==
  ASSUME LifeInv, Kept \subseteq Kept', covered' = covered,
         \A id \in HedgeId, k \in Nat :
           <<"hedge_executions", id, k>> \in rows' \ rows => <<"slippage_samples", id, k>> \in Kept'
  PROVE  RecordInv'
PROOF BY Zenon DEF RecordInv, LifeInv

-----------------------------------------------------------------------------
(* The row that a handler inserts is one of table hedges. *)
LEMMA RowTyped ==
  ASSUME LifeInv, NEW w \in Handler, NEW status \in {"FAILED", "EXECUTING", "EXECUTED"}
  PROVE  Row(w, status) \in HedgeRow /\ Row(w, status).status # "none"
PROOF
  <1>1. work[w].request \in Request \cup {""} /\ work[w].dated \in BOOLEAN
    BY Zenon DEF LifeInv, LifeTypeOK, Job
  <1> QED BY <1>1, Zenon DEF Row, HedgeRow

(* A handler takes a request or a leg under a hedge id nobody used. *)
LEMMA TakeKeeps ==
  ASSUME LifeInv, NEW w \in Handler, NEW by \in {"rest", "leg"},
         NEW request \in Request \cup {""}, NEW dated \in BOOLEAN,
         NEW next \in {"quote", "route"},
         IF w \in RestHandler THEN by = "rest" /\ next = "quote" ELSE by = "leg" /\ next = "route",
         proc \in {"serving", "draining"},
         Take(w, by, request, dated, next), UNCHANGED <<dbVars, Rest, covered>>
  PROVE  LifeInv'
PROOF
  <1> DEFINE f == FreshId
             j == [at |-> next, id |-> f, request |-> request, dated |-> dated, fill |-> 1]
  <1>1. f \in HedgeId /\ made[f].by = "none"
    BY Zenon DEF Take, FreshId, Unused
  <1>2. work \in [Handler -> Job] /\ made \in [HedgeId -> Origin]
    BY Zenon DEF LifeInv, LifeTypeOK
  <1>3. work' = [work EXCEPT ![w] = j] /\ work[w] = Idle /\ made' = [made EXCEPT ![f].by = by]
    BY Zenon DEF Take
  <1> HIDE DEF f
  <1>4. j \in Job /\ j.at = next /\ j.id = f /\ j.fill = 1
    BY <1>1, Zenon DEF Job
  <1>5. j # Idle
    BY <1>4, <1>1, IdleJob, PostgresAssumption, Zenon
  <1> HIDE DEF j
  <1>6. /\ made' \in [HedgeId -> Origin]
        /\ made'[f].by = by /\ made'[f].fills = made[f].fills
        /\ \A id \in HedgeId \ {f} : made'[id] = made[id]
    BY <1>1, <1>2, <1>3, Zenon DEF Origin
  <1>7. made[f].fills = 0
    BY <1>1, Zenon DEF LifeInv, HedgesInv
  <1>8. Kept' = Kept /\ rows' = rows /\ hedges' = hedges
    BY Zenon DEF Kept, dbVars
  <1>9. proc' = proc /\ cut' = cut /\ covered' = covered
    BY Zenon DEF Rest
  <1>10. work' \in [Handler -> Job] /\ work'[w] = j /\ \A v \in Handler \ {w} : work'[v] = work[v]
    BY <1>2, <1>3, <1>4, Zenon
  <1>11. \A v \in Handler : work[v] # Idle => work[v].id \in HedgeId /\ work[v].id # f
    BY <1>1, BusyJob, Zenon
  <1>12. LifeTypeOK'
    BY <1>6, <1>8, <1>10, Zenon DEF LifeInv, LifeTypeOK
  <1>13. JobOK(w, j, made'[f], Kept')
    BY <1>1, <1>4, <1>6, <1>7, Zenon DEF JobOK, RestOK, LegOK
  <1>14. JobsInv'
    <2>1. \A v \in Handler \ {w} : work[v] # Idle => JobOK(v, work[v], made'[work[v].id], Kept')
      BY <1>6, <1>8, <1>11, BusyJob, Zenon
    <2>2. \A v \in Handler : work'[v] # Idle => JobOK(v, work'[v], made'[work'[v].id], Kept')
      BY <2>1, <1>4, <1>10, <1>13, Zenon
    <2>3. \A u, v \in Handler :
            work'[u] # Idle /\ work'[v] # Idle /\ work'[u].id = work'[v].id => u = v
      <3>1. \A v \in Handler \ {w} : work'[v] # Idle => work'[v].id # work'[w].id
        BY <1>4, <1>10, <1>11, Zenon
      <3>2. \A u, v \in Handler \ {w} :
              work'[u] # Idle /\ work'[v] # Idle /\ work'[u].id = work'[v].id => u = v
        BY <1>10, Zenon DEF LifeInv, JobsInv
      <3> QED BY <3>1, <3>2, Zenon
    <2> QED BY <2>2, <2>3, Zenon DEF JobsInv
  <1>15. HedgesInv'
    <2>1. \A id \in HedgeId : made'[id].by = "none" => made'[id].fills = 0
      BY <1>6, <1>7, Zenon DEF LifeInv, HedgesInv
    <2>2. ASSUME NEW id \in HedgeId \ cut', id \notin HedgesOf(Handler)'
          PROVE  SettledOK(id, made'[id], Kept')
      <3>1. id # f /\ id \notin HedgesOf(Handler)
        BY <2>2, <1>3, <1>4, <1>5, <1>10, Zenon DEF HedgesOf, Busy
      <3> QED BY <2>2, <3>1, <1>6, <1>8, <1>9, Zenon DEF LifeInv, HedgesInv
    <2> QED BY <2>1, <2>2, Zenon DEF HedgesInv
  <1>16. RecordInv'
    BY <1>8, <1>9, Zenon DEF LifeInv, RecordInv
  <1>17. ProcInv'
    BY <1>9, Zenon DEF ProcInv
  <1> QED BY <1>12, <1>14, <1>15, <1>16, <1>17, Zenon DEF LifeInv

(* The statements of CreateHedge and executeLeg that insert the hedge. *)
LEMMA CreateKeeps ==
  ASSUME LifeInv, NEW w \in Handler,
         NEW status \in {"FAILED", "EXECUTING", "EXECUTED"},
         CreateHedge(work[w].id, Row(w, status)), work[w] # Idle,
         NEW j \in Job, work' = [work EXCEPT ![w] = j],
         UNCHANGED <<Rest, covered, made>>,
         \/ j = Idle /\ work[w].at \in {"quote", "route"}
         \/ /\ w \in RestHandler /\ work[w].at = "quote"
            /\ j # Idle /\ j.at = "execute" /\ j.id = work[w].id /\ j.fill = work[w].fill
         \/ /\ w \notin RestHandler /\ work[w].at = "store"
            /\ j # Idle /\ j.at = "fills" /\ j.id = work[w].id /\ j.fill = work[w].fill
  PROVE  LifeInv'
PROOF
  <1> DEFINE id == work[w].id
             m == made[id]
  <1>1. /\ work[w] \in Job /\ id \in HedgeId /\ JobOK(w, work[w], m, Kept)
        /\ m \in Origin /\ m.by # "none"
    BY BusyJob, Zenon
  <1>2. /\ Kept' = Kept \cup {<<"hedges", id, 0>>} /\ rows' = rows
        /\ hedges' \in [HedgeId -> HedgeRow]
    BY <1>1, RowTyped, CreateKept, Zenon DEF LifeInv
  <1>3. made' = made /\ proc' = proc /\ cut' = cut /\ covered' = covered
    BY Zenon DEF Rest
  <1>4. LifeTypeOK'
    BY <1>2, <1>3, Zenon DEF LifeInv, LifeTypeOK
  <1>5. RecordInv'
    BY <1>2, <1>3, RecordKept, Zenon
  <1>6. JobOK(w, work[w], m, Kept')
    BY <1>1, <1>2, KeptGrows, Zenon
  <1> HIDE DEF id, m
  <1>7. \/ j = Idle /\ SettledOK(id, m, Kept')
        \/ j # Idle /\ j.id = id /\ JobOK(w, j, m, Kept')
    <2>1. CASE j = Idle
      BY <1>6, <2>1 DEF JobOK, SettledOK, RestOK, LegOK, id
    <2>2. CASE /\ w \in RestHandler /\ work[w].at = "quote"
               /\ j # Idle /\ j.at = "execute" /\ j.id = work[w].id /\ j.fill = work[w].fill
      BY <1>1, <1>2, <1>6, <2>2, ZenonT(30) DEF JobOK, RestOK, id
    <2>3. CASE /\ w \notin RestHandler /\ work[w].at = "store"
               /\ j # Idle /\ j.at = "fills" /\ j.id = work[w].id /\ j.fill = work[w].fill
      <3>1. j.fill = 1 /\ m.fills >= 1 /\ m.fills \in Nat
        BY <1>1, <1>6, <2>3, Zenon DEF JobOK, Origin
      <3>2. j.fill \in 1 .. m.fills /\ Filled(j.id, j.fill - 1, Kept')
        BY <3>1, FirstFill, Zenon
      <3> QED BY <1>1, <1>2, <1>6, <2>3, <3>1, <3>2, ZenonT(30) DEF JobOK, LegOK, id
    <2> QED BY <2>1, <2>2, <2>3, ZenonT(30)
  <1> QED BY <1>1, <1>2, <1>3, <1>4, <1>5, <1>7, JobStep, Zenon DEF id, m

(* The statements that insert one row: RecordPnL and StoreFill, and        *)
(* SampleFill, which may leave a stored fill out.                          *)
LEMMA InsertKeeps ==
  ASSUME LifeInv, NEW w \in Handler, work[w] # Idle,
         NEW j \in Job, j # Idle, j.id = work[w].id, work' = [work EXCEPT ![w] = j],
         hedges' = hedges, Kept \subseteq Kept',
         \A i \in HedgeId : <<"hedges", i, 0>> \notin rows',
         UNCHANGED <<Rest, covered, made>>,
         \A i \in HedgeId, k \in Nat : <<"hedge_executions", i, k>> \in rows' \ rows =>
           <<"slippage_samples", i, k>> \in Kept',
         JobOK(w, work[w], made[work[w].id], Kept') => JobOK(w, j, made[work[w].id], Kept')
  PROVE  LifeInv'
PROOF
  <1>1. /\ work[w] \in Job /\ work[w].id \in HedgeId /\ made[work[w].id] \in Origin
        /\ JobOK(w, work[w], made[work[w].id], Kept)
    BY BusyJob, Zenon
  <1>2. made' = made /\ proc' = proc /\ cut' = cut /\ covered' = covered
    BY Zenon DEF Rest
  <1>3. work' \in [Handler -> Job]
    BY Zenon DEF LifeInv, LifeTypeOK
  <1>4. LifeTypeOK'
    BY <1>2, <1>3, Zenon DEF LifeInv, LifeTypeOK
  <1>5. RecordInv'
    BY <1>2, RecordKept, Zenon
  <1>6. JobOK(w, j, made'[j.id], Kept')
    BY <1>1, <1>2, KeptGrows, Zenon
  <1> QED BY <1>2, <1>4, <1>5, <1>6, JobStep, ZenonT(30)

(* A sample is written, or its fill is stored and has one. *)
LEMMA SampleFillKeeps ==
  ASSUME LifeInv, NEW w \in Handler, SampleFill(w)
  PROVE  LifeInv'
PROOF
  <1> DEFINE id == work[w].id
             k == work[w].fill
             m == made[id]
             next == AfterSamples(w)
  <1>1. next \in {"update", "store", "cover"} /\ EachFill(w, "sample", next)
    BY Zenon DEF AfterSamples, SampleFill
  <1>2. /\ work[w] # Idle /\ work[w].at = "sample"
        /\ \E j \in Job :
             /\ work' = [work EXCEPT ![w] = j] /\ j # Idle /\ j.id = work[w].id
             /\ \/ /\ work[w].fill < made[work[w].id].fills
                   /\ j.at = "sample" /\ j.fill = work[w].fill + 1
                \/ /\ ~ (work[w].fill < made[work[w].id].fills)
                   /\ j.at = next /\ j.fill = 1
    <2> HIDE DEF next
    <2> QED BY <1>1, EachJob, ZenonT(30)
  <1>3. PICK j \in Job :
          /\ work' = [work EXCEPT ![w] = j] /\ j # Idle /\ j.id = id
          /\ \/ k < m.fills /\ j.at = "sample" /\ j.fill = k + 1
             \/ ~ (k < m.fills) /\ j.at = next /\ j.fill = 1
    BY <1>2, Zenon
  <1>4. id \in HedgeId /\ work[w] \in Job /\ m \in Origin /\ JobOK(w, work[w], m, Kept)
    BY <1>2, BusyJob, Zenon
  <1>5. k \in Nat /\ m.fills \in Nat
    BY <1>4, Zenon DEF Job, Origin
  <1>6. UNCHANGED <<Rest, covered, made>>
    BY Zenon DEF SampleFill
  <1>7. /\ hedges' = hedges /\ Kept \subseteq Kept'
        /\ \A i \in HedgeId : <<"hedges", i, 0>> \notin rows'
        /\ \A i \in HedgeId, n \in Nat : <<"hedge_executions", i, n>> \notin rows' \ rows
        /\ <<"slippage_samples", id, k>> \in Kept'
    <2>1. CASE w \in RestHandler /\ HasFill(id, k)
      <3>1. UNCHANGED dbVars
        BY <2>1, Zenon DEF SampleFill
      <3>2. <<"slippage_samples", id, k>> \in Kept
        BY <2>1, <1>4, <1>5, Zenon DEF HasFill, LifeInv, RecordInv
      <3>3. Kept' = Kept
        BY <3>1, Zenon DEF dbVars, Kept
      <3> QED BY <3>1, <3>2, <3>3, Zenon DEF dbVars, LifeInv, LifeTypeOK
    <2>2. CASE ~ (w \in RestHandler /\ HasFill(id, k))
      <3>1. Insert("slippage_samples", id, k)
        BY <2>2, Zenon DEF SampleFill
      <3>2. /\ Kept' = Kept \cup {<<"slippage_samples", id, k>>}
            /\ rows' \subseteq rows \cup {<<"slippage_samples", id, k>>}
            /\ hedges' = hedges
            /\ \A i \in HedgeId : <<"hedges", i, 0>> \notin rows'
        BY <3>1, <1>4, <1>5, InsertKept, Zenon DEF LifeInv
      <3> QED BY <3>2, Zenon
    <2> QED BY <2>1, <2>2, Zenon
  <1>8. ASSUME JobOK(w, work[w], m, Kept')
        PROVE  JobOK(w, j, m, Kept')
    <2>1. k >= 1 /\ Sampled(id, k - 1, Kept') /\ m.fills >= 1
      BY <1>2, <1>8, ZenonT(30) DEF JobOK
    <2>2. Sampled(id, k, Kept')
      BY <2>1, <1>5, <1>7, SMTT(30) DEF Sampled
    <2>3. IF w \in RestHandler THEN m.by = "rest" /\ <<"hedges", id, 0>> \in Kept' ELSE m.by = "leg"
      BY <1>2, <1>8, ZenonT(30) DEF JobOK, RestOK, LegOK
    <2>4. CASE k < m.fills /\ j.at = "sample" /\ j.fill = k + 1
      <3>1. j.fill - 1 = k /\ j.fill >= 1
        BY <2>4, <1>5, SMTT(30)
      <3> HIDE DEF id, k, m, next
      <3> QED BY <1>3, <1>4, <2>1, <2>2, <2>3, <2>4, <3>1, ZenonT(30) DEF JobOK, RestOK, LegOK
    <2>5. CASE ~ (k < m.fills) /\ j.at = next /\ j.fill = 1
      <3>1. Sampled(id, m.fills, Kept')
        BY <2>2, <2>5, <1>5, SMTT(30) DEF Sampled
      <3>2. j.at = IF w \in RestHandler THEN "update" ELSE "store"
        BY <2>5, ZenonT(30) DEF AfterSamples
      <3> HIDE DEF id, k, m, next
      <3> QED BY <1>3, <1>4, <2>1, <2>3, <2>5, <3>1, <3>2, ZenonT(30) DEF JobOK, RestOK, LegOK
    <2> QED BY <1>3, <2>4, <2>5, Zenon
  <1> QED BY <1>2, <1>3, <1>6, <1>7, <1>8, InsertKeeps, ZenonT(30)

(* executeLeg's loop inserts a fill whose sample is kept. *)
LEMMA StoreFillKeeps ==
  ASSUME LifeInv, NEW w \in LegHandler, StoreFill(w)
  PROVE  LifeInv'
PROOF
  <1> DEFINE id == work[w].id
             k == work[w].fill
             m == made[id]
  <1>1. w \in Handler /\ w \notin RestHandler /\ EachFill(w, "fills", "cover")
    BY LifeAssumption, Zenon DEF Handler, StoreFill
  <1>2. /\ work[w] # Idle /\ work[w].at = "fills"
        /\ \E j \in Job :
             /\ work' = [work EXCEPT ![w] = j] /\ j # Idle /\ j.id = work[w].id
             /\ \/ /\ work[w].fill < made[work[w].id].fills
                   /\ j.at = "fills" /\ j.fill = work[w].fill + 1
                \/ /\ ~ (work[w].fill < made[work[w].id].fills)
                   /\ j.at = "cover" /\ j.fill = 1
    BY <1>1, EachJob, ZenonT(30)
  <1>3. PICK j \in Job :
          /\ work' = [work EXCEPT ![w] = j] /\ j # Idle /\ j.id = id
          /\ \/ k < m.fills /\ j.at = "fills" /\ j.fill = k + 1
             \/ ~ (k < m.fills) /\ j.at = "cover" /\ j.fill = 1
    BY <1>2, Zenon
  <1>4. id \in HedgeId /\ work[w] \in Job /\ m \in Origin /\ JobOK(w, work[w], m, Kept)
    BY <1>1, <1>2, BusyJob, Zenon
  <1>5. k \in Nat /\ m.fills \in Nat
    BY <1>4, Zenon DEF Job, Origin
  <1>6. UNCHANGED <<Rest, covered, made>> /\ Insert("hedge_executions", id, k)
    BY Zenon DEF StoreFill
  <1>7. /\ Kept' = Kept \cup {<<"hedge_executions", id, k>>}
        /\ rows' \subseteq rows \cup {<<"hedge_executions", id, k>>}
        /\ hedges' = hedges
        /\ \A i \in HedgeId : <<"hedges", i, 0>> \notin rows'
    BY <1>4, <1>5, <1>6, InsertKept, Zenon DEF LifeInv
  <1>8. k \in 1 .. m.fills /\ Sampled(id, m.fills, Kept)
    BY <1>1, <1>2, <1>4, Zenon DEF JobOK, LegOK
  <1>9. \A i \in HedgeId, n \in Nat : <<"hedge_executions", i, n>> \in rows' \ rows =>
          <<"slippage_samples", i, n>> \in Kept'
    <2>1. <<"slippage_samples", id, k>> \in Kept
      BY <1>8, Zenon DEF Sampled
    <2> QED BY <1>7, <2>1, Zenon
  <1>10. ASSUME JobOK(w, work[w], m, Kept')
         PROVE  JobOK(w, j, m, Kept')
    <2>1. /\ m.fills >= 1 /\ m.by = "leg" /\ <<"hedges", id, 0>> \in Kept'
          /\ Sampled(id, m.fills, Kept') /\ Filled(id, k - 1, Kept')
      BY <1>1, <1>2, <1>10, ZenonT(30) DEF JobOK, LegOK
    <2>2. Filled(id, k, Kept')
      BY <2>1, <1>5, <1>7, SMTT(30) DEF Filled
    <2>3. CASE k < m.fills /\ j.at = "fills" /\ j.fill = k + 1
      <3>1. j.fill - 1 = k /\ j.fill \in 1 .. m.fills
        BY <2>3, <1>5, SMTT(30)
      <3> HIDE DEF id, k, m
      <3> QED BY <1>1, <1>3, <1>4, <2>1, <2>2, <2>3, <3>1, ZenonT(30) DEF JobOK, LegOK
    <2>4. CASE ~ (k < m.fills) /\ j.at = "cover" /\ j.fill = 1
      <3>1. Filled(id, m.fills, Kept')
        BY <2>2, <2>4, <1>5, SMTT(30) DEF Filled
      <3> HIDE DEF id, k, m
      <3> QED BY <1>1, <1>3, <1>4, <2>1, <2>4, <3>1, ZenonT(30) DEF JobOK, LegOK
    <2> QED BY <1>3, <2>3, <2>4, ZenonT(30)
  <1> QED BY <1>1, <1>2, <1>3, <1>6, <1>7, <1>9, <1>10, InsertKeeps, ZenonT(30)

(* AddPnL. *)
LEMMA RecordPnLKeeps ==
  ASSUME LifeInv, NEW w \in RestHandler, RecordPnL(w)
  PROVE  LifeInv'
PROOF
  <1> DEFINE id == work[w].id
             m == made[id]
  <1>1. w \in Handler /\ Goto(w, "pnl", "cover") /\ work[w].at = "pnl"
    BY Zenon DEF Handler, RecordPnL, Goto
  <1>2. work[w] # Idle
    BY <1>1, GotoJob, ZenonT(30)
  <1>3. PICK j \in Job : /\ work' = [work EXCEPT ![w] = j] /\ j # Idle
                         /\ j.at = "cover" /\ j.id = id /\ j.fill = work[w].fill
    BY <1>1, GotoJob, ZenonT(30)
  <1>4. id \in HedgeId
    BY <1>1, <1>2, BusyJob, Zenon
  <1>5. UNCHANGED <<Rest, covered, made>> /\ Insert("fx_pnl", id, 0)
    BY Zenon DEF RecordPnL
  <1>6. /\ Kept' = Kept \cup {<<"fx_pnl", id, 0>>}
        /\ rows' \subseteq rows \cup {<<"fx_pnl", id, 0>>}
        /\ hedges' = hedges
        /\ \A i \in HedgeId : <<"hedges", i, 0>> \notin rows'
    BY <1>4, <1>5, InsertKept, Zenon DEF LifeInv
  <1>7. \A i \in HedgeId, n \in Nat : <<"hedge_executions", i, n>> \notin rows' \ rows
    BY <1>6, Zenon
  <1>8. JobOK(w, work[w], m, Kept') => JobOK(w, j, m, Kept')
    <2> HIDE DEF m
    <2> QED BY <1>1, <1>3, <1>6, Zenon DEF JobOK, RestOK
  <1> QED BY <1>1, <1>2, <1>3, <1>5, <1>6, <1>7, <1>8, InsertKeeps, ZenonT(30)

(* UpdateHedge, with the fills of an executed hedge or without any. *)
LEMMA UpdateKeeps ==
  ASSUME LifeInv, NEW w \in RestHandler, ExecuteFails(w) \/ MarkExecuted(w)
  PROVE  LifeInv'
PROOF
  <1> DEFINE id == work[w].id
             m == made[id]
  <1>0. w \in Handler
    BY ZenonT(30) DEF Handler
  <1>1. CASE ExecuteFails(w)
    <2>1. work[w] # Idle /\ work[w].at = "execute" /\ work' = [work EXCEPT ![w] = Idle]
      BY <1>0, <1>1, GotoIdle, Zenon DEF ExecuteFails
    <2>2. id \in HedgeId /\ m \in Origin /\ JobOK(w, work[w], m, Kept)
      BY <1>0, <2>1, BusyJob, Zenon
    <2>3. UpdateHedge(id, "FAILED", 0) /\ UNCHANGED <<Rest, covered, made>>
      BY <1>1, Zenon DEF ExecuteFails
    <2>4. /\ Kept \subseteq Kept' /\ hedges' \in [HedgeId -> HedgeRow]
          /\ rows' \subseteq rows \cup {<<"hedge_executions", id, k>> : k \in 1 .. 0}
          /\ \A i \in HedgeId : <<"hedges", i, 0>> \notin rows'
      BY <2>2, <2>3, UpdateKept, Zenon DEF LifeInv
    <2>5. made' = made /\ proc' = proc /\ cut' = cut /\ covered' = covered
      BY <2>3, Zenon DEF Rest
    <2>6. LifeTypeOK'
      BY <2>1, <2>4, <2>5, IdleJob, ZenonT(30) DEF LifeInv, LifeTypeOK
    <2>7. RecordInv'
      <3>1. rows' \ rows = {}
        BY <2>4, NoFills, Zenon
      <3> QED BY <2>4, <2>5, <3>1, RecordKept, ZenonT(30)
    <2>8. SettledOK(id, m, Kept')
      BY <2>1, <2>2, NoFills, Zenon DEF JobOK, SettledOK
    <2> QED BY <1>0, <2>1, <2>4, <2>5, <2>6, <2>7, <2>8, IdleJob, JobStep, ZenonT(30)
  <1>2. CASE MarkExecuted(w)
    <2>1. Goto(w, "update", "pnl") /\ work[w].at = "update"
      BY <1>2, ZenonT(30) DEF MarkExecuted, Goto
    <2>2. PICK j \in Job : /\ work' = [work EXCEPT ![w] = j] /\ j # Idle
                           /\ j.at = "pnl" /\ j.id = id /\ j.fill = work[w].fill
      BY <1>0, <2>1, GotoJob, SMTT(30)
    <2>3. work[w] # Idle
      BY <1>0, <2>1, GotoJob, ZenonT(30)
    <2>4. /\ id \in HedgeId /\ m \in Origin /\ work[w] \in Job
          /\ JobOK(w, work[w], m, Kept)
      BY <1>0, <2>3, BusyJob, Zenon
    <2>5. UpdateHedge(id, "EXECUTED", m.fills) /\ UNCHANGED <<Rest, covered, made>>
      BY <1>2, Zenon DEF MarkExecuted
    <2>6. m.fills \in Nat
      BY <2>4, ZenonT(30) DEF Origin
    <2>7. /\ Kept \subseteq Kept' /\ hedges' \in [HedgeId -> HedgeRow]
          /\ rows' \subseteq rows \cup {<<"hedge_executions", id, k>> : k \in 1 .. m.fills}
          /\ \A i \in HedgeId : <<"hedges", i, 0>> \notin rows'
      BY <2>4, <2>5, <2>6, UpdateKept, ZenonT(30) DEF LifeInv
    <2>8. made' = made /\ proc' = proc /\ cut' = cut /\ covered' = covered
      BY <2>5, Zenon DEF Rest
    <2>9. LifeTypeOK'
      BY <2>2, <2>7, <2>8, ZenonT(30) DEF LifeInv, LifeTypeOK
    <2>10. RecordInv'
      <3>1. Sampled(id, m.fills, Kept)
        BY <2>1, <2>4, Zenon DEF JobOK
      <3>2. \A i \in HedgeId, k \in Nat : <<"hedge_executions", i, k>> \in rows' \ rows =>
              <<"slippage_samples", i, k>> \in Kept'
        BY <2>7, <3>1, Zenon DEF Sampled
      <3> QED BY <2>7, <2>8, <3>2, RecordKept, ZenonT(30)
    <2>11. JobOK(w, work[w], m, Kept')
      BY <2>4, <2>7, KeptGrows, ZenonT(30)
    <2>12. JobOK(w, j, m, Kept')
      <3> HIDE DEF m
      <3> QED BY <2>1, <2>2, <2>11, ZenonT(30) DEF JobOK, RestOK
    <2> QED BY <1>0, <2>2, <2>3, <2>7, <2>8, <2>9, <2>10, <2>12, JobStep, Zenon
  <1> QED BY <1>1, <1>2, Zenon

(* The venue's answer: fills that are known to the process only. *)
LEMMA TradeKeeps ==
  ASSUME LifeInv, NEW w \in Handler, NEW n \in 1 .. MaxFills, Trade(w, n)
  PROVE  LifeInv'
PROOF
  <1> DEFINE id == work[w].id
             m == made[id]
  <1>1. /\ Goto(w, "execute", "sample") \/ Goto(w, "route", "sample")
        /\ work[w].at \in {"execute", "route"}
    BY Zenon DEF Trade, Goto
  <1>2. work[w] # Idle
    BY <1>1, GotoJob, ZenonT(30)
  <1>3. PICK j \in Job : /\ work' = [work EXCEPT ![w] = j] /\ j # Idle
                         /\ j.at = "sample" /\ j.id = id /\ j.fill = work[w].fill
    BY <1>1, GotoJob, ZenonT(30)
  <1>4. /\ id \in HedgeId /\ m \in Origin /\ JobOK(w, work[w], m, Kept)
    BY <1>2, BusyJob, Zenon
  <1>5. made' = [made EXCEPT ![id].fills = n] /\ made \in [HedgeId -> Origin]
    BY Zenon DEF Trade, LifeInv, LifeTypeOK
  <1>6. n \in Nat /\ n >= 1
    BY PostgresAssumption, SMTT(30)
  <1>7. /\ made' \in [HedgeId -> Origin]
        /\ made'[id].by = m.by /\ made'[id].fills = n
        /\ \A i \in HedgeId : i # id => made'[i] = made[i]
    <2> HIDE DEF id
    <2> QED BY <1>4, <1>5, <1>6, ZenonT(30) DEF Origin
  <1>8. /\ proc' = proc /\ cut' = cut /\ covered' = covered
        /\ rows' = rows /\ hedges' = hedges /\ Kept' = Kept
    BY Zenon DEF Trade, Rest, dbVars, Kept
  <1>9. LifeTypeOK'
    <2>1. work' \in [Handler -> Job]
      BY <1>3, Zenon DEF LifeInv, LifeTypeOK
    <2> QED BY <2>1, <1>7, <1>8, Zenon DEF LifeInv, LifeTypeOK
  <1>10. RecordInv'
    BY <1>8, ZenonT(30) DEF LifeInv, RecordInv
  <1>11. JobOK(w, j, made'[j.id], Kept')
    <2>0. j.fill = 1
      BY <1>1, <1>3, <1>4, Zenon DEF JobOK
    <2>1. j.fill >= 1 /\ Sampled(j.id, j.fill - 1, Kept')
      BY <2>0, FirstFill, Zenon
    <2>2. IF w \in RestHandler THEN m.by = "rest" /\ <<"hedges", id, 0>> \in Kept' ELSE m.by = "leg"
      BY <1>1, <1>4, <1>8, ZenonT(30) DEF JobOK, RestOK, LegOK
    <2> HIDE DEF id, m
    <2> QED BY <1>3, <1>4, <1>6, <1>7, <2>1, <2>2, ZenonT(30) DEF JobOK, RestOK, LegOK
  <1> QED BY <1>2, <1>3, <1>7, <1>8, <1>9, <1>10, <1>11, JobStep, ZenonT(30)

(* AddCoverage, and the end of the handler: nothing is owed any more. *)
LEMMA CoverKeeps ==
  ASSUME LifeInv, NEW w \in Handler, Cover(w)
  PROVE  LifeInv'
PROOF
  <1> DEFINE id == work[w].id
             m == made[id]
  <1>1. work[w] # Idle /\ work[w].at = "cover" /\ work' = [work EXCEPT ![w] = Idle]
    BY GotoIdle, ZenonT(30) DEF Cover
  <1>2. id \in HedgeId /\ m \in Origin /\ JobOK(w, work[w], m, Kept)
    BY <1>1, BusyJob, ZenonT(30)
  <1>3. /\ proc' = proc /\ cut' = cut /\ made' = made /\ covered' = covered \cup {id}
        /\ rows' = rows /\ hedges' = hedges /\ Kept' = Kept
    BY Zenon DEF Cover, Rest, dbVars, Kept
  <1>4. LifeTypeOK'
    BY <1>1, <1>3, IdleJob, ZenonT(30) DEF LifeInv, LifeTypeOK
  <1>5. /\ <<"hedges", id, 0>> \in Kept /\ Sampled(id, m.fills, Kept)
        /\ IF m.by = "rest" THEN <<"fx_pnl", id, 0>> \in Kept ELSE Filled(id, m.fills, Kept)
    BY <1>1, <1>2, ZenonT(30) DEF JobOK, RestOK, LegOK
  <1>6. RecordInv'
    BY <1>2, <1>3, <1>5, Zenon DEF LifeInv, RecordInv
  <1>7. SettledOK(id, made'[id], Kept')
    BY <1>3, <1>5, Zenon DEF SettledOK
  <1> QED BY <1>1, <1>3, <1>4, <1>6, <1>7, IdleJob, JobStep, ZenonT(30)

(* Each step of a handler keeps the invariant. *)
LEMMA HandlerKeeps ==
  ASSUME LifeInv,
         \/ \E w \in RestHandler : RestStep(w)
         \/ \E w \in LegHandler : TakeLeg(w) \/ LegStep(w)
         \/ \E w \in Handler : CommonStep(w)
  PROVE  LifeInv'
PROOF
  <1>1. ASSUME NEW w \in RestHandler, NEW r \in Request, LookupRequest(w, r)
        PROVE  LifeInv'
    <2>1. w \in Handler /\ proc \in {"serving", "draining"}
      BY <1>1, Zenon DEF Handler, LookupRequest
    <2>2. Take(w, "rest", r, FALSE, "quote") /\ UNCHANGED <<dbVars, Rest, covered>>
      BY <1>1, Zenon DEF LookupRequest
    <2> QED BY <1>1, <2>1, <2>2, TakeKeeps, ZenonT(30)
  <1>2. ASSUME NEW w \in LegHandler, TakeLeg(w)
        PROVE  LifeInv'
    <2>1. w \in Handler /\ w \notin RestHandler /\ proc \in {"serving", "draining"}
      BY <1>2, LifeAssumption, Zenon DEF Handler, TakeLeg, Accepting
    <2>2. Take(w, "leg", "", TRUE, "route") /\ UNCHANGED <<dbVars, Rest, covered>>
      BY <1>2, ZenonT(30) DEF TakeLeg
    <2> QED BY <2>1, <2>2, TakeKeeps, Zenon
  <1>3. ASSUME NEW w \in RestHandler, CreateExecuting(w)
        PROVE  LifeInv'
    <2>1. w \in Handler /\ Goto(w, "quote", "execute") /\ work[w].at = "quote"
      BY <1>3, Zenon DEF Handler, CreateExecuting, Goto
    <2>2. CreateHedge(work[w].id, Row(w, "EXECUTING")) /\ UNCHANGED <<Rest, covered, made>>
      BY <1>3, Zenon DEF CreateExecuting
    <2>3. work[w] # Idle
      BY <2>1, GotoJob, ZenonT(30)
    <2>4. PICK j \in Job :
            /\ work' = [work EXCEPT ![w] = j] /\ j # Idle
            /\ j.at = "execute" /\ j.id = work[w].id /\ j.fill = work[w].fill
      BY <2>1, GotoJob
    <2> QED BY <1>3, <2>1, <2>2, <2>3, <2>4, CreateKeeps, ZenonT(30)
  <1>4. ASSUME NEW w \in LegHandler, StoreLeg(w)
        PROVE  LifeInv'
    <2>1. /\ w \in Handler /\ w \notin RestHandler
          /\ Goto(w, "store", "fills") /\ work[w].at = "store"
      BY <1>4, LifeAssumption, Zenon DEF Handler, StoreLeg, Goto
    <2>2. CreateHedge(work[w].id, Row(w, "EXECUTED")) /\ UNCHANGED <<Rest, covered, made>>
      BY <1>4, Zenon DEF StoreLeg
    <2>3. work[w] # Idle
      BY <2>1, GotoJob, ZenonT(30)
    <2>4. PICK j \in Job :
            /\ work' = [work EXCEPT ![w] = j] /\ j # Idle
            /\ j.at = "fills" /\ j.id = work[w].id /\ j.fill = work[w].fill
      BY <2>1, GotoJob
    <2> QED BY <2>1, <2>2, <2>3, <2>4, CreateKeeps, Zenon
  <1>5. ASSUME NEW w \in Handler, NotExecuted(w)
        PROVE  LifeInv'
    <2>1. /\ work[w] # Idle /\ work[w].at \in {"quote", "route"}
          /\ work' = [work EXCEPT ![w] = Idle]
      BY <1>5, GotoIdle, Zenon DEF NotExecuted
    <2>2. CreateHedge(work[w].id, Row(w, "FAILED")) /\ UNCHANGED <<Rest, covered, made>>
      BY <1>5, Zenon DEF NotExecuted
    <2> QED BY <2>1, <2>2, IdleJob, CreateKeeps, ZenonT(30)
  <1>6. ASSUME NEW w \in RestHandler, RestStep(w) PROVE LifeInv'
    BY <1>1, <1>3, <1>6, UpdateKeeps, RecordPnLKeeps, ZenonT(30) DEF RestStep
  <1>7. ASSUME NEW w \in LegHandler, TakeLeg(w) \/ LegStep(w) PROVE LifeInv'
    BY <1>2, <1>4, <1>7, StoreFillKeeps, ZenonT(30) DEF LegStep
  <1>8. ASSUME NEW w \in Handler, CommonStep(w) PROVE LifeInv'
    BY <1>5, <1>8, SampleFillKeeps, CoverKeeps, TradeKeeps, ZenonT(30) DEF CommonStep
  <1> QED BY <1>6, <1>7, <1>8, ZenonT(30)

-----------------------------------------------------------------------------
(* Steps of main.run, of a stream or of the database that touch neither    *)
(* the tables nor the handlers.                                            *)
LEMMA QuietKeeps ==
  ASSUME LifeInv, UNCHANGED <<hedges, rows, refused, covered, work, made, cut>>,
         proc' = proc \/ proc' \in {"serving", "draining"}
  PROVE  LifeInv'
PROOF
  <1>1. Kept' = Kept /\ HedgesOf(Handler)' = HedgesOf(Handler)
        /\ HedgesOf(RestHandler)' = HedgesOf(RestHandler)
    BY Zenon DEF Kept, HedgesOf, Busy
  <1>2. LifeTypeOK' /\ JobsInv' /\ HedgesInv' /\ RecordInv'
    BY <1>1, ZenonT(30) DEF LifeInv, LifeTypeOK, JobsInv, HedgesInv, RecordInv
  <1>3. ProcInv'
    BY <1>1, Zenon DEF LifeInv, ProcInv
  <1> QED BY <1>2, <1>3, Zenon DEF LifeInv

(* Shutdown returns: the REST handlers that still run are cut off. *)
LEMMA DrainKeeps ==
  ASSUME LifeInv, Drained \/ DrainTimesOut
  PROVE  LifeInv'
PROOF
  <1>1. /\ UNCHANGED <<dbVars, covered, work, made>> /\ proc' = "stopping"
        /\ cut \subseteq cut' /\ HedgesOf(RestHandler) \subseteq cut'
    BY Zenon DEF Drained, DrainTimesOut, HedgesOf
  <1>2. Kept' = Kept /\ HedgesOf(Handler)' = HedgesOf(Handler)
        /\ HedgesOf(RestHandler)' = HedgesOf(RestHandler)
    BY <1>1, Zenon DEF Kept, HedgesOf, Busy, dbVars
  <1>3. LifeTypeOK' /\ JobsInv' /\ HedgesInv' /\ RecordInv'
    BY <1>1, <1>2, Zenon DEF LifeInv, LifeTypeOK, JobsInv, HedgesInv, RecordInv, dbVars
  <1>4. ProcInv'
    BY <1>1, <1>2, Zenon DEF ProcInv
  <1> QED BY <1>3, <1>4, ZenonT(30) DEF LifeInv

(* The process ends, in order or not: the tables stay, and a hedge that is *)
(* not cut off was settled.                                                *)
LEMMA EndKeeps ==
  ASSUME LifeInv, Exit \/ Crash
  PROVE  LifeInv'
PROOF
  <1>1. Gone
    BY Zenon DEF Exit, Crash
  <1>2. cut \subseteq cut' /\ HedgesOf(Handler) \subseteq cut'
    <2>1. CASE Crash
      BY <2>1, Zenon DEF Crash
    <2>2. CASE Exit
      <3>1. proc = "stopping" /\ Busy(LegHandler) = {} /\ cut' = cut
        BY <2>2, Zenon DEF Exit
      <3>2. HedgesOf(RestHandler) \subseteq cut
        BY <3>1, Zenon DEF LifeInv, ProcInv
      <3>3. HedgesOf(Handler) \subseteq HedgesOf(RestHandler)
        BY <3>1, Zenon DEF HedgesOf, Busy, Handler
      <3> QED BY <3>1, <3>2, <3>3, Zenon
    <2> QED BY <2>1, <2>2, Zenon
  <1>3. Kept' = Kept /\ rows' = rows /\ hedges' = hedges /\ made' = made
    BY <1>1, Zenon DEF Gone, Kept, dbVars
  <1>4. \A w \in Handler : work'[w] = Idle
    BY <1>1, Zenon DEF Gone
  <1>5. LifeTypeOK'
    BY <1>1, <1>3, IdleJob, Zenon DEF LifeInv, LifeTypeOK, Gone
  <1>6. JobsInv'
    BY <1>4, Zenon DEF JobsInv
  <1>7. HedgesInv'
    BY <1>2, <1>3, Zenon DEF LifeInv, HedgesInv
  <1>8. RecordInv'
    BY <1>1, <1>3, Zenon DEF LifeInv, RecordInv, Gone
  <1>9. ProcInv'
    BY <1>1, <1>4, Zenon DEF ProcInv, Gone
  <1> QED BY <1>5, <1>6, <1>7, <1>8, <1>9, ZenonT(30) DEF LifeInv

(* The service starts with nothing on record and nothing owed. *)
LEMMA LifeInitInv == LifeInit => LifeInv
PROOF
  <1> SUFFICES ASSUME LifeInit PROVE LifeInv
    OBVIOUS
  <1>1. NoRow \in HedgeRow
    BY Zenon DEF NoRow, HedgeRow
  <1>2. LifeTypeOK
    BY <1>1, IdleJob, Zenon DEF LifeInit, DbInit, LifeTypeOK, Origin
  <1>3. \A w \in Handler : work[w] = Idle
    BY Zenon DEF LifeInit
  <1>4. JobsInv /\ ProcInv
    BY <1>3, ZenonT(30) DEF JobsInv, ProcInv, LifeInit
  <1>5. HedgesInv
    BY DEF HedgesInv, SettledOK, LifeInit
  <1>6. RecordInv
    BY ZenonT(30) DEF RecordInv, LifeInit, DbInit
  <1> QED BY <1>2, <1>4, <1>5, <1>6, ZenonT(30) DEF LifeInv

(* Every step of the service keeps the invariant. *)
LEMMA LifeStepInv == LifeInv /\ [LifeNext]_<<dbVars, lifeVars>> => LifeInv'
PROOF
  <1> SUFFICES ASSUME LifeInv, [LifeNext]_<<dbVars, lifeVars>> PROVE LifeInv'
    BY Zenon
  <1>1. CASE Start \/ RestFails \/ Signal
    BY <1>1, QuietKeeps, Zenon DEF Start, RestFails, Signal, dbVars
  <1>2. CASE OpenStream \/ CloseStream
    BY <1>2, QuietKeeps, Zenon DEF OpenStream, CloseStream, dbVars
  <1>3. CASE (DbFails \/ DbRecovers) /\ UNCHANGED lifeVars
    BY <1>3, QuietKeeps, Zenon DEF DbFails, DbRecovers, lifeVars
  <1>4. CASE UNCHANGED <<dbVars, lifeVars>>
    BY <1>4, QuietKeeps, Zenon DEF dbVars, lifeVars
  <1>5. CASE Drained \/ DrainTimesOut
    BY <1>5, DrainKeeps, Zenon
  <1>6. CASE Exit \/ Crash
    BY <1>6, EndKeeps, Zenon
  <1>7. CASE \/ \E w \in RestHandler : RestStep(w)
             \/ \E w \in LegHandler : TakeLeg(w) \/ LegStep(w)
             \/ \E w \in Handler : CommonStep(w)
    BY <1>7, HandlerKeeps, ZenonT(30)
  <1> QED BY <1>1, <1>2, <1>3, <1>4, <1>5, <1>6, <1>7, ZenonT(30) DEF LifeNext

(* What is kept of a hedge is its row or its failed INSERT. *)
LEMMA KeptHedge ==
  ASSUME LifeInv, NEW id \in HedgeId, <<"hedges", id, 0>> \in Kept
  PROVE  hedges[id] # NoRow \/ <<"hedges", id, 0>> \in refused
PROOF BY Zenon DEF LifeInv, LifeTypeOK, Kept

(* What is kept of another table is a row or a failed INSERT. *)
LEMMA KeptRow ==
  ASSUME NEW table, table # "hedges", NEW id, NEW k, <<table, id, k>> \in Kept
  PROVE  <<table, id, k>> \in rows \cup refused
PROOF BY Zenon DEF Kept

(* Every hedge that AddCoverage counts is in table hedges, unless its own  *)
(* INSERT failed, for any number of handlers of both APIs and wherever the *)
(* process crashed or the database was out.                                *)
THEOREM CoverageAlwaysOnRecord == LifeSpec => []CoverageOnRecord
PROOF
  <1>1. LifeInv => CoverageOnRecord
    BY KeptHedge, ZenonT(30) DEF LifeInv, RecordInv, CoverageOnRecord
  <1> QED BY <1>1, LifeInitInv, LifeStepInv, PTL DEF LifeSpec

(* Every row of hedge_executions has its row in slippage_samples, or the   *)
(* INSERT of the sample failed: processFills and executeLeg write the      *)
(* sample of a fill before the fill, so no crash leaves a fill without.    *)
THEOREM FillRowsAlwaysSampled == LifeSpec => []FillRowsSampled
PROOF
  <1>1. LifeInv => FillRowsSampled
    <2> SUFFICES ASSUME LifeInv, NEW id \in HedgeId, NEW k \in 1 .. MaxFills,
                        <<"hedge_executions", id, k>> \in rows
                 PROVE  <<"slippage_samples", id, k>> \in rows \cup refused
      BY Zenon DEF FillRowsSampled
    <2>1. k \in Nat
      BY PostgresAssumption
    <2>2. <<"slippage_samples", id, k>> \in Kept
      BY <2>1, Zenon DEF LifeInv, RecordInv
    <2> QED BY <2>2, KeptRow, Zenon
  <1> QED BY <1>1, LifeInitInv, LifeStepInv, PTL DEF LifeSpec

(* A shutdown loses no trade it did not cut off: main.run waits for the    *)
(* handlers, and a handler that is through has written all it owed.        *)
THEOREM OrderlyStopAlwaysKeeps == LifeSpec => []OrderlyStopKeepsTrades
PROOF
  <1>1. LifeInv => OrderlyStopKeepsTrades
    <2> SUFFICES ASSUME LifeInv, proc = "down", NEW id \in HedgeId \ cut, made[id].fills > 0
                 PROVE  /\ hedges[id] # NoRow \/ <<"hedges", id, 0>> \in refused
                        /\ Owed(id) \subseteq rows \cup refused
      BY Zenon DEF OrderlyStopKeepsTrades
    <2>1. id \notin HedgesOf(Handler)
      BY Zenon DEF LifeInv, ProcInv, HedgesOf, Busy
    <2>2. SettledOK(id, made[id], Kept)
      BY <2>1, Zenon DEF LifeInv, HedgesInv
    <2>3. hedges[id] # NoRow \/ <<"hedges", id, 0>> \in refused
      BY <2>2, KeptHedge, Zenon DEF SettledOK
    <2>4. \A k \in 1 .. made[id].fills : <<"slippage_samples", id, k>> \in rows \cup refused
      BY <2>2, KeptRow, Zenon DEF SettledOK, Sampled
    <2>5. made[id].by = "rest" => <<"fx_pnl", id, 0>> \in rows \cup refused
      BY <2>2, KeptRow, Zenon DEF SettledOK
    <2>6. made[id].by # "rest" =>
            \A k \in 1 .. made[id].fills : <<"hedge_executions", id, k>> \in rows \cup refused
      BY <2>2, KeptRow, Zenon DEF SettledOK, Filled
    <2> QED BY <2>3, <2>4, <2>5, <2>6, ZenonT(30) DEF Owed
  <1> QED BY <1>1, LifeInitInv, LifeStepInv, PTL DEF LifeSpec
=============================================================================
