------------------------- MODULE CheckpointsProofs -------------------------
(***************************************************************************)
(* Proofs about the checkpoints of a thread, for any number of turns,      *)
(* reverts and failures and any limit of the read model: the type          *)
(* invariant; that a captured checkpoint can be restored; that the table   *)
(* follows the read model; that a revert is complete; and that every turn  *)
(* is captured.                                                            *)
(***************************************************************************)
EXTENDS CheckpointsProperties, FiniteSetTheorems, SequenceTheorems, WellFoundedInduction, TLAPS

(* The largest count.  There is one because the counts are bounded: the    *)
(* least of their bounds is one of them.                                   *)
LEMMA LeastNatural ==
    ASSUME NEW S, S \subseteq Nat, S # {}
    PROVE  \E least \in S : \A n \in S : least <= n
PROOF
  <1> DEFINE Less == OpToRel(<, Nat)
  <1>1. \A m, n \in Nat : m < n => <<m, n>> \in Less
    BY DEF OpToRel
  <1>2. IsWellFoundedOn(Less, Nat)
    BY NatLessThanWellFounded
  <1> HIDE DEF Less
  <1>3. PICK least \in S : \A n \in S : ~(<<n, least>> \in Less)
    BY <1>2, WFMin
  <1>4. \A n \in S : ~(n < least)
    BY <1>1, <1>3, Zenon
  <1> QED
    BY <1>4

Bounded(counts) == \E bound \in Nat : \A n \in counts : n <= bound

LEMMA Largest ==
    ASSUME NEW counts, counts \subseteq Nat, counts # {}, Bounded(counts)
    PROVE  \E most \in counts : \A n \in counts : n <= most
PROOF
  <1> DEFINE Bounds == {b \in Nat : \A n \in counts : n <= b}
  <1>1. PICK least \in Bounds : \A b \in Bounds : least <= b
    <2>1. Bounds \subseteq Nat /\ Bounds # {}
      BY DEF Bounded
    <2> HIDE DEF Bounds
    <2> QED
      BY <2>1, LeastNatural
  <1>2. CASE least \in counts
    BY <1>1, <1>2
  <1>3. CASE least \notin counts
    <2>1. \A n \in counts : n < least
      BY <1>1, <1>3
    <2>2. PICK n \in counts : n < least
      BY <2>1
    <2>3. least - 1 \in Nat /\ \A m \in counts : m <= least - 1
      BY <1>1, <2>1, <2>2
    <2> QED
      BY <1>1, <2>3
  <1> QED
    BY <1>2, <1>3
-----------------------------------------------------------------------------
(* What the queues hold, and what the workers are about.  An event of a    *)
(* turn names one of the requested turns; what will be dispatched has a    *)
(* count that is not that of the baseline.                                 *)
RuntimeEvents ==
    [type : {"started", "diff"}, turn : Turns, count : {0}, status : {"none"}]
        \cup [type : {"completed"}, turn : Turns, count : {0}, status : {"ready", "missing"}]

Placeholders ==
    [type : {"placeholder"}, turn : Turns, count : Nat \ {0}, status : {"missing"}]

Requests == [type : {"turnStart", "revert"}, turn : {0}, count : Nat, status : {"none"}]
DomainEvents == Placeholders \cup Requests

Captures ==
    [type : {"completed", "placeholder"}, turn : Turns, count : Nat \ {0},
     status : {"ready", "missing"}]

Baselines == [type : {"baseline"}, turn : {0}, count : Nat, status : {"none"}]

JobTyped ==
    \/ job = Resting
    \/ /\ job \in Jobs
       /\ job.at = "capture" /\ job.event \in Captures \cup Baselines
    \/ /\ job \in Jobs
       /\ job.at = "dispatch" /\ job.event \in Captures
    \/ /\ job \in Jobs
       /\ job.at \in {"restore", "rollback", "delete", "complete"} /\ job.event \in Requests

CheckpointSet == [turn : Turns, count : Nat \ {0}, status : Statuses, captured : BOOLEAN]

ProviderTyped ==
    /\ requested \in 0..MaxTurns /\ started \in 0..requested
    /\ conversation \in Seq(1..MaxTurns)
    /\ current \in 0..started

WorkersTyped ==
    /\ ingestion \in Seq(RuntimeEvents) /\ runtime \in Seq(RuntimeEvents)
    /\ domain \in Seq(DomainEvents)
    /\ ingest \in {NoJob} \cup Placeholders
    /\ JobTyped

ModelTyped ==
    /\ refs \subseteq Nat
    /\ active \in 0..started
    /\ checkpoints \subseteq CheckpointSet
    /\ \A c, d \in checkpoints : c.turn = d.turn => c = d
    /\ rows \in [Turns -> [count : Nat \cup {Absent}, status : Statuses]]
    /\ Bounded({c.count : c \in checkpoints})
    /\ Cardinality(checkpoints) <= MaxCheckpoints

HistoryTyped ==
    /\ failed \subseteq Turns /\ overtaken \subseteq Turns
    /\ diverged \subseteq Turns /\ dropped \subseteq Turns
    /\ reverts \in 0..MaxReverts /\ failures \in 0..MaxFailures

FlagsTyped == aborted \in BOOLEAN /\ misaligned \in BOOLEAN

(* The provider speaks of turns it has started.                            *)
EventsOfStarted == \A i \in DOMAIN ingestion : ingestion[i].turn <= started

TypeInv ==
    /\ ProviderTyped /\ WorkersTyped /\ ModelTyped /\ HistoryTyped /\ FlagsTyped
    /\ EventsOfStarted

LEMMA MaxCountIsLargest ==
    ASSUME ModelTyped
    PROVE  /\ MaxCount \in Nat /\ \A c \in checkpoints : c.count <= MaxCount
           /\ MaxCount = 0 \/ \E c \in checkpoints : c.count = MaxCount
PROOF
  <1> DEFINE Counts == {0} \cup {c.count : c \in checkpoints}
  <1>1. Counts \subseteq Nat
    BY DEF ModelTyped, CheckpointSet
  <1>2. Bounded(Counts)
    <2>1. PICK bound \in Nat : \A n \in {c.count : c \in checkpoints} : n <= bound
      BY DEF ModelTyped, Bounded
    <2>2. \A n \in Counts : n <= bound
      BY <2>1
    <2> QED
      BY <2>2 DEF Bounded
  <1>3. \E n \in Counts : \A m \in Counts : m <= n
    BY <1>1, <1>2, Largest
  <1>4. \E n \in Counts : \A c \in checkpoints : c.count <= n
    BY <1>3
  <1>5. MaxCount \in Counts /\ \A c \in checkpoints : c.count <= MaxCount
    BY <1>4 DEF MaxCount
  <1> QED
    BY <1>1, <1>5

LEMMA TypesStart == Init => TypeInv
PROOF
  <1> SUFFICES ASSUME Init PROVE TypeInv
    OBVIOUS
  <1>1. ProviderTyped
    <2>1. conversation \in Seq(1..MaxTurns)
      BY DEF Init
    <2> QED
      BY <2>1, CheckpointAssumption DEF Init, ProviderTyped
  <1>4. HistoryTyped
    BY CheckpointAssumption DEF Init, HistoryTyped
  <1>5. FlagsTyped
    BY Zenon DEF Init, FlagsTyped
  <1>3. WorkersTyped
    BY DEF Init, WorkersTyped, JobTyped
  <1>2. ModelTyped
    <2>1. Cardinality({}) = 0 /\ checkpoints = {}
      BY FS_EmptySet DEF Init
    <2> QED
      BY <2>1, CheckpointAssumption
      DEF Init, ModelTyped, CheckpointSet, Bounded, NoRow, Statuses
  <1> QED
    BY <1>1, <1>2, <1>3, <1>4, <1>5 DEF TypeInv, EventsOfStarted, Init

LEMMA TypesSuffice == TypeInv => TypeOK
PROOF
  <1> SUFFICES ASSUME TypeInv PROVE TypeOK
    OBVIOUS
  <1>1. /\ RuntimeEvents \subseteq Events /\ DomainEvents \subseteq Events
        /\ Placeholders \subseteq Events /\ NoJob \in Events
    BY CheckpointAssumption
    DEF RuntimeEvents, DomainEvents, Placeholders, Requests, Events, Statuses, NoJob, Event, Turns
  <1>2. \A S, T : S \subseteq T => Seq(S) \subseteq Seq(T)
    OBVIOUS
  <1>3. ingestion \in Seq(Events) /\ runtime \in Seq(Events) /\ domain \in Seq(Events)
    BY <1>1, <1>2 DEF TypeInv, WorkersTyped
  <1>4. Resting \in Jobs
    BY <1>1 DEF Resting, Jobs
  <1>5. job \in Jobs /\ ingest \in Events
    BY <1>1, <1>4 DEF TypeInv, WorkersTyped, JobTyped
  <1> QED
    BY <1>3, <1>5
    DEF TypeInv, ProviderTyped, ModelTyped, HistoryTyped, FlagsTyped, CheckpointSet, TypeOK

(* The limit leaves a checkpoint if there was one, those of the largest    *)
(* counts, and all if they are not too many.                               *)
LEMMA FinitelyMany ==
    ASSUME ModelTyped
    PROVE  IsFiniteSet(checkpoints)
PROOF
  <1> DEFINE TurnOf == [c \in checkpoints |-> c.turn]
  <1>1. TurnOf \in Injection(checkpoints, Turns)
    BY DEF ModelTyped, CheckpointSet, Injection, IsInjective
  <1>2. IsFiniteSet(Turns)
    BY FS_Interval, CheckpointAssumption DEF Turns
  <1> HIDE DEF TurnOf
  <1> QED
    BY <1>1, <1>2, FS_Injection

LEMMA NewestOf ==
    ASSUME NEW S, IsFiniteSet(S), \A d \in S : d.count \in Nat, NEW later,
           NEW K \in Newest(S, later)
    PROVE  /\ K \subseteq S /\ Cardinality(K) <= MaxCheckpoints
           /\ Cardinality(S) <= MaxCheckpoints => K = S
           /\ S # {} => K # {}
           /\ \A k \in K, d \in S \ K : d.count <= k.count
PROOF
  <1>1. /\ K \subseteq S
        /\ Cardinality(K) = IF Cardinality(S) <= MaxCheckpoints
                            THEN Cardinality(S) ELSE MaxCheckpoints
        /\ \A k \in K, d \in S \ K : d.count < k.count \/ d.count = k.count
    BY DEF Newest
  <1>2. Cardinality(S) \in Nat /\ MaxCheckpoints \in Nat /\ MaxCheckpoints # 0
    BY FS_CardinalityType, CheckpointAssumption
  <1>3. Cardinality(K) <= MaxCheckpoints
    BY <1>1, <1>2
  <1>4. Cardinality(S) <= MaxCheckpoints => K = S
    BY <1>1, FS_Subset
  <1>5. S # {} => K # {}
    BY <1>1, <1>2, FS_EmptySet
  <1>6. \A k \in K, d \in S \ K : d.count <= k.count
    BY <1>1
  <1> QED
    BY <1>1, <1>3, <1>4, <1>5, <1>6

(* What becomes of the read model.                                         *)
Updated(c) == (checkpoints \ Of(c.turn)) \cup {c}

LEMMA DiffUpdates ==
    ASSUME ModelTyped, NEW c \in CheckpointSet, CompleteTurnDiff(c)
    PROVE  \/ /\ UNCHANGED <<checkpoints, dropped>>
              /\ c.status = "missing" /\ Real(c.turn) # {}
           \/ /\ checkpoints' \subseteq Updated(c) /\ checkpoints' # {}
              /\ Cardinality(checkpoints') <= MaxCheckpoints
              /\ dropped' = dropped \cup TurnsOf(Updated(c) \ checkpoints')
              /\ \A k \in checkpoints', d \in Updated(c) \ checkpoints' : d.count <= k.count
PROOF
  <1>1. CASE c.status = "missing" /\ Real(c.turn) # {}
    BY <1>1 DEF CompleteTurnDiff, ApplyToReadModel
  <1>2. CASE ~(c.status = "missing" /\ Real(c.turn) # {})
    <2>1. PICK K \in Newest(Updated(c), {c}) :
             checkpoints' = K /\ dropped' = dropped \cup TurnsOf(Updated(c) \ K)
      BY <1>2 DEF CompleteTurnDiff, ApplyToReadModel, Keep, Updated
    <2>2. IsFiniteSet(Updated(c))
      <3>1. IsFiniteSet(checkpoints \ Of(c.turn))
        BY FinitelyMany, FS_Subset
      <3> QED
        BY <3>1, FS_AddElement DEF Updated
    <2>3. Updated(c) # {} /\ \A d \in Updated(c) : d.count \in Nat
      BY DEF Updated, ModelTyped, CheckpointSet
    <2> QED
      BY <2>1, <2>2, <2>3, NewestOf
  <1> QED
    BY <1>1, <1>2

LEMMA RevertUpdates ==
    ASSUME ModelTyped, CompleteRevert
    PROVE  checkpoints' = {c \in checkpoints : c.count <= job.event.count} /\ dropped' = dropped
PROOF
  <1> DEFINE S == {c \in checkpoints : c.count <= job.event.count}
  <1>1. PICK K \in Newest(S, {}) : checkpoints' = K /\ dropped' = dropped \cup TurnsOf(S \ K)
    BY DEF CompleteRevert, Keep
  <1>2. IsFiniteSet(checkpoints) /\ S \subseteq checkpoints
    BY FinitelyMany
  <1>3. /\ IsFiniteSet(S) /\ Cardinality(S) \in Nat /\ Cardinality(checkpoints) \in Nat
        /\ Cardinality(S) <= Cardinality(checkpoints)
    BY <1>2, FS_Subset, FS_CardinalityType
  <1>4. Cardinality(S) <= MaxCheckpoints
    BY <1>3, CheckpointAssumption DEF ModelTyped
  <1>5. \A d \in S : d.count \in Nat
    BY DEF ModelTyped, CheckpointSet
  <1> HIDE DEF S
  <1>6. K = S
    BY <1>3, <1>4, <1>5, NewestOf
  <1> QED
    BY <1>1, <1>6 DEF S, TurnsOf

(* A checkpoint enters the read model and the table.                       *)
LEMMA DiffKeepsTypes ==
    ASSUME TypeInv, NEW c \in CheckpointSet, c.status \in {"ready", "missing"},
           CompleteTurnDiff(c), UNCHANGED <<active, refs, started>>
    PROVE  /\ ModelTyped' /\ domain' \in Seq(DomainEvents)
           /\ diverged' \subseteq Turns /\ dropped' \subseteq Turns
PROOF
  <1> USE DEF TypeInv, CheckpointSet
  <1>0. \/ UNCHANGED <<checkpoints, dropped>>
        \/ /\ checkpoints' \subseteq Updated(c) /\ Cardinality(checkpoints') <= MaxCheckpoints
           /\ dropped' = dropped \cup TurnsOf(Updated(c) \ checkpoints')
    BY DiffUpdates
  <1>1. checkpoints' \subseteq checkpoints \cup {c}
    BY <1>0 DEF Updated
  <1>2. \A d, e \in checkpoints' : d.turn = e.turn => d = e
    BY <1>0 DEF ModelTyped, Updated, Of
  <1>8. Cardinality(checkpoints') <= MaxCheckpoints
    BY <1>0 DEF ModelTyped
  <1>9. dropped' \subseteq Turns
    BY <1>0 DEF ModelTyped, HistoryTyped, Updated, TurnsOf
  <1>3. rows' \in [Turns -> [count : Nat \cup {Absent}, status : Statuses]]
    BY DEF ModelTyped, CompleteTurnDiff, ApplyToRows, NoRow, Statuses
  <1>4. Bounded({d.count : d \in checkpoints'})
    <2>1. PICK bound \in Nat : \A n \in {d.count : d \in checkpoints} : n <= bound
      BY DEF ModelTyped, Bounded
    <2>2. bound + c.count \in Nat
      OBVIOUS
    <2>3. \A n \in {d.count : d \in checkpoints'} : n <= bound + c.count
      <3> SUFFICES ASSUME NEW d \in checkpoints' PROVE d.count <= bound + c.count
        OBVIOUS
      <3>1. CASE d = c
        BY <3>1
      <3>2. CASE d \in checkpoints
        <4>1. d.count \in Nat /\ d.count <= bound /\ c.count \in Nat
          BY <2>1, <3>2 DEF ModelTyped
        <4> QED
          BY <4>1
      <3> QED
        BY <1>1, <3>1, <3>2
    <2> QED
      BY <2>2, <2>3 DEF Bounded
  <1>5. ModelTyped'
    BY <1>1, <1>2, <1>3, <1>4, <1>8 DEF ModelTyped
  <1>6. domain' \in Seq(DomainEvents)
    <2>1. CASE c.status = "missing"
      <3>1. Event("placeholder", c.turn, c.count, c.status) \in DomainEvents
        BY <2>1 DEF DomainEvents, Placeholders, Event
      <3> QED
        BY <2>1, <3>1 DEF CompleteTurnDiff, WorkersTyped
    <2>2. CASE c.status # "missing"
      BY <2>2 DEF CompleteTurnDiff, WorkersTyped
    <2> QED
      BY <2>1, <2>2
  <1>7. diverged' \subseteq Turns
    BY DEF CompleteTurnDiff, DrivenApart, HistoryTyped
  <1> QED
    BY <1>5, <1>6, <1>7, <1>9

(* What only moves along the provider and the queues.                      *)
LEMMA UserAndProviderKeepTypes ==
    ASSUME TypeInv, RequestTurn \/ RequestRevert \/ StartTurn \/ UpdateDiff \/ CompleteTurn
    PROVE  TypeInv'
PROOF
  <1>1. CASE RequestTurn
    <2>1. Event("turnStart", 0, 0, "none") \in DomainEvents
      BY DEF DomainEvents, Requests, Event
    <2>2. ProviderTyped' /\ ModelTyped'
      BY <1>1, CheckpointAssumption
      DEF TypeInv, ProviderTyped, ModelTyped, RequestTurn, model
    <2>3. WorkersTyped'
      BY <1>1, <2>1 DEF TypeInv, WorkersTyped, JobTyped, RequestTurn
    <2> QED
      BY <1>1, <2>2, <2>3
      DEF TypeInv, HistoryTyped, FlagsTyped, EventsOfStarted, RequestTurn, history
  <1>2. CASE RequestRevert
    <2>1. \A count \in 0..MaxTurns : Event("revert", 0, count, "none") \in DomainEvents
      BY DEF DomainEvents, Requests, Event
    <2>2. ProviderTyped' /\ ModelTyped'
      BY <1>2 DEF TypeInv, ProviderTyped, ModelTyped, RequestRevert, provider, model
    <2>3. WorkersTyped'
      BY <1>2, <2>1 DEF TypeInv, WorkersTyped, JobTyped, RequestRevert
    <2>4. HistoryTyped' /\ FlagsTyped'
      BY <1>2, CheckpointAssumption DEF TypeInv, HistoryTyped, FlagsTyped, RequestRevert, history
    <2> QED
      BY <1>2, <2>2, <2>3, <2>4 DEF TypeInv, EventsOfStarted, RequestRevert, provider
  <1>3. CASE StartTurn
    <2>1. started' \in Turns /\ started' \in 0..requested /\ started' = started + 1
      BY <1>3, CheckpointAssumption DEF TypeInv, ProviderTyped, StartTurn, Turns
    <2>2. Event("started", started', 0, "none") \in RuntimeEvents
      BY <2>1 DEF RuntimeEvents, Event
    <2>3. ProviderTyped'
      BY <1>3, <2>1 DEF TypeInv, ProviderTyped, StartTurn, Emit, Turns
    <2>4. ModelTyped'
      BY <1>3, <2>1 DEF TypeInv, ProviderTyped, ModelTyped, StartTurn, Emit, model
    <2>5. WorkersTyped'
      BY <1>3, <2>2 DEF TypeInv, WorkersTyped, JobTyped, StartTurn, Emit
    <2>6. EventsOfStarted'
      <3>1. started' = started + 1 /\ started \in Nat
        BY <2>1, CheckpointAssumption DEF TypeInv, ProviderTyped
      <3>2. ingestion' = Append(ingestion, Event("started", started', 0, "none"))
        BY <1>3 DEF StartTurn, Emit
      <3>3. ASSUME NEW i \in DOMAIN ingestion'
            PROVE  ingestion'[i].turn \in Int /\ ingestion'[i].turn <= started'
        <4>1. CASE i \in DOMAIN ingestion
          <5>1. ingestion'[i] = ingestion[i] /\ ingestion[i] \in RuntimeEvents
            BY <3>2, <4>1 DEF TypeInv, WorkersTyped
          <5>2. ingestion[i].turn \in Int /\ ingestion[i].turn <= started
            BY <4>1, <5>1 DEF TypeInv, EventsOfStarted, RuntimeEvents, Turns
          <5> QED
            BY <3>1, <5>1, <5>2
        <4>2. CASE i \notin DOMAIN ingestion
          <5>1. ingestion'[i] = Event("started", started', 0, "none")
            BY <3>2, <3>3, <4>2 DEF TypeInv, WorkersTyped
          <5> QED
            BY <3>1, <5>1 DEF Event
        <4> QED
          BY <4>1, <4>2
      <3> QED
        BY <3>3 DEF EventsOfStarted
    <2> QED
      BY <1>3, <2>3, <2>4, <2>5, <2>6
      DEF TypeInv, HistoryTyped, FlagsTyped, StartTurn, Emit, history
  <1>4. CASE UpdateDiff
    <2>1. Event("diff", current, 0, "none") \in RuntimeEvents
      BY <1>4, CheckpointAssumption
      DEF TypeInv, ProviderTyped, UpdateDiff, RuntimeEvents, Event, Turns
    <2>2. WorkersTyped'
      BY <1>4, <2>1 DEF TypeInv, WorkersTyped, JobTyped, UpdateDiff
    <2>3. EventsOfStarted'
      BY <1>4, <2>1, CheckpointAssumption
      DEF TypeInv, ProviderTyped, WorkersTyped, EventsOfStarted, UpdateDiff, provider, Event
    <2> QED
      BY <1>4, <2>2, <2>3
      DEF TypeInv, ProviderTyped, ModelTyped, HistoryTyped, FlagsTyped, UpdateDiff, provider,
          model, history
  <1>5. CASE CompleteTurn
    <2>1. \A status \in {"ready", "missing"} :
                Event("completed", current, 0, status) \in RuntimeEvents
      BY <1>5, CheckpointAssumption
      DEF TypeInv, ProviderTyped, CompleteTurn, RuntimeEvents, Event, Turns
    <2>2. WorkersTyped'
      BY <1>5, <2>1 DEF TypeInv, WorkersTyped, JobTyped, CompleteTurn, Emit
    <2>3. ProviderTyped'
      BY <1>5 DEF TypeInv, ProviderTyped, CompleteTurn, Emit
    <2>4. EventsOfStarted'
      BY <1>5, CheckpointAssumption
      DEF TypeInv, ProviderTyped, WorkersTyped, EventsOfStarted, CompleteTurn, Emit, Event
    <2> QED
      BY <1>5, <2>2, <2>3, <2>4
      DEF TypeInv, ModelTyped, HistoryTyped, FlagsTyped, CompleteTurn, Emit, model, history
  <1> QED
    BY <1>1, <1>2, <1>3, <1>4, <1>5

LEMMA IngestionKeepsTypes ==
    ASSUME TypeInv, Ingestion
    PROVE  TypeInv'
PROOF
  <1>1. ASSUME NEW type, Ingest(type)
        PROVE  /\ Head(ingestion) \in RuntimeEvents /\ Head(ingestion).turn <= started
               /\ ingestion' \in Seq(RuntimeEvents)
               /\ ProviderTyped' /\ HistoryTyped' /\ FlagsTyped' /\ EventsOfStarted'
    <2>1. Head(ingestion) \in RuntimeEvents /\ ingestion' \in Seq(RuntimeEvents)
      BY <1>1 DEF TypeInv, WorkersTyped, Ingest
    <2>2. Head(ingestion).turn <= started
      BY <1>1 DEF TypeInv, WorkersTyped, EventsOfStarted, Ingest
    <2>3. EventsOfStarted'
      BY <1>1 DEF TypeInv, WorkersTyped, EventsOfStarted, Ingest, provider
    <2> QED
      BY <1>1, <2>1, <2>2, <2>3
      DEF TypeInv, ProviderTyped, HistoryTyped, FlagsTyped, Ingest, provider, history
  <1>2. CASE DispatchPlaceholder
    <2> DEFINE c == Checkpoint(ingest.turn, ingest.count, "missing", FALSE)
    <2>1. c \in CheckpointSet /\ c.status = "missing"
      BY <1>2
      DEF TypeInv, WorkersTyped, DispatchPlaceholder, Placeholders, Checkpoint, CheckpointSet,
          Statuses
    <2>2. CompleteTurnDiff(c) /\ UNCHANGED <<active, refs, started>>
      BY <1>2 DEF DispatchPlaceholder, provider
    <2> HIDE DEF c
    <2>3. /\ ModelTyped' /\ domain' \in Seq(DomainEvents)
          /\ diverged' \subseteq Turns /\ dropped' \subseteq Turns
      BY <2>1, <2>2, DiffKeepsTypes
    <2>4. WorkersTyped'
      BY <1>2, <2>3 DEF TypeInv, WorkersTyped, JobTyped, DispatchPlaceholder
    <2> QED
      BY <1>2, <2>3, <2>4
      DEF TypeInv, ProviderTyped, HistoryTyped, FlagsTyped, EventsOfStarted,
          DispatchPlaceholder, provider
  <1>3. CASE IngestDiff
    <2>1. Ingest("diff") /\ UNCHANGED active
      BY <1>3 DEF IngestDiff
    <2>2. MaxCount + 1 \in Nat \ {0}
      BY MaxCountIsLargest DEF TypeInv
    <2>3. Head(ingestion).turn \in Turns
      BY <1>1, <2>1 DEF RuntimeEvents
    <2>4. ingest' \in {NoJob} \cup Placeholders
      BY <1>3, <2>2, <2>3 DEF IngestDiff, Placeholders, Event
    <2>5. WorkersTyped'
      BY <1>1, <2>1, <2>4 DEF TypeInv, WorkersTyped, JobTyped, Ingest
    <2>6. ModelTyped'
      BY <2>1 DEF TypeInv, ModelTyped, Ingest, provider
    <2> QED
      BY <1>1, <2>1, <2>5, <2>6 DEF TypeInv
  <1>4. CASE IngestStarted \/ IngestCompleted
    <2>1. PICK type : Ingest(type) /\ UNCHANGED ingest
      BY <1>4 DEF IngestStarted, IngestCompleted
    <2>2. WorkersTyped'
      BY <1>1, <2>1 DEF TypeInv, WorkersTyped, JobTyped, Ingest
    <2>3. active' \in 0..started
      BY <1>1, <1>4, <2>1, CheckpointAssumption
      DEF TypeInv, ProviderTyped, ModelTyped, IngestStarted, IngestCompleted, Ingest,
          RuntimeEvents, Turns
    <2>4. ModelTyped'
      BY <2>1, <2>3 DEF TypeInv, ModelTyped, Ingest, provider
    <2> QED
      BY <1>1, <2>1, <2>2, <2>4 DEF TypeInv
  <1> QED
    BY <1>2, <1>3, <1>4 DEF Ingestion

LEMMA BeginTyped ==
    ASSUME NEW event \in Captures \cup Baselines, Begin(event, "capture")
    PROVE  JobTyped'
PROOF
  <1>1. event \in Events
    BY CheckpointAssumption DEF Captures, Baselines, Events, Turns, Statuses
  <1>2. job' = [event |-> event, at |-> "capture", stale |-> {}, drop |-> 0, basis |-> Absent]
    BY DEF Begin, Resting
  <1> QED
    BY <1>1, <1>2 DEF JobTyped, Jobs

(* What taking an event leaves alone, whatever the job made of it.         *)
LEMMA RuntimeTaken ==
    ASSUME TypeInv, NEW type, TakeRuntime(type)
    PROVE  /\ Head(runtime) \in RuntimeEvents /\ Head(runtime).type = type
           /\ ProviderTyped' /\ ModelTyped' /\ FlagsTyped' /\ EventsOfStarted'
           /\ JobTyped' => WorkersTyped'
           /\ overtaken' \subseteq Turns => HistoryTyped'
PROOF
  <1>1. Head(runtime) \in RuntimeEvents /\ runtime' \in Seq(RuntimeEvents)
    BY DEF TypeInv, WorkersTyped, TakeRuntime
  <1>2. ProviderTyped' /\ ModelTyped' /\ FlagsTyped' /\ EventsOfStarted'
    BY DEF TypeInv, ProviderTyped, ModelTyped, FlagsTyped, EventsOfStarted, TakeRuntime,
           provider, model
  <1>3. JobTyped' => WorkersTyped'
    BY <1>1 DEF TypeInv, WorkersTyped, TakeRuntime
  <1>4. overtaken' \subseteq Turns => HistoryTyped'
    BY DEF TypeInv, HistoryTyped, TakeRuntime
  <1> QED
    BY <1>1, <1>2, <1>3, <1>4 DEF TakeRuntime

LEMMA DomainTaken ==
    ASSUME TypeInv, NEW type, TakeDomain(type)
    PROVE  /\ Head(domain) \in DomainEvents /\ Head(domain).type = type
           /\ ProviderTyped' /\ ModelTyped' /\ FlagsTyped' /\ EventsOfStarted' /\ HistoryTyped'
           /\ JobTyped' => WorkersTyped'
PROOF
  <1>1. Head(domain) \in DomainEvents /\ domain' \in Seq(DomainEvents)
    BY DEF TypeInv, WorkersTyped, TakeDomain
  <1>2. /\ ProviderTyped' /\ ModelTyped' /\ FlagsTyped' /\ EventsOfStarted'
        /\ HistoryTyped'
    BY DEF TypeInv, ProviderTyped, ModelTyped, FlagsTyped, EventsOfStarted, HistoryTyped,
           TakeDomain, provider, model, history
  <1>3. JobTyped' => WorkersTyped'
    BY <1>1 DEF TypeInv, WorkersTyped, TakeDomain
  <1> QED
    BY <1>1, <1>2, <1>3 DEF TakeDomain

LEMMA CompletedTyped ==
    ASSUME TypeInv, TakeCompleted
    PROVE  TypeInv'
PROOF
  <1> DEFINE event == Head(runtime)
             counts == {c.count : c \in Of(event.turn)}
  <1>1. TakeRuntime("completed")
    BY DEF TakeCompleted
  <1>2. event.turn \in Turns /\ event \in RuntimeEvents /\ event.type = "completed"
    BY <1>1, RuntimeTaken DEF RuntimeEvents
  <1>3. overtaken' \subseteq Turns
    BY <1>2 DEF TakeCompleted, TypeInv, HistoryTyped
  <1>4. JobTyped'
    <2>1. CASE UNCHANGED job
      BY <2>1 DEF TypeInv, WorkersTyped, JobTyped
    <2>2. CASE \E count \in IF counts = {} THEN {MaxCount + 1} ELSE counts :
                    Begin([event EXCEPT !.count = count], "capture")
      <3>1. PICK count \in IF counts = {} THEN {MaxCount + 1} ELSE counts :
                    Begin([event EXCEPT !.count = count], "capture")
        BY <2>2
      <3>2. MaxCount + 1 \in Nat \ {0}
        BY MaxCountIsLargest DEF TypeInv
      <3>3. counts \subseteq Nat \ {0}
        BY DEF TypeInv, ModelTyped, CheckpointSet, Of
      <3>4. count \in Nat \ {0}
        BY <3>1, <3>2, <3>3
      <3>5. [event EXCEPT !.count = count] \in Captures
        BY <1>2, <3>4 DEF RuntimeEvents, Captures
      <3> QED
        BY <3>1, <3>5, BeginTyped
    <2> QED
      BY <2>1, <2>2 DEF TakeCompleted
  <1> QED
    BY <1>1, <1>3, <1>4, RuntimeTaken DEF TypeInv

LEMMA OthersTakenTyped ==
    ASSUME TypeInv, TakeStarted \/ TakeTurnStart \/ TakePlaceholder
    PROVE  TypeInv'
PROOF
  <1>1. Event("baseline", 0, MaxCount, "none") \in Baselines
    BY MaxCountIsLargest DEF TypeInv, Baselines, Event
  <1>2. CASE TakeStarted
    <2>1. JobTyped'
      BY <1>1, <1>2, BeginTyped DEF TakeStarted, Baseline
    <2>2. TakeRuntime("started") /\ overtaken' \subseteq Turns
      BY <1>2 DEF TakeStarted, TypeInv, HistoryTyped
    <2> QED
      BY <2>1, <2>2, RuntimeTaken DEF TypeInv
  <1>3. CASE TakeTurnStart
    <2>1. JobTyped'
      BY <1>1, <1>3, BeginTyped DEF TakeTurnStart, Baseline
    <2> QED
      BY <1>3, <2>1, DomainTaken DEF TypeInv, TakeTurnStart
  <1>4. CASE TakePlaceholder
    <2>1. TakeDomain("placeholder")
      BY <1>4 DEF TakePlaceholder
    <2>2. Head(domain) \in Placeholders
      BY <2>1, DomainTaken DEF DomainEvents, Placeholders, Requests
    <2>3. [Head(domain) EXCEPT !.status = "ready"] \in Captures
      BY <2>2 DEF Placeholders, Captures
    <2>4. JobTyped'
      <3>1. CASE UNCHANGED job
        BY <3>1 DEF TypeInv, WorkersTyped, JobTyped
      <3>2. CASE Begin([Head(domain) EXCEPT !.status = "ready"], "capture")
        BY <2>3, <3>2, BeginTyped
      <3> QED
        BY <1>4, <3>1, <3>2 DEF TakePlaceholder
    <2> QED
      BY <2>1, <2>4, DomainTaken DEF TypeInv
  <1> QED
    BY <1>2, <1>3, <1>4

LEMMA RevertTakenTyped ==
    ASSUME TypeInv, TakeRevert
    PROVE  TypeInv'
PROOF
  <1> DEFINE event == Head(domain)
  <1>1. TakeDomain("revert")
    BY DEF TakeRevert
  <1>2. event \in Requests
    BY <1>1, DomainTaken DEF DomainEvents, Placeholders, Requests
  <1>3. JobTyped'
    <2>1. CASE UNCHANGED job
      BY <2>1 DEF TypeInv, WorkersTyped, JobTyped
    <2>2. CASE /\ event.count <= MaxCount
               /\ job' = [event |-> event, at |-> "restore",
                          stale |-> StaleRefs(event.count),
                          drop |-> MaxCount - event.count,
                          basis |-> IF Aligned THEN started ELSE Absent]
      <3>1. MaxCount - event.count \in Nat
        BY <1>2, <2>2, MaxCountIsLargest DEF TypeInv, Requests
      <3>2. StaleRefs(event.count) \subseteq Nat
        BY DEF StaleRefs, TypeInv, ModelTyped, CheckpointSet
      <3>3. event \in Events
        BY <1>2, CheckpointAssumption DEF Requests, Events, Statuses
      <3>4. (IF Aligned THEN started ELSE Absent) \in {Absent} \cup Nat
        BY CheckpointAssumption DEF TypeInv, ProviderTyped
      <3>5. job' \in Jobs /\ job'.at = "restore" /\ job'.event \in Requests
        BY <1>2, <2>2, <3>1, <3>2, <3>3, <3>4 DEF Jobs
      <3> QED
        BY <3>5 DEF JobTyped
    <2> QED
      BY <2>1, <2>2 DEF TakeRevert
  <1> QED
    BY <1>1, <1>3, DomainTaken DEF TypeInv

(* A job goes on: only what it is at changes.                              *)
LEMMA JobMoves ==
    ASSUME JobTyped, NEW at \in {"dispatch", "rollback", "delete", "complete"},
           job' = [job EXCEPT !.at = at], job.at # "idle"
    PROVE  /\ job' \in Jobs /\ job'.at = at
           /\ job'.event = job.event /\ job'.stale = job.stale /\ job'.basis = job.basis
           /\ job'.drop = job.drop
PROOF
  <1>1. job \in Jobs
    BY DEF JobTyped, Resting
  <1> QED
    BY <1>1 DEF Jobs

LEMMA CaptureKeepsTypes ==
    ASSUME TypeInv, Capture \/ CaptureFails \/ DispatchCapture
    PROVE  TypeInv'
PROOF
  <1>1. CASE Capture
    <2>1. job \in Jobs /\ job.event \in Captures \cup Baselines
      BY <1>1 DEF TypeInv, WorkersTyped, JobTyped, Resting, Capture
    <2>2. JobTyped'
      <3>1. CASE job.event.type = "baseline"
        BY <1>1, <3>1 DEF Capture, JobTyped
      <3>2. CASE job.event.type # "baseline"
        <4>1. job.event \in Captures
          BY <2>1, <3>2 DEF Captures, Baselines
        <4>2. job' = [job EXCEPT !.at = "dispatch"] /\ job.at # "idle"
          BY <1>1, <3>2 DEF Capture
        <4>3. job' \in Jobs /\ job'.at = "dispatch" /\ job'.event = job.event
          BY <4>2, JobMoves DEF TypeInv, WorkersTyped
        <4> QED
          BY <4>1, <4>3 DEF JobTyped
      <3> QED
        BY <3>1, <3>2
    <2>3. WorkersTyped'
      BY <1>1, <2>2 DEF TypeInv, WorkersTyped, Capture
    <2>4. refs' \subseteq Nat
      BY <1>1, <2>1 DEF TypeInv, ModelTyped, Capture, Captures, Baselines
    <2>5. ModelTyped'
      BY <1>1, <2>4 DEF TypeInv, ModelTyped, Capture, provider, model
    <2> QED
      BY <1>1, <2>3, <2>5
      DEF TypeInv, ProviderTyped, HistoryTyped, FlagsTyped, EventsOfStarted, Capture, provider,
          history
  <1>2. CASE CaptureFails
    <2>1. job.event \in Captures \cup Baselines
      BY <1>2 DEF TypeInv, WorkersTyped, JobTyped, Resting, CaptureFails
    <2>2. failed' \subseteq Turns
      <3>1. CASE job.event.type = "baseline"
        BY <1>2, <3>1 DEF CaptureFails, TypeInv, HistoryTyped
      <3>2. CASE job.event.type # "baseline"
        <4>1. job.event.turn \in Turns
          BY <2>1, <3>2 DEF Captures, Baselines
        <4> QED
          BY <1>2, <3>2, <4>1 DEF CaptureFails, TypeInv, HistoryTyped
      <3> QED
        BY <3>1, <3>2
    <2>3. HistoryTyped'
      BY <1>2, <2>2, CheckpointAssumption DEF TypeInv, HistoryTyped, CaptureFails, Fails
    <2>4. FlagsTyped'
      BY <1>2, Zenon DEF TypeInv, FlagsTyped, CaptureFails
    <2>5. WorkersTyped'
      BY <1>2 DEF TypeInv, WorkersTyped, JobTyped, CaptureFails
    <2> QED
      BY <1>2, <2>3, <2>4, <2>5
      DEF TypeInv, ProviderTyped, ModelTyped, EventsOfStarted, CaptureFails, provider, model
  <1>3. CASE DispatchCapture
    <2> DEFINE event == job.event
               c == Checkpoint(event.turn, event.count, event.status, TRUE)
    <2>1. event \in Captures
      BY <1>3 DEF TypeInv, WorkersTyped, JobTyped, Resting, DispatchCapture
    <2>2. c \in CheckpointSet /\ c.status \in {"ready", "missing"}
      BY <2>1 DEF Captures, Checkpoint, CheckpointSet, Statuses
    <2>3. CompleteTurnDiff(c) /\ UNCHANGED <<active, refs, started>>
      BY <1>3 DEF DispatchCapture, provider
    <2> HIDE DEF c
    <2>4. /\ ModelTyped' /\ domain' \in Seq(DomainEvents)
          /\ diverged' \subseteq Turns /\ dropped' \subseteq Turns
      BY <2>2, <2>3, DiffKeepsTypes
    <2>5. WorkersTyped'
      BY <1>3, <2>4 DEF TypeInv, WorkersTyped, JobTyped, DispatchCapture
    <2> QED
      BY <1>3, <2>4, <2>5
      DEF TypeInv, ProviderTyped, HistoryTyped, FlagsTyped, EventsOfStarted, DispatchCapture,
          provider
  <1> QED
    BY <1>1, <1>2, <1>3

LEMMA PrefixTyped ==
    ASSUME NEW S, NEW q \in Seq(S), NEW n \in 0..Len(q)
    PROVE  SubSeq(q, 1, n) \in Seq(S)
PROOF
  <1>1. n \in Int /\ 1 \in Int /\ \A i \in 1..n : q[i] \in S
    OBVIOUS
  <1> QED
    BY <1>1, SubSeqProperties

LEMMA RevertKeepsTypes ==
    ASSUME TypeInv, Restore \/ RollBack \/ DeleteRefs \/ CompleteRevert \/ RevertFails
    PROVE  TypeInv'
PROOF
  <1>1. PICK at \in {"restore", "rollback", "delete", "complete"} : RevertStep(at)
    BY DEF Restore, RollBack, DeleteRefs, CompleteRevert, RevertFails
  <1>2. job \in Jobs /\ job.event \in Requests /\ job.at # "idle"
    BY <1>1 DEF RevertStep, TypeInv, WorkersTyped, JobTyped, Resting
  <1>3. JobTyped'
    <2>1. CASE job' = Resting
      BY <2>1 DEF JobTyped
    <2>2. ASSUME NEW next \in {"rollback", "delete", "complete"},
                 job' = [job EXCEPT !.at = next]
          PROVE  JobTyped'
      <3>1. job' \in Jobs /\ job'.at = next /\ job'.event = job.event
        BY <1>2, <2>2, JobMoves DEF TypeInv, WorkersTyped
      <3> QED
        BY <1>2, <3>1 DEF JobTyped
    <2> QED
      BY <2>1, <2>2 DEF Restore, RollBack, DeleteRefs, CompleteRevert, RevertFails
  <1>4. conversation' \in Seq(1..MaxTurns)
    <2>1. CASE RollBack
      <3>1. LastOf(Len(conversation), job.drop) \in 0..Len(conversation)
        BY <1>2 DEF TypeInv, ProviderTyped, LastOf, Jobs
      <3>2. conversation \in Seq(1..MaxTurns)
        BY DEF TypeInv, ProviderTyped
      <3>3. SubSeq(conversation, 1, LastOf(Len(conversation), job.drop)) \in Seq(1..MaxTurns)
        BY <3>1, <3>2, PrefixTyped
      <3> QED
        BY <2>1, <3>3 DEF RollBack
    <2> QED
      BY <2>1
      DEF TypeInv, ProviderTyped, Restore, DeleteRefs, CompleteRevert, RevertFails
  <1>5. ProviderTyped' /\ EventsOfStarted'
    BY <1>1, <1>4 DEF TypeInv, ProviderTyped, EventsOfStarted, RevertStep
  <1>6. WorkersTyped'
    BY <1>1, <1>3
    DEF TypeInv, WorkersTyped, RevertStep, Restore, RollBack, DeleteRefs, CompleteRevert,
        RevertFails
  <1>7. ModelTyped'
    <2>1. CASE CompleteRevert
      <3>1. checkpoints' \subseteq checkpoints
        BY <2>1, RevertUpdates DEF TypeInv
      <3>4. Cardinality(checkpoints') <= MaxCheckpoints
        <4>1. /\ IsFiniteSet(checkpoints) /\ Cardinality(checkpoints) \in Nat
              /\ Cardinality(checkpoints') \in Nat
              /\ Cardinality(checkpoints') <= Cardinality(checkpoints)
          BY <3>1, FinitelyMany, FS_Subset, FS_CardinalityType DEF TypeInv
        <4> QED
          BY <4>1, CheckpointAssumption DEF TypeInv, ModelTyped
      <3>2. rows' \in [Turns -> [count : Nat \cup {Absent}, status : Statuses]]
        BY <2>1 DEF TypeInv, ModelTyped, CompleteRevert, NoRow, Statuses
      <3>3. Bounded({c.count : c \in checkpoints'})
        BY <3>1 DEF TypeInv, ModelTyped, Bounded
      <3> QED
        BY <1>1, <2>1, <3>1, <3>2, <3>3, <3>4
        DEF TypeInv, ModelTyped, CompleteRevert, RevertStep
    <2>2. CASE ~CompleteRevert
      BY <1>1, <2>2
      DEF TypeInv, ModelTyped, RevertStep, Restore, RollBack, DeleteRefs, RevertFails
    <2> QED
      BY <2>1, <2>2
  <1>8. HistoryTyped'
    <2>1. UNCHANGED dropped
      BY RevertUpdates
      DEF TypeInv, Restore, RollBack, DeleteRefs, RevertFails
    <2> QED
      BY <1>1, <2>1, CheckpointAssumption
      DEF TypeInv, HistoryTyped, RevertStep, Restore, RollBack, DeleteRefs, CompleteRevert,
          RevertFails, Fails
  <1>9. FlagsTyped'
    BY Zenon
    DEF TypeInv, FlagsTyped, Restore, RollBack, DeleteRefs, CompleteRevert, RevertFails
  <1> QED
    BY <1>5, <1>6, <1>7, <1>8, <1>9 DEF TypeInv

LEMMA TypesStep == TypeInv /\ [Next]_vars => TypeInv'
PROOF
  <1> SUFFICES ASSUME TypeInv, [Next]_vars PROVE TypeInv'
    OBVIOUS
  <1>1. CASE Next
    BY <1>1, UserAndProviderKeepTypes, IngestionKeepsTypes, OthersTakenTyped, CompletedTyped,
       RevertTakenTyped, CaptureKeepsTypes, RevertKeepsTypes DEF Next, Reactor
  <1>2. CASE UNCHANGED vars
    BY <1>2
    DEF TypeInv, ProviderTyped, WorkersTyped, JobTyped, ModelTyped, HistoryTyped, FlagsTyped,
        EventsOfStarted, vars, provider, workers, model, history
  <1> QED
    BY <1>1, <1>2

(* The state has the declared shape, and a turn has one checkpoint.        *)
THEOREM TypeCorrect == Spec => []TypeOK
PROOF
  <1>1. Spec => []TypeInv
    BY TypesStart, TypesStep, PTL DEF Spec
  <1> QED
    BY <1>1, TypesSuffice, PTL
-----------------------------------------------------------------------------
(* Why a captured checkpoint can be restored.  A revert knows which refs it*)
(* will delete, and none of them is kept; once it has deleted them only the*)
(* checkpoints it will remove lack theirs.  A handler that failed midway   *)
(* gives nothing.                                                          *)
HasRef(c) == c.count \in refs \/ (job.at = "complete" /\ c.count > job.event.count)

RefInv ==
    ~aborted =>
        /\ \A c \in checkpoints : c.captured => HasRef(c)
        /\ job.at = "dispatch" => job.event.count \in refs
        /\ job.at \in {"restore", "rollback", "delete"} =>
                \A n \in job.stale : n > job.event.count

(* Neither the refs nor the job change.                                    *)
LEMMA RefsUnmoved ==
    ASSUME RefInv, UNCHANGED <<job, refs, aborted>>,
           \A c \in checkpoints' : c \in checkpoints \/ ~c.captured
    PROVE  RefInv'
BY DEF RefInv, HasRef

(* A job begins, or nothing is made of the event.                          *)
LEMMA RefsWhileTaking ==
    ASSUME RefInv, job = Resting, UNCHANGED <<checkpoints, refs, aborted>>,
           \/ UNCHANGED job
           \/ job'.at = "capture"
           \/ job'.at = "restore" /\ \A n \in job'.stale : n > job'.event.count
    PROVE  RefInv'
BY DEF RefInv, HasRef, Resting

LEMMA CompletedIsCaptured ==
    ASSUME TypeInv, TakeCompleted
    PROVE  UNCHANGED job \/ job'.at = "capture"
BY DEF TakeCompleted, Begin, Resting

LEMMA RefsStep == TypeInv /\ RefInv /\ [Next]_vars => RefInv'
PROOF
  <1> SUFFICES ASSUME TypeInv, RefInv, [Next]_vars PROVE RefInv'
    OBVIOUS
  <1>1. CASE \/ RequestTurn \/ RequestRevert \/ StartTurn \/ UpdateDiff \/ CompleteTurn
             \/ IngestStarted \/ IngestCompleted \/ IngestDiff \/ UNCHANGED vars
    <2>1. UNCHANGED <<job, refs, aborted, checkpoints>>
      BY <1>1
      DEF RequestTurn, RequestRevert, StartTurn, UpdateDiff, CompleteTurn, Emit, IngestStarted,
          IngestCompleted, IngestDiff, Ingest, vars, workers, model, history
    <2> QED
      BY <2>1, RefsUnmoved
  <1>2. CASE DispatchPlaceholder
    <2>1. UNCHANGED <<job, refs, aborted>>
      BY <1>2 DEF DispatchPlaceholder
    <2> DEFINE c == Checkpoint(ingest.turn, ingest.count, "missing", FALSE)
    <2>3. c \in CheckpointSet /\ CompleteTurnDiff(c) /\ ~c.captured
      BY <1>2
      DEF TypeInv, WorkersTyped, DispatchPlaceholder, Placeholders, Checkpoint, CheckpointSet,
          Statuses
    <2> HIDE DEF c
    <2>2. \A d \in checkpoints' : d \in checkpoints \/ ~d.captured
      BY <2>3, DiffUpdates DEF TypeInv, Updated
    <2> QED
      BY <2>1, <2>2, RefsUnmoved
  <1>3. CASE TakeStarted \/ TakeTurnStart \/ TakePlaceholder \/ TakeCompleted
    <2>1. job = Resting /\ UNCHANGED <<checkpoints, refs, aborted>>
      BY <1>3
      DEF TakeStarted, TakeTurnStart, TakePlaceholder, TakeCompleted, TakeRuntime, TakeDomain,
          model, history
    <2>2. UNCHANGED job \/ job'.at = "capture"
      BY <1>3, CompletedIsCaptured
      DEF TakeStarted, TakeTurnStart, TakePlaceholder, Baseline, Begin, Resting
    <2> QED
      BY <2>1, <2>2, RefsWhileTaking
  <1>4. CASE TakeRevert
    <2>1. job = Resting /\ UNCHANGED <<checkpoints, refs, aborted>>
      BY <1>4 DEF TakeRevert, TakeDomain, model, history
    <2>2. \A n \in StaleRefs(Head(domain).count) : n > Head(domain).count
      BY DEF StaleRefs
    <2>3. \/ UNCHANGED job
          \/ job'.at = "restore" /\ \A n \in job'.stale : n > job'.event.count
      BY <1>4, <2>2 DEF TakeRevert
    <2> QED
      BY <2>1, <2>3, RefsWhileTaking
  <1>5. CASE Capture
    <2>1. refs' = refs \cup {job.event.count} /\ UNCHANGED <<checkpoints, aborted>>
      BY <1>5 DEF Capture, model, history
    <2>2. CASE job' = Resting
      BY <1>5, <2>1, <2>2 DEF RefInv, HasRef, Resting, Capture
    <2>3. CASE job' = [job EXCEPT !.at = "dispatch"]
      <3>1. job'.at = "dispatch" /\ job'.event = job.event
        BY <1>5, <2>3, JobMoves DEF TypeInv, WorkersTyped, Capture
      <3> QED
        BY <1>5, <2>1, <3>1 DEF RefInv, HasRef, Capture
    <2> QED
      BY <1>5, <2>2, <2>3 DEF Capture
  <1>6. CASE CaptureFails
    <2>1. UNCHANGED <<checkpoints, refs>> /\ job' = Resting /\ job.at \in {"capture", "dispatch"}
      BY <1>6 DEF CaptureFails, model
    <2>2. ~aborted' => ~aborted
      BY <1>6, Zenon DEF CaptureFails
    <2> QED
      BY <2>1, <2>2 DEF RefInv, HasRef, Resting
  <1>7. CASE DispatchCapture
    <2>1. job.at = "dispatch" /\ job' = Resting /\ UNCHANGED <<refs, aborted>>
      BY <1>7 DEF DispatchCapture
    <2> DEFINE event == job.event
               c == Checkpoint(event.turn, event.count, event.status, TRUE)
    <2>3. event \in Captures
      BY <1>7 DEF TypeInv, WorkersTyped, JobTyped, Resting, DispatchCapture
    <2>4. c \in CheckpointSet /\ CompleteTurnDiff(c) /\ c.count = job.event.count
      BY <1>7, <2>3 DEF DispatchCapture, Captures, Checkpoint, CheckpointSet, Statuses
    <2> HIDE DEF c
    <2>2. \A d \in checkpoints' : d \in checkpoints \/ d.count = job.event.count
      BY <2>4, DiffUpdates DEF TypeInv, Updated
    <2> QED
      BY <2>1, <2>2 DEF RefInv, HasRef, Resting
  <1>8. CASE Restore \/ RollBack
    <2>1. job.at \in {"restore", "rollback"} /\ UNCHANGED <<checkpoints, refs, aborted>>
      BY <1>8 DEF Restore, RollBack, RevertStep
    <2>2. CASE job' = Resting
      BY <2>1, <2>2 DEF RefInv, HasRef, Resting
    <2>3. ASSUME NEW at \in {"rollback", "delete"}, job' = [job EXCEPT !.at = at]
          PROVE  RefInv'
      <3>1. job'.at = at /\ job'.event = job.event /\ job'.stale = job.stale
        BY <2>1, <2>3, JobMoves DEF TypeInv, WorkersTyped
      <3> QED
        BY <2>1, <3>1 DEF RefInv, HasRef
    <2> QED
      BY <1>8, <2>2, <2>3 DEF Restore, RollBack
  <1>9. CASE DeleteRefs
    <2>1. /\ job.at = "delete" /\ refs' = refs \ job.stale
          /\ job' = [job EXCEPT !.at = "complete"] /\ UNCHANGED <<checkpoints, aborted>>
      BY <1>9 DEF DeleteRefs, RevertStep
    <2>2. job'.at = "complete" /\ job'.event = job.event
      BY <2>1, JobMoves DEF TypeInv, WorkersTyped
    <2> QED
      BY <2>1, <2>2 DEF RefInv, HasRef
  <1>10. CASE CompleteRevert
    <2>1. /\ job.at = "complete" /\ job' = Resting /\ UNCHANGED <<refs, aborted>>
          /\ checkpoints' = {c \in checkpoints : c.count <= job.event.count}
      BY <1>10, RevertUpdates DEF TypeInv, CompleteRevert, RevertStep
    <2>2. job.event.count \in Nat /\ \A c \in checkpoints : c.count \in Nat
      BY <2>1 DEF TypeInv, WorkersTyped, ModelTyped, CheckpointSet, JobTyped, Resting, Requests
    <2> QED
      BY <2>1, <2>2 DEF RefInv, HasRef, Resting
  <1>11. CASE RevertFails
    <2>1. job' = Resting /\ UNCHANGED <<checkpoints, refs>>
      BY <1>11 DEF RevertFails, RevertStep
    <2>2. ~aborted' => ~aborted /\ job.at = "restore"
      BY <1>11, Zenon DEF RevertFails
    <2> QED
      BY <2>1, <2>2 DEF RefInv, HasRef, Resting
  <1> QED
    BY <1>1, <1>2, <1>3, <1>4, <1>5, <1>6, <1>7, <1>8, <1>9, <1>10, <1>11
    DEF Next, Ingestion, Reactor

(* Between jobs a captured checkpoint can be restored: no revert, repeated *)
(* capture or shared count took its ref away, unless a handler failed      *)
(* between its effects.                                                    *)
THEOREM RefsMatch == Spec => []RefsMatchCheckpoints
PROOF
  <1>1. Init => RefInv
    BY DEF Init, RefInv, Resting
  <1>2. RefInv => RefsMatchCheckpoints
    BY DEF RefInv, HasRef, RefsMatchCheckpoints, Resting
  <1> QED
    BY <1>1, <1>2, TypesStart, TypesStep, RefsStep, PTL DEF Spec
-----------------------------------------------------------------------------
(* The table and the read model, one dispatch at a time.                   *)
Follows(t) ==
    /\ \A c \in Of(t) : rows[t] = [count |-> c.count, status |-> c.status]
    /\ Of(t) = {} /\ rows[t] # NoRow => t \in dropped

LEMMA TableFollowsDiff ==
    ASSUME TypeInv, TableFollowsReadModel, NEW c \in CheckpointSet, CompleteTurnDiff(c)
    PROVE  TableFollowsReadModel'
PROOF
  <1> SUFFICES ASSUME NEW t \in Turns \ diverged' PROVE Follows(t)'
    BY DEF TableFollowsReadModel, Follows, Of
  <1>1. t \in Turns \ diverged /\ t \notin DrivenApart(c)
    BY DEF CompleteTurnDiff
  <1>2. Follows(t)
    BY <1>1 DEF TableFollowsReadModel, Follows
  <1>3. \/ UNCHANGED <<checkpoints, dropped>> /\ c.status = "missing" /\ Real(c.turn) # {}
        \/ /\ checkpoints' \subseteq Updated(c)
           /\ dropped' = dropped \cup TurnsOf(Updated(c) \ checkpoints')
    BY DiffUpdates DEF TypeInv
  <1>4. CASE t = c.turn
    <2>1. /\ checkpoints' \subseteq Updated(c)
          /\ dropped' = dropped \cup TurnsOf(Updated(c) \ checkpoints')
      BY <1>1, <1>3, <1>4 DEF DrivenApart
    <2>2. \A d \in Of(t)' : d = c
      BY <1>4, <2>1 DEF Of, Updated
    <2>3. rows'[t] = [count |-> c.count, status |-> c.status]
      BY <1>4 DEF CompleteTurnDiff, ApplyToRows
    <2>4. Of(t)' = {} => t \in dropped'
      BY <1>4, <2>1 DEF Of, Updated, TurnsOf
    <2> QED
      BY <2>2, <2>3, <2>4 DEF Follows
  <1>5. CASE t # c.turn
    <2>1. Of(t)' \subseteq Of(t) /\ (Of(t) # {} /\ Of(t)' = {} => t \in dropped')
      BY <1>3, <1>5 DEF Updated, Of, TurnsOf
    <2>2. rows[t].count # c.count
      BY <1>1, <1>5 DEF DrivenApart
    <2>3. rows'[t] = rows[t]
      BY <1>1, <1>5, <2>2 DEF CompleteTurnDiff, ApplyToRows
    <2>4. dropped \subseteq dropped'
      BY <1>3
    <2> QED
      BY <1>2, <2>1, <2>3, <2>4 DEF Follows
  <1> QED
    BY <1>4, <1>5

LEMMA TableFollowsRevert ==
    ASSUME TypeInv, TableFollowsReadModel, CompleteRevert
    PROVE  TableFollowsReadModel'
PROOF
  <1> DEFINE count == job.event.count
  <1>1. /\ checkpoints' = {c \in checkpoints : c.count <= count}
        /\ rows' = [t \in Turns |-> IF rows[t].count <= count THEN rows[t] ELSE NoRow]
        /\ UNCHANGED <<diverged, dropped>>
    BY RevertUpdates DEF TypeInv, CompleteRevert
  <1> SUFFICES ASSUME NEW t \in Turns \ diverged PROVE Follows(t)'
    BY <1>1 DEF TableFollowsReadModel, Follows, Of
  <1>2. Follows(t)
    BY DEF TableFollowsReadModel, Follows
  <1>3. rows'[t] = rows[t] \/ rows'[t] = NoRow
    BY <1>1
  <1>4. CASE Of(t) = {}
    <2>1. Of(t)' = {}
      BY <1>1, <1>4 DEF Of
    <2> QED
      BY <1>1, <1>2, <1>3, <1>4, <2>1 DEF Follows
  <1>5. ASSUME NEW c \in Of(t)
        PROVE  Follows(t)'
    <2>1. Of(t) = {c}
      BY <1>5 DEF TypeInv, ModelTyped, Of
    <2>2. rows[t] = [count |-> c.count, status |-> c.status]
      BY <1>2, <1>5 DEF Follows
    <2>3. CASE c.count <= count
      <3>1. rows'[t] = rows[t]
        BY <1>1, <2>2, <2>3
      <3>2. Of(t)' = {c}
        BY <1>1, <2>1, <2>3 DEF Of
      <3> QED
        BY <2>2, <3>1, <3>2 DEF Follows
    <2>4. CASE ~(c.count <= count)
      <3>1. rows'[t] = NoRow
        BY <1>1, <2>2, <2>4
      <3>2. Of(t)' = {}
        BY <1>1, <2>1, <2>4 DEF Of
      <3> QED
        BY <3>1, <3>2 DEF Follows
    <2> QED
      BY <2>3, <2>4
  <1> QED
    BY <1>4, <1>5

LEMMA TableUnmoved ==
    ASSUME TypeInv, [Next]_vars, ~DispatchPlaceholder, ~DispatchCapture, ~CompleteRevert
    PROVE  UNCHANGED <<checkpoints, rows, diverged, dropped>>
PROOF
  <1>1. CASE \/ RequestTurn \/ RequestRevert \/ StartTurn \/ UpdateDiff \/ CompleteTurn
             \/ IngestStarted \/ IngestCompleted \/ IngestDiff \/ UNCHANGED vars
    BY <1>1
    DEF RequestTurn, RequestRevert, StartTurn, UpdateDiff, CompleteTurn, Emit, IngestStarted,
        IngestCompleted, IngestDiff, Ingest, vars, model, history
  <1>2. CASE TakeStarted \/ TakeTurnStart \/ TakePlaceholder \/ TakeCompleted \/ TakeRevert
    BY <1>2
    DEF TakeStarted, TakeTurnStart, TakePlaceholder, TakeCompleted, TakeRevert, TakeRuntime,
        TakeDomain, model, history
  <1>3. CASE Capture \/ CaptureFails \/ Restore \/ RollBack \/ DeleteRefs \/ RevertFails
    BY <1>3
    DEF Capture, CaptureFails, Restore, RollBack, DeleteRefs, RevertFails, model, history
  <1> QED
    BY <1>1, <1>2, <1>3 DEF Next, Ingestion, Reactor

LEMMA TableStep == TypeInv /\ TableFollowsReadModel /\ [Next]_vars => TableFollowsReadModel'
PROOF
  <1> SUFFICES ASSUME TypeInv, TableFollowsReadModel, [Next]_vars
               PROVE  TableFollowsReadModel'
    OBVIOUS
  <1>1. CASE DispatchPlaceholder
    <2> DEFINE c == Checkpoint(ingest.turn, ingest.count, "missing", FALSE)
    <2>1. c \in CheckpointSet /\ CompleteTurnDiff(c)
      BY <1>1
      DEF TypeInv, WorkersTyped, DispatchPlaceholder, Placeholders, Checkpoint, CheckpointSet,
          Statuses
    <2> QED
      BY <2>1, TableFollowsDiff
  <1>2. CASE DispatchCapture
    <2> DEFINE event == job.event
               c == Checkpoint(event.turn, event.count, event.status, TRUE)
    <2>1. event \in Captures
      BY <1>2 DEF TypeInv, WorkersTyped, JobTyped, Resting, DispatchCapture
    <2>2. c \in CheckpointSet
      BY <2>1 DEF Captures, Checkpoint, CheckpointSet, Statuses
    <2>3. CompleteTurnDiff(c)
      BY <1>2 DEF DispatchCapture
    <2> QED
      BY <2>2, <2>3, TableFollowsDiff
  <1>3. CASE CompleteRevert
    BY <1>3, TableFollowsRevert
  <1>4. CASE ~DispatchPlaceholder /\ ~DispatchCapture /\ ~CompleteRevert
    BY <1>4, TableUnmoved DEF TableFollowsReadModel, Of
  <1> QED
    BY <1>1, <1>2, <1>3, <1>4

(* The table that snapshots are read from has the checkpoints of the read  *)
(* model, and no others than those its limit took; but for the turns the   *)
(* two projectors were driven apart on.                                    *)
THEOREM TableFollows == Spec => []TableFollowsReadModel
PROOF
  <1>1. Init => TableFollowsReadModel
    BY DEF Init, TableFollowsReadModel, Of
  <1> QED
    BY <1>1, TypesStart, TypesStep, TableStep, PTL DEF Spec
-----------------------------------------------------------------------------
(* Why a revert is complete.  The conversation has the turns in the order  *)
(* they were started; the revert knows every ref beyond its target; and,   *)
(* when the counts fitted the conversation and no turn began since, each   *)
(* checkpoint is the one of its position or counts beyond the conversation *)
(* (a late placeholder: of a turn that is forgotten, or that had lost its  *)
(* checkpoint to the limit), and the revert drops what lies beyond its     *)
(* target.  The limit takes small counts: the largest stays.               *)
ConversationOrdered ==
    /\ \A i \in DOMAIN conversation : conversation[i] <= started
    /\ \A i, j \in DOMAIN conversation : i < j => conversation[i] < conversation[j]

Reverting == job.at \in {"restore", "rollback", "delete", "complete"}

Beyond == {c \in checkpoints : c.captured /\ c.count > job.event.count}

StaleInv ==
    /\ job.at \in {"restore", "rollback", "delete"} => \A c \in Beyond : c.count \in job.stale
    /\ job.at = "complete" => \A c \in Beyond : c.count \notin refs

Positioned(c) == \E i \in DOMAIN conversation : c.turn = conversation[i] /\ c.count = i
Outside(c) == (c.turn \in Remembered => c.turn \in dropped) /\ c.count > Len(conversation)

Reaching == conversation # <<>> => \E c \in checkpoints : c.count >= Len(conversation)

Fitting ==
    /\ \A c \in checkpoints : Positioned(c) \/ Outside(c)
    /\ \A i \in DOMAIN conversation :
            \/ conversation[i] \in dropped
            \/ \E c \in checkpoints : c.turn = conversation[i] /\ c.count = i
    /\ Reaching
    /\ ingest # NoJob => Outside(ingest)

Dropping ==
    Len(conversation) =
        job.event.count + (IF job.at \in {"restore", "rollback"} THEN job.drop ELSE 0)

AlignInv ==
    Reverting =>
        /\ job.basis <= started
        /\ job.basis = started => Fitting /\ Dropping

LEMMA OrderStep ==
    ASSUME TypeInv, ConversationOrdered, [Next]_vars
    PROVE  ConversationOrdered'
PROOF
  <1> USE DEF TypeInv, ProviderTyped
  <1>0. started \in Nat /\ \A i \in DOMAIN conversation : conversation[i] \in Nat
    BY CheckpointAssumption
  <1>1. CASE StartTurn
    <2>1. started' = started + 1 /\ conversation' = Append(conversation, started')
      BY <1>1 DEF StartTurn
    <2>2. Len(conversation) \in Nat /\ DOMAIN conversation = 1..Len(conversation)
      OBVIOUS
    <2>3. DOMAIN conversation' = 1..(Len(conversation) + 1)
      BY <2>1
    <2>4. \A i \in DOMAIN conversation : conversation'[i] = conversation[i]
      BY <2>1
    <2>5. conversation'[Len(conversation) + 1] = started + 1
      BY <2>1
    <2> QED
      BY <1>0, <2>1, <2>2, <2>3, <2>4, <2>5 DEF ConversationOrdered
  <1>2. CASE RollBack
    <2>1. LastOf(Len(conversation), job.drop) \in 0..Len(conversation)
      BY <1>2 DEF RollBack, RevertStep, WorkersTyped, JobTyped, Resting, Jobs, LastOf
    <2>2. PICK n \in 0..Len(conversation) : conversation' = SubSeq(conversation, 1, n)
      BY <1>2, <2>1 DEF RollBack
    <2>3. DOMAIN conversation' = 1..n /\ \A i \in 1..n : conversation'[i] = conversation[i]
      BY <2>2
    <2>4. 1..n \subseteq DOMAIN conversation /\ UNCHANGED started
      BY <1>2, <2>2 DEF RollBack, RevertStep
    <2> QED
      BY <2>3, <2>4 DEF ConversationOrdered
  <1>3. CASE ~StartTurn /\ ~RollBack
    <2>1. UNCHANGED <<started, conversation>>
      BY <1>3
      DEF Next, Ingestion, Reactor, RequestTurn, RequestRevert, UpdateDiff, CompleteTurn, Emit,
          IngestStarted, IngestCompleted, IngestDiff, Ingest, DispatchPlaceholder, TakeStarted,
          TakeTurnStart, TakePlaceholder, TakeCompleted, TakeRevert, TakeRuntime, TakeDomain,
          Capture, CaptureFails, DispatchCapture, Restore, DeleteRefs, CompleteRevert,
          RevertFails, RevertStep, vars, provider
    <2> QED
      BY <2>1 DEF ConversationOrdered
  <1> QED
    BY <1>1, <1>2, <1>3

(* No turn occurs twice in the conversation, so the checkpoint of one is   *)
(* the one of its position.                                                *)
LEMMA AlignedIsFitting ==
    ASSUME TypeInv, ConversationOrdered, Aligned
    PROVE  Fitting /\ MaxCount = Len(conversation)
PROOF
  <1>1. \A c \in checkpoints : c.count \in DOMAIN conversation /\ c.turn = conversation[c.count]
    BY DEF Aligned
  <1>2. /\ Len(conversation) \in Nat /\ DOMAIN conversation = 1..Len(conversation)
        /\ \A i \in DOMAIN conversation : conversation[i] \in Nat
    BY CheckpointAssumption DEF TypeInv, ProviderTyped
  <1>3. \A i, j \in DOMAIN conversation : conversation[i] = conversation[j] => i = j
    BY <1>2 DEF ConversationOrdered
  <1>4. \A i \in DOMAIN conversation :
            \/ conversation[i] \in dropped
            \/ \E c \in checkpoints : c.turn = conversation[i] /\ c.count = i
    BY <1>1, <1>3 DEF Aligned, TurnsOf
  <1>5. MaxCount = Len(conversation) /\ (MaxCount = 0 \/ \E c \in checkpoints : c.count = MaxCount)
    BY MaxCountIsLargest DEF TypeInv, Aligned
  <1>6. Reaching
    <2> SUFFICES ASSUME conversation # <<>>
                 PROVE  \E c \in checkpoints : c.count >= Len(conversation)
      BY DEF Reaching
    <2>1. Len(conversation) # 0
      BY DEF TypeInv, ProviderTyped
    <2> QED
      BY <1>2, <1>5, <2>1
  <1> QED
    BY <1>1, <1>4, <1>5, <1>6 DEF Fitting, Positioned, Aligned

(* A revert is taken.                                                      *)
LEMMA RevertBegins ==
    ASSUME TypeInv, ConversationOrdered, StaleInv, AlignInv, TakeRevert
    PROVE  StaleInv' /\ AlignInv'
PROOF
  <1> DEFINE event == Head(domain)
  <1>1. /\ TakeDomain("revert") /\ job = Resting
        /\ UNCHANGED <<started, conversation, ingest, refs, checkpoints, dropped>>
    BY DEF TakeRevert, TakeDomain, provider, model, history
  <1>2. CASE UNCHANGED job
    BY <1>1, <1>2 DEF StaleInv, AlignInv, Reverting, Resting
  <1>3. CASE /\ event.count <= MaxCount
             /\ job' = [event |-> event, at |-> "restore",
                        stale |-> StaleRefs(event.count),
                        drop |-> MaxCount - event.count,
                        basis |-> IF Aligned THEN started ELSE Absent]
    <2>1. /\ job'.at = "restore" /\ job'.event = event /\ job'.stale = StaleRefs(event.count)
          /\ job'.drop = MaxCount - event.count
          /\ job'.basis = IF Aligned THEN started ELSE Absent
      BY <1>3
    <2>2. started \in Nat /\ MaxCount \in Nat /\ event.count \in Nat
      BY <1>1, DomainTaken, MaxCountIsLargest, CheckpointAssumption
      DEF TypeInv, ProviderTyped, DomainEvents, Placeholders, Requests
    <2>3. StaleInv'
      BY <1>1, <2>1 DEF StaleInv, StaleRefs, Beyond
    <2>4. job'.basis <= started'
      BY <1>1, <2>1, <2>2 DEF Absent
    <2>5. ASSUME job'.basis = started'
          PROVE  Fitting' /\ Dropping'
      <3>1. Aligned
        BY <1>1, <2>1, <2>2, <2>5 DEF Absent
      <3>2. Fitting /\ MaxCount = Len(conversation)
        BY <3>1, AlignedIsFitting
      <3>3. Fitting'
        BY <1>1, <3>2 DEF Fitting, Positioned, Outside, Remembered, Reaching
      <3>4. Dropping'
        BY <1>1, <2>1, <2>2, <3>2 DEF Dropping
      <3> QED
        BY <3>3, <3>4
    <2> QED
      BY <2>3, <2>4, <2>5 DEF AlignInv
  <1> QED
    BY <1>2, <1>3 DEF TakeRevert

(* Outside the revert nothing moves but the placeholder.                   *)
LEMMA FitUnmoved ==
    ASSUME StaleInv, AlignInv,
           UNCHANGED <<job, started, conversation, ingest, refs, checkpoints, dropped>>
    PROVE  StaleInv' /\ AlignInv'
BY DEF StaleInv, AlignInv, Reverting, Beyond, Fitting, Dropping, Positioned, Outside, Remembered,
       Reaching

(* A turn begins: the counts were decided without it.                      *)
LEMMA FitAfterStart ==
    ASSUME TypeInv, StaleInv, AlignInv, StartTurn
    PROVE  StaleInv' /\ AlignInv'
PROOF
  <1>1. started \in Nat /\ started' = started + 1 /\ UNCHANGED <<job, refs, checkpoints>>
    BY CheckpointAssumption DEF StartTurn, Emit, model, TypeInv, ProviderTyped
  <1>2. StaleInv'
    BY <1>1 DEF StaleInv, Beyond
  <1>3. CASE Reverting
    <2>1. job.basis \in {Absent} \cup Nat /\ job.basis <= started
      BY <1>3 DEF AlignInv, Reverting, TypeInv, WorkersTyped, JobTyped, Jobs, Resting
    <2>2. job.basis <= started + 1 /\ job.basis # started + 1
      BY <1>1, <2>1 DEF Absent
    <2> QED
      BY <1>1, <1>2, <2>2 DEF AlignInv
  <1>4. CASE ~Reverting
    BY <1>1, <1>2, <1>4 DEF AlignInv, Reverting
  <1> QED
    BY <1>3, <1>4

(* A placeholder is decided on: for a turn the provider forgot or the limit*)
(* took the checkpoint of, or there is a checkpoint already.               *)
LEMMA FitAfterDiff ==
    ASSUME TypeInv, StaleInv, AlignInv, IngestDiff
    PROVE  StaleInv' /\ AlignInv'
PROOF
  <1> DEFINE turn == Head(ingestion).turn
  <1>1. UNCHANGED <<job, started, conversation, refs, checkpoints, dropped>>
    BY DEF IngestDiff, Ingest, provider, history
  <1>2. StaleInv'
    BY <1>1 DEF StaleInv, Beyond
  <1>3. ASSUME Fitting
        PROVE  Fitting'
    <2>1. Len(conversation) \in Nat /\ DOMAIN conversation = 1..Len(conversation)
      BY DEF TypeInv, ProviderTyped
    <2>2. CASE Of(turn) # {}
      BY <1>1, <1>3, <2>2 DEF IngestDiff, Fitting, Positioned, Outside, Remembered, Reaching
    <2>3. CASE Of(turn) = {}
      <3>1. ingest' = Event("placeholder", turn, MaxCount + 1, "missing")
        BY <2>3 DEF IngestDiff
      <3>2. turn \in Remembered => turn \in dropped
        BY <1>3, <2>3 DEF Fitting, Of, Remembered
      <3>3. MaxCount \in Nat /\ \A c \in checkpoints : c.count <= MaxCount
        BY MaxCountIsLargest DEF TypeInv
      <3>4. Len(conversation) <= MaxCount
        <4>1. CASE Len(conversation) = 0
          BY <3>3, <4>1
        <4>2. CASE Len(conversation) # 0
          <5>1. PICK c \in checkpoints : c.count >= Len(conversation)
            BY <1>3, <4>2 DEF Fitting, Reaching
          <5>2. c.count \in Nat
            BY DEF TypeInv, ModelTyped, CheckpointSet
          <5> QED
            BY <2>1, <3>3, <5>1, <5>2
        <4> QED
          BY <4>1, <4>2
      <3>5. ingest'.turn = turn /\ ingest'.count > Len(conversation)
        BY <2>1, <3>1, <3>3, <3>4 DEF Event
      <3> QED
        BY <1>1, <1>3, <3>2, <3>5 DEF Fitting, Positioned, Outside, Remembered, Reaching
    <2> QED
      BY <2>2, <2>3
  <1> QED
    BY <1>1, <1>2, <1>3 DEF AlignInv, Reverting, Dropping

(* A placeholder arrives, beyond the conversation and without a ref; the   *)
(* limit may take the checkpoint of the smallest count.                    *)
LEMMA FitAfterPlaceholder ==
    ASSUME TypeInv, StaleInv, AlignInv, DispatchPlaceholder
    PROVE  StaleInv' /\ AlignInv'
PROOF
  <1> DEFINE c == Checkpoint(ingest.turn, ingest.count, "missing", FALSE)
  <1>1. /\ UNCHANGED <<job, started, conversation, refs>>
        /\ ingest # NoJob /\ ingest' = NoJob
    BY DEF DispatchPlaceholder, provider
  <1>2. c \in CheckpointSet /\ CompleteTurnDiff(c)
    BY DEF TypeInv, WorkersTyped, DispatchPlaceholder, Placeholders, Checkpoint, CheckpointSet,
           Statuses
  <1>3. c.turn = ingest.turn /\ c.count = ingest.count /\ ~c.captured
    BY DEF Checkpoint
  <1> HIDE DEF c
  <1>6. \/ UNCHANGED <<checkpoints, dropped>>
        \/ /\ checkpoints' \subseteq Updated(c) /\ checkpoints' # {}
           /\ dropped' = dropped \cup TurnsOf(Updated(c) \ checkpoints')
           /\ \A k \in checkpoints', d \in Updated(c) \ checkpoints' : d.count <= k.count
    BY <1>2, DiffUpdates DEF TypeInv
  <1>4. StaleInv'
    <2>1. \A d \in checkpoints' : d \in checkpoints \/ ~d.captured
      BY <1>3, <1>6 DEF Updated
    <2> QED
      BY <1>1, <2>1 DEF StaleInv, Beyond
  <1>5. ASSUME Fitting
        PROVE  Fitting'
    <2>1. Outside(c)
      BY <1>1, <1>3, <1>5 DEF Fitting, Outside
    <2>2. dropped \subseteq dropped'
      BY <1>6
    <2>3. \A d : Outside(d) => Outside(d)'
      BY <1>1, <2>2 DEF Outside, Remembered
    <2>4. \A d \in checkpoints' : Positioned(d)' \/ Outside(d)'
      BY <1>1, <1>5, <1>6, <2>1, <2>3 DEF Fitting, Updated, Positioned
    <2>5. ASSUME NEW i \in DOMAIN conversation
          PROVE  \/ conversation[i] \in dropped'
                 \/ \E d \in checkpoints' : d.turn = conversation[i] /\ d.count = i
      <3>1. CASE conversation[i] \in dropped
        BY <2>2, <3>1
      <3>2. CASE conversation[i] \notin dropped
        <4>1. PICK d \in checkpoints : d.turn = conversation[i] /\ d.count = i
          BY <1>5, <3>2 DEF Fitting
        <4>2. d.turn # c.turn
          BY <2>1, <3>2, <4>1 DEF Outside, Remembered
        <4>3. d \in checkpoints' \/ d.turn \in dropped'
          BY <1>6, <4>2 DEF Updated, Of, TurnsOf
        <4> QED
          BY <4>1, <4>3
      <3> QED
        BY <3>1, <3>2
    <2>6. Reaching'
      <3> SUFFICES ASSUME conversation # <<>>, checkpoints' # checkpoints
                   PROVE  \E d \in checkpoints' : d.count >= Len(conversation)
        BY <1>1, <1>5 DEF Fitting, Reaching
      <3>1. PICK d \in Updated(c) : d.count >= Len(conversation)
        BY <2>1, <1>2 DEF Outside, Updated, TypeInv, ProviderTyped, CheckpointSet
      <3>2. CASE d \in checkpoints'
        BY <3>1, <3>2
      <3>3. CASE d \notin checkpoints'
        <4>1. PICK k \in checkpoints' : d.count <= k.count
          BY <1>6, <3>3
        <4>2. d.count \in Nat /\ k.count \in Nat /\ Len(conversation) \in Nat
          BY <1>2, <1>6, <4>1 DEF Updated, TypeInv, ModelTyped, ProviderTyped, CheckpointSet
        <4> QED
          BY <3>1, <4>1, <4>2
      <3> QED
        BY <3>2, <3>3
    <2> QED
      BY <1>1, <2>4, <2>5, <2>6 DEF Fitting
  <1> QED
    BY <1>1, <1>4, <1>5 DEF AlignInv, Reverting, Dropping

(* The conversation is cut at the target.                                  *)
LEMMA FitAfterRollBack ==
    ASSUME TypeInv, ConversationOrdered, StaleInv, AlignInv, RollBack
    PROVE  StaleInv' /\ AlignInv'
PROOF
  <1> DEFINE n == job.event.count
  <1>1. /\ job.at = "rollback"
        /\ conversation' = SubSeq(conversation, 1, LastOf(Len(conversation), job.drop))
        /\ job' = [job EXCEPT !.at = "delete"]
        /\ UNCHANGED <<started, ingest, refs, checkpoints, dropped>>
    BY DEF RollBack, RevertStep
  <1>2. /\ job'.at = "delete" /\ job'.event = job.event /\ job'.stale = job.stale
        /\ job'.basis = job.basis
    BY <1>1, JobMoves DEF TypeInv, WorkersTyped
  <1>3. n \in Nat /\ job.drop \in Nat
    BY <1>1 DEF TypeInv, WorkersTyped, JobTyped, Jobs, Resting, Requests
  <1>4. StaleInv'
    BY <1>1, <1>2 DEF StaleInv, Beyond
  <1>5. ASSUME Fitting, Dropping
        PROVE  Fitting' /\ Dropping'
    <2>1. /\ Len(conversation) = n + job.drop
          /\ DOMAIN conversation = 1..Len(conversation)
      BY <1>1, <1>5 DEF Dropping, TypeInv, ProviderTyped
    <2>2. LastOf(Len(conversation), job.drop) = n /\ n \in 0..Len(conversation)
      BY <1>3, <2>1 DEF LastOf
    <2>3. /\ Len(conversation') = n /\ DOMAIN conversation' = 1..n
          /\ \A i \in 1..n : conversation'[i] = conversation[i]
      BY <1>1, <2>2 DEF TypeInv, ProviderTyped
    <2>4. 1..n \subseteq DOMAIN conversation
      BY <1>3, <2>1
    <2>5. Remembered' = {conversation[i] : i \in 1..n}
      BY <2>3 DEF Remembered
    <2>6. ASSUME NEW c, Outside(c), c.count \in Nat
          PROVE  Outside(c)'
      <3>1. c.turn \in Remembered' => c.turn \in dropped'
        BY <1>1, <2>4, <2>5, <2>6 DEF Outside, Remembered
      <3>2. c.count > Len(conversation')
        BY <1>3, <2>1, <2>3, <2>6 DEF Outside
      <3> QED
        BY <3>1, <3>2 DEF Outside
    <2>7. ASSUME NEW c \in checkpoints, Positioned(c)
          PROVE  Positioned(c)' \/ Outside(c)'
      <3>1. PICK i \in DOMAIN conversation : c.turn = conversation[i] /\ c.count = i
        BY <2>7 DEF Positioned
      <3>2. CASE i \in 1..n
        BY <2>3, <3>1, <3>2 DEF Positioned
      <3>3. CASE i \notin 1..n
        <4>1. i \in Nat /\ i > n
          BY <1>3, <2>1, <3>1, <3>3
        <4>2. \A j \in 1..n : conversation[j] < conversation[i]
          BY <1>3, <2>4, <4>1 DEF ConversationOrdered
        <4>3. \A j \in 1..n : conversation[j] # conversation[i]
          <5>1. \A j \in DOMAIN conversation : conversation[j] \in Nat
            BY CheckpointAssumption DEF TypeInv, ProviderTyped
          <5> QED
            BY <2>4, <4>2, <5>1
        <4> QED
          BY <2>3, <2>5, <3>1, <4>1, <4>3 DEF Outside
      <3> QED
        BY <3>2, <3>3
    <2>8. \A c \in checkpoints : c.count \in Nat
      BY DEF TypeInv, ModelTyped, CheckpointSet
    <2>9. \A c \in checkpoints' : Positioned(c)' \/ Outside(c)'
      BY <1>1, <1>5, <2>6, <2>7, <2>8 DEF Fitting
    <2>10. \A i \in DOMAIN conversation' :
                \/ conversation'[i] \in dropped'
                \/ \E c \in checkpoints' : c.turn = conversation'[i] /\ c.count = i
      <3> SUFFICES ASSUME NEW i \in 1..n
                   PROVE  \/ conversation'[i] \in dropped'
                          \/ \E c \in checkpoints' : c.turn = conversation'[i] /\ c.count = i
        BY <2>3
      <3>1. i \in DOMAIN conversation /\ conversation'[i] = conversation[i]
        BY <2>3, <2>4
      <3>2. \/ conversation[i] \in dropped
            \/ \E c \in checkpoints : c.turn = conversation[i] /\ c.count = i
        BY <1>5, <3>1 DEF Fitting
      <3>3. dropped' = dropped /\ checkpoints' = checkpoints
        BY <1>1
      <3> QED
        BY <3>1, <3>2, <3>3
    <2>13. Reaching'
      <3> SUFFICES ASSUME n # 0 PROVE \E c \in checkpoints : c.count >= n
        <4>1. conversation' # <<>> => n # 0
          BY <1>1, <2>2, <2>3 DEF TypeInv, ProviderTyped
        <4>2. checkpoints' = checkpoints /\ Len(conversation') = n
          BY <1>1, <2>3
        <4> QED
          BY <4>1, <4>2 DEF Reaching
      <3>1. Len(conversation) # 0 /\ Len(conversation) >= n
        BY <1>3, <2>1
      <3>2. PICK c \in checkpoints : c.count >= Len(conversation)
        BY <1>5, <3>1 DEF Fitting, Reaching
      <3> QED
        BY <1>3, <2>1, <2>8, <3>1, <3>2
    <2>11. ingest' # NoJob => Outside(ingest)'
      <3>1. ingest # NoJob => ingest.count \in Nat
        BY DEF TypeInv, WorkersTyped, Placeholders
      <3>2. ingest # NoJob => Outside(ingest)'
        <4> SUFFICES ASSUME ingest # NoJob PROVE Outside(ingest)'
          OBVIOUS
        <4>1. ingest.turn \in Remembered' => ingest.turn \in dropped'
          BY <1>1, <1>5, <2>4, <2>5 DEF Fitting, Outside, Remembered
        <4>2. ingest.count > Len(conversation')
          BY <1>3, <1>5, <2>1, <2>3, <3>1 DEF Fitting, Outside
        <4> QED
          BY <1>1, <4>1, <4>2 DEF Outside
      <3> QED
        BY <1>1, <3>2
    <2>12. Dropping'
      BY <1>2, <1>3, <2>3 DEF Dropping
    <2> QED
      BY <2>9, <2>10, <2>11, <2>12, <2>13 DEF Fitting
  <1> QED
    BY <1>1, <1>2, <1>4, <1>5 DEF AlignInv, Reverting

(* The other steps of a revert.                                            *)
LEMMA FitWhileReverting ==
    ASSUME TypeInv, StaleInv, AlignInv, Restore \/ DeleteRefs
    PROVE  StaleInv' /\ AlignInv'
PROOF
  <1>1. UNCHANGED <<started, conversation, ingest, checkpoints, dropped>>
    BY DEF Restore, DeleteRefs, RevertStep
  <1>2. Fitting => Fitting'
    BY <1>1 DEF Fitting, Positioned, Outside, Remembered, Reaching
  <1>3. CASE Restore
    <2>1. job.at = "restore" /\ UNCHANGED refs
      BY <1>3 DEF Restore, RevertStep
    <2>2. CASE job' = Resting
      BY <2>2 DEF StaleInv, AlignInv, Reverting, Resting
    <2>3. CASE job' = [job EXCEPT !.at = "rollback"]
      <3>1. /\ job'.at = "rollback" /\ job'.event = job.event /\ job'.stale = job.stale
            /\ job'.basis = job.basis /\ job'.drop = job.drop
        BY <2>1, <2>3, JobMoves DEF TypeInv, WorkersTyped
      <3> QED
        BY <1>1, <1>2, <2>1, <3>1 DEF StaleInv, Beyond, AlignInv, Reverting, Dropping
    <2> QED
      BY <1>3, <2>2, <2>3 DEF Restore
  <1>4. CASE DeleteRefs
    <2>1. /\ job.at = "delete" /\ refs' = refs \ job.stale
          /\ job' = [job EXCEPT !.at = "complete"]
      BY <1>4 DEF DeleteRefs, RevertStep
    <2>2. job'.at = "complete" /\ job'.event = job.event /\ job'.basis = job.basis
      BY <2>1, JobMoves DEF TypeInv, WorkersTyped
    <2> QED
      BY <1>1, <1>2, <2>1, <2>2 DEF StaleInv, Beyond, AlignInv, Reverting, Dropping
  <1> QED
    BY <1>3, <1>4

LEMMA FitStep ==
    ASSUME TypeInv, ConversationOrdered, StaleInv, AlignInv, [Next]_vars
    PROVE  StaleInv' /\ AlignInv'
PROOF
  <1>1. CASE \/ RequestTurn \/ RequestRevert \/ UpdateDiff \/ CompleteTurn \/ IngestStarted
             \/ IngestCompleted \/ UNCHANGED vars
    <2>1. UNCHANGED <<job, started, conversation, ingest, refs, checkpoints, dropped>>
      BY <1>1
      DEF RequestTurn, RequestRevert, UpdateDiff, CompleteTurn, Emit, IngestStarted,
          IngestCompleted, Ingest, vars, provider, workers, model, history
    <2> QED
      BY <2>1, FitUnmoved
  <1>2. ASSUME job'.at \in {"idle", "capture", "dispatch"}
        PROVE  StaleInv' /\ AlignInv'
    BY <1>2 DEF StaleInv, AlignInv, Reverting
  <1>3. CASE \/ TakeStarted \/ TakeTurnStart \/ TakePlaceholder \/ TakeCompleted
             \/ CaptureFails \/ DispatchCapture \/ CompleteRevert \/ RevertFails
    <2>1. CASE TakeStarted \/ TakeTurnStart \/ TakePlaceholder \/ TakeCompleted
      <3>1. job = Resting
        BY <2>1
        DEF TakeStarted, TakeTurnStart, TakePlaceholder, TakeCompleted, TakeRuntime, TakeDomain
      <3>2. UNCHANGED job \/ job'.at = "capture"
        BY <2>1, CompletedIsCaptured
        DEF TakeStarted, TakeTurnStart, TakePlaceholder, Baseline, Begin, Resting
      <3> QED
        BY <1>2, <3>1, <3>2 DEF Resting
    <2>2. CASE CaptureFails \/ DispatchCapture \/ CompleteRevert \/ RevertFails
      <3>1. job' = Resting
        BY <2>2 DEF CaptureFails, DispatchCapture, CompleteRevert, RevertFails
      <3> QED
        BY <1>2, <3>1 DEF Resting
    <2> QED
      BY <1>3, <2>1, <2>2
  <1>4. CASE Capture
    <2>1. job' = Resting \/ job'.at = "dispatch"
      BY <1>4, JobMoves DEF Capture, TypeInv, WorkersTyped
    <2> QED
      BY <1>2, <2>1 DEF Resting
  <1> QED
    BY <1>1, <1>3, <1>4, FitAfterStart, FitAfterDiff, FitAfterPlaceholder, FitAfterRollBack,
       RevertBegins, FitWhileReverting
    DEF Next, Ingestion, Reactor

(* A revert takes from the provider just the turns whose checkpoints it    *)
(* removes, when the counts fitted the conversation and no turn began      *)
(* meanwhile, but for a late checkpoint of a turn the limit took one of;   *)
(* and no ref of a removed checkpoint outlives it.                         *)
THEOREM RevertsComplete == Spec => RevertsAreComplete
PROOF
  <1> DEFINE Inv == TypeInv /\ ConversationOrdered /\ StaleInv /\ AlignInv
             Complete ==
                CompleteRevert =>
                    /\ \A c \in checkpoints \ checkpoints' : c.captured => c.count \notin refs
                    /\ job.basis = started =>
                        /\ TurnsOf(checkpoints') \subseteq Remembered
                        /\ TurnsOf(checkpoints \ checkpoints') \cap Remembered \subseteq dropped
  <1>1. Init => Inv
    BY TypesStart DEF Init, ConversationOrdered, StaleInv, AlignInv, Reverting, Resting
  <1>2. Inv /\ [Next]_vars => Inv'
    BY TypesStep, OrderStep, FitStep
  <1>3. Inv => Complete
    <2> SUFFICES ASSUME Inv, CompleteRevert PROVE Complete
      OBVIOUS
    <2> DEFINE n == job.event.count
    <2>1. job.at = "complete" /\ checkpoints' = {c \in checkpoints : c.count <= n}
      BY RevertUpdates DEF TypeInv, CompleteRevert, RevertStep
    <2>2. n \in Nat /\ \A c \in checkpoints : c.count \in Nat
      BY <2>1 DEF TypeInv, WorkersTyped, JobTyped, Resting, Requests, ModelTyped, CheckpointSet
    <2>3. \A c \in checkpoints \ checkpoints' : c.count > n
      BY <2>1, <2>2
    <2>4. \A c \in checkpoints \ checkpoints' : c.captured => c.count \notin refs
      BY <2>1, <2>3 DEF StaleInv, Beyond
    <2>5. ASSUME job.basis = started
          PROVE  /\ TurnsOf(checkpoints') \subseteq Remembered
                 /\ TurnsOf(checkpoints \ checkpoints') \cap Remembered \subseteq dropped
      <3>1. Fitting /\ Dropping
        BY <2>1, <2>5 DEF AlignInv, Reverting
      <3>2. Len(conversation) = n /\ DOMAIN conversation = 1..n
        BY <2>1, <2>2, <3>1 DEF Dropping, TypeInv, ProviderTyped
      <3>3. \A c \in checkpoints' : c.turn \in Remembered
        BY <2>1, <2>2, <3>1, <3>2 DEF Fitting, Positioned, Outside, Remembered
      <3>4. \A c \in checkpoints \ checkpoints' : c.turn \in Remembered => c.turn \in dropped
        BY <2>2, <2>3, <3>1, <3>2 DEF Fitting, Positioned, Outside
      <3> QED
        BY <3>3, <3>4 DEF TurnsOf
    <2> QED
      BY <2>4, <2>5
  <1> QED
    BY <1>1, <1>2, <1>3, PTL DEF Spec, RevertsAreComplete
-----------------------------------------------------------------------------
(* Why every turn is captured.  A placeholder is on the reactor's queue, in*)
(* its hands, or its capture failed; and a turn of the conversation that   *)
(* has no checkpoint has its completion there.                             *)
Has(queue, type, turn) == \E i \in DOMAIN queue : queue[i].type = type /\ queue[i].turn = turn
Capturing(turn) == job.at \in {"capture", "dispatch"} /\ job.event.turn = turn

Pending(turn) ==
    \/ turn \in failed
    \/ Has(domain, "placeholder", turn)
    \/ Capturing(turn) /\ job.event.type = "placeholder" /\ job.event.status = "ready"

Settling ==
    \A c \in checkpoints : IF c.status = "missing" THEN Pending(c.turn) ELSE c.captured

Underway(turn) ==
    \/ turn \in failed \cup overtaken \cup dropped \cup {current}
    \/ Has(runtime, "completed", turn) \/ Capturing(turn) \/ Of(turn) # {}

Capturable == ~misaligned => \A turn \in Remembered : Underway(turn)

LEMMA HasTail ==
    ASSUME NEW S, NEW q \in Seq(S), q # <<>>, NEW type, NEW turn, Has(q, type, turn)
    PROVE  Has(Tail(q), type, turn) \/ (Head(q).type = type /\ Head(q).turn = turn)
PROOF
  <1>1. PICK i \in 1..Len(q) : q[i].type = type /\ q[i].turn = turn
    BY DEF Has
  <1>2. CASE i = 1
    BY <1>1, <1>2
  <1>3. CASE i # 1
    <2>1. i - 1 \in DOMAIN Tail(q) /\ Tail(q)[i - 1] = q[i]
      BY <1>3
    <2> QED
      BY <1>1, <2>1 DEF Has
  <1> QED
    BY <1>2, <1>3

LEMMA HasAppend ==
    ASSUME NEW S, NEW q \in Seq(S), NEW e
    PROVE  /\ \A type, turn : Has(q, type, turn) => Has(Append(q, e), type, turn)
           /\ Has(Append(q, e), e.type, e.turn)
PROOF
  <1>1. /\ DOMAIN q \subseteq DOMAIN Append(q, e)
        /\ \A i \in DOMAIN q : Append(q, e)[i] = q[i]
    OBVIOUS
  <1>2. Len(q) + 1 \in DOMAIN Append(q, e) /\ Append(q, e)[Len(q) + 1] = e
    OBVIOUS
  <1> QED
    BY <1>1, <1>2 DEF Has

(* A queue that only grows.                                                *)
Grows(queue) == queue' = queue \/ \E e : queue' = Append(queue, e)

LEMMA HasGrows ==
    ASSUME TypeInv, Grows(domain)
    PROVE  \A type, turn : Has(domain, type, turn) => Has(domain', type, turn)
BY HasAppend DEF Grows, TypeInv, WorkersTyped

LEMMA HasRuntimeGrows ==
    ASSUME TypeInv, Grows(runtime)
    PROVE  \A type, turn : Has(runtime, type, turn) => Has(runtime', type, turn)
BY HasAppend DEF Grows, TypeInv, WorkersTyped

LEMMA SettlingDiff ==
    ASSUME TypeInv, Settling, NEW c \in CheckpointSet, c.status # "missing" => c.captured,
           CompleteTurnDiff(c),
           \A turn : Pending(turn) => Pending(turn)' \/ (c.turn = turn /\ c.status = "ready")
    PROVE  Settling'
PROOF
  <1>1. \A d \in checkpoints' :
            d = c \/ (d \in checkpoints /\ (c.status = "ready" => d.turn # c.turn))
    BY DiffUpdates DEF TypeInv, Updated, Of
  <1>2. ASSUME c.status = "missing"
        PROVE  Pending(c.turn)'
    <2> DEFINE e == Event("placeholder", c.turn, c.count, c.status)
    <2>1. domain' = Append(domain, e) /\ e.type = "placeholder" /\ e.turn = c.turn
      BY <1>2 DEF CompleteTurnDiff, Event
    <2> HIDE DEF e
    <2>2. domain \in Seq(DomainEvents)
      BY DEF TypeInv, WorkersTyped
    <2>3. Has(domain', "placeholder", c.turn)
      BY <2>1, <2>2, HasAppend
    <2> QED
      BY <2>3 DEF Pending
  <1>3. ASSUME NEW d \in checkpoints'
        PROVE  IF d.status = "missing" THEN Pending(d.turn)' ELSE d.captured
    BY <1>1, <1>2 DEF Settling
  <1> QED
    BY <1>3 DEF Settling

(* Taking a domain event that is no placeholder loses none.                *)
LEMMA OtherTakenKeepsPlaceholders ==
    ASSUME TypeInv, NEW type, type # "placeholder", TakeDomain(type)
    PROVE  \A turn : Has(domain, "placeholder", turn) => Has(domain', "placeholder", turn)
PROOF
  <1>1. domain \in Seq(DomainEvents) /\ domain # <<>> /\ domain' = Tail(domain)
    BY DEF TypeInv, WorkersTyped, TakeDomain
  <1>2. Head(domain).type # "placeholder"
    BY DEF TakeDomain
  <1> QED
    BY <1>1, <1>2, HasTail

LEMMA SettlingTaken ==
    ASSUME TypeInv, Settling, TakePlaceholder
    PROVE  Settling'
PROOF
  <1> DEFINE event == Head(domain)
  <1>1. /\ TakeDomain("placeholder") /\ job = Resting /\ UNCHANGED <<checkpoints, failed>>
        /\ domain # <<>> /\ domain' = Tail(domain) /\ event.type = "placeholder"
    BY DEF TakePlaceholder, TakeDomain, model, history
  <1>2. domain \in Seq(DomainEvents) /\ event \in Placeholders
    BY <1>1, DomainTaken DEF TypeInv, WorkersTyped, DomainEvents, Placeholders, Requests
  <1>3. PICK taken : taken = event.turn
    OBVIOUS
  <1>4. \A turn : Pending(turn) => Pending(turn)' \/ turn = taken
    BY <1>1, <1>2, <1>3, HasTail DEF Pending, Capturing, Resting
  <1>5. CASE Real(event.turn) # {}
    <2>1. \A c \in checkpoints : c.turn = taken => c.status # "missing"
      BY <1>3, <1>5 DEF Real, Of, TypeInv, ModelTyped
    <2> QED
      BY <1>1, <1>4, <2>1 DEF Settling
  <1>6. CASE Real(event.turn) = {}
    <2>1. Begin([event EXCEPT !.status = "ready"], "capture")
      BY <1>6 DEF TakePlaceholder
    <2>2. [event EXCEPT !.status = "ready"] =
            [type |-> "placeholder", turn |-> event.turn, count |-> event.count,
             status |-> "ready"]
      BY <1>1, <1>2 DEF Placeholders
    <2>3. /\ job'.at = "capture" /\ job'.event.turn = event.turn
          /\ job'.event.type = "placeholder" /\ job'.event.status = "ready"
      BY <2>1, <2>2 DEF Begin, Resting
    <2>4. Pending(taken)'
      BY <1>3, <2>3 DEF Pending, Capturing
    <2> QED
      BY <1>1, <1>4, <2>4 DEF Settling
  <1> QED
    BY <1>5, <1>6

LEMMA SettlingStep ==
    ASSUME TypeInv, Settling, [Next]_vars
    PROVE  Settling'
PROOF
  <1>1. ASSUME \A c \in checkpoints' : c \in checkpoints,
               \A turn : Pending(turn) => Pending(turn)'
        PROVE  Settling'
    BY <1>1 DEF Settling
  <1>2. CASE \/ RequestTurn \/ RequestRevert \/ StartTurn \/ UpdateDiff \/ CompleteTurn
             \/ IngestStarted \/ IngestCompleted \/ IngestDiff \/ UNCHANGED vars
    <2>1. UNCHANGED <<checkpoints, job, failed>> /\ Grows(domain)
      BY <1>2
      DEF RequestTurn, RequestRevert, StartTurn, UpdateDiff, CompleteTurn, Emit, IngestStarted,
          IngestCompleted, IngestDiff, Ingest, vars, workers, model, history, Grows
    <2> QED
      BY <1>1, <2>1, HasGrows DEF Pending, Capturing
  <1>3. CASE DispatchPlaceholder
    <2> DEFINE c == Checkpoint(ingest.turn, ingest.count, "missing", FALSE)
    <2>1. /\ c \in CheckpointSet /\ CompleteTurnDiff(c) /\ c.status = "missing"
          /\ UNCHANGED <<job, failed>>
      BY <1>3
      DEF TypeInv, WorkersTyped, DispatchPlaceholder, Placeholders, Checkpoint, CheckpointSet,
          Statuses
    <2>2. Grows(domain)
      BY <2>1 DEF CompleteTurnDiff, Grows
    <2>3. \A turn : Pending(turn) => Pending(turn)'
      BY <2>1, <2>2, HasGrows DEF Pending, Capturing
    <2> HIDE DEF c
    <2> QED
      BY <2>1, <2>3, SettlingDiff
  <1>4. CASE TakeStarted \/ TakeCompleted
    <2>1. job = Resting /\ UNCHANGED <<domain, checkpoints, failed>>
      BY <1>4 DEF TakeStarted, TakeCompleted, TakeRuntime, model
    <2> QED
      BY <1>1, <2>1 DEF Pending, Capturing, Resting
  <1>5. CASE TakeTurnStart \/ TakeRevert
    <2>1. job = Resting /\ UNCHANGED <<checkpoints, failed>>
      BY <1>5 DEF TakeTurnStart, TakeRevert, TakeDomain, model, history
    <2>2. \A turn : Has(domain, "placeholder", turn) => Has(domain', "placeholder", turn)
      BY <1>5, OtherTakenKeepsPlaceholders DEF TakeTurnStart, TakeRevert
    <2> QED
      BY <1>1, <2>1, <2>2 DEF Pending, Capturing, Resting
  <1>6. CASE Capture
    <2>1. job.at = "capture" /\ UNCHANGED <<domain, checkpoints, failed>>
      BY <1>6 DEF Capture, model, history
    <2>2. CASE job.event.type = "baseline"
      BY <1>1, <2>1, <2>2 DEF Pending, Capturing
    <2>3. CASE job.event.type # "baseline"
      <3>1. job'.at = "dispatch" /\ job'.event = job.event
        BY <1>6, <2>1, <2>3, JobMoves DEF Capture, TypeInv, WorkersTyped
      <3> QED
        BY <1>1, <2>1, <3>1 DEF Pending, Capturing
    <2> QED
      BY <2>2, <2>3
  <1>7. CASE CaptureFails
    <2>1. /\ UNCHANGED <<domain, checkpoints>>
          /\ failed' = IF job.event.type = "baseline" THEN failed
                       ELSE failed \cup {job.event.turn}
      BY <1>7 DEF CaptureFails, model
    <2> QED
      BY <1>1, <2>1 DEF Pending, Capturing
  <1>8. CASE DispatchCapture
    <2> DEFINE event == job.event
               c == Checkpoint(event.turn, event.count, event.status, TRUE)
    <2>4. event \in Captures
      BY <1>8 DEF TypeInv, WorkersTyped, JobTyped, Resting, DispatchCapture
    <2>1. /\ c \in CheckpointSet /\ CompleteTurnDiff(c) /\ UNCHANGED failed
          /\ c.captured /\ c.turn = event.turn /\ c.status = event.status
      BY <1>8, <2>4 DEF DispatchCapture, Captures, Checkpoint, CheckpointSet, Statuses
    <2>2. Grows(domain)
      BY <2>1 DEF CompleteTurnDiff, Grows
    <2>3. \A turn : Pending(turn) => Pending(turn)' \/ (c.turn = turn /\ c.status = "ready")
      BY <2>1, <2>2, HasGrows DEF Pending, Capturing
    <2> HIDE DEF c
    <2> QED
      BY <2>1, <2>3, SettlingDiff
  <1>9. CASE Restore \/ RollBack \/ DeleteRefs \/ CompleteRevert \/ RevertFails
    <2>1. /\ job.at \in {"restore", "rollback", "delete", "complete"}
          /\ UNCHANGED <<domain, failed>>
          /\ checkpoints' \subseteq checkpoints
      BY <1>9, RevertUpdates
      DEF TypeInv, Restore, RollBack, DeleteRefs, CompleteRevert, RevertFails, RevertStep
    <2> QED
      BY <1>1, <2>1 DEF Pending, Capturing
  <1> QED
    BY <1>2, <1>3, <1>4, <1>5, <1>6, <1>7, <1>8, <1>9, SettlingTaken
    DEF Next, Ingestion, Reactor

LEMMA ElementOf ==
    ASSUME NEW S, NEW q \in Seq(S)
    PROVE  \A i \in DOMAIN q : q[i] \in S
OBVIOUS

LEMMA CapturableStep ==
    ASSUME TypeInv, AlignInv, Capturable, [Next]_vars
    PROVE  Capturable'
PROOF
  <1> SUFFICES ASSUME ~misaligned', NEW turn \in Remembered'
               PROVE  Underway(turn)'
    BY DEF Capturable
  <1>0. \A t \in Remembered : t # 0
    <2>1. \A i \in DOMAIN conversation : conversation[i] \in 1..MaxTurns
      BY ElementOf DEF TypeInv, ProviderTyped
    <2>2. 0 \notin 1..MaxTurns
      BY CheckpointAssumption
    <2> QED
      BY <2>1, <2>2 DEF Remembered
  <1>1. CASE \/ RequestTurn \/ RequestRevert \/ UpdateDiff \/ IngestStarted \/ IngestCompleted
             \/ IngestDiff \/ UNCHANGED vars
    <2>1. UNCHANGED <<misaligned, conversation, current, runtime, job, failed, overtaken,
                      dropped, checkpoints>>
      BY <1>1
      DEF RequestTurn, RequestRevert, UpdateDiff, IngestStarted, IngestCompleted, IngestDiff,
          Ingest, vars, provider, workers, model, history
    <2> QED
      BY <2>1 DEF Capturable, Remembered, Underway, Capturing, Of
  <1>2. CASE StartTurn
    <2>1. /\ current = 0 /\ current' = started' /\ conversation' = Append(conversation, started')
          /\ UNCHANGED <<misaligned, job, failed, overtaken, dropped, checkpoints>>
          /\ Grows(runtime)
      BY <1>2 DEF StartTurn, Emit, model, history, Grows
    <2>2. turn \in Remembered \/ turn = current'
      <3>1. \A i \in DOMAIN conversation' :
                conversation'[i] = current' \/ (i \in DOMAIN conversation
                                             /\ conversation'[i] = conversation[i])
        BY <2>1 DEF TypeInv, ProviderTyped
      <3> QED
        BY <3>1 DEF Remembered
    <2>3. turn \in Remembered => Underway(turn)
      BY <2>1 DEF Capturable
    <2> QED
      BY <1>0, <2>1, <2>2, <2>3, HasRuntimeGrows DEF Underway, Capturing, Of
  <1>3. CASE CompleteTurn
    <2>1. /\ UNCHANGED <<misaligned, conversation, domain, job, failed, overtaken, dropped,
                         checkpoints>>
          /\ Grows(runtime)
      BY <1>3 DEF CompleteTurn, Emit, model, history, Grows
    <2>2. Underway(turn)
      BY <2>1 DEF Capturable, Remembered
    <2>3. Has(runtime', "completed", current)
      <3>1. PICK status : runtime' = Append(runtime, Event("completed", current, 0, status))
        BY <1>3 DEF CompleteTurn, Emit
      <3>2. runtime \in Seq(RuntimeEvents)
        BY DEF TypeInv, WorkersTyped
      <3>3. /\ Event("completed", current, 0, status).type = "completed"
            /\ Event("completed", current, 0, status).turn = current
        BY DEF Event
      <3> QED
        BY <3>1, <3>2, <3>3, HasAppend
    <2> QED
      BY <2>1, <2>2, <2>3, HasRuntimeGrows DEF Underway, Capturing, Of
  <1>4. CASE DispatchPlaceholder \/ DispatchCapture
    <2>1. /\ UNCHANGED <<misaligned, conversation, current, runtime, failed, overtaken>>
          /\ \E c \in CheckpointSet :
                CompleteTurnDiff(c) /\ (UNCHANGED job \/ c.turn = job.event.turn)
      <3>1. CASE DispatchPlaceholder
        <4> DEFINE c == Checkpoint(ingest.turn, ingest.count, "missing", FALSE)
        <4>1. c \in CheckpointSet /\ CompleteTurnDiff(c) /\ UNCHANGED job
          BY <3>1
          DEF TypeInv, WorkersTyped, DispatchPlaceholder, Placeholders, Checkpoint,
              CheckpointSet, Statuses
        <4> HIDE DEF c
        <4> QED
          BY <3>1, <4>1 DEF DispatchPlaceholder, provider
      <3>2. CASE DispatchCapture
        <4> DEFINE event == job.event
                   c == Checkpoint(event.turn, event.count, event.status, TRUE)
        <4>1. event \in Captures
          BY <3>2 DEF TypeInv, WorkersTyped, JobTyped, Resting, DispatchCapture
        <4>2. c \in CheckpointSet /\ CompleteTurnDiff(c) /\ c.turn = job.event.turn
          BY <3>2, <4>1 DEF DispatchCapture, Captures, Checkpoint, CheckpointSet, Statuses
        <4> HIDE DEF c
        <4> QED
          BY <3>2, <4>2 DEF DispatchCapture, provider
      <3> QED
        BY <1>4, <3>1, <3>2
    <2>2. PICK c \in CheckpointSet :
             CompleteTurnDiff(c) /\ (UNCHANGED job \/ c.turn = job.event.turn)
      BY <2>1
    <2>6. \/ UNCHANGED <<checkpoints, dropped>> /\ Real(c.turn) # {}
          \/ /\ checkpoints' \subseteq Updated(c)
             /\ dropped' = dropped \cup TurnsOf(Updated(c) \ checkpoints')
      BY <2>2, DiffUpdates DEF TypeInv
    <2>3. Of(turn) # {} => Of(turn)' # {} \/ turn \in dropped'
      BY <2>6 DEF Updated, Of, TurnsOf
    <2>4. /\ Of(c.turn)' # {} \/ c.turn \in dropped'
          /\ dropped \subseteq dropped'
      BY <2>6 DEF Updated, Of, Real, TurnsOf
    <2>5. Underway(turn)
      BY <2>1 DEF Capturable, Remembered
    <2> QED
      BY <2>1, <2>2, <2>3, <2>4, <2>5 DEF Underway, Capturing
  <1>5. CASE TakeStarted \/ TakeTurnStart \/ TakePlaceholder \/ TakeRevert
    <2>1. /\ UNCHANGED <<misaligned, conversation, current, failed, overtaken, dropped,
                         checkpoints>>
          /\ job = Resting
      BY <1>5
      DEF TakeStarted, TakeTurnStart, TakePlaceholder, TakeRevert, TakeRuntime, TakeDomain,
          provider, model, history
    <2>2. Has(runtime, "completed", turn) => Has(runtime', "completed", turn)
      <3>1. CASE TakeStarted
        <4>1. /\ runtime \in Seq(RuntimeEvents) /\ runtime # <<>> /\ runtime' = Tail(runtime)
              /\ Head(runtime).type = "started"
          BY <3>1 DEF TakeStarted, TakeRuntime, TypeInv, WorkersTyped
        <4> QED
          BY <4>1, HasTail
      <3>2. CASE TakeTurnStart \/ TakePlaceholder \/ TakeRevert
        BY <3>2 DEF TakeTurnStart, TakePlaceholder, TakeRevert, TakeDomain
      <3> QED
        BY <1>5, <3>1, <3>2
    <2>3. Underway(turn)
      BY <2>1 DEF Capturable, Remembered
    <2> QED
      BY <2>1, <2>2, <2>3 DEF Underway, Capturing, Of, Resting
  <1>6. CASE TakeCompleted
    <2> DEFINE event == Head(runtime)
    <2>1. /\ UNCHANGED <<misaligned, conversation, current, failed, dropped, checkpoints>>
          /\ overtaken \subseteq overtaken' /\ job = Resting
      BY <1>6 DEF TakeCompleted, TakeRuntime, provider, model
    <2>2. Underway(turn)
      BY <2>1 DEF Capturable, Remembered
    <2>3. Has(runtime, "completed", turn) => Has(runtime', "completed", turn) \/ event.turn = turn
      BY <1>6, HasTail DEF TakeCompleted, TakeRuntime, TypeInv, WorkersTyped
    <2>4. ASSUME event.turn = turn
          PROVE  Underway(turn)'
      <3>1. CASE active \notin {0, event.turn}
        BY <1>6, <2>4, <3>1 DEF TakeCompleted, Underway
      <3>2. CASE Real(event.turn) # {}
        BY <2>1, <2>4, <3>2 DEF Real, Of, Underway
      <3>3. CASE active \in {0, event.turn} /\ Real(event.turn) = {}
        <4>1. PICK count : Begin([event EXCEPT !.count = count], "capture")
          BY <1>6, <3>3 DEF TakeCompleted
        <4>2. event \in RuntimeEvents
          BY <1>6, RuntimeTaken DEF TakeCompleted
        <4>3. [event EXCEPT !.count = count].turn = event.turn
          BY <4>2 DEF RuntimeEvents
        <4>4. job'.at = "capture" /\ job'.event.turn = event.turn
          BY <4>1, <4>3 DEF Begin, Resting
        <4> QED
          BY <2>4, <4>4 DEF Underway, Capturing
      <3> QED
        BY <3>1, <3>2, <3>3
    <2> QED
      BY <2>1, <2>2, <2>3, <2>4 DEF Underway, Capturing, Of, Resting
  <1>7. CASE Capture \/ CaptureFails
    <2>1. UNCHANGED <<misaligned, conversation, current, runtime, overtaken, dropped,
                      checkpoints>>
      BY <1>7 DEF Capture, CaptureFails, provider, model, history
    <2>2. Underway(turn)
      BY <2>1 DEF Capturable, Remembered
    <2>3. Capturing(turn) => job.event.type # "baseline"
      <3>1. turn # 0
        BY <1>0, <2>1 DEF Remembered
      <3>2. Capturing(turn) => job.event \in Captures \cup Baselines
        BY DEF Capturing, TypeInv, WorkersTyped, JobTyped, Resting
      <3> QED
        BY <3>1, <3>2 DEF Capturing, Captures, Baselines
    <2>4. failed \subseteq failed' /\ (Capturing(turn) => Capturing(turn)' \/ turn \in failed')
      <3>1. CASE Capture
        <4>1. UNCHANGED failed /\ job.at = "capture"
          BY <3>1 DEF Capture, history
        <4>2. Capturing(turn) => job' = [job EXCEPT !.at = "dispatch"]
          BY <2>3, <3>1 DEF Capture
        <4>3. Capturing(turn) => job'.at = "dispatch" /\ job'.event = job.event
          BY <4>1, <4>2, JobMoves DEF TypeInv, WorkersTyped
        <4> QED
          BY <4>1, <4>3 DEF Capturing
      <3>2. CASE CaptureFails
        BY <2>3, <3>2 DEF CaptureFails, Capturing
      <3> QED
        BY <1>7, <3>1, <3>2
    <2> QED
      BY <2>1, <2>2, <2>4 DEF Underway, Of
  <1>8. CASE Restore \/ RollBack \/ DeleteRefs \/ RevertFails
    <2>1. /\ UNCHANGED <<misaligned, current, runtime, failed, overtaken, dropped, checkpoints>>
          /\ job.at \in {"restore", "rollback", "delete", "complete"}
      BY <1>8 DEF Restore, RollBack, DeleteRefs, RevertFails, RevertStep
    <2>2. turn \in Remembered
      <3>1. CASE RollBack
        <4>1. LastOf(Len(conversation), job.drop) \in 0..Len(conversation)
          BY <3>1
          DEF RollBack, RevertStep, TypeInv, ProviderTyped, WorkersTyped, JobTyped, Resting, Jobs,
              LastOf
        <4>2. PICK n \in 0..Len(conversation) : conversation' = SubSeq(conversation, 1, n)
          BY <3>1, <4>1 DEF RollBack
        <4>3. DOMAIN conversation' = 1..n /\ \A i \in 1..n : conversation'[i] = conversation[i]
          BY <4>2 DEF TypeInv, ProviderTyped
        <4>4. 1..n \subseteq DOMAIN conversation
          BY <4>2 DEF TypeInv, ProviderTyped
        <4> QED
          BY <4>3, <4>4 DEF Remembered
      <3>2. CASE Restore \/ DeleteRefs \/ RevertFails
        BY <3>2 DEF Restore, DeleteRefs, RevertFails, Remembered
      <3> QED
        BY <1>8, <3>1, <3>2
    <2>3. Underway(turn)
      BY <2>1, <2>2 DEF Capturable
    <2> QED
      BY <2>1, <2>3 DEF Underway, Capturing, Of
  <1>9. CASE CompleteRevert
    <2> DEFINE n == job.event.count
    <2>1. /\ job.at = "complete" /\ checkpoints' = {c \in checkpoints : c.count <= n}
          /\ job.basis = started /\ UNCHANGED <<conversation, dropped>>
      BY <1>9, RevertUpdates DEF TypeInv, CompleteRevert, RevertStep
    <2>2. Fitting /\ Len(conversation) = n
      BY <2>1 DEF AlignInv, Reverting, Dropping, TypeInv, WorkersTyped, JobTyped, Resting, Requests
    <2>3. PICK i \in DOMAIN conversation : turn = conversation[i]
      BY <2>1 DEF Remembered
    <2>4. i <= n
      BY <2>2, <2>3 DEF TypeInv, ProviderTyped
    <2>5. turn \in dropped \/ \E c \in checkpoints : c.turn = turn /\ c.count = i
      BY <2>2, <2>3 DEF Fitting
    <2>6. turn \in dropped' \/ Of(turn)' # {}
      BY <2>1, <2>4, <2>5 DEF Of
    <2> QED
      BY <2>6 DEF Underway
  <1> QED
    BY <1>1, <1>2, <1>3, <1>4, <1>5, <1>6, <1>7, <1>8, <1>9 DEF Next, Ingestion, Reactor

(* When the workers have nothing left to do, no placeholder is left and    *)
(* every turn of the conversation was captured, whichever of placeholder   *)
(* and completion came first; unless its capture failed, its completion was*)
(* skipped, the limit took the checkpoint, or a revert overlapped a turn.  *)
THEOREM TurnsCaptured == Spec => []TurnsAreCaptured
PROOF
  <1> DEFINE Inv ==
                /\ TypeInv /\ ConversationOrdered /\ StaleInv /\ AlignInv
                /\ Settling /\ Capturable
  <1>1. Init => Inv
    BY TypesStart
    DEF Init, ConversationOrdered, StaleInv, AlignInv, Reverting, Resting, Settling, Capturable,
        Remembered
  <1>2. Inv /\ [Next]_vars => Inv'
    BY TypesStep, OrderStep, FitStep, SettlingStep, CapturableStep
  <1>3. Inv => TurnsAreCaptured
    <2> SUFFICES ASSUME Inv, AtRest PROVE TurnsAreCaptured
      BY DEF TurnsAreCaptured
    <2>1. \A turn : /\ ~Has(domain, "placeholder", turn) /\ ~Has(runtime, "completed", turn)
                    /\ ~Capturing(turn)
      BY DEF AtRest, Has, Capturing, Resting
    <2>2. \A c \in checkpoints : IF c.status = "missing" THEN c.turn \in failed ELSE c.captured
      BY <2>1 DEF Settling, Pending
    <2>3. ASSUME ~misaligned, NEW i \in DOMAIN conversation,
                 conversation[i] \notin failed \cup overtaken \cup dropped \cup {current}
          PROVE  \E c \in checkpoints : c.turn = conversation[i] /\ c.captured
      <3>1. Of(conversation[i]) # {}
        BY <2>1, <2>3 DEF Capturable, Underway, Remembered
      <3> QED
        BY <2>2, <2>3, <3>1 DEF Of
    <2> QED
      BY <2>2, <2>3 DEF TurnsAreCaptured
  <1> QED
    BY <1>1, <1>2, <1>3, PTL DEF Spec
=============================================================================
