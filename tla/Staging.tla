------------------------------ MODULE Staging ------------------------------
(***************************************************************************)
(* Raw staging and what is kept beside it: the signals detected in staged  *)
(* records, the states of evidence sources, and how far a person has read. *)
(*                                                                         *)
(* Staging is a window of the latest observations: a record staged again   *)
(* replaces its row, and old rows are purged.  The rest must not follow    *)
(* it.  An extraction reads its context from staging, calls the model and  *)
(* commits what it read then; a record of it may be revoked meanwhile, and *)
(* people acknowledge and read at any time.                                *)
(***************************************************************************)
EXTENDS Integers

CONSTANTS
  Messages,    \* natural numbers: the records, in the order they were sent
  Matters,     \* the subjects claims are about, each standing for itself
  Alerting,    \* the records a detector matches
  Extractors,  \* callers of add_records
  MaxTime      \* bound: readings of the clock

ASSUME StagingAssumption == MaxTime \in Nat

VARIABLES
  staged,      \* [records -> whether the staged observation is revoked]
  signals,     \* [records -> "open" or "acked"]
  sources,     \* [records -> "active" or "revoked"]: evidence_sources
  work,        \* what each extractor holds
  told,        \* [subject, at]: when claims of a subject were recorded
  seen,        \* the rows of read_watermarks
  clock

stagingVars == <<staged, signals, sources, work, told, seen, clock>>

Empty == [x \in {} |-> x]
NoWork == [pc |-> "idle", chunk |-> Empty, context |-> {}]
Set(f, x, v) == [y \in DOMAIN f \cup {x} |-> IF y = x THEN v ELSE f[y]]

StagingTypeOK ==
  /\ DOMAIN staged \subseteq Messages /\ \A r \in DOMAIN staged : staged[r] \in BOOLEAN
  /\ DOMAIN signals \subseteq Alerting
  /\ \A r \in DOMAIN signals : signals[r] \in {"open", "acked"}
  /\ DOMAIN sources \subseteq Messages
  /\ \A r \in DOMAIN sources : sources[r] \in {"active", "revoked"}
  /\ \A w \in Extractors :
       /\ work[w].pc \in {"idle", "extracting"}
       /\ DOMAIN work[w].chunk \cup work[w].context \subseteq Messages
  /\ told \subseteq Matters \X (0..MaxTime)
  /\ DOMAIN seen \subseteq Matters /\ \A s \in DOMAIN seen : seen[s] \in 0..MaxTime
  /\ clock \in 0..MaxTime

StagingInit ==
  /\ staged = Empty /\ signals = Empty /\ sources = Empty
  /\ work = [w \in Extractors |-> NoWork]
  /\ told = {} /\ seen = Empty
  /\ clock = 0

Tick ==
  /\ clock < MaxTime
  /\ clock' = clock + 1
  /\ UNCHANGED <<staged, signals, sources, work, told, seen>>

\* A signal is inserted or ignored.
Detected(r) ==
  IF r \in Alerting /\ r \notin DOMAIN signals THEN Set(signals, r, "open") ELSE signals

\* The earlier staged records that are not revoked.
ContextOf(r) == {x \in DOMAIN staged : x < r /\ ~ staged[x]}

\* An observation of a record, revoked or not, is staged over whatever
\* observation is there and searched for signals.  Then its extraction begins;
\* a revoked record is not extracted, only committed.
Observe(w) ==
  /\ work[w].pc = "idle"
  /\ \E r \in Messages, revoked \in BOOLEAN :
       /\ staged' = Set(staged, r, revoked)
       /\ signals' = Detected(r)
       /\ work' = [work EXCEPT ![w] =
            [pc |-> "extracting", chunk |-> Set(Empty, r, revoked),
             context |-> IF revoked THEN {} ELSE ContextOf(r)]]
  /\ UNCHANGED <<sources, told, seen, clock>>

\* Slip: the latest observation is taken, as in staging.
ObservedLast(s, r, revoked) == Set(s, r, IF revoked THEN "revoked" ELSE "active")

\* A source is known from its first observation; its earliest revocation stays.
Observed(s, r, revoked) ==
  IF r \in DOMAIN s /\ s[r] = "revoked" THEN s
  ELSE Set(s, r, IF revoked THEN "revoked" ELSE "active")

\* The chunk commits with cards that may cite its context too, as it was read
\* then, and claims of their subjects.
CommitExtraction(w) ==
  /\ work[w].pc = "extracting"
  /\ LET r == CHOOSE x \in DOMAIN work[w].chunk : TRUE
         revoked == work[w].chunk[r]
         own == Observed(sources, r, revoked)
     IN \E cited \in SUBSET work[w].context,
           subjects \in {{}} \cup {{s} : s \in Matters} :
          /\ revoked => subjects = {}
          /\ subjects = {} => cited = {}
          /\ sources' = [x \in DOMAIN own \cup cited |->
               IF x \in cited THEN Observed(own, x, FALSE)[x] ELSE own[x]]
          /\ told' = told \cup (subjects \X {clock})
  /\ work' = [work EXCEPT ![w] = NoWork]
  /\ UNCHANGED <<staged, signals, seen, clock>>

\* The extraction fails or the process restarts.
LoseExtraction(w) ==
  /\ work[w].pc = "extracting"
  /\ work' = [work EXCEPT ![w] = NoWork]
  /\ UNCHANGED <<staged, signals, sources, told, seen, clock>>

\* Rows of records sent before the cutoff are deleted.
PurgeStaging ==
  /\ \E before \in Messages :
       /\ \E r \in DOMAIN staged : r < before
       /\ staged' = [r \in {x \in DOMAIN staged : x >= before} |-> staged[r]]
  /\ UNCHANGED <<signals, sources, work, told, seen, clock>>

\* Only an open signal is updated.
Acknowledge ==
  /\ \E r \in DOMAIN signals :
       signals[r] = "open" /\ signals' = Set(signals, r, "acked")
  /\ UNCHANGED <<staged, sources, work, told, seen, clock>>

\* The watermark never goes back.
NoEarlier(s, at) == IF s \in DOMAIN seen /\ seen[s] > at THEN seen[s] ELSE at

\* A matter is read up to now, or to an instant of the caller's.
SetSeen ==
  /\ \E s \in {x[1] : x \in told}, at \in 0..clock : seen' = Set(seen, s, NoEarlier(s, at))
  /\ UNCHANGED <<staged, signals, sources, work, told, clock>>

StagingNext ==
  \/ Tick \/ PurgeStaging \/ Acknowledge \/ SetSeen
  \/ \E w \in Extractors : Observe(w) \/ CommitExtraction(w) \/ LoseExtraction(w)

StagingSpec == StagingInit /\ [][StagingNext]_stagingVars

-----------------------------------------------------------------------------

\* A claim is unseen when it was recorded after its subject was last read.
Unseen(c) == c[1] \notin DOMAIN seen \/ c[2] > seen[c[1]]

\* Nothing is taken back by something older: a source that was revoked stays so
\* although an extraction commits a context it read before, an acknowledged
\* signal stays so although its record is purged and staged again, and a claim
\* that was read stays read although a reader names an older instant
\* (Store.observe_source, Store.add_signal, Store.set_read_watermark).
NothingTakenBack ==
  [][/\ \A r \in DOMAIN sources : sources[r] = "revoked" => sources'[r] = "revoked"
     /\ \A r \in DOMAIN signals : signals[r] = "acked" => signals'[r] = "acked"
     /\ \A c \in told : ~ Unseen(c) => ~ Unseen(c)'
    ]_stagingVars
=============================================================================
