--------------------------- MODULE PipelineProofs ---------------------------
(***************************************************************************)
(* What holds of the pipelines around the engine and of the store below    *)
(* it, for any number of events, records, detectors, matters, passes,      *)
(* runtimes, accounts and threads, any batch size, window and number of    *)
(* attempts, and any deaths and restarts: that nothing is marked delivered *)
(* before it was received, that what people and revocations have settled   *)
(* is not taken back, that no matter is in two open theme proposals, that  *)
(* no sync passes a message over, and that the transactions of a store are *)
(* atomic; and that every variable keeps to values of its kind.            *)
(***************************************************************************)
EXTENDS ServiceLoop, MailAccounts, Themes, Staging, StoreSessions, SequenceTheorems,
  ProjectionProofs

-----------------------------------------------------------------------------
\* An acknowledged batch was received whole: this is what MarkDelivered relies
\* on, and what every other step has to keep.
BatchReceived == answered => batch \subseteq received

BoxInv == MarkedWasReceived /\ BatchReceived

LEMMA BoxInvBegins == OutboxInit => BoxInv
  BY DEF OutboxInit, BoxInv, MarkedWasReceived, BatchReceived

LEMMA BoxInvPosts ==
  ASSUME BoxInv, Emit \/ TakeBatch \/ PostAnswered \/ PostFailed
  PROVE  BoxInv'
  BY DEF BoxInv, MarkedWasReceived, BatchReceived, Emit, TakeBatch, PostAnswered,
         PostFailed, Posting, boxRows

LEMMA BoxInvEnds ==
  ASSUME BoxInv,
         \/ MarkDelivered \/ GiveUp
         \/ LetGo /\ UNCHANGED <<boxRows, received>>
  PROVE  BoxInv'
  BY DEF BoxInv, MarkedWasReceived, BatchReceived, MarkDelivered, GiveUp, LetGo, boxRows

LEMMA BoxInvStays ==
  ASSUME BoxInv, UNCHANGED outboxVars
  PROVE  BoxInv'
  BY DEF BoxInv, MarkedWasReceived, BatchReceived, outboxVars, boxRows

LEMMA BoxInvSteps ==
  ASSUME BoxInv, [ServiceNext]_serviceVars
  PROVE  BoxInv'
  <1>1. CASE LoopStep
    <2>1. CASE \/ DispatchBatch \/ DispatchFailed \/ DispatchMarked \/ DispatchGivenUp
      BY <2>1, BoxInvPosts, BoxInvEnds
      DEF DispatchBatch, DispatchFailed, DispatchMarked, DispatchGivenUp, WebhookTurn,
          WebhookDone
    <2>2. CASE \/ SchedulerTick \/ DispatchNothing \/ MailNotDue \/ MailBegins
               \/ MailGoesOn \/ MailStored \/ MailRefused
      BY <2>2, BoxInvStays
      DEF SchedulerTick, DispatchNothing, WebhookDone, MailNotDue, MailBegins, MailGoesOn,
          MailStored, MailRefused, MailEnds
    <2>3. QED
      BY <1>1, <2>1, <2>2 DEF LoopStep
  <1>2. CASE DispatchAnswered
    BY <1>2, BoxInvPosts DEF DispatchAnswered, WebhookTurn
  <1>3. CASE FallDue \/ MailFailed
    BY <1>3, BoxInvStays DEF FallDue, MailFailed, MailEnds
  <1>4. CASE Restart \/ Die
    BY <1>4, BoxInvEnds DEF Restart, Die, LoseTurn
  <1>5. CASE Beside
    BY <1>5, BoxInvPosts, BoxInvStays DEF Beside
  <1>6. CASE UNCHANGED serviceVars
    BY <1>6, BoxInvStays DEF serviceVars
  <1>7. QED
    BY <1>1, <1>2, <1>3, <1>4, <1>5, <1>6 DEF ServiceNext

\* At least once: what has a mark, and so is never sent again, was received,
\* wherever posts and answers were lost and the loop stopped
\* (WebhookDispatcher.deliver_pending, Store.mark_webhook_delivered).
THEOREM MarksAreEarned == ServiceSpec => []MarkedWasReceived
  <1>1. ServiceInit => BoxInv
    BY BoxInvBegins DEF ServiceInit
  <1>2. BoxInv /\ [ServiceNext]_serviceVars => BoxInv'
    BY BoxInvSteps
  <1>3. BoxInv => MarkedWasReceived
    BY DEF BoxInv
  <1>4. QED
    BY <1>1, <1>2, <1>3, PTL DEF ServiceSpec

-----------------------------------------------------------------------------
\* What the order of watermarks needs: they and the claims are stamped with
\* numbers.
StampsInv ==
  /\ clock \in Nat
  /\ told \subseteq Matters \X Nat
  /\ \A s \in DOMAIN seen : seen[s] \in Nat

LEMMA StampsBegin == StagingInit => StampsInv
  BY DEF StagingInit, StampsInv, Empty

LEMMA StampsStay ==
  ASSUME StampsInv, [StagingNext]_stagingVars
  PROVE  StampsInv'
  <1>1. CASE Tick
    BY <1>1 DEF StampsInv, Tick
  <1>2. ASSUME NEW w \in Extractors, CommitExtraction(w) PROVE StampsInv'
    <2>1. PICK subjects \in {{}} \cup {{s} : s \in Matters} :
            told' = told \cup (subjects \X {clock})
      BY <1>2 DEF CommitExtraction
    <2>2. subjects \subseteq Matters
      BY <2>1
    <2>3. told' \subseteq Matters \X Nat
      BY <2>1, <2>2 DEF StampsInv
    <2>4. QED
      BY <1>2, <2>3 DEF StampsInv, CommitExtraction
  <1>3. CASE SetSeen
    <2>1. PICK s \in {x[1] : x \in told}, till \in 0..clock :
            seen' = Set(seen, s, NoEarlier(s, till))
      BY <1>3 DEF SetSeen
    <2>2. NoEarlier(s, till) \in Nat
      BY <2>1 DEF StampsInv, NoEarlier
    <2>3. QED
      BY <1>3, <2>1, <2>2 DEF StampsInv, SetSeen, Set
  <1>4. CASE UNCHANGED <<clock, told, seen>>
    BY <1>4 DEF StampsInv
  <1>5. QED
    BY <1>1, <1>2, <1>3, <1>4
    DEF StagingNext, stagingVars, PurgeStaging, Acknowledge, Observe, LoseExtraction

LEMMA RevokedStays ==
  ASSUME [StagingNext]_stagingVars, NEW r \in DOMAIN sources, sources[r] = "revoked"
  PROVE  r \in DOMAIN sources' /\ sources'[r] = "revoked"
  <1>1. ASSUME NEW w \in Extractors, CommitExtraction(w)
        PROVE  r \in DOMAIN sources' /\ sources'[r] = "revoked"
    <2> DEFINE x == CHOOSE y \in DOMAIN work[w].chunk : TRUE
               own == Observed(sources, x, work[w].chunk[x])
    <2>1. PICK cited \in SUBSET work[w].context :
            sources' = [y \in DOMAIN own \cup cited |->
                          IF y \in cited THEN Observed(own, y, FALSE)[y] ELSE own[y]]
      BY <1>1 DEF CommitExtraction
    <2>2. r \in DOMAIN own /\ own[r] = "revoked"
      BY DEF Observed, Set
    <2>3. Observed(own, r, FALSE) = own
      BY <2>2 DEF Observed
    <2>4. QED
      BY <2>1, <2>2, <2>3
  <1>2. QED
    BY <1>1
    DEF StagingNext, stagingVars, Tick, PurgeStaging, Acknowledge, SetSeen, Observe,
        LoseExtraction

LEMMA AckedStays ==
  ASSUME [StagingNext]_stagingVars, NEW r \in DOMAIN signals, signals[r] = "acked"
  PROVE  r \in DOMAIN signals' /\ signals'[r] = "acked"
  <1>1. ASSUME NEW w \in Extractors, Observe(w)
        PROVE  r \in DOMAIN signals' /\ signals'[r] = "acked"
    <2>1. PICK y \in Messages : signals' = Detected(y)
      BY <1>1 DEF Observe
    <2>2. QED
      BY <2>1 DEF Detected, Set
  <1>2. CASE Acknowledge
    BY <1>2 DEF Acknowledge, Set
  <1>3. QED
    BY <1>1, <1>2
    DEF StagingNext, stagingVars, Tick, PurgeStaging, SetSeen, CommitExtraction,
        LoseExtraction

LEMMA ReadStays ==
  ASSUME StampsInv, [StagingNext]_stagingVars, NEW c \in told, ~ Unseen(c)
  PROVE  ~ Unseen(c)'
  <1>1. c[1] \in DOMAIN seen /\ c[2] <= seen[c[1]] /\ c[2] \in Nat /\ seen[c[1]] \in Nat
    BY DEF StampsInv, Unseen
  <1>2. CASE SetSeen
    <2>1. PICK s \in {x[1] : x \in told}, till \in 0..clock :
            seen' = Set(seen, s, NoEarlier(s, till))
      BY <1>2 DEF SetSeen
    <2>2. c[1] \in DOMAIN seen' /\ seen'[c[1]] \in Nat /\ seen[c[1]] <= seen'[c[1]]
      BY <1>1, <2>1 DEF StampsInv, Set, NoEarlier
    <2>3. QED
      BY <1>1, <2>2 DEF Unseen
  <1>3. CASE UNCHANGED seen
    BY <1>3 DEF Unseen
  <1>4. QED
    BY <1>2, <1>3
    DEF StagingNext, stagingVars, Tick, PurgeStaging, Acknowledge, Observe, CommitExtraction,
        LoseExtraction

\* Nothing that was settled is taken back by something older: revoked sources,
\* acknowledged signals and read claims stay so under every interleaving of
\* extractions, purges and people (Store.observe_source, Store.add_signal,
\* Store.set_read_watermark).
THEOREM SettledStays == StagingSpec => NothingTakenBack
  <1>1. StampsInv /\ [StagingNext]_stagingVars =>
          [/\ \A r \in DOMAIN sources : sources[r] = "revoked" => sources'[r] = "revoked"
           /\ \A r \in DOMAIN signals : signals[r] = "acked" => signals'[r] = "acked"
           /\ \A c \in told : ~ Unseen(c) => ~ Unseen(c)'
          ]_stagingVars
    BY RevokedStays, AckedStays, ReadStays
  <1>2. QED
    BY <1>1, StampsBegin, StampsStay, PTL DEF StagingSpec, NothingTakenBack

-----------------------------------------------------------------------------
\* A proposal is for a member that was in none when it was written, and a
\* member is proposed once by a draft: the invariant is inductive as it stands,
\* given that a row of reviews is a pair.
ReviewsInv ==
  /\ \A r \in DOMAIN reviews : r = <<r[1], r[2]>>
  /\ OneOpenProposal

LEMMA ReviewsBegin == ThemesInit => ReviewsInv
  BY DEF ThemesInit, ReviewsInv, OneOpenProposal, OpenProposals

\* A person decides: a row leaves the open ones.
LEMMA MarkedIsClosed ==
  ASSUME ReviewsInv, NEW r \in OpenProposals, NEW status, status # "open", Mark(r, status)
  PROVE  ReviewsInv'
  <1>1. DOMAIN reviews' = DOMAIN reviews
    BY DEF Mark
  <1>2. \A q \in DOMAIN reviews : reviews'[q].status = "open" => reviews[q].status = "open"
    BY DEF Mark, OpenProposals
  <1>3. OpenProposals' \subseteq OpenProposals
    BY <1>1, <1>2 DEF OpenProposals
  <1>4. QED
    BY <1>1, <1>3 DEF ReviewsInv, OneOpenProposal

LEMMA ProposedIsFirst ==
  ASSUME ReviewsInv, NEW w, NEW d, Propose(w, d)
  PROVE  ReviewsInv'
  <1> DEFINE new == {<<m, d.parent>> : m \in Accepted(d)} \ DOMAIN reviews
  <1>1. reviews' = [r \in DOMAIN reviews \cup new |->
          IF r \in new THEN [status |-> "open", wording |-> d.wording] ELSE reviews[r]]
    BY DEF Propose
  <1>2. \A r \in new : r = <<r[1], r[2]>> /\ r[2] = d.parent /\ Unspoken(r[1])
    BY DEF Accepted, Candidates
  <1>3. OpenProposals' = OpenProposals \cup new
    BY <1>1 DEF OpenProposals
  <1>4. \A r, q \in OpenProposals' : r[1] = q[1] => r = q
    <2>1. ASSUME NEW r \in new, NEW q \in new, r[1] = q[1] PROVE r = q
      BY <1>2, <2>1
    <2>2. ASSUME NEW r \in new, NEW q \in OpenProposals PROVE r[1] # q[1]
      BY <1>2, <2>2 DEF Unspoken
    <2>3. ASSUME NEW r \in OpenProposals, NEW q \in OpenProposals, r[1] = q[1] PROVE r = q
      BY <2>3 DEF ReviewsInv, OneOpenProposal
    <2>4. QED
      BY <1>3, <2>1, <2>2, <2>3
  <1>5. \A r \in DOMAIN reviews' : r = <<r[1], r[2]>>
    BY <1>1, <1>2 DEF ReviewsInv
  <1>6. QED
    BY <1>4, <1>5 DEF ReviewsInv, OneOpenProposal

LEMMA ReviewsSteps ==
  ASSUME ReviewsInv, [ThemesNext]_themeVars
  PROVE  ReviewsInv'
  <1>1. CASE UNCHANGED reviews
    BY <1>1 DEF ReviewsInv, OneOpenProposal, OpenProposals
  <1>2. ASSUME NEW w \in Passes, NEW d \in pass[w].drafts, Propose(w, d)
        PROVE  ReviewsInv'
    BY <1>2, ProposedIsFirst
  <1>3. ASSUME NEW r \in OpenProposals, DropTheme(r) \/ \E k \in matters : AcceptTheme(r, k)
        PROVE  ReviewsInv'
    BY <1>3, MarkedIsClosed DEF DropTheme, AcceptTheme
  <1>4. QED
    BY <1>1, <1>2, <1>3
    DEF ThemesNext, themeVars, Snapshot, ApplyEdges, Collide, Complete, Move

\* A person is asked about a matter once at a time, however many passes apply
\* what they named from older snapshots (_apply_proposal_locked).
THEOREM ProposalsAreSingle == ThemesSpec => []OneOpenProposal
  <1>1. ReviewsInv => OneOpenProposal
    BY DEF ReviewsInv
  <1>2. QED
    BY <1>1, ReviewsBegin, ReviewsSteps, PTL DEF ThemesSpec

-----------------------------------------------------------------------------
\* The messages up to n of the mailbox v are dealt with.
Covered(v, n) ==
  \A u \in 1..n : <<v, u>> \in delivered \cup waived \/ u \in Unparsed

\* A position is whole or none, and speaks of messages dealt with.
Sound(p) ==
  /\ p.cursor = Null <=> p.uid = Null
  /\ p.cursor # Null => Covered(p.cursor, p.uid)

\* What a sync does not fetch was dealt with before, is outside the window it
\* will waive, or cannot be parsed.
Accounted(r) ==
  LET s == sync[r]
  IN  /\ s.validity \in 1..validity
      /\ s.backfill \/ s.was.cursor \in {Null, s.validity}
      /\ s.todo \subseteq 1..s.top
      /\ \A u \in 1..s.top \ s.todo :
           \/ <<s.validity, u>> \in delivered \cup waived \/ u \in Unparsed
           \/ First(r) /\ u <= s.top - InitialWindow

MailInv ==
  /\ MailTypeOK
  /\ Sound(position)
  /\ \A r \in Runtimes : Sound(sync[r].was)
  /\ \A r \in Runtimes : sync[r].pc = "listed" => Accounted(r)

LEMMA InvImplies == MailInv => NoMailLost
  BY DEF MailInv, MailTypeOK, Sound, Covered, NoMailLost, Null

LEMMA MailInvBegins == MailInit => MailInv
  BY MailAssumption DEF MailInit, MailInv, MailTypeOK, Syncs, Sound, Idle, NoPosition, Positions, Null

\* The mailbox changes and nothing else does.
LEMMA InvMailbox ==
  ASSUME MailInv, NewMail \/ Recreate
  PROVE  MailInv'
  <1>1. /\ UNCHANGED <<delivered, waived, position, sync, resets, failures>>
        /\ validity' \in {validity, validity + 1} /\ validity' <= MaxValidity
        /\ top' \in 0..MaxUid
    BY MailAssumption DEF NewMail, Recreate, MailInv, MailTypeOK
  <1>2. MailTypeOK'
    <2>1. validity \in 1..MaxValidity /\ validity' \in 1..MaxValidity
          /\ 1..validity \subseteq 1..validity'
      BY <1>1, MailAssumption DEF MailInv, MailTypeOK
    <2>2. delivered' \cup waived' \subseteq (1..validity') \X (1..MaxUid)
      BY <1>1, <2>1 DEF MailInv, MailTypeOK
    <2>3. sync' \in [Runtimes -> Syncs']
      BY <1>1 DEF MailInv, MailTypeOK, Syncs, Positions
    <2>4. QED
      BY <1>1, <2>1, <2>2, <2>3 DEF MailInv, MailTypeOK, Positions
  <1>3. 1..validity \subseteq 1..validity'
    BY <1>1, MailAssumption DEF MailInv, MailTypeOK
  <1>4. QED
    BY <1>1, <1>2, <1>3 DEF MailInv, Sound, Covered, Accounted, First

\* A sync ends, or none began: the runtime is idle and all else as it was.
LEMMA InvIdle ==
  ASSUME MailInv, NEW r \in Runtimes,
         sync' = [sync EXCEPT ![r] = Idle],
         UNCHANGED <<boxVars, delivered, waived, position, resets>>,
         failures' \in 0..MaxFailures
  PROVE  MailInv'
  <1>1. MailTypeOK'
    <2>1. Idle \in Syncs
      BY MailAssumption DEF Idle, Syncs, NoPosition, Positions
    <2>2. QED
      BY <2>1 DEF MailInv, MailTypeOK, Syncs, Positions, boxVars
  <1>2. ASSUME NEW q \in Runtimes
        PROVE  /\ Sound(sync[q].was)'
               /\ (sync[q].pc = "listed" => Accounted(q))'
    <2>1. CASE q = r
      BY <2>1 DEF MailInv, MailTypeOK, Idle, NoPosition, Sound
    <2>2. CASE q # r
      <3>1. sync'[q] = sync[q]
        BY <2>2 DEF MailInv, MailTypeOK
      <3>2. QED
        BY <3>1 DEF MailInv, Sound, Covered, Accounted, First, boxVars
    <2>3. QED
      BY <2>1, <2>2
  <1>3. Sound(position)'
    BY DEF MailInv, Sound, Covered
  <1>4. QED
    BY <1>1, <1>2, <1>3 DEF MailInv

LEMMA InvBegin ==
  ASSUME MailInv, NEW r \in Runtimes, NEW backfill \in BOOLEAN, Begin(r, backfill)
  PROVE  MailInv'
  <1> DEFINE s == [Idle EXCEPT !.pc = "read", !.backfill = backfill, !.was = position]
  <1>1. /\ sync' = [sync EXCEPT ![r] = s]
        /\ UNCHANGED <<validity, top, delivered, waived, position, resets, failures>>
    BY DEF Begin, boxVars
  <1>2. s.pc = "read" /\ s.was = position
    BY DEF Idle
  <1>3. s \in Syncs
    <2>1. Idle \in Syncs
      BY MailAssumption DEF Idle, Syncs, NoPosition, Positions
    <2>2. position \in Positions
      BY DEF MailInv, MailTypeOK
    <2>3. QED
      BY <2>1, <2>2 DEF Syncs
  <1> HIDE DEF s
  <1>4. MailTypeOK'
    BY <1>1, <1>3 DEF MailInv, MailTypeOK, Positions, Syncs
  <1>5. ASSUME NEW q \in Runtimes
        PROVE  /\ Sound(sync[q].was)'
               /\ (sync[q].pc = "listed" => Accounted(q))'
    <2>1. CASE q = r
      BY <1>1, <1>2, <2>1 DEF MailInv, MailTypeOK, Sound, Covered
    <2>2. CASE q # r
      <3>1. sync'[q] = sync[q]
        BY <1>1, <2>2 DEF MailInv, MailTypeOK
      <3>2. QED
        BY <1>1, <3>1 DEF MailInv, Sound, Covered, Accounted, First
    <2>3. QED
      BY <2>1, <2>2
  <1>6. Sound(position)'
    BY <1>1 DEF MailInv, Sound, Covered
  <1>7. QED
    BY <1>4, <1>5, <1>6 DEF MailInv

\* Which messages a sync fetches, case by case.
LEMMA WantedIs ==
  ASSUME NEW r \in Runtimes, sync[r].backfill \in BOOLEAN
  PROVE  /\ sync[r].backfill => Wanted(r) = 1..top
         /\ First(r) => Wanted(r) = Window
         /\ ~ sync[r].backfill /\ ~ First(r) =>
              Wanted(r) = {u \in 1..top : u > sync[r].was.uid}
  BY DEF Wanted, First

LEMMA InvList ==
  ASSUME MailInv, NEW r \in Runtimes, List(r)
  PROVE  MailInv'
  <1> DEFINE s == sync'[r]
  <1>1. /\ sync' = [sync EXCEPT ![r].pc = "listed", ![r].validity = validity,
                               ![r].top = top, ![r].todo = Wanted(r) \ Unparsed]
        /\ UNCHANGED <<validity, top, delivered, waived, position, resets, failures>>
        /\ ~ Recreated(r) \/ sync[r].backfill
    BY DEF List, boxVars
  <1>2. /\ s.pc = "listed" /\ s.validity = validity /\ s.top = top
        /\ s.todo = Wanted(r) \ Unparsed
        /\ s.was = sync[r].was /\ s.backfill = sync[r].backfill
    BY <1>1 DEF MailInv, MailTypeOK
  <1> sync[r].backfill \in BOOLEAN
    BY DEF MailInv, MailTypeOK, Syncs
  <1>3. Wanted(r) \subseteq 1..top
    BY WantedIs DEF Window
  <1>4. MailTypeOK'
    <2>1. Wanted(r) \ Unparsed \subseteq 1..MaxUid
      BY <1>3, MailAssumption DEF MailInv, MailTypeOK
    <2> DEFINE t == [sync[r] EXCEPT !.pc = "listed", !.validity = validity,
                                    !.top = top, !.todo = Wanted(r) \ Unparsed]
    <2>2. t \in Syncs
      BY <2>1 DEF MailInv, MailTypeOK, Syncs
    <2>3. sync' = [sync EXCEPT ![r] = t]
      BY <1>1
    <2> HIDE DEF t
    <2>4. QED
      BY <1>1, <2>2, <2>3 DEF MailInv, MailTypeOK
  <1>5. ASSUME NEW u \in (1..top) \ Wanted(r)
        PROVE  \/ <<validity, u>> \in delivered \cup waived \/ u \in Unparsed
               \/ First(r) /\ u <= top - InitialWindow
    <2>1. ~ sync[r].backfill
      BY WantedIs
    <2>2. CASE First(r)
      BY <2>1, <2>2, WantedIs, MailAssumption DEF Window, MailInv, MailTypeOK
    <2>3. CASE ~ First(r)
      <3>1. sync[r].was.uid # Null /\ u <= sync[r].was.uid
        <4>1. u \notin {x \in 1..top : x > sync[r].was.uid}
          BY <2>1, <2>3, WantedIs
        <4>2. sync[r].was.uid \in Int /\ top \in Nat
          BY MailAssumption DEF MailInv, MailTypeOK, Syncs, Positions, Null
        <4>3. QED
          BY <2>1, <2>3, <4>1, <4>2 DEF First
      <3>2. sync[r].was.cursor = validity
        BY <1>1, <2>1, <3>1 DEF MailInv, Sound, Recreated
      <3>3. sync[r].was.cursor # Null
        BY <3>2, MailAssumption DEF MailInv, MailTypeOK, Null
      <3>4. Covered(validity, sync[r].was.uid)
        BY <3>2, <3>3 DEF MailInv, Sound
      <3>5. u \in 1..sync[r].was.uid
        <4>1. sync[r].was.uid \in Int /\ top \in Nat
          BY MailAssumption DEF MailInv, MailTypeOK, Syncs, Positions, Null
        <4>2. QED
          BY <3>1, <4>1
      <3>6. QED
        BY <3>4, <3>5 DEF Covered
    <2>4. QED
      BY <2>2, <2>3
  <1>6. Accounted(r)'
    <2>1. validity \in 1..validity
      BY MailAssumption DEF MailInv, MailTypeOK
    <2>2. s.backfill \/ s.was.cursor \in {Null, s.validity}
      BY <1>1, <1>2 DEF Recreated
    <2>3. First(r)' <=> First(r)
      BY <1>2 DEF First
    <2>4. QED
      BY <1>1, <1>2, <1>3, <1>5, <2>1, <2>2, <2>3 DEF Accounted
  <1>7. ASSUME NEW q \in Runtimes
        PROVE  /\ Sound(sync[q].was)'
               /\ (sync[q].pc = "listed" => Accounted(q))'
    <2>1. CASE q = r
      BY <1>1, <1>2, <1>6, <2>1 DEF MailInv, Sound, Covered
    <2>2. CASE q # r
      <3>1. sync'[q] = sync[q]
        BY <1>1, <2>2 DEF MailInv, MailTypeOK
      <3>2. QED
        BY <1>1, <3>1 DEF MailInv, Sound, Covered, Accounted, First
    <2>3. QED
      BY <2>1, <2>2
  <1>8. Sound(position)'
    BY <1>1 DEF MailInv, Sound, Covered
  <1>9. QED
    BY <1>4, <1>7, <1>8 DEF MailInv

\* More messages are dealt with: what was sound or accounted for stays so.
LEMMA MoreDealtWith ==
  ASSUME delivered \subseteq delivered', waived \subseteq waived', validity' = validity
  PROVE  /\ \A v, n : Covered(v, n) => Covered(v, n)'
         /\ \A q \in Runtimes : sync'[q] = sync[q] =>
              /\ Sound(sync[q].was) => Sound(sync[q].was)'
              /\ Accounted(q) => Accounted(q)'
         /\ position' = position /\ Sound(position) => Sound(position)'
  BY DEF Covered, Sound, Accounted, First

LEMMA InvDeliver ==
  ASSUME MailInv, NEW r \in Runtimes, Deliver(r)
  PROVE  MailInv'
  <1>1. PICK u \in sync[r].todo :
          /\ delivered' = delivered \cup {<<sync[r].validity, u>>}
          /\ sync' = [sync EXCEPT ![r].todo = @ \ {u}]
    BY DEF Deliver
  <1>2. /\ UNCHANGED <<validity, top, waived, position, resets, failures>>
        /\ sync[r].pc = "listed"
    BY DEF Deliver, boxVars
  <1>3. Accounted(r) /\ sync[r] \in Syncs
    BY <1>2 DEF MailInv, MailTypeOK
  <1> DEFINE s == [sync[r] EXCEPT !.todo = @ \ {u}]
  <1>4. s \in Syncs
    BY <1>3 DEF Syncs
  <1>5. sync' = [sync EXCEPT ![r] = s] /\ sync'[r] = s
    BY <1>1 DEF MailInv, MailTypeOK
  <1>6. /\ s.validity = sync[r].validity /\ s.top = sync[r].top
        /\ s.todo = sync[r].todo \ {u}
        /\ s.was = sync[r].was /\ s.backfill = sync[r].backfill
    BY <1>3 DEF Syncs
  <1> HIDE DEF s
  <1>7. MailTypeOK'
    <2>1. u \in 1..MaxUid /\ sync[r].validity \in 1..validity
      BY <1>3 DEF Syncs, Accounted
    <2>2. delivered' \cup waived' \subseteq (1..validity) \X (1..MaxUid)
      BY <1>1, <1>2, <2>1 DEF MailInv, MailTypeOK
    <2>3. QED
      BY <1>2, <1>4, <1>5, <2>2 DEF MailInv, MailTypeOK, Positions, Syncs
  <1>8. First(r)' <=> First(r)
    BY <1>5, <1>6 DEF First
  <1>9. Accounted(r)'
    BY <1>1, <1>2, <1>3, <1>5, <1>6, <1>8 DEF Accounted
  <1>10. Sound(sync[r].was)'
    BY <1>1, <1>2, <1>5, <1>6 DEF MailInv, Sound, Covered
  <1>11. ASSUME NEW q \in Runtimes, q # r
         PROVE  /\ Sound(sync[q].was)'
                /\ (sync[q].pc = "listed" => Accounted(q))'
    <2>1. sync'[q] = sync[q]
      BY <1>5, <1>11 DEF MailInv, MailTypeOK
    <2>2. QED
      BY <1>1, <1>2, <2>1, MoreDealtWith DEF MailInv
  <1>12. Sound(position)'
    BY <1>1, <1>2, MoreDealtWith DEF MailInv
  <1>13. QED
    BY <1>7, <1>9, <1>10, <1>11, <1>12 DEF MailInv

\* The new position speaks of messages dealt with.
LEMMA StoredIsCovered ==
  ASSUME MailInv, NEW r \in Runtimes, Store(r)
  PROVE  /\ Watermark(r) \in 0..MaxUid /\ sync[r].validity \in 1..validity
         /\ \A u \in 1..Watermark(r) :
              <<sync[r].validity, u>> \in delivered' \cup waived' \/ u \in Unparsed
  <1> DEFINE s == sync[r]
  <1>1. /\ s.pc = "listed" /\ s.todo = {} /\ delivered' = delivered
        /\ waived \subseteq waived'
    BY DEF Store
  <1>2. s \in Syncs /\ Accounted(r) /\ Sound(s.was)
    BY <1>1 DEF MailInv, MailTypeOK
  <1>3. /\ s.top \in 0..MaxUid /\ s.was.uid \in {Null} \cup 0..MaxUid
        /\ s.validity \in 1..validity /\ s.backfill \in BOOLEAN
    BY <1>2 DEF Syncs, Positions, Accounted
  <1>4. ASSUME NEW u \in 1..s.top
        PROVE  <<s.validity, u>> \in delivered' \cup waived' \/ u \in Unparsed
    <2>1. \/ <<s.validity, u>> \in delivered \cup waived \/ u \in Unparsed
          \/ First(r) /\ u <= s.top - InitialWindow
      BY <1>1, <1>2 DEF Accounted
    <2>2. CASE First(r) /\ u <= s.top - InitialWindow
      <3>1. waived' = waived \cup {<<s.validity, x>> :
              x \in {y \in 1..s.top : y <= s.top - InitialWindow}}
        BY <2>2 DEF Store
      <3>2. QED
        BY <2>2, <3>1
    <2>3. QED
      BY <1>1, <2>1, <2>2
  <1>5. CASE s.backfill \/ s.was.uid < s.top
    <2>1. Watermark(r) = s.top
      BY <1>5 DEF Watermark
    <2>2. QED
      BY <1>3, <1>4, <2>1
  <1>6. CASE ~ (s.backfill \/ s.was.uid < s.top)
    <2>1. Watermark(r) = s.was.uid
      BY <1>6 DEF Watermark
    <2>2. s.was.uid \in 0..MaxUid /\ s.was.uid # Null
      <3> HIDE DEF s
      <3> QED
        BY <1>3, <1>6, MailAssumption DEF Null
    <2>3. s.was.cursor = s.validity /\ s.was.cursor # Null
      BY <1>2, <1>6, <2>2 DEF Accounted, Sound
    <2>4. Covered(s.validity, s.was.uid)
      BY <1>2, <2>3 DEF Sound
    <2>5. QED
      BY <1>1, <1>3, <2>1, <2>2, <2>4 DEF Covered
  <1>7. QED
    BY <1>5, <1>6

LEMMA InvStore ==
  ASSUME MailInv, NEW r \in Runtimes, Store(r)
  PROVE  MailInv'
  <1>1. /\ position' = [cursor |-> sync[r].validity, uid |-> Watermark(r)]
        /\ sync' = [sync EXCEPT ![r] = Idle]
        /\ UNCHANGED <<validity, top, delivered, resets, failures>>
        /\ waived \subseteq waived'
        /\ sync[r].pc = "listed"
    BY DEF Store, boxVars
  <1>2. Watermark(r) \in 0..MaxUid /\ sync[r].validity \in 1..validity
    BY StoredIsCovered
  <1>3. MailTypeOK'
    <2>1. Idle \in Syncs
      BY MailAssumption DEF Idle, Syncs, NoPosition, Positions
    <2>2. sync[r].top \in 0..MaxUid
      BY DEF MailInv, MailTypeOK, Syncs
    <2>3. waived' \subseteq (1..validity) \X (1..MaxUid)
      <3>1. ASSUME NEW u \in 1..sync[r].top
            PROVE  <<sync[r].validity, u>> \in (1..validity) \X (1..MaxUid)
        BY <1>2, <2>2, MailAssumption
      <3>2. QED
        BY <3>1 DEF Store, MailInv, MailTypeOK
    <2>4. sync[r].validity \in 1..MaxValidity
      BY <1>2, MailAssumption DEF MailInv, MailTypeOK
    <2>5. position' \in Positions
      BY <1>1, <1>2, <2>4 DEF Positions
    <2>6. QED
      BY <1>1, <2>1, <2>3, <2>5 DEF MailInv, MailTypeOK, Positions, Syncs
  <1>4. Sound(position)'
    <2>1. Watermark(r) # Null /\ sync[r].validity # Null
      BY <1>2, MailAssumption DEF Null, MailInv, MailTypeOK
    <2>2. position'.cursor = sync[r].validity /\ position'.uid = Watermark(r)
      BY <1>1
    <2>3. QED
      BY <2>1, <2>2, StoredIsCovered DEF Sound, Covered
  <1>5. ASSUME NEW q \in Runtimes
        PROVE  /\ Sound(sync[q].was)'
               /\ (sync[q].pc = "listed" => Accounted(q))'
    <2>1. CASE q = r
      BY <1>1, <2>1 DEF MailInv, MailTypeOK, Idle, NoPosition, Sound
    <2>2. CASE q # r
      <3>1. sync'[q] = sync[q]
        BY <1>1, <2>2 DEF MailInv, MailTypeOK
      <3>2. QED
        BY <1>1, <3>1, MoreDealtWith DEF MailInv
    <2>3. QED
      BY <2>1, <2>2
  <1>6. QED
    BY <1>3, <1>4, <1>5 DEF MailInv

LEMMA InvReset ==
  ASSUME MailInv, NEW r \in Runtimes, Reset(r)
  PROVE  MailInv'
  <1>1. /\ position' = NoPosition /\ resets' \in 0..MaxResets
        /\ UNCHANGED <<validity, top, delivered, waived, sync, failures>>
    BY MailAssumption DEF Reset, boxVars, MailInv, MailTypeOK
  <1>2. MailTypeOK'
    BY <1>1 DEF MailInv, MailTypeOK, NoPosition, Positions, Syncs
  <1>3. QED
    BY <1>1, <1>2 DEF MailInv, Sound, Covered, NoPosition, Accounted, First

LEMMA MailInvSteps ==
  ASSUME MailInv, [MailNext]_mailVars
  PROVE  MailInv'
  <1>1. ASSUME NEW r \in Runtimes, Refuse(r) PROVE MailInv'
    <2>1. failures' \in 0..MaxFailures
      BY <1>1 DEF Refuse, MailInv, MailTypeOK
    <2>2. QED
      BY <1>1, <2>1, InvIdle DEF Refuse
  <1>2. ASSUME NEW r \in Runtimes, Fail(r) PROVE MailInv'
    <2>1. failures' \in 0..MaxFailures
      BY <1>2, MailAssumption DEF Fail, MailInv, MailTypeOK
    <2>2. QED
      BY <1>2, <2>1, InvIdle DEF Fail
  <1>3. ASSUME UNCHANGED mailVars PROVE MailInv'
    BY <1>3 DEF mailVars, boxVars, MailInv, MailTypeOK, Syncs, Positions, Sound, Covered,
                Accounted, First
  <1>4. QED
    BY <1>1, <1>2, <1>3, InvMailbox, InvBegin, InvList, InvDeliver, InvStore, InvReset
       DEF MailNext, SyncStep

\* No message is passed over, by however many runtimes, restarts of the mailbox,
\* failures and resets (MailConnector.sync): the new position is stored after all
\* the messages it speaks of were handed over, and a sync that began from a
\* position of another mailbox goes no further.
THEOREM MailIsNotLost == MailSpec => []NoMailLost
  <1>1. MailInv /\ [MailNext]_mailVars => MailInv'
    BY MailInvSteps
  <1>2. QED
    BY MailInvBegins, InvImplies, <1>1, PTL DEF MailSpec

-----------------------------------------------------------------------------
\* The first events of those that wait are no more than a batch holds: all but
\* the last of them come before it.
LEMMA OldestFit ==
  ASSUME NEW S \in SUBSET (1..MaxEvents)
  PROVE  Cardinality(Oldest(S)) <= BatchSize
  <1>1. MaxEvents \in Nat /\ BatchSize \in Nat
    BY OutboxAssumption
  <1>2. IsFiniteSet(S) /\ S \subseteq Nat
    <2>1. IsFiniteSet(1..MaxEvents)
      BY <1>1, FS_Interval
    <2>2. S \subseteq Nat
      BY <1>1
    <2>3. IsFiniteSet(S)
      BY <2>1, FS_Subset
    <2>4. QED
      BY <2>2, <2>3
  <1> DEFINE first == Oldest(S)
             later == {p \in first \X first : p[1] > p[2]}
  <1>3. first \in SUBSET S /\ first \subseteq Nat
    BY <1>2, Zenon DEF Oldest
  <1>6. IsFiniteSet(first)
    BY <1>2, <1>3, FS_Subset
  <1> HIDE DEF first
  <1>4. CASE first = {}
    BY <1>1, <1>4, FS_EmptySet DEF first
  <1>5. CASE first # {}
    <2>1. \A x, y \in first : <<x, y>> \in later <=> x > y
      OBVIOUS
    <2>2. \A x, y, z \in first : <<x, y>> \in later /\ <<y, z>> \in later => <<x, z>> \in later
      <3>1. \A x, y, z \in Nat : x > y /\ y > z => x > z
        OBVIOUS
      <3> HIDE DEF later
      <3>2. QED
        BY <1>3, <2>1, <3>1
    <2>3. \A x \in first : <<x, x>> \notin later
      <3>1. \A x \in Nat : ~ (x > x)
        OBVIOUS
      <3> HIDE DEF later
      <3>2. QED
        BY <1>3, <2>1, <3>1
    <2> HIDE DEF later
    <2>4. PICK last \in first : \A y \in first : <<y, last>> \notin later
      BY <1>6, <1>5, <2>2, <2>3, MaximalExists
    <2>5. \A y \in first : y <= last
      <3>1. \A y \in first : ~ (y > last)
        BY <2>1, <2>4
      <3>2. \A x, y \in Nat : ~ (y > x) => y <= x
        OBVIOUS
      <3>3. QED
        BY <1>3, <3>1, <3>2
    <2> DEFINE before == {x \in S : x < last}
    <2>6. IsFiniteSet(before) /\ Cardinality(before) \in Nat
      BY <1>2, FS_Subset, FS_CardinalityType
    <2>7. Cardinality(before) < BatchSize
      <3>1. last \in {e \in S : Cardinality({x \in S : x < e}) < BatchSize}
        BY <2>4 DEF first, Oldest
      <3>2. QED
        BY <3>1
    <2>8. last \notin before
      BY <1>3
    <2>9. first \subseteq before \cup {last}
      BY <1>3, <2>5
    <2> HIDE DEF before
    <2>10. /\ IsFiniteSet(before \cup {last})
           /\ Cardinality(before \cup {last}) = Cardinality(before) + 1
      BY <2>6, <2>8, FS_AddElement
    <2>11. Cardinality(first) \in Nat /\ Cardinality(first) <= Cardinality(before \cup {last})
      BY <1>6, <2>9, <2>10, FS_Subset, FS_CardinalityType
    <2>12. QED
      BY <1>1, <2>6, <2>7, <2>10, <2>11 DEF first
  <1>7. QED
    BY <1>4, <1>5

LEMMA OutboxTypesBegin ==
  ASSUME OutboxInit
  PROVE  OutboxTypeOK
  <1>1. BatchSize \in Nat /\ MaxAttempts \in Nat
    BY OutboxAssumption
  <1>2. Cardinality(batch) <= BatchSize
    BY <1>1, FS_EmptySet DEF OutboxInit
  <1>3. attempt \in 0..MaxAttempts
    BY <1>1 DEF OutboxInit
  <1>4. QED
    BY <1>2, <1>3 DEF OutboxInit, OutboxTypeOK

LEMMA OutboxTypesStay ==
  ASSUME OutboxTypeOK, UNCHANGED outboxVars
  PROVE  OutboxTypeOK'
  BY DEF OutboxTypeOK, outboxVars, boxRows

LEMMA OutboxTypesSteps ==
  ASSUME OutboxTypeOK,
         \/ Emit \/ TakeBatch \/ PostAnswered \/ PostFailed \/ MarkDelivered \/ GiveUp
         \/ LetGo /\ UNCHANGED <<boxRows, received>>
  PROVE  OutboxTypeOK'
  <1>1. CASE Emit
    BY <1>1 DEF Emit, OutboxTypeOK
  <1>2. CASE TakeBatch
    <2>1. Pending \in SUBSET (1..MaxEvents) /\ Pending \subseteq emitted
      BY DEF OutboxTypeOK, Pending
    <2>2. batch' \subseteq emitted /\ Cardinality(batch') <= BatchSize
      BY <1>2, <2>1, OldestFit DEF TakeBatch, Oldest
    <2>3. UNCHANGED <<emitted, marked, received>> /\ attempt' = 0 /\ answered' = FALSE
      BY <1>2 DEF TakeBatch, boxRows
    <2>4. 0 \in 0..MaxAttempts
      BY OutboxAssumption
    <2>5. QED
      BY <2>2, <2>3, <2>4 DEF OutboxTypeOK
  <1>3. CASE PostAnswered \/ PostFailed
    <2>1. /\ UNCHANGED <<emitted, marked, batch>> /\ batch # {}
          /\ received' \in {received, received \cup batch}
          /\ answered' \in BOOLEAN
      BY <1>3 DEF PostAnswered, PostFailed, Posting, boxRows, OutboxTypeOK
    <2>2. attempt' \in 0..MaxAttempts
      BY <1>3, OutboxAssumption DEF PostAnswered, PostFailed, Posting, OutboxTypeOK
    <2>3. QED
      BY <2>1, <2>2 DEF OutboxTypeOK
  <1>4. CASE \/ MarkDelivered \/ GiveUp
             \/ LetGo /\ UNCHANGED <<boxRows, received>>
    <2>1. /\ batch' = {} /\ attempt' = 0 /\ answered' = FALSE
          /\ UNCHANGED <<emitted, received>> /\ marked' \in {marked, marked \cup batch}
      BY <1>4 DEF MarkDelivered, GiveUp, LetGo, boxRows
    <2>2. Cardinality(batch') <= BatchSize /\ attempt' \in 0..MaxAttempts
      BY <2>1, OutboxAssumption, FS_EmptySet
    <2>3. QED
      BY <2>1, <2>2 DEF OutboxTypeOK
  <1>5. QED
    BY <1>1, <1>2, <1>3, <1>4

-----------------------------------------------------------------------------
\* The service and the accounts take the steps of the mailbox and no others.

LEMMA MailInvStays ==
  ASSUME MailInv, UNCHANGED mailVars
  PROVE  MailInv'
  BY DEF mailVars, boxVars, MailInv, MailTypeOK, Syncs, Positions, Sound, Covered,
         Accounted, First

\* A sync that goes on, ends or fails.
LEMMA MailInvGoesOn ==
  ASSUME MailInv, NEW r \in Runtimes, SyncStep(r) \/ Fail(r)
  PROVE  MailInv'
  BY MailInvSteps DEF MailNext

ServiceInv ==
  /\ OutboxTypeOK /\ MailInv
  /\ at \in {"scheduler", "webhook", "mail", "dead"} /\ due \in BOOLEAN
  /\ restarts \in 0..MaxRestarts

LEMMA ServiceInvBegins ==
  ASSUME ServiceInit
  PROVE  ServiceInv
  <1>1. OutboxTypeOK /\ MailInv
    BY OutboxTypesBegin, MailInvBegins DEF ServiceInit
  <1>2. 0 \in 0..MaxRestarts
    BY ServiceAssumption
  <1>3. QED
    BY <1>1, <1>2 DEF ServiceInit, ServiceInv

LEMMA ServiceInvSteps ==
  ASSUME ServiceInv, [ServiceNext]_serviceVars
  PROVE  ServiceInv'
  <1> DEFINE Turns == /\ at' \in {"scheduler", "webhook", "mail", "dead"} /\ due' \in BOOLEAN
                      /\ restarts' \in 0..MaxRestarts
  <1>0. Loop \in Runtimes /\ OutboxTypeOK /\ MailInv
    BY ServiceAssumption DEF ServiceInv
  <1>1. CASE SchedulerTick \/ MailNotDue \/ FallDue \/ DispatchNothing
    <2>1. UNCHANGED outboxVars /\ UNCHANGED mailVars
      BY <1>1 DEF SchedulerTick, MailNotDue, FallDue, DispatchNothing, WebhookDone
    <2>2. Turns
      BY <1>1 DEF SchedulerTick, MailNotDue, FallDue, DispatchNothing, WebhookDone, ServiceInv
    <2>3. QED
      BY <1>0, <2>1, <2>2, OutboxTypesStay, MailInvStays DEF ServiceInv
  <1>2. CASE \/ DispatchBatch \/ DispatchAnswered \/ DispatchFailed \/ DispatchMarked
             \/ DispatchGivenUp
    <2>1. /\ TakeBatch \/ PostAnswered \/ PostFailed \/ MarkDelivered \/ GiveUp
          /\ UNCHANGED mailVars /\ Turns
      BY <1>2 DEF DispatchBatch, DispatchAnswered, DispatchFailed, DispatchMarked,
                  DispatchGivenUp, WebhookTurn, WebhookDone, ServiceInv
    <2>2. QED
      BY <1>0, <2>1, OutboxTypesSteps, MailInvStays DEF ServiceInv
  <1>3. CASE MailBegins
    <2>1. Begin(Loop, FALSE) /\ UNCHANGED outboxVars /\ UNCHANGED <<at, due, restarts>>
      BY <1>3 DEF MailBegins
    <2>2. MailInv'
      BY <1>0, <2>1, InvBegin
    <2>3. QED
      BY <1>0, <2>1, <2>2, OutboxTypesStay DEF ServiceInv
  <1>4. CASE MailGoesOn \/ MailStored \/ MailRefused \/ MailFailed
    <2>1. (SyncStep(Loop) \/ Fail(Loop)) /\ UNCHANGED outboxVars /\ Turns
      BY <1>4 DEF MailGoesOn, MailStored, MailRefused, MailFailed, MailEnds, SyncStep, ServiceInv
    <2>2. MailInv'
      BY <1>0, <2>1, MailInvGoesOn
    <2>3. QED
      BY <1>0, <2>1, <2>2, OutboxTypesStay DEF ServiceInv
  <1>5. CASE Restart \/ Die
    <2>1. PICK where \in {"scheduler", "dead"} : LoseTurn(where)
      BY <1>5 DEF Restart, Die
    <2>2. /\ sync' = [sync EXCEPT ![Loop] = Idle]
          /\ UNCHANGED <<boxVars, delivered, waived, position, resets, failures>>
          /\ LetGo /\ UNCHANGED <<boxRows, received>>
      BY <2>1 DEF LoseTurn
    <2>3. failures' \in 0..MaxFailures
      BY <1>0, <2>2 DEF MailInv, MailTypeOK
    <2>4. MailInv'
      BY <1>0, <2>2, <2>3, InvIdle
    <2>5. OutboxTypeOK'
      BY <1>0, <2>2, OutboxTypesSteps
    <2>6. Turns
      <3>1. restarts < MaxRestarts /\ restarts' = restarts + 1 /\ at' = where /\ due' = FALSE
        BY <2>1 DEF LoseTurn
      <3>2. restarts' \in 0..MaxRestarts
        BY <3>1, ServiceAssumption DEF ServiceInv
      <3>3. QED
        BY <3>1, <3>2
    <2>7. QED
      BY <2>4, <2>5, <2>6 DEF ServiceInv
  <1>6. CASE Beside
    <2>1. UNCHANGED <<at, due, restarts>>
      BY <1>6 DEF Beside
    <2>2. CASE Emit /\ UNCHANGED mailVars
      BY <1>0, <2>1, <2>2, OutboxTypesSteps, MailInvStays DEF ServiceInv
    <2>3. CASE (NewMail \/ Recreate \/ Reset(Loop)) /\ UNCHANGED outboxVars
      BY <1>0, <2>1, <2>3, OutboxTypesStay, InvMailbox, InvReset DEF ServiceInv
    <2>4. QED
      BY <1>6, <2>2, <2>3 DEF Beside
  <1>7. CASE UNCHANGED serviceVars
    <2>1. UNCHANGED outboxVars /\ UNCHANGED mailVars /\ UNCHANGED <<at, due, restarts>>
      BY <1>7 DEF serviceVars
    <2>2. QED
      BY <1>0, <2>1, OutboxTypesStay, MailInvStays DEF ServiceInv
  <1>8. QED
    BY <1>1, <1>2, <1>3, <1>4, <1>5, <1>6, <1>7 DEF ServiceNext, LoopStep

LEMMA ServiceInvSuffices ==
  ASSUME ServiceInv
  PROVE  ServiceTypeOK /\ NoMailLost
  BY InvImplies DEF ServiceInv, ServiceTypeOK, MailInv

\* A batch is no larger than it may be and holds events that were emitted,
\* an answer is kept only for a batch there is, and every turn of the loop
\* leaves the mailbox in order (background_loop, WebhookDispatcher).
THEOREM ServiceTypesCorrect == ServiceSpec => []ServiceTypeOK
  <1>1. QED
    BY ServiceInvBegins, ServiceInvSteps, ServiceInvSuffices, PTL DEF ServiceSpec

\* No message is passed over by the loop of the service, wherever the process
\* restarts and the loop dies (MailRuntime.tick).
THEOREM ServiceLosesNoMail == ServiceSpec => []NoMailLost
  <1>1. QED
    BY ServiceInvBegins, ServiceInvSteps, ServiceInvSuffices, PTL DEF ServiceSpec

-----------------------------------------------------------------------------
\* There are runtimes enough for the accounts of a file.
RuntimesOf == [Accounts -> (Runtimes \ {Command}) \cup {Nobody}]

LEMMA RegistryExists ==
  ASSUME NEW accounts \in SUBSET Accounts
  PROVE  Registry(accounts) \in RuntimesOf
  <1>1. PICK own \in [Accounts -> Runtimes \ {Command}] :
          \A a, b \in Accounts : own[a] = own[b] => a = b
    BY AccountsAssumption
  <1> DEFINE runtimes == [a \in Accounts |-> IF a \in accounts THEN own[a] ELSE Nobody]
  <1>2. runtimes \in RuntimesOf
    BY DEF RuntimesOf
  <1>3. InUse(runtimes) = accounts
    <2>1. \A a \in Accounts : own[a] \in Runtimes /\ own[a] # Nobody
      BY <1>1, AccountsAssumption
    <2>2. QED
      BY <2>1 DEF InUse
  <1>4. \A a, b \in accounts : runtimes[a] = runtimes[b] => a = b
    BY <1>1
  <1> HIDE DEF runtimes
  <1>5. QED
    BY <1>2, <1>3, <1>4 DEF Registry, RuntimesOf

Edits == [pc : {"done", "write"}, accounts : SUBSET Accounts]
RegistryTyped ==
  /\ listed \in RuntimesOf /\ saved \subseteq Accounts
  /\ edit \in [Editors \cup {Command} -> Edits]
  /\ edits \in 0..MaxEdits
AccountsInv == MailInv /\ RegistryTyped

LEMMA AccountsInvBegins ==
  ASSUME MailAccountsInit
  PROVE  AccountsInv
  <1>1. MailInv
    BY MailInvBegins DEF MailAccountsInit
  <1>2. listed \in RuntimesOf /\ saved \subseteq Accounts
    BY RegistryExists DEF MailAccountsInit
  <1>3. NoEdit \in Edits
    BY DEF NoEdit, Edits
  <1>4. RegistryTyped
    BY <1>2, <1>3, AccountsAssumption DEF MailAccountsInit, RegistryTyped
  <1>5. QED
    BY <1>1, <1>4 DEF AccountsInv

\* A change of the accounts begins with accounts there are.
LEMMA EditTyped ==
  ASSUME RegistryTyped, NEW e \in Editors \cup {Command}, NEW accounts \in SUBSET Accounts,
         BeginEdit(e, accounts), listed' \in RuntimesOf, UNCHANGED saved
  PROVE  RegistryTyped'
  <1>1. [pc |-> "write", accounts |-> accounts] \in Edits
    BY DEF Edits
  <1>2. edits' \in 0..MaxEdits
    BY AccountsAssumption DEF BeginEdit, RegistryTyped
  <1>3. QED
    BY <1>1, <1>2 DEF BeginEdit, RegistryTyped, RuntimesOf, Edits

LEMMA RegistryStays ==
  ASSUME RegistryTyped, UNCHANGED registryVars
  PROVE  RegistryTyped'
  BY DEF RegistryTyped, registryVars, RuntimesOf, Edits

LEMMA EditSteps ==
  ASSUME AccountsInv,
         \/ \E e \in Editors, a \in Accounts : Configure(e, a) \/ Delete(e, a)
         \/ \E a \in Accounts : SetUp(a)
         \/ \E e \in Editors \cup {Command} : WriteFile(e)
  PROVE  AccountsInv'
  <1>1. MailInv /\ RegistryTyped
    BY DEF AccountsInv
  <1>2. UNCHANGED mailVars
    BY DEF Configure, Delete, SetUp, WriteFile
  <1>3. MailInv'
    BY <1>1, <1>2, MailInvStays
  <1>4. ASSUME NEW e \in Editors, NEW runtimes \in RuntimesOf, EditListed(e, runtimes),
               UNCHANGED saved
        PROVE  RegistryTyped'
    <2>1. InUse(runtimes) \in SUBSET Accounts
      BY DEF InUse
    <2>2. QED
      BY <1>1, <1>4, <2>1, EditTyped DEF EditListed
  <1>5. ASSUME NEW e \in Editors, NEW a \in Accounts, Configure(e, a)
        PROVE  RegistryTyped'
    <2>1. listed \in RuntimesOf /\ UNCHANGED saved
      BY <1>1, <1>5 DEF Configure, RegistryTyped
    <2>2. CASE EditListed(e, listed)
      BY <1>4, <2>1, <2>2
    <2>3. CASE ~ EditListed(e, listed)
      <3> DEFINE r == CHOOSE x \in Fresh : TRUE
      <3>1. Fresh # {} /\ EditListed(e, [listed EXCEPT ![a] = r])
        BY <1>5, <2>3 DEF Configure
      <3>2. r \in Runtimes \ {Command}
        BY <3>1 DEF Fresh
      <3> HIDE DEF r
      <3>3. [listed EXCEPT ![a] = r] \in RuntimesOf
        BY <2>1, <3>2 DEF RuntimesOf
      <3>4. QED
        BY <1>4, <2>1, <3>1, <3>3
    <2>4. QED
      BY <2>2, <2>3
  <1>6. ASSUME NEW e \in Editors, NEW a \in Accounts, Delete(e, a)
        PROVE  RegistryTyped'
    <2>1. EditListed(e, [listed EXCEPT ![a] = Nobody]) /\ UNCHANGED saved
      BY <1>6 DEF Delete
    <2>2. [listed EXCEPT ![a] = Nobody] \in RuntimesOf
      BY <1>1 DEF RegistryTyped, RuntimesOf
    <2>3. QED
      BY <1>4, <2>1, <2>2
  <1>7. ASSUME NEW a \in Accounts, SetUp(a)
        PROVE  RegistryTyped'
    <2>1. BeginEdit(Command, saved \cup {a}) /\ UNCHANGED <<listed, saved>>
      BY <1>7 DEF SetUp
    <2>2. listed' \in RuntimesOf /\ saved \cup {a} \in SUBSET Accounts
      BY <1>1, <2>1 DEF RegistryTyped
    <2>3. QED
      BY <1>1, <2>1, <2>2, EditTyped
  <1>8. ASSUME NEW e \in Editors \cup {Command}, WriteFile(e)
        PROVE  RegistryTyped'
    <2>1. NoEdit \in Edits
      BY DEF NoEdit, Edits
    <2>2. QED
      BY <1>1, <1>8, <2>1 DEF WriteFile, RegistryTyped, RuntimesOf, Edits
  <1>9. QED
    BY <1>3, <1>5, <1>6, <1>7, <1>8 DEF AccountsInv

LEMMA StartSteps ==
  ASSUME AccountsInv, StartAnew
  PROVE  AccountsInv'
  <1>1. MailInv /\ RegistryTyped
    BY DEF AccountsInv
  <1>2. /\ failures < MaxFailures /\ failures' = failures + 1
        /\ sync' = [r \in Runtimes |-> IF r = Command THEN sync[r] ELSE Idle]
        /\ UNCHANGED <<validity, top, delivered, waived, position, resets, saved, edits>>
        /\ listed' = Registry(saved)
        /\ edit' = [e \in DOMAIN edit |-> IF e = Command THEN edit[e] ELSE NoEdit]
    BY DEF StartAnew, boxVars
  <1>3. MailTypeOK'
    <2>1. Idle \in Syncs
      BY MailAssumption DEF Idle, Syncs, NoPosition, Positions
    <2>2. failures' \in 0..MaxFailures
      BY <1>1, <1>2, MailAssumption DEF MailInv, MailTypeOK
    <2>3. sync' \in [Runtimes -> Syncs]
      BY <1>1, <1>2, <2>1 DEF MailInv, MailTypeOK
    <2>4. QED
      BY <1>1, <1>2, <2>2, <2>3 DEF MailInv, MailTypeOK, Syncs, Positions
  <1>4. ASSUME NEW q \in Runtimes
        PROVE  /\ Sound(sync[q].was)'
               /\ (sync[q].pc = "listed" => Accounted(q))'
    <2>1. CASE q # Command
      <3>1. sync'[q] = Idle
        BY <1>2, <2>1
      <3>2. QED
        BY <3>1 DEF Idle, NoPosition, Sound
    <2>2. CASE q = Command
      <3>1. sync'[q] = sync[q]
        BY <1>2, <2>2
      <3>2. QED
        BY <1>1, <1>2, <3>1 DEF MailInv, Sound, Covered, Accounted, First
    <2>3. QED
      BY <2>1, <2>2
  <1>5. Sound(position)'
    BY <1>1, <1>2 DEF MailInv, Sound, Covered
  <1>6. MailInv'
    BY <1>3, <1>4, <1>5 DEF MailInv
  <1>7. RegistryTyped'
    <2>1. listed' \in RuntimesOf
      BY <1>1, <1>2, RegistryExists DEF RegistryTyped
    <2>2. NoEdit \in Edits
      BY DEF NoEdit, Edits
    <2>3. QED
      BY <1>1, <1>2, <2>1, <2>2 DEF RegistryTyped, RuntimesOf, Edits
  <1>8. QED
    BY <1>6, <1>7 DEF AccountsInv

LEMMA AccountsInvSteps ==
  ASSUME AccountsInv, [MailAccountsNext]_accountsVars
  PROVE  AccountsInv'
  <1>1. MailInv /\ RegistryTyped
    BY DEF AccountsInv
  <1>2. CASE /\ \/ NewMail \/ Recreate
                \/ \E r \in Runtimes : SyncStep(r) \/ Fail(r)
             /\ UNCHANGED registryVars
    BY <1>1, <1>2, InvMailbox, MailInvGoesOn, RegistryStays DEF AccountsInv
  <1>3. CASE \/ \E a \in Accounts : AccountSync(a) \/ AccountReset(a)
             \/ CommandSync \/ CommandReset
    <2>1. \A a \in Accounts : listed[a] # Nobody => listed[a] \in Runtimes
      BY <1>1 DEF RegistryTyped, RuntimesOf
    <2>2. /\ \E r \in Runtimes : Reset(r) \/ \E backfill \in BOOLEAN : Begin(r, backfill)
          /\ UNCHANGED registryVars
      BY <1>3, <2>1, AccountsAssumption
         DEF AccountSync, AccountReset, CommandSync, CommandReset
    <2>3. MailInv'
      BY <1>1, <2>2, InvBegin, InvReset
    <2>4. QED
      BY <1>1, <2>2, <2>3, RegistryStays DEF AccountsInv
  <1>4. CASE UNCHANGED accountsVars
    <2>1. UNCHANGED mailVars /\ UNCHANGED registryVars
      BY <1>4 DEF accountsVars
    <2>2. QED
      BY <1>1, <2>1, MailInvStays, RegistryStays DEF AccountsInv
  <1>5. QED
    BY <1>2, <1>3, <1>4, EditSteps, StartSteps DEF MailAccountsNext

LEMMA AccountsInvSuffices ==
  ASSUME AccountsInv
  PROVE  MailAccountsTypeOK /\ NoMailLost
  BY InvImplies DEF AccountsInv, MailAccountsTypeOK, MailInv, RegistryTyped, RuntimesOf, Edits

\* The registry, the file and the positions of an account have values of their
\* kinds while people edit the accounts and the service starts anew
\* (MailRuntimeRegistry, create_app).
THEOREM AccountTypesCorrect == MailAccountsSpec => []MailAccountsTypeOK
  <1>1. AccountsInv => MailAccountsTypeOK
    BY AccountsInvSuffices
  <1>2. QED
    BY AccountsInvBegins, AccountsInvSteps, <1>1, PTL DEF MailAccountsSpec

\* However many runtimes, of accounts that come and go and of the command line,
\* sync one folder, none stores a position that passes over a message it has not
\* seen to (MailRuntimeRegistry, MailRuntime.sync_once).
THEOREM AccountsLoseNoMail == MailAccountsSpec => []NoMailLost
  <1>1. AccountsInv => NoMailLost
    BY AccountsInvSuffices
  <1>2. QED
    BY AccountsInvBegins, AccountsInvSteps, <1>1, PTL DEF MailAccountsSpec

-----------------------------------------------------------------------------
\* The types of staging: rows of a kind stay so when one is set, and whoever
\* extracts has a record in hand, which is what is committed.
RowsOf(f, keys, values) == DOMAIN f \subseteq keys /\ \A x \in DOMAIN f : f[x] \in values

RecordInHand ==
  /\ work = [w \in Extractors |-> work[w]]
  /\ \A w \in Extractors : work[w].pc = "extracting" => DOMAIN work[w].chunk # {}

StagingInv == StagingTypeOK /\ RecordInHand

LEMMA RowsSet ==
  ASSUME NEW f, NEW keys, NEW values, RowsOf(f, keys, values),
         NEW x \in keys, NEW v \in values
  PROVE  RowsOf(Set(f, x, v), keys, values)
  BY DEF RowsOf, Set

LEMMA StagingRows ==
  StagingTypeOK <=>
    /\ RowsOf(staged, Messages, BOOLEAN)
    /\ RowsOf(signals, Alerting, {"open", "acked"})
    /\ RowsOf(sources, Messages, {"active", "revoked"})
    /\ RowsOf(seen, Matters, 0..MaxTime)
    /\ \A w \in Extractors :
         /\ work[w].pc \in {"idle", "extracting"}
         /\ DOMAIN work[w].chunk \cup work[w].context \subseteq Messages
    /\ told \subseteq Matters \X (0..MaxTime)
    /\ clock \in 0..MaxTime
  BY DEF StagingTypeOK, RowsOf

LEMMA StagingInvBegins == StagingInit => StagingInv
  <1> SUFFICES ASSUME StagingInit PROVE StagingInv
    OBVIOUS
  <1>1. \A w \in Extractors : work[w] = NoWork
    BY DEF StagingInit
  <1>2. work = [w \in Extractors |-> work[w]]
    BY DEF StagingInit
  <1>3. clock \in 0..MaxTime
    BY StagingAssumption DEF StagingInit
  <1>4. DOMAIN Empty = {}
    BY DEF Empty
  <1>5. NoWork.pc = "idle" /\ NoWork.chunk = Empty /\ NoWork.context = {}
    BY DEF NoWork
  <1>6. StagingTypeOK
    BY <1>1, <1>3, <1>4, <1>5 DEF StagingInit, StagingTypeOK
  <1>7. QED
    BY <1>1, <1>2, <1>5, <1>6 DEF StagingInv, RecordInHand

LEMMA ObservedRows ==
  ASSUME NEW s, RowsOf(s, Messages, {"active", "revoked"}), NEW r \in Messages, NEW revoked
  PROVE  /\ RowsOf(Observed(s, r, revoked), Messages, {"active", "revoked"})
         /\ r \in DOMAIN Observed(s, r, revoked)
  <1>1. RowsOf(Set(s, r, IF revoked THEN "revoked" ELSE "active"), Messages,
             {"active", "revoked"})
    BY RowsSet
  <1>2. QED
    BY <1>1 DEF Observed, Set

LEMMA ObserveTypes ==
  ASSUME StagingInv, NEW w \in Extractors, Observe(w)
  PROVE  StagingInv'
  <1>1. PICK r \in Messages, revoked \in BOOLEAN :
          /\ staged' = Set(staged, r, revoked)
          /\ signals' = Detected(r)
          /\ work' = [work EXCEPT ![w] =
               [pc |-> "extracting", chunk |-> Set(Empty, r, revoked),
                context |-> IF revoked THEN {} ELSE ContextOf(r)]]
    BY DEF Observe
  <1> DEFINE held == [pc |-> "extracting", chunk |-> Set(Empty, r, revoked),
                      context |-> IF revoked THEN {} ELSE ContextOf(r)]
  <1>2. UNCHANGED <<sources, told, seen, clock>>
    BY DEF Observe
  <1>3. RowsOf(staged', Messages, BOOLEAN)
    BY <1>1, RowsSet, StagingRows DEF StagingInv
  <1>4. RowsOf(signals', Alerting, {"open", "acked"})
    BY <1>1, RowsSet, StagingRows DEF StagingInv, Detected
  <1>5. DOMAIN Set(Empty, r, revoked) = {r}
    BY DEF Set, Empty
  <1>6. ContextOf(r) \subseteq Messages
    BY DEF ContextOf, StagingInv, StagingTypeOK
  <1>7. /\ held.pc = "extracting" /\ DOMAIN held.chunk = {r}
        /\ held.context \subseteq Messages
    BY <1>5, <1>6
  <1> HIDE DEF held
  <1>8. /\ work' = [v \in Extractors |-> work'[v]]
        /\ \A v \in Extractors : work'[v] = IF v = w THEN held ELSE work[v]
    BY <1>1 DEF StagingInv, RecordInHand, held
  <1>9. \A v \in Extractors :
          /\ work'[v].pc \in {"idle", "extracting"}
          /\ DOMAIN work'[v].chunk \cup work'[v].context \subseteq Messages
          /\ work'[v].pc = "extracting" => DOMAIN work'[v].chunk # {}
    BY <1>7, <1>8 DEF StagingInv, RecordInHand, StagingTypeOK
  <1>10. StagingTypeOK'
    BY <1>2, <1>3, <1>4, <1>9, StagingRows DEF StagingInv, StagingTypeOK, RowsOf
  <1>11. QED
    BY <1>8, <1>9, <1>10 DEF StagingInv, RecordInHand

\* Nothing is in hand any more.
LEMMA HandsEmpty ==
  ASSUME StagingInv, NEW w \in Extractors, work' = [work EXCEPT ![w] = NoWork]
  PROVE  /\ RecordInHand'
         /\ \A v \in Extractors :
              /\ work'[v].pc \in {"idle", "extracting"}
              /\ DOMAIN work'[v].chunk \cup work'[v].context \subseteq Messages
  <1>1. /\ NoWork.pc = "idle" /\ DOMAIN NoWork.chunk = {} /\ NoWork.context = {}
    BY DEF NoWork, Empty
  <1>2. /\ work' = [v \in Extractors |-> work'[v]]
        /\ \A v \in Extractors : work'[v] = IF v = w THEN NoWork ELSE work[v]
    BY DEF StagingInv, RecordInHand
  <1>3. QED
    BY <1>1, <1>2 DEF StagingInv, RecordInHand, StagingTypeOK

LEMMA CommitTypes ==
  ASSUME StagingInv, NEW w \in Extractors, CommitExtraction(w)
  PROVE  StagingInv'
  <1> DEFINE r == CHOOSE x \in DOMAIN work[w].chunk : TRUE
             own == Observed(sources, r, work[w].chunk[r])
  <1>1. PICK cited \in SUBSET work[w].context, subjects \in {{}} \cup {{s} : s \in Matters} :
          /\ sources' = [x \in DOMAIN own \cup cited |->
               IF x \in cited THEN Observed(own, x, FALSE)[x] ELSE own[x]]
          /\ told' = told \cup (subjects \X {clock})
    BY DEF CommitExtraction
  <1>2. /\ work[w].pc = "extracting" /\ work' = [work EXCEPT ![w] = NoWork]
        /\ UNCHANGED <<staged, signals, seen, clock>>
    BY DEF CommitExtraction
  <1>3. r \in Messages
    BY <1>2 DEF StagingInv, RecordInHand, StagingTypeOK
  <1>4. RowsOf(own, Messages, {"active", "revoked"})
    BY <1>3, ObservedRows, StagingRows DEF StagingInv
  <1> HIDE DEF own
  <1>5. cited \subseteq Messages
    BY DEF StagingInv, StagingTypeOK
  <1>6. ASSUME NEW x \in DOMAIN own \cup cited
        PROVE  x \in Messages /\ sources'[x] \in {"active", "revoked"}
    <2>1. CASE x \in cited
      <3>1. /\ RowsOf(Observed(own, x, FALSE), Messages, {"active", "revoked"})
            /\ x \in DOMAIN Observed(own, x, FALSE)
        BY <1>4, <1>5, <2>1, ObservedRows
      <3>2. QED
        BY <1>1, <1>5, <2>1, <3>1 DEF RowsOf
    <2>2. CASE x \notin cited
      BY <1>1, <1>4, <2>2 DEF RowsOf
    <2>3. QED
      BY <2>1, <2>2
  <1>7. RowsOf(sources', Messages, {"active", "revoked"})
    BY <1>1, <1>6 DEF RowsOf
  <1>8. told' \subseteq Matters \X (0..MaxTime)
    <2>1. subjects \subseteq Matters
      BY <1>1
    <2>2. QED
      BY <1>1, <2>1 DEF StagingInv, StagingTypeOK
  <1>9. StagingTypeOK'
    BY <1>2, <1>7, <1>8, HandsEmpty DEF StagingInv, StagingTypeOK, RowsOf
  <1>10. QED
    BY <1>2, <1>9, HandsEmpty DEF StagingInv

LEMMA SeenTypes ==
  ASSUME StagingInv, SetSeen
  PROVE  StagingInv'
  <1>1. PICK s \in {x[1] : x \in told}, till \in 0..clock :
          seen' = Set(seen, s, NoEarlier(s, till))
    BY DEF SetSeen
  <1>2. UNCHANGED <<staged, signals, sources, work, told, clock>>
    BY DEF SetSeen
  <1>3. s \in Matters
    BY DEF StagingInv, StagingTypeOK
  <1>4. till \in 0..MaxTime
    BY StagingAssumption DEF StagingInv, StagingTypeOK
  <1>5. NoEarlier(s, till) \in 0..MaxTime
    BY <1>4 DEF NoEarlier, StagingInv, StagingTypeOK
  <1>6. RowsOf(seen', Matters, 0..MaxTime)
    BY <1>1, <1>3, <1>5, RowsSet, StagingRows DEF StagingInv
  <1>7. QED
    BY <1>2, <1>6 DEF StagingInv, StagingTypeOK, RecordInHand, RowsOf

LEMMA StagingInvSteps ==
  ASSUME StagingInv, [StagingNext]_stagingVars
  PROVE  StagingInv'
  <1>1. CASE Tick
    <2>1. clock' \in 0..MaxTime
      BY <1>1, StagingAssumption DEF Tick, StagingInv, StagingTypeOK
    <2>2. QED
      BY <1>1, <2>1 DEF Tick, StagingInv, StagingTypeOK, RecordInHand
  <1>2. CASE PurgeStaging
    BY <1>2 DEF PurgeStaging, StagingInv, StagingTypeOK, RecordInHand
  <1>3. CASE Acknowledge
    <2>1. PICK r \in DOMAIN signals : signals' = Set(signals, r, "acked")
      BY <1>3 DEF Acknowledge
    <2>2. RowsOf(signals', Alerting, {"open", "acked"})
      BY <2>1, RowsSet, StagingRows DEF StagingInv, StagingTypeOK
    <2>3. QED
      BY <1>3, <2>2 DEF Acknowledge, StagingInv, StagingTypeOK, RecordInHand, RowsOf
  <1>4. ASSUME NEW w \in Extractors, LoseExtraction(w) PROVE StagingInv'
    BY <1>4, HandsEmpty DEF LoseExtraction, StagingInv, StagingTypeOK
  <1>5. CASE UNCHANGED stagingVars
    BY <1>5 DEF stagingVars, StagingInv, StagingTypeOK, RecordInHand
  <1>6. QED
    BY <1>1, <1>2, <1>3, <1>4, <1>5, SeenTypes, ObserveTypes, CommitTypes DEF StagingNext

\* The rows of staging, signals, sources and watermarks, and what the
\* extractors hold, have values of their kinds (Store.stage_records,
\* Store.observe_source, Store.set_read_watermark).
THEOREM StagingTypesCorrect == StagingSpec => []StagingTypeOK
  <1>1. StagingInv => StagingTypeOK
    BY DEF StagingInv
  <1>2. QED
    BY StagingInvBegins, StagingInvSteps, <1>1, PTL DEF StagingSpec

-----------------------------------------------------------------------------
\* The types of the themes: what is accepted of a draft is a matter, and its
\* theme is one when anything is accepted; a pass holds drafts and a proposal
\* is a status with a wording.
Formed ==
  /\ pass \in [Passes -> [pc : {"idle", "named"}, drafts : SUBSET Drafts]]
  /\ \A r \in DOMAIN reviews :
       reviews[r] = [status |-> reviews[r].status, wording |-> reviews[r].wording]

ThemesInv == ThemesTypeOK /\ Formed

LEMMA ThemesInvBegins == ThemesInit => ThemesInv
  <1> SUFFICES ASSUME ThemesInit PROVE ThemesInv
    OBVIOUS
  <1>1. Roots \subseteq Keys
    BY DEF Keys
  <1>2. pass \in [Passes -> [pc : {"idle", "named"}, drafts : SUBSET Drafts]]
    BY DEF ThemesInit, NoPass
  <1>3. \A w \in Passes : pass[w].pc \in {"idle", "named"} /\ pass[w].drafts \subseteq Drafts
    BY <1>2
  <1>4. DOMAIN reviews = {} /\ people \in 0..MaxPeople
    BY ThemesAssumption DEF ThemesInit
  <1>5. parent \in [Keys -> matters \cup {NoParent}]
    BY DEF ThemesInit
  <1>6. ThemesTypeOK
    BY <1>1, <1>3, <1>4, <1>5 DEF ThemesInit, ThemesTypeOK
  <1>7. QED
    BY <1>2, <1>4, <1>6 DEF ThemesInv, Formed

LEMMA AcceptedMatters ==
  ASSUME ThemesInv, NEW d \in Drafts, Create(d)
  PROVE  /\ Accepted(d) \subseteq matters /\ matters \subseteq matters'
         /\ matters' \subseteq Keys
         /\ Accepted(d) # {} => d.parent \in matters'
  BY DEF ThemesInv, ThemesTypeOK, Accepted, Candidates, Create, Keys

\* A draft leaves the hand of a pass.
LEMMA FinishTypes ==
  ASSUME ThemesInv, NEW w \in Passes, NEW d, Finish(w, d)
  PROVE  pass' \in [Passes -> [pc : {"idle", "named"}, drafts : SUBSET Drafts]]
  <1> DEFINE rest == pass[w].drafts \ {d}
             Pass == [pc : {"idle", "named"}, drafts : SUBSET Drafts]
  <1>1. pass \in [Passes -> Pass]
    BY DEF ThemesInv, Formed
  <1>2. pass[w].drafts \subseteq Drafts
    BY <1>1
  <1>3. NoPass \in Pass
    BY DEF NoPass
  <1>4. [pass[w] EXCEPT !.drafts = rest] \in Pass
    BY <1>1, <1>2
  <1> DEFINE next == IF rest = {} THEN NoPass ELSE [pass[w] EXCEPT !.drafts = rest]
  <1>5. next \in Pass
    BY <1>3, <1>4
  <1>6. pass' = [pass EXCEPT ![w] = next]
    BY DEF Finish
  <1> HIDE DEF next, Pass
  <1>7. pass' \in [Passes -> Pass]
    BY <1>1, <1>5, <1>6
  <1>8. QED
    BY <1>7 DEF Pass

\* From the parts of what a step leaves.
LEMMA ThemesInvFrom ==
  ASSUME ThemesInv,
         matters \subseteq matters', matters' \subseteq Keys, completed' \subseteq matters',
         parent' \in [Keys -> matters' \cup {NoParent}],
         DOMAIN reviews' \subseteq matters' \X matters',
         \A r \in DOMAIN reviews' :
           /\ reviews'[r].status \in {"open", "dropped", "attached"}
           /\ reviews'[r] = [status |-> reviews'[r].status, wording |-> reviews'[r].wording],
         pass' \in [Passes -> [pc : {"idle", "named"}, drafts : SUBSET Drafts]],
         people' \in 0..MaxPeople
  PROVE  ThemesInv'
  <1>1. \A w \in Passes :
          pass'[w].pc \in {"idle", "named"} /\ pass'[w].drafts \subseteq Drafts
    OBVIOUS
  <1>2. ThemesTypeOK'
    BY <1>1 DEF ThemesInv, ThemesTypeOK
  <1>3. Formed'
    BY DEF Formed
  <1>4. QED
    BY <1>2, <1>3 DEF ThemesInv

LEMMA ReviewsTyped ==
  ASSUME ThemesInv
  PROVE  /\ DOMAIN reviews \subseteq matters \X matters
         /\ \A r \in DOMAIN reviews :
              /\ reviews[r].status \in {"open", "dropped", "attached"}
              /\ reviews[r] = [status |-> reviews[r].status, wording |-> reviews[r].wording]
  BY DEF ThemesInv, ThemesTypeOK, Formed

LEMMA ApplyTypes ==
  ASSUME ThemesInv, NEW w \in Passes, NEW d \in Drafts, ApplyEdges(w, d)
  PROVE  ThemesInv'
  <1>1. Create(d) /\ Finish(w, d) /\ UNCHANGED <<completed, reviews, people>>
    BY DEF ApplyEdges
  <1>2. PICK taken \in SUBSET Accepted(d) :
          parent' = [k \in Keys |-> IF k \in taken THEN d.parent ELSE parent[k]]
    BY DEF ApplyEdges
  <1>3. /\ Accepted(d) \subseteq matters /\ matters \subseteq matters'
        /\ matters' \subseteq Keys /\ (Accepted(d) # {} => d.parent \in matters')
    BY <1>1, AcceptedMatters
  <1>4. parent' \in [Keys -> matters' \cup {NoParent}]
    BY <1>2, <1>3 DEF ThemesInv, ThemesTypeOK
  <1>5. pass' \in [Passes -> [pc : {"idle", "named"}, drafts : SUBSET Drafts]]
    BY <1>1, FinishTypes
  <1>6. completed' \subseteq matters' /\ people' \in 0..MaxPeople
    BY <1>1, <1>3 DEF ThemesInv, ThemesTypeOK
  <1>7. /\ DOMAIN reviews' \subseteq matters' \X matters'
        /\ \A r \in DOMAIN reviews' :
             /\ reviews'[r].status \in {"open", "dropped", "attached"}
             /\ reviews'[r] = [status |-> reviews'[r].status, wording |-> reviews'[r].wording]
    BY <1>1, <1>3, ReviewsTyped
  <1>8. QED
    BY <1>3, <1>4, <1>5, <1>6, <1>7, ThemesInvFrom

LEMMA ProposeTypes ==
  ASSUME ThemesInv, NEW w \in Passes, NEW d \in Drafts, Propose(w, d)
  PROVE  ThemesInv'
  <1> DEFINE new == {<<m, d.parent>> : m \in Accepted(d)} \ DOMAIN reviews
             row == [status |-> "open", wording |-> d.wording]
  <1>1. /\ Create(d) /\ Finish(w, d) /\ UNCHANGED <<parent, completed, people>>
        /\ reviews' = [r \in DOMAIN reviews \cup new |-> IF r \in new THEN row ELSE reviews[r]]
    BY DEF Propose
  <1>2. /\ Accepted(d) \subseteq matters /\ matters \subseteq matters'
        /\ matters' \subseteq Keys /\ (Accepted(d) # {} => d.parent \in matters')
    BY <1>1, AcceptedMatters
  <1>3. new \subseteq matters' \X matters'
    BY <1>2
  <1>4. row = [status |-> row.status, wording |-> row.wording] /\ row.status = "open"
    OBVIOUS
  <1> HIDE DEF new, row
  <1>5. /\ DOMAIN reviews' \subseteq matters' \X matters'
        /\ \A r \in DOMAIN reviews' :
             /\ reviews'[r].status \in {"open", "dropped", "attached"}
             /\ reviews'[r] = [status |-> reviews'[r].status, wording |-> reviews'[r].wording]
    BY <1>1, <1>2, <1>3, <1>4, ReviewsTyped
  <1>6. pass' \in [Passes -> [pc : {"idle", "named"}, drafts : SUBSET Drafts]]
    BY <1>1, FinishTypes
  <1>7. /\ parent' \in [Keys -> matters' \cup {NoParent}]
        /\ completed' \subseteq matters' /\ people' \in 0..MaxPeople
    BY <1>1, <1>2 DEF ThemesInv, ThemesTypeOK
  <1>8. QED
    BY <1>2, <1>5, <1>6, <1>7, ThemesInvFrom

\* What a person decides.
LEMMA DecidedTypes ==
  ASSUME ThemesInv, PersonDecides
  PROVE  /\ matters \subseteq matters' /\ matters' \subseteq Keys
         /\ people' \in 0..MaxPeople
         /\ pass' \in [Passes -> [pc : {"idle", "named"}, drafts : SUBSET Drafts]]
  <1>1. people' \in 0..MaxPeople
    BY ThemesAssumption DEF ThemesInv, ThemesTypeOK, PersonDecides
  <1>2. QED
    BY <1>1 DEF ThemesInv, ThemesTypeOK, Formed, PersonDecides

LEMMA MarkTypes ==
  ASSUME ThemesInv, NEW r \in DOMAIN reviews, NEW status \in {"dropped", "attached"},
         Mark(r, status)
  PROVE  /\ DOMAIN reviews' \subseteq matters \X matters
         /\ \A q \in DOMAIN reviews' :
              /\ reviews'[q].status \in {"open", "dropped", "attached"}
              /\ reviews'[q] = [status |-> reviews'[q].status, wording |-> reviews'[q].wording]
  <1>1. reviews' = [reviews EXCEPT ![r] = [reviews[r] EXCEPT !.status = status]]
    BY DEF Mark
  <1>2. [reviews[r] EXCEPT !.status = status]
          = [status |-> status, wording |-> reviews[r].wording]
    <2>1. reviews[r] = [status |-> reviews[r].status, wording |-> reviews[r].wording]
      BY ReviewsTyped
    <2>2. QED
      BY <2>1
  <1>3. DOMAIN reviews' = DOMAIN reviews
    BY <1>1
  <1>4. ASSUME NEW q \in DOMAIN reviews
        PROVE  /\ reviews'[q].status \in {"open", "dropped", "attached"}
               /\ reviews'[q] = [status |-> reviews'[q].status,
                                 wording |-> reviews'[q].wording]
    <2>1. CASE q = r
      <3>1. reviews'[q] = [status |-> status, wording |-> reviews[r].wording]
        BY <1>1, <1>2, <2>1
      <3>2. QED
        BY <3>1
    <2>2. CASE q # r
      <3>1. reviews'[q] = reviews[q]
        BY <1>1, <2>2
      <3>2. QED
        BY <3>1, ReviewsTyped
    <2>3. QED
      BY <2>1, <2>2
  <1>5. QED
    BY <1>3, <1>4, ReviewsTyped

LEMMA PeopleTypes ==
  ASSUME ThemesInv,
         \/ \E r \in OpenProposals : DropTheme(r) \/ \E k \in matters : AcceptTheme(r, k)
         \/ \E m \in matters : Complete(m) \/ \E k \in matters \cup {NoParent} : Move(m, k)
  PROVE  ThemesInv'
  <1>1. PersonDecides
    BY DEF DropTheme, AcceptTheme, Complete, Move
  <1>2. matters' = matters
    BY <1>1 DEF PersonDecides
  <1>3. completed' \subseteq matters'
    BY <1>2 DEF DropTheme, AcceptTheme, Complete, Move, ThemesInv, ThemesTypeOK
  <1>4. parent' \in [Keys -> matters' \cup {NoParent}]
    BY <1>2 DEF DropTheme, AcceptTheme, Complete, Move, ThemesInv, ThemesTypeOK
  <1>5. /\ DOMAIN reviews' \subseteq matters' \X matters'
        /\ \A r \in DOMAIN reviews' :
             /\ reviews'[r].status \in {"open", "dropped", "attached"}
             /\ reviews'[r] = [status |-> reviews'[r].status, wording |-> reviews'[r].wording]
    <2>1. CASE \E r \in DOMAIN reviews, status \in {"dropped", "attached"} : Mark(r, status)
      BY <1>2, <2>1, MarkTypes
    <2>2. CASE reviews' = reviews
      BY <1>2, <2>2, ReviewsTyped
    <2>3. QED
      BY <2>1, <2>2 DEF DropTheme, AcceptTheme, Complete, Move, OpenProposals
  <1>6. QED
    BY <1>1, <1>3, <1>4, <1>5, DecidedTypes, ThemesInvFrom

LEMMA ThemesInvSteps ==
  ASSUME ThemesInv, [ThemesNext]_themeVars
  PROVE  ThemesInv'
  <1> DEFINE Pass == [pc : {"idle", "named"}, drafts : SUBSET Drafts]
  <1>1. pass \in [Passes -> Pass] /\ NoPass \in Pass
    BY DEF ThemesInv, Formed, NoPass
  <1>2. \A w \in Passes : pass[w].drafts \subseteq Drafts
    BY <1>1
  <1>3. ASSUME pass' \in [Passes -> Pass], UNCHANGED <<matters, parent, completed, reviews, people>>
        PROVE  ThemesInv'
    BY <1>3, ReviewsTyped, ThemesInvFrom DEF ThemesInv, ThemesTypeOK
  <1>4. ASSUME NEW w \in Passes, Snapshot(w) PROVE ThemesInv'
    <2>1. PICK S \in SUBSET {d \in Drafts : Nameable(d)} :
            pass' = [pass EXCEPT ![w] = [pc |-> "named", drafts |-> S]]
      BY <1>4 DEF Snapshot
    <2>2. [pc |-> "named", drafts |-> S] \in Pass
      BY <2>1
    <2> HIDE DEF Pass
    <2>3. pass' \in [Passes -> Pass]
      BY <1>1, <2>1, <2>2
    <2>4. QED
      BY <1>3, <1>4, <2>3 DEF Snapshot
  <1>5. ASSUME NEW w \in Passes, NEW d, Collide(w, d) PROVE ThemesInv'
    <2> HIDE DEF Pass
    <2>1. pass' \in [Passes -> Pass]
      BY <1>1, <1>5 DEF Collide
    <2>2. QED
      BY <1>3, <1>5, <2>1 DEF Collide
  <1>6. CASE UNCHANGED themeVars
    BY <1>1, <1>3, <1>6 DEF themeVars
  <1> HIDE DEF Pass
  <1>7. QED
    BY <1>2, <1>4, <1>5, <1>6, ApplyTypes, ProposeTypes, PeopleTypes DEF ThemesNext

\* The matters, their parents, the proposals and what the passes hold have
\* values of their kinds; a parent and both sides of a proposal are matters
\* that are there (theme convergence's _apply_proposal_locked).
THEOREM ThemeTypesCorrect == ThemesSpec => []ThemesTypeOK
  <1>1. ThemesInv => ThemesTypeOK
    BY DEF ThemesInv
  <1>2. QED
    BY ThemesInvBegins, ThemesInvSteps, <1>1, PTL DEF ThemesSpec

-----------------------------------------------------------------------------
\* A sequence is one of its own elements.
LEMMA OfElements ==
  ASSUME NEW S, NEW q \in Seq(S)
  PROVE  q \in Seq(Elements(q))
  <1>1. Len(q) \in Nat /\ q \in [1..Len(q) -> S] /\ DOMAIN q = 1..Len(q)
    BY LenProperties
  <1>2. \A i \in 1..Len(q) : q[i] \in Elements(q)
    BY DEF Elements
  <1>3. q \in [1..Len(q) -> Elements(q)]
    BY <1>1, <1>2
  <1>4. QED
    BY <1>1, <1>3

\* What the sequences of the sessions may become.
LEMMA Appended ==
  ASSUME NEW q, q \in Seq(Elements(q)), NEW x
  PROVE  LET r == Append(q, x)
         IN  /\ r \in Seq(Elements(r)) /\ r # <<>> /\ Len(r) = Len(q) + 1
             /\ \A i \in 1..Len(q) : r[i] = q[i]
             /\ r[Len(r)] = x
  <1> DEFINE S == Elements(q) \cup {x}
             r == Append(q, x)
  <1>1. q \in Seq(S)
    BY SeqMonotonic
  <1>2. /\ r \in Seq(S) /\ r # <<>> /\ Len(r) = Len(q) + 1
        /\ \A i \in 1..Len(q) : r[i] = q[i]
        /\ r[Len(q) + 1] = x
    BY <1>1, AppendProperties
  <1>3. r \in Seq(Elements(r))
    BY <1>2, OfElements
  <1>4. QED
    BY <1>2, <1>3

LEMMA Shortened ==
  ASSUME NEW q, q \in Seq(Elements(q)), NEW n \in 1..Len(q)
  PROVE  LET r == SubSeq(q, 1, n)
         IN  /\ r \in Seq(Elements(r)) /\ r # <<>> /\ Len(r) = n
             /\ \A i \in 1..n : r[i] = q[i]
  <1> DEFINE r == SubSeq(q, 1, n)
  <1>1. Len(q) \in Nat
    BY LenProperties
  <1>2. /\ r \in Seq(Elements(q)) /\ Len(r) = n
        /\ \A i \in 1..n : r[i] = q[i]
    BY <1>1, SubSeqProperties
  <1>3. r # <<>>
    BY <1>1, <1>2, EmptySeq
  <1>4. r \in Seq(Elements(r))
    BY <1>2, OfElements
  <1>5. QED
    BY <1>2, <1>3, <1>4

LEMMA One ==
  ASSUME NEW x
  PROVE  /\ <<x>> \in Seq(Elements(<<x>>)) /\ <<x>> # <<>>
         /\ Len(<<x>>) = 1 /\ <<x>>[1] = x
  BY DEF Elements

LEMMA Bare ==
  <<>> \in Seq(Elements(<<>>)) /\ Len(<<>>) = 0
  BY EmptySeq

-----------------------------------------------------------------------------
LEMMA InvBegins == SessionsInit => SessionsInv
  BY Bare DEF SessionsInit, SessionsInv

\* The ways a transaction ends leave nothing open.
LEMMA InvEnds ==
  ASSUME blocks' = <<>>, drafts' = <<>>, holder' = Nil
  PROVE  SessionsInv'
  BY Bare DEF SessionsInv, Elements

LEMMA InvOpens ==
  ASSUME SessionsInv, NEW s \in Threads, Nil \notin Threads, BeginTransaction(s)
  PROVE  SessionsInv'
  <1>1. /\ blocks' = <<[db |-> db, at |-> 1]>> /\ drafts' = <<db>>
        /\ holder' # Nil /\ db' = db
    BY DEF BeginTransaction
  <1>2. Len(blocks') = 1 /\ blocks'[1] = [db |-> db, at |-> 1]
    BY <1>1, One
  <1>3. Len(drafts') = 1 /\ drafts'[1] = db
    BY <1>1, One
  <1>4. blocks' \in Seq(Elements(blocks')) /\ blocks' # <<>>
    BY <1>1, One
  <1>5. drafts' \in Seq(Elements(drafts')) /\ drafts' # <<>>
    BY <1>1, One
  <1>6. QED
    BY <1>1, <1>2, <1>3, <1>4, <1>5 DEF SessionsInv, Elements

LEMMA InvNests ==
  ASSUME SessionsInv, NEW s \in Threads, Nil \notin Threads, Savepoint(s)
  PROVE  SessionsInv'
  <1> DEFINE b == [db |-> db, at |-> Len(drafts)]
  <1>1. /\ blocks' = Append(blocks, b) /\ UNCHANGED <<drafts, db, holder>>
        /\ holder # Nil
    BY DEF Savepoint
  <1>2. blocks # <<>> /\ drafts # <<>>
    BY <1>1 DEF SessionsInv
  <1>3. Len(drafts) \in Nat \ {0} /\ Len(blocks) \in Nat \ {0}
    BY <1>2, EmptySeq DEF SessionsInv
  <1>4. /\ blocks' \in Seq(Elements(blocks')) /\ blocks' # <<>>
        /\ Len(blocks') = Len(blocks) + 1
        /\ \A i \in 1..Len(blocks) : blocks'[i] = blocks[i]
        /\ blocks'[Len(blocks')] = b
    BY <1>1, Appended DEF SessionsInv
  <1>5. drafts[Len(drafts)] = db /\ blocks[1].at = 1
    BY <1>2 DEF SessionsInv
  <1>6. b.at = Len(drafts) /\ b.db = db
    OBVIOUS
  <1> HIDE DEF b
  <1>7. ASSUME NEW i \in 1..Len(blocks)
        PROVE  /\ blocks'[i].at \in 1..Len(drafts)
               /\ blocks'[i].db = drafts[blocks'[i].at]
               /\ \A j \in i..Len(blocks) : blocks'[i].at <= blocks'[j].at
               /\ blocks'[i].at <= Len(drafts)
    <2>1. /\ blocks[i].at \in 1..Len(drafts)
          /\ blocks[i].db = drafts[blocks[i].at]
          /\ \A j \in i..Len(blocks) : blocks[i].at <= blocks[j].at
      BY DEF SessionsInv
    <2>2. \A j \in i..Len(blocks) : blocks'[j] = blocks[j]
      BY <1>3, <1>4
    <2>3. QED
      BY <1>3, <1>4, <2>1, <2>2
  <1>8. \A i \in 1..Len(blocks') :
          /\ blocks'[i].at \in 1..Len(drafts)
          /\ blocks'[i].db = drafts[blocks'[i].at]
          /\ \A j \in i..Len(blocks') : blocks'[i].at <= blocks'[j].at
    <2> TAKE i \in 1..Len(blocks')
    <2>1. CASE i = Len(blocks')
      BY <2>1, <1>3, <1>4, <1>5, <1>6
    <2>2. CASE i # Len(blocks')
      <3>1. i \in 1..Len(blocks)
        BY <2>2, <1>3, <1>4
      <3>2. ASSUME NEW j \in i..Len(blocks')
            PROVE  blocks'[i].at <= blocks'[j].at
        BY <3>1, <1>3, <1>4, <1>6, <1>7
      <3>3. QED
        BY <3>1, <3>2, <1>7
    <2>3. QED
      BY <2>1, <2>2
  <1>9. blocks'[1].at = 1
    BY <1>3, <1>4, <1>5
  <1>10. QED
    BY <1>1, <1>2, <1>4, <1>5, <1>8, <1>9 DEF SessionsInv, Elements

LEMMA InvCalls ==
  ASSUME SessionsInv, NEW s \in Threads, Nil \notin Threads, CallWithin(s)
  PROVE  SessionsInv'
  <1>1. /\ drafts' = Append(drafts, db') /\ UNCHANGED <<blocks, holder>>
        /\ holder # Nil
    BY DEF CallWithin
  <1>2. blocks # <<>> /\ drafts # <<>>
    BY <1>1 DEF SessionsInv
  <1>3. Len(drafts) \in Nat \ {0}
    BY <1>2, EmptySeq DEF SessionsInv
  <1>4. /\ drafts' \in Seq(Elements(drafts')) /\ drafts' # <<>>
        /\ Len(drafts') = Len(drafts) + 1
        /\ \A i \in 1..Len(drafts) : drafts'[i] = drafts[i]
        /\ drafts'[Len(drafts')] = db'
    BY <1>1, Appended DEF SessionsInv
  <1>5. \A i \in 1..Len(blocks) :
          /\ blocks[i].at \in 1..Len(drafts')
          /\ blocks[i].db = drafts'[blocks[i].at]
          /\ \A j \in i..Len(blocks) : blocks[i].at <= blocks[j].at
    BY <1>3, <1>4 DEF SessionsInv
  <1>6. QED
    BY <1>1, <1>2, <1>4, <1>5 DEF SessionsInv, Elements

\* Taking the innermost of several blocks away.
LEMMA Unnested ==
  ASSUME SessionsInv, NEW s \in Threads, Nil \notin Threads,
         holder = s, ~ Outermost, blocks' = Around
  PROVE  /\ Len(blocks) \in Nat /\ Len(blocks) > 1
         /\ blocks' \in Seq(Elements(blocks')) /\ blocks' # <<>>
         /\ Len(blocks') = Len(blocks) - 1
         /\ \A i \in 1..Len(blocks') : blocks'[i] = blocks[i]
  <1>1. blocks # <<>>
    BY DEF SessionsInv
  <1>2. Len(blocks) \in Nat \ {0} /\ Len(blocks) # 1
    BY <1>1, EmptySeq DEF SessionsInv, Outermost
  <1> DEFINE n == Len(blocks)
  <1>3. n \in Nat /\ n > 1 /\ n - 1 \in 1..n
    <2> HIDE DEF n
    <2>1. n \in Nat \ {0} /\ n # 1
      BY <1>2 DEF n
    <2>2. QED
      BY <2>1
  <1>4. blocks \in Seq(Elements(blocks))
    BY DEF SessionsInv
  <1>5. blocks' = SubSeq(blocks, 1, n - 1)
    BY DEF Around
  <1>6. /\ blocks' \in Seq(Elements(blocks')) /\ blocks' # <<>>
        /\ Len(blocks') = n - 1
        /\ \A i \in 1..(n - 1) : blocks'[i] = blocks[i]
    BY <1>3, <1>4, <1>5, Shortened
  <1>7. QED
    BY <1>3, <1>6

LEMMA InvReleases ==
  ASSUME SessionsInv, NEW s \in Threads, Nil \notin Threads, Release(s)
  PROVE  SessionsInv'
  <1>1. blocks' = Around /\ holder = s /\ ~ Outermost /\ UNCHANGED <<db, drafts, holder>>
    BY DEF Release
  <1>2. /\ Len(blocks) \in Nat /\ Len(blocks) > 1
        /\ blocks' \in Seq(Elements(blocks')) /\ blocks' # <<>>
        /\ Len(blocks') = Len(blocks) - 1
        /\ \A i \in 1..Len(blocks') : blocks'[i] = blocks[i]
    BY <1>1, Unnested
  <1>3. \A i \in 1..Len(blocks') :
          /\ blocks'[i].at \in 1..Len(drafts)
          /\ blocks'[i].db = drafts[blocks'[i].at]
          /\ \A j \in i..Len(blocks') : blocks'[i].at <= blocks'[j].at
    BY <1>2 DEF SessionsInv
  <1>4. blocks # <<>> /\ drafts # <<>>
    BY <1>1 DEF SessionsInv
  <1>5. drafts[Len(drafts)] = db /\ blocks'[1].at = 1
    BY <1>2, <1>4 DEF SessionsInv
  <1>6. QED
    BY <1>1, <1>2, <1>3, <1>4, <1>5 DEF SessionsInv, Elements

LEMMA InvPutsBack ==
  ASSUME SessionsInv, NEW s \in Threads, Nil \notin Threads, RollbackTo(s)
  PROVE  SessionsInv'
  <1> DEFINE n == Innermost.at
  <1>1. /\ blocks' = Around /\ holder = s /\ ~ Outermost /\ UNCHANGED holder
        /\ db' = Innermost.db /\ drafts' = SubSeq(drafts, 1, n)
    BY DEF RollbackTo, PutBack
  <1>2. /\ Len(blocks) \in Nat /\ Len(blocks) > 1
        /\ blocks' \in Seq(Elements(blocks')) /\ blocks' # <<>>
        /\ Len(blocks') = Len(blocks) - 1
        /\ \A i \in 1..Len(blocks') : blocks'[i] = blocks[i]
    BY <1>1, Unnested
  <1>3. /\ n \in 1..Len(drafts) /\ Innermost.db = drafts[n]
        /\ \A i \in 1..Len(blocks) : blocks[i].at <= n
    BY <1>2 DEF SessionsInv, Innermost
  <1>4. Len(drafts) \in Nat
    BY LenProperties DEF SessionsInv
  <1>5. /\ drafts' \in Seq(Elements(drafts')) /\ drafts' # <<>> /\ Len(drafts') = n
        /\ \A i \in 1..n : drafts'[i] = drafts[i]
    BY <1>1, <1>3, Shortened DEF SessionsInv
  <1>6. drafts'[Len(drafts')] = db'
    BY <1>1, <1>3, <1>4, <1>5
  <1> HIDE DEF n
  <1>7. \A i \in 1..Len(blocks') :
          /\ blocks'[i].at \in 1..Len(drafts')
          /\ blocks'[i].db = drafts'[blocks'[i].at]
          /\ \A j \in i..Len(blocks') : blocks'[i].at <= blocks'[j].at
    <2> TAKE i \in 1..Len(blocks')
    <2>1. i \in 1..Len(blocks) /\ blocks'[i] = blocks[i]
      BY <1>2
    <2>2. /\ blocks[i].at \in 1..Len(drafts) /\ blocks[i].db = drafts[blocks[i].at]
          /\ \A j \in i..Len(blocks) : blocks[i].at <= blocks[j].at
      BY <2>1 DEF SessionsInv
    <2>3. blocks[i].at \in 1..n
      BY <1>3, <1>4, <2>1, <2>2
    <2>4. \A j \in i..Len(blocks') : blocks'[i].at <= blocks'[j].at
      BY <1>2, <2>1, <2>2
    <2>5. QED
      BY <1>5, <2>1, <2>2, <2>3, <2>4
  <1>8. blocks'[1].at = 1
    BY <1>1, <1>2 DEF SessionsInv
  <1>9. holder # Nil
    BY <1>1
  <1>10. QED
    BY <1>1, <1>2, <1>5, <1>6, <1>7, <1>8, <1>9 DEF SessionsInv, Elements

LEMMA InvSteps ==
  ASSUME Nil \notin Threads, SessionsInv, [SessionsNext]_sessionVars
  PROVE  SessionsInv'
  <1>1. ASSUME NEW s \in Threads, BeginTransaction(s) PROVE SessionsInv'
    BY <1>1, InvOpens
  <1>2. ASSUME NEW s \in Threads, Savepoint(s) PROVE SessionsInv'
    BY <1>2, InvNests
  <1>3. ASSUME NEW s \in Threads, CallWithin(s) PROVE SessionsInv'
    BY <1>3, InvCalls
  <1>4. ASSUME NEW s \in Threads, RaiseWithin(s) PROVE SessionsInv'
    BY <1>4 DEF RaiseWithin, SessionsInv, Elements
  <1>5. ASSUME NEW s \in Threads, Rollback(s) PROVE SessionsInv'
    BY <1>5, InvEnds DEF Rollback
  <1>6. ASSUME NEW s \in Threads, RollbackTo(s) PROVE SessionsInv'
    BY <1>6, InvPutsBack
  <1>7. ASSUME NEW s \in Threads, Release(s) PROVE SessionsInv'
    BY <1>7, InvReleases
  <1>8. ASSUME NEW s \in Threads, Commit(s) PROVE SessionsInv'
    BY <1>8, InvEnds DEF Commit
  <1>9. ASSUME CallAlone PROVE SessionsInv'
    <2>1. UNCHANGED <<blocks, holder, drafts>> /\ blocks = <<>>
      BY <1>9 DEF CallAlone, SessionsInv
    <2>2. QED
      BY <2>1, Bare DEF SessionsInv, Elements
  <1>10. ASSUME Stop PROVE SessionsInv'
    BY <1>10, InvEnds DEF Stop
  <1>11. ASSUME UNCHANGED sessionVars PROVE SessionsInv'
    BY <1>11 DEF sessionVars, SessionsInv, Elements
  <1>12. QED
    BY <1>1, <1>2, <1>3, <1>4, <1>5, <1>6, <1>7, <1>8, <1>9, <1>10, <1>11
       DEF SessionsNext

\* The open blocks and the drafts of a store agree at all times, however its
\* transactions nest, fail and are caught (SQLiteStore.transaction).
THEOREM BlocksMatchDrafts == SessionsSpec => []SessionsInv
  <1>1. SessionsInv /\ [SessionsNext]_sessionVars => SessionsInv'
    BY InvSteps, SessionsAssumption
  <1>2. QED
    BY InvBegins, <1>1, PTL DEF SessionsSpec

-----------------------------------------------------------------------------
\* Each step of the sessions is one of AtomicStore, or none at all.
LEMMA OpenBlock ==
  ASSUME SessionsInv, holder # Nil
  PROVE  /\ blocks # <<>> /\ drafts # <<>> /\ Len(blocks) \in Nat \ {0}
         /\ Len(drafts) \in Nat \ {0} /\ drafts[Len(drafts)] = db
         /\ Committed = blocks[1].db /\ drafts[1] = blocks[1].db
  <1>1. blocks # <<>> /\ drafts # <<>>
    BY DEF SessionsInv
  <1>2. Len(blocks) \in Nat \ {0} /\ Len(drafts) \in Nat \ {0}
    BY <1>1, EmptySeq DEF SessionsInv
  <1>3. 1 \in 1..Len(blocks)
    BY <1>2
  <1>4. QED
    BY <1>1, <1>2, <1>3 DEF SessionsInv, Committed

LEMMA StepOpens ==
  ASSUME SessionsInv, NEW s \in Threads, BeginTransaction(s)
  PROVE  Atomic!Open
  <1>1. blocks = <<>> /\ drafts = <<>>
    BY DEF BeginTransaction, SessionsInv
  <1>2. blocks' # <<>> /\ blocks'[1].db = db
    BY One DEF BeginTransaction
  <1>3. Committed = db /\ Committed' = db
    BY <1>1, <1>2 DEF Committed
  <1>4. QED
    BY <1>1, <1>3 DEF BeginTransaction, Atomic!Open

LEMMA StepAsks ==
  ASSUME SessionsInv, NEW s \in Threads, Nil \notin Threads, CallWithin(s)
  PROVE  Atomic!Ask
  <1>1. holder # Nil /\ blocks' = blocks
    BY DEF CallWithin
  <1>2. drafts # <<>> /\ drafts[Len(drafts)] = db /\ blocks # <<>>
    BY <1>1, OpenBlock
  <1>3. PICK c \in Callable :
          Effect(db, c).ok /\ drafts' = Append(drafts, Effect(db, c).db)
    BY DEF CallWithin
  <1>4. c \in Calls
    BY DEF Callable, CallsOf
  <1>5. Len(drafts') = Len(drafts) + 1
    BY <1>3, Appended DEF SessionsInv
  <1>6. Committed' = Committed
    BY <1>1, <1>2 DEF Committed
  <1>7. QED
    BY <1>2, <1>3, <1>4, <1>5, <1>6 DEF Atomic!Ask, Atomic!Latest

LEMMA StepAbandons ==
  ASSUME SessionsInv, \/ Stop
                      \/ \E s \in Threads : Rollback(s), Nil \notin Threads
  PROVE  Atomic!Abandon
  <1>1. CASE Stop
    BY <1>1 DEF Stop, Committed, Atomic!Abandon
  <1>2. CASE \E s \in Threads : Rollback(s)
    <2>1. /\ holder # Nil /\ Len(blocks) = 1
          /\ db' = PutBack /\ blocks' = <<>> /\ drafts' = <<>>
      BY <1>2 DEF Rollback, Outermost
    <2>2. Committed = blocks[1].db
      BY <2>1, OpenBlock
    <2>3. QED
      BY <2>1, <2>2 DEF PutBack, Innermost, Committed, Atomic!Abandon
  <1>3. QED
    BY <1>1, <1>2

LEMMA StepGivesUp ==
  ASSUME SessionsInv, NEW s \in Threads, Nil \notin Threads, RollbackTo(s)
  PROVE  Atomic!GiveUpPart
  <1>1. /\ holder = s /\ ~ Outermost /\ blocks' = Around
        /\ drafts' = SubSeq(drafts, 1, Innermost.at)
    BY DEF RollbackTo
  <1>2. /\ Len(blocks) \in Nat /\ Len(blocks) > 1 /\ blocks' # <<>>
        /\ Len(blocks') = Len(blocks) - 1
        /\ \A i \in 1..Len(blocks') : blocks'[i] = blocks[i]
    BY <1>1, Unnested
  <1>3. Innermost.at \in 1..Len(drafts)
    BY <1>2 DEF SessionsInv, Innermost
  <1>4. blocks # <<>> /\ blocks'[1] = blocks[1]
    BY <1>1, <1>2 DEF SessionsInv
  <1>5. Committed' = Committed
    BY <1>2, <1>4 DEF Committed
  <1>6. QED
    BY <1>1, <1>3, <1>5 DEF Atomic!GiveUpPart

LEMMA StepCommits ==
  ASSUME SessionsInv, NEW s \in Threads, Nil \notin Threads, Commit(s)
  PROVE  Atomic!Commit
  <1>1. holder # Nil /\ blocks' = <<>> /\ drafts' = <<>> /\ db' = db
    BY DEF Commit
  <1>2. drafts # <<>> /\ drafts[1] = Committed /\ drafts[Len(drafts)] = db
    BY <1>1, OpenBlock
  <1>3. Committed' = db
    BY <1>1 DEF Committed
  <1>4. QED
    BY <1>1, <1>2, <1>3 DEF Atomic!Commit, Atomic!Latest

LEMMA StepAlone ==
  ASSUME SessionsInv, CallAlone
  PROVE  Atomic!Alone \/ UNCHANGED Atomic!storeVars
  <1>1. blocks = <<>> /\ UNCHANGED <<blocks, drafts>>
    BY DEF CallAlone, SessionsInv
  <1>2. Committed = db /\ Committed' = db'
    BY <1>1 DEF Committed
  <1>3. PICK c \in Callable : Effect(db, c).ok /\ db' = Effect(db, c).db
    BY DEF CallAlone
  <1>4. c \in Calls
    BY DEF Callable, CallsOf
  <1>5. QED
    BY <1>1, <1>2, <1>3, <1>4 DEF Atomic!Alone, Atomic!storeVars

LEMMA StepIsNone ==
  ASSUME SessionsInv, Nil \notin Threads,
         \/ \E s \in Threads : Savepoint(s) \/ RaiseWithin(s) \/ Release(s)
         \/ UNCHANGED sessionVars
  PROVE  UNCHANGED Atomic!storeVars
  <1>1. ASSUME NEW s \in Threads, Savepoint(s) PROVE Committed' = Committed /\ drafts' = drafts
    <2> DEFINE b == [db |-> db, at |-> Len(drafts)]
    <2>1. holder # Nil /\ blocks' = Append(blocks, b) /\ drafts' = drafts
      BY <1>1 DEF Savepoint
    <2>2. blocks # <<>> /\ Len(blocks) \in Nat \ {0}
      BY <2>1, OpenBlock
    <2>3. blocks' # <<>> /\ \A i \in 1..Len(blocks) : blocks'[i] = blocks[i]
      BY <2>1, Appended DEF SessionsInv
    <2>4. QED
      BY <2>1, <2>2, <2>3 DEF Committed
  <1>2. ASSUME NEW s \in Threads, RaiseWithin(s)
        PROVE  Committed' = Committed /\ drafts' = drafts
    BY <1>2 DEF RaiseWithin, Committed
  <1>3. ASSUME NEW s \in Threads, Release(s) PROVE Committed' = Committed /\ drafts' = drafts
    <2>1. holder = s /\ ~ Outermost /\ blocks' = Around /\ drafts' = drafts
      BY <1>3 DEF Release
    <2>2. /\ Len(blocks) \in Nat /\ Len(blocks) > 1 /\ blocks' # <<>>
          /\ Len(blocks') = Len(blocks) - 1
          /\ \A i \in 1..Len(blocks') : blocks'[i] = blocks[i]
      BY <2>1, Unnested
    <2>3. blocks # <<>>
      BY <2>1 DEF SessionsInv
    <2>4. QED
      BY <2>1, <2>2, <2>3 DEF Committed
  <1>4. ASSUME UNCHANGED sessionVars PROVE Committed' = Committed /\ drafts' = drafts
    BY <1>4 DEF sessionVars, Committed
  <1>5. QED
    BY <1>1, <1>2, <1>3, <1>4 DEF Atomic!storeVars

\* Transactions are atomic and alone: what is committed is what the standing
\* calls of one transaction after another make of it (SQLiteStore.transaction,
\* thread_safe_store).
THEOREM SessionsImplementAtomicStore == SessionsSpec => TransactionsAreAtomic
  <1>1. SessionsInit => Atomic!AtomicInit
    BY DEF SessionsInit, Atomic!AtomicInit
  <1>2. ASSUME SessionsInv, [SessionsNext]_sessionVars
        PROVE  [Atomic!AtomicNext]_(Atomic!storeVars)
    BY <1>2, SessionsAssumption, StepOpens, StepAsks, StepAbandons, StepGivesUp,
       StepCommits, StepAlone, StepIsNone
       DEF SessionsNext, Atomic!AtomicNext
  <1>3. QED
    BY <1>1, <1>2, BlocksMatchDrafts, PTL
       DEF SessionsSpec, TransactionsAreAtomic, Atomic!AtomicSpec

-----------------------------------------------------------------------------
\* The types of the sessions: whatever a function of a store writes, every
\* table has its row, so the rows of every draft do, and with them those a
\* block puts back.
Whole(rows) == DOMAIN rows = Tables

SessionsHeld ==
  /\ SessionsTypeOK /\ SessionsInv
  /\ \A i \in 1..Len(drafts) : Whole(drafts[i])

\* A row is written, the rows stay, or all are cleared.
Keeping(e) == Whole(e.db)

LEMMA WritesKeep ==
  ASSUME NEW rows, Whole(rows)
  PROVE  /\ \A t, row : Keeping(Write(rows, t, row))
         /\ Keeping(Done(rows)) /\ Keeping(Raise(rows)) /\ Keeping(ClearScope(rows))
  BY DEF Whole, Keeping, Write, Done, Raise, ClearScope, EmptyStore

LEMMA FunctionsKeep ==
  ASSUME NEW rows, Whole(rows), NEW x, NEW y
  PROVE  /\ Keeping(MarkCard(rows)) /\ Keeping(MarkRecordObservation(rows))
         /\ Keeping(StageRecords(rows, x)) /\ Keeping(PurgeStagedRecords(rows))
         /\ Keeping(AddSignal(rows)) /\ Keeping(AcknowledgeSignal(rows))
         /\ Keeping(SetReadWatermark(rows, x)) /\ Keeping(ObserveSource(rows, x, y))
         /\ Keeping(PutSourceState(rows, x, y)) /\ Keeping(UpdateSyncPosition(rows, x, y))
         /\ Keeping(UpdateMailSyncPosition(rows, x, y)) /\ Keeping(DeleteSyncPosition(rows))
         /\ Keeping(SaveMailRuntimeReport(rows, x)) /\ Keeping(UpsertNames(rows, x, y))
         /\ Keeping(UpsertSubject(rows, x, y)) /\ Keeping(AddSubjectHandle(rows, x))
         /\ Keeping(RevokeSubjectHandle(rows)) /\ Keeping(AddSubjectMerge(rows))
         /\ Keeping(RemoveSubjectMerge(rows)) /\ Keeping(AddAssertion(rows, x))
         /\ Keeping(ReplaceProjection(rows, x)) /\ Keeping(EnqueueDistill(rows))
         /\ Keeping(RemoveDistillItem(rows)) /\ Keeping(FailDistillItem(rows))
         /\ Keeping(AddReviewItem(rows, x)) /\ Keeping(ResolveReviewItem(rows))
         /\ Keeping(AddCorrectionCapture(rows)) /\ Keeping(ResolveCorrectionCapture(rows, x))
         /\ Keeping(RecordGateReport(rows)) /\ Keeping(CreateTask(rows))
         /\ Keeping(UpdateTask(rows, x)) /\ Keeping(SetThemeScheduleState(rows, x, y))
         /\ Keeping(AddEvent(rows, x)) /\ Keeping(MarkWebhookDelivered(rows))
  <1>1. /\ \A t, row : Keeping(Write(rows, t, row))
        /\ Keeping(Done(rows)) /\ Keeping(Raise(rows))
    BY WritesKeep
  <1>2. /\ \A t, row : Keeping(Insert(rows, t, row))
        /\ \A t, row : Keeping(InsertOrIgnore(rows, t, row))
        /\ \A t, row : Keeping(InsertSame(rows, t, row))
        /\ \A t, from, to : Keeping(Resolve(rows, t, from, to))
    BY <1>1 DEF Insert, InsertOrIgnore, InsertSame, Resolve
  <1>3. /\ Keeping(MarkCard(rows)) /\ Keeping(MarkRecordObservation(rows))
        /\ Keeping(StageRecords(rows, x)) /\ Keeping(PurgeStagedRecords(rows))
        /\ Keeping(AddSignal(rows)) /\ Keeping(AcknowledgeSignal(rows))
        /\ Keeping(SetReadWatermark(rows, x)) /\ Keeping(ObserveSource(rows, x, y))
        /\ Keeping(PutSourceState(rows, x, y)) /\ Keeping(UpdateSyncPosition(rows, x, y))
    BY <1>1, <1>2, Zenon
       DEF MarkCard, MarkRecordObservation, StageRecords, PurgeStagedRecords, AddSignal,
           AcknowledgeSignal, SetReadWatermark, ObserveSource, PutSourceState,
           UpdateSyncPosition
  <1>4. /\ Keeping(UpdateMailSyncPosition(rows, x, y)) /\ Keeping(DeleteSyncPosition(rows))
        /\ Keeping(SaveMailRuntimeReport(rows, x)) /\ Keeping(UpsertNames(rows, x, y))
        /\ Keeping(UpsertSubject(rows, x, y)) /\ Keeping(RevokeSubjectHandle(rows))
        /\ Keeping(AddSubjectMerge(rows)) /\ Keeping(RemoveSubjectMerge(rows))
        /\ Keeping(AddAssertion(rows, x)) /\ Keeping(ReplaceProjection(rows, x))
    BY <1>1, <1>2, Zenon
       DEF UpdateMailSyncPosition, DeleteSyncPosition, SaveMailRuntimeReport, UpsertNames,
           UpsertSubject, RevokeSubjectHandle, AddSubjectMerge, RemoveSubjectMerge,
           AddAssertion, ReplaceProjection
  <1>5. Keeping(AddSubjectHandle(rows, x))
    BY <1>1 DEF AddSubjectHandle
  <1>6. /\ Keeping(EnqueueDistill(rows)) /\ Keeping(RemoveDistillItem(rows))
        /\ Keeping(FailDistillItem(rows)) /\ Keeping(AddReviewItem(rows, x))
        /\ Keeping(ResolveReviewItem(rows)) /\ Keeping(AddCorrectionCapture(rows))
        /\ Keeping(ResolveCorrectionCapture(rows, x)) /\ Keeping(RecordGateReport(rows))
        /\ Keeping(CreateTask(rows)) /\ Keeping(UpdateTask(rows, x))
        /\ Keeping(SetThemeScheduleState(rows, x, y)) /\ Keeping(AddEvent(rows, x))
        /\ Keeping(MarkWebhookDelivered(rows))
    BY <1>1, <1>2, Zenon
       DEF EnqueueDistill, RemoveDistillItem, FailDistillItem, AddReviewItem,
           ResolveReviewItem, AddCorrectionCapture, ResolveCorrectionCapture,
           RecordGateReport, CreateTask, UpdateTask, SetThemeScheduleState, AddEvent,
           MarkWebhookDelivered
  <1>7. QED
    BY <1>3, <1>4, <1>5, <1>6

LEMMA CallsKeep ==
  ASSUME NEW rows, Whole(rows), NEW c \in Calls
  PROVE  Whole(Effect(rows, c).db)
  <1>1. Keeping(ClearScope(rows))
    BY WritesKeep
  <1>2. Keeping(Effect(rows, c))
    BY <1>1, FunctionsKeep DEF Effect, Calls
  <1>3. QED
    BY <1>2 DEF Keeping

LEMMA SessionsHeldBegins == SessionsInit => SessionsHeld
  <1> SUFFICES ASSUME SessionsInit PROVE SessionsHeld
    OBVIOUS
  <1>1. DOMAIN db = Tables
    BY DEF SessionsInit, EmptyStore, UsedStore
  <1>2. Len(blocks) = 0 /\ Len(drafts) = 0
    BY Bare DEF SessionsInit
  <1>3. SessionsTypeOK
    <2>1. Len(blocks) <= MaxNesting /\ Len(drafts) <= MaxCalls + 1
      BY <1>2, SessionsAssumption
    <2>2. QED
      BY <1>1, <2>1 DEF SessionsInit, SessionsTypeOK
  <1>4. QED
    BY <1>2, <1>3, InvBegins DEF SessionsHeld

\* What every block of a transaction puts back is whole.
LEMMA HeldBlocks ==
  ASSUME SessionsHeld
  PROVE  /\ Whole(db) /\ Len(blocks) \in Nat /\ Len(drafts) \in Nat
         /\ \A i \in 1..Len(blocks) : Whole(blocks[i].db)
         /\ blocks # <<>> => Whole(PutBack) /\ Whole(Committed)
  <1>1. Whole(db)
    BY DEF SessionsHeld, SessionsTypeOK, Whole
  <1>2. Len(blocks) \in Nat /\ Len(drafts) \in Nat
    BY LenProperties DEF SessionsHeld, SessionsInv
  <1>3. \A i \in 1..Len(blocks) : Whole(blocks[i].db)
    BY DEF SessionsHeld, SessionsInv
  <1>4. blocks # <<>> => Len(blocks) \in Nat \ {0}
    BY EmptySeq DEF SessionsHeld, SessionsInv
  <1>5. blocks # <<>> => Whole(blocks[1].db) /\ Whole(blocks[Len(blocks)].db)
    BY <1>3, <1>4
  <1>6. QED
    BY <1>1, <1>2, <1>3, <1>5 DEF PutBack, Innermost, Committed

\* A transaction is over.
LEMMA HeldEnds ==
  ASSUME SessionsHeld, SessionsInv', Whole(db'), UNCHANGED group,
         blocks' = <<>>, holder' = Nil, raising' = FALSE, drafts' = <<>>
  PROVE  SessionsHeld'
  <1>1. Len(blocks') = 0 /\ Len(drafts') = 0
    BY Bare
  <1>2. Len(blocks') <= MaxNesting /\ Len(drafts') <= MaxCalls + 1
    BY <1>1, SessionsAssumption
  <1>3. group' \in Companions
    BY DEF SessionsHeld, SessionsTypeOK
  <1>4. SessionsTypeOK'
    BY <1>2, <1>3 DEF SessionsTypeOK, Whole
  <1>5. QED
    BY <1>1, <1>4 DEF SessionsHeld

\* A transaction goes on.
LEMMA HeldGoesOn ==
  ASSUME SessionsHeld, SessionsInv', Whole(db'), holder' \in Threads, UNCHANGED group,
         raising' \in BOOLEAN, Len(blocks') <= MaxNesting, Len(drafts') <= MaxCalls + 1,
         \A i \in 1..Len(drafts') : Whole(drafts'[i])
  PROVE  SessionsHeld'
  <1>1. holder' # Nil /\ blocks' # <<>>
    BY SessionsAssumption DEF SessionsInv
  <1>2. QED
    BY <1>1 DEF SessionsHeld, SessionsTypeOK, Whole

LEMMA HeldOpens ==
  ASSUME SessionsHeld, SessionsInv', NEW s \in Threads, BeginTransaction(s)
  PROVE  SessionsHeld'
  <1>1. Len(blocks') = 1 /\ Len(drafts') = 1 /\ drafts'[1] = db
    BY One DEF BeginTransaction
  <1>2. Whole(db) /\ raising' \in BOOLEAN
    BY HeldBlocks DEF BeginTransaction, SessionsHeld, SessionsTypeOK
  <1>3. \A i \in 1..Len(drafts') : Whole(drafts'[i])
    BY <1>1, <1>2
  <1>4. Len(blocks') <= MaxNesting /\ Len(drafts') <= MaxCalls + 1
    BY <1>1, SessionsAssumption
  <1>5. QED
    BY <1>2, <1>3, <1>4, HeldGoesOn DEF BeginTransaction

LEMMA HeldNests ==
  ASSUME SessionsHeld, SessionsInv', NEW s \in Threads, Savepoint(s)
  PROVE  SessionsHeld'
  <1>1. Len(blocks') = Len(blocks) + 1
    BY Appended DEF Savepoint, SessionsHeld, SessionsInv
  <1>2. Len(blocks') <= MaxNesting
    BY <1>1, HeldBlocks, SessionsAssumption DEF Savepoint
  <1>3. QED
    BY <1>2, HeldBlocks, HeldGoesOn DEF Savepoint, SessionsHeld, SessionsTypeOK

LEMMA HeldCalls ==
  ASSUME SessionsHeld, SessionsInv', NEW s \in Threads, CallWithin(s)
  PROVE  SessionsHeld'
  <1>1. Len(drafts') = Len(drafts) + 1 /\ drafts'[Len(drafts')] = db'
        /\ \A i \in 1..Len(drafts) : drafts'[i] = drafts[i]
    <2>1. drafts' = Append(drafts, db')
      BY DEF CallWithin
    <2>2. QED
      BY <2>1, Appended DEF SessionsHeld, SessionsInv
  <1>2. Whole(db')
    BY HeldBlocks, CallsKeep DEF CallWithin, Callable, CallsOf
  <1>3. Len(drafts') <= MaxCalls + 1
    BY <1>1, HeldBlocks, SessionsAssumption DEF CallWithin
  <1>4. \A i \in 1..Len(drafts') : Whole(drafts'[i])
    BY <1>1, <1>2, HeldBlocks DEF SessionsHeld
  <1>5. QED
    BY <1>2, <1>3, <1>4, HeldGoesOn DEF CallWithin, SessionsHeld, SessionsTypeOK

LEMMA HeldPutsBack ==
  ASSUME SessionsHeld, SessionsInv', NEW s \in Threads, RollbackTo(s) \/ Release(s)
  PROVE  SessionsHeld'
  <1>1. SessionsInv /\ Nil \notin Threads
    BY SessionsAssumption DEF SessionsHeld
  <1>2. /\ holder = s /\ ~ Outermost /\ blocks' = Around
        /\ UNCHANGED <<holder, group>> /\ raising' \in BOOLEAN
    BY DEF RollbackTo, Release, SessionsHeld, SessionsTypeOK
  <1>3. Len(blocks) \in Nat /\ Len(blocks) > 1 /\ Len(blocks') = Len(blocks) - 1
    BY <1>1, <1>2, Unnested
  <1>4. Len(blocks') <= MaxNesting
    BY <1>3, SessionsAssumption DEF SessionsHeld, SessionsTypeOK
  <1>5. blocks # <<>>
    BY <1>1, <1>2 DEF SessionsInv
  <1>6. Whole(db')
    BY <1>5, HeldBlocks DEF RollbackTo, Release
  <1>7. Len(drafts') <= MaxCalls + 1 /\ \A i \in 1..Len(drafts') : Whole(drafts'[i])
    <2>1. CASE drafts' = drafts
      BY <2>1 DEF SessionsHeld, SessionsTypeOK
    <2>2. CASE drafts' = SubSeq(drafts, 1, Innermost.at)
      <3>1. Innermost.at \in 1..Len(drafts)
        BY <1>1, <1>3 DEF SessionsInv, Innermost
      <3>2. Len(drafts') = Innermost.at
            /\ \A i \in 1..Innermost.at : drafts'[i] = drafts[i]
        BY <1>1, <2>2, <3>1, Shortened DEF SessionsInv
      <3>3. Len(drafts) <= MaxCalls + 1 /\ Len(drafts) \in Nat /\ MaxCalls \in Nat
        BY HeldBlocks, SessionsAssumption DEF SessionsHeld, SessionsTypeOK
      <3>4. \A i \in 1..Innermost.at : i \in 1..Len(drafts)
        BY <3>1, <3>3
      <3>5. QED
        BY <3>1, <3>2, <3>3, <3>4 DEF SessionsHeld
    <2>3. QED
      BY <2>1, <2>2 DEF RollbackTo, Release
  <1>8. QED
    BY <1>2, <1>4, <1>6, <1>7, HeldGoesOn

LEMMA SessionsHeldSteps ==
  ASSUME SessionsHeld, [SessionsNext]_sessionVars
  PROVE  SessionsHeld'
  <1>1. SessionsInv /\ Nil \notin Threads
    BY SessionsAssumption DEF SessionsHeld
  <1>2. SessionsInv'
    BY <1>1, InvSteps
  <1>3. ASSUME NEW s \in Threads, RaiseWithin(s) PROVE SessionsHeld'
    BY <1>2, <1>3, HeldBlocks, HeldGoesOn DEF RaiseWithin, SessionsHeld, SessionsTypeOK
  <1>4. ASSUME NEW s \in Threads, Rollback(s) \/ Commit(s) PROVE SessionsHeld'
    <2>1. blocks # <<>>
      BY <1>1, <1>4 DEF Rollback, Commit, SessionsInv
    <2>2. QED
      BY <1>2, <1>4, <2>1, HeldBlocks, HeldEnds
         DEF Rollback, Commit, SessionsHeld, SessionsTypeOK
  <1>5. CASE Stop
    BY <1>2, <1>5, HeldBlocks, HeldEnds DEF Stop
  <1>6. CASE CallAlone
    <2>1. Whole(db')
      BY <1>6, HeldBlocks, CallsKeep DEF CallAlone, Callable, CallsOf
    <2>2. QED
      BY <1>2, <1>6, <2>1 DEF CallAlone, SessionsHeld, SessionsTypeOK, Whole
  <1>7. CASE UNCHANGED sessionVars
    BY <1>2, <1>7 DEF sessionVars, SessionsHeld, SessionsTypeOK
  <1>8. QED
    BY <1>2, <1>3, <1>4, <1>5, <1>6, <1>7, HeldOpens, HeldNests, HeldCalls, HeldPutsBack
       DEF SessionsNext

\* The rows, the blocks, the lock and the exception of a store have values of
\* their kinds: every table has its row whichever functions are called and
\* wherever a block is left (SQLiteStore.transaction, thread_safe_store).
THEOREM SessionTypesCorrect == SessionsSpec => []SessionsTypeOK
  <1>1. SessionsHeld => SessionsTypeOK
    BY DEF SessionsHeld
  <1>2. QED
    BY SessionsHeldBegins, SessionsHeldSteps, <1>1, PTL DEF SessionsSpec

=============================================================================
