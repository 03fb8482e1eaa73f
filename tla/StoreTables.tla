---------------------------- MODULE StoreTables ----------------------------
(***************************************************************************)
(* What each writing function of a store does to its table, and when it    *)
(* raises.                                                                 *)
(*                                                                         *)
(* Rows of different keys do not touch each other: a table is the one row  *)
(* that is looked at, or Nil, and a handle is looked at with all its       *)
(* bindings.  Of a row there is what the statements compare or keep; an    *)
(* instant is a number.  Both stores have the same functions.              *)
(***************************************************************************)
EXTENDS Integers

CONSTANT Nil   \* no row, no value, no thread

Moments == 1..2
Tables ==
  {"ingested_cards", "record_observations", "staged_records", "signals",
   "read_watermarks", "evidence_sources", "sync_positions", "names", "subjects",
   "subject_handles", "subject_merges", "assertions", "projection",
   "distill_queue", "review_queue", "correction_captures", "gate_stats", "tasks",
   "theme_schedule_state", "events", "webhook_deliveries", "mail_runtime_reports"}

NoBindings == [active |-> Nil, revoked |-> {}]
NoRow(t) ==
  CASE t = "subject_handles" -> NoBindings
    [] t = "gate_stats" -> 0
    [] OTHER -> Nil
EmptyStore == [t \in Tables |-> NoRow(t)]

Done(db) == [db |-> db, ok |-> TRUE]
Raise(db) == [db |-> db, ok |-> FALSE]
Write(db, t, row) == Done([db EXCEPT ![t] = row])

Later(x, y) == IF x > y THEN x ELSE y
Given(x, y) == IF x = Nil THEN y ELSE x

\* The ways a row is written: a key that is there may violate the table, be
\* ignored, or have to have the same contents.
Insert(db, t, row) == IF db[t] = Nil THEN Write(db, t, row) ELSE Raise(db)
InsertOrIgnore(db, t, row) == IF db[t] = Nil THEN Write(db, t, row) ELSE Done(db)
InsertSame(db, t, row) ==
  IF db[t] = Nil THEN Write(db, t, row)
  ELSE IF db[t].payload = row.payload THEN Done(db) ELSE Raise(db)
\* A guarded update: it raises unless the row is in the state it is taken from.
Resolve(db, t, from, to) ==
  IF db[t] # Nil /\ db[t].status = from
  THEN Write(db, t, [db[t] EXCEPT !.status = to]) ELSE Raise(db)

ClearScope(db) == Done(EmptyStore)

MarkCard(db) == Insert(db, "ingested_cards", "marked")
MarkRecordObservation(db) == Insert(db, "record_observations", "observed")
StageRecords(db, observation) == Write(db, "staged_records", observation)
PurgeStagedRecords(db) == Write(db, "staged_records", Nil)

AddSignal(db) == InsertOrIgnore(db, "signals", "open")
AcknowledgeSignal(db) ==
  IF db["signals"] = "open" THEN Write(db, "signals", "acked") ELSE Done(db)

\* A watermark never goes back.
SetReadWatermark(db, at) ==
  LET row == db["read_watermarks"]
  IN Write(db, "read_watermarks", IF row = Nil THEN at ELSE Later(row, at))

\* The first URI and the earliest revocation stay.
ObserveSource(db, uri, revoked) ==
  LET row == db["evidence_sources"]
      earliest == CASE row.revoked = Nil -> revoked
                    [] revoked = Nil -> row.revoked
                    [] OTHER -> IF revoked < row.revoked THEN revoked ELSE row.revoked
  IN Write(db, "evidence_sources",
       IF row = Nil THEN [uri |-> uri, revoked |-> revoked]
       ELSE [uri |-> Given(row.uri, uri), revoked |-> earliest])
PutSourceState(db, uri, revoked) ==
  Write(db, "evidence_sources", [uri |-> uri, revoked |-> revoked])

UpdateSyncPosition(db, watermark, cursor) ==
  LET row == db["sync_positions"]
  IN Write(db, "sync_positions",
       IF row = Nil THEN [watermark |-> watermark, cursor |-> cursor, uid |-> Nil]
       ELSE [row EXCEPT !.watermark = Later(@, watermark), !.cursor = Given(cursor, @)])
UpdateMailSyncPosition(db, uid, validity) ==
  LET row == db["sync_positions"]
  IN Write(db, "sync_positions",
       [watermark |-> IF row = Nil THEN 1 ELSE row.watermark,
        cursor |-> validity, uid |-> uid])
DeleteSyncPosition(db) == Write(db, "sync_positions", Nil)
SaveMailRuntimeReport(db, report) == Write(db, "mail_runtime_reports", report)

\* The name seen last wins, the later write among those seen at once.
UpsertNames(db, name, seen) ==
  LET row == db["names"]
  IN IF row = Nil \/ seen >= row.seen
     THEN Write(db, "names", [name |-> name, seen |-> seen]) ELSE Done(db)

\* The type and the title a subject was created with stay.
UpsertSubject(db, title, evidence) ==
  LET row == db["subjects"]
  IN Write(db, "subjects",
       [title |-> IF row = Nil THEN title ELSE row.title, evidence |-> evidence])

\* One binding of a handle is active; a second one, to whatever subject, is
\* not stored, and the identity of a revoked one cannot be used again.
AddSubjectHandle(db, binding) ==
  LET row == db["subject_handles"]
  IN CASE row.active # Nil -> Done(db)
       [] row.active = Nil /\ binding \in row.revoked -> Raise(db)
       [] OTHER -> Write(db, "subject_handles", [row EXCEPT !.active = binding])
RevokeSubjectHandle(db) ==
  LET row == db["subject_handles"]
  IN IF row.active = Nil THEN Done(db)
     ELSE Write(db, "subject_handles",
            [active |-> Nil, revoked |-> row.revoked \cup {row.active}])

AddSubjectMerge(db) == Insert(db, "subject_merges", "merged")
RemoveSubjectMerge(db) == Write(db, "subject_merges", Nil)

AddAssertion(db, payload) == InsertSame(db, "assertions", [payload |-> payload])
ReplaceProjection(db, projection) == Write(db, "projection", projection)

EnqueueDistill(db) == InsertOrIgnore(db, "distill_queue", 0)
RemoveDistillItem(db) == Write(db, "distill_queue", Nil)
FailDistillItem(db) ==
  IF db["distill_queue"] = Nil THEN Done(db)
  ELSE Write(db, "distill_queue", db["distill_queue"] + 1)

AddReviewItem(db, payload) ==
  InsertSame(db, "review_queue", [payload |-> payload, status |-> "open"])
ResolveReviewItem(db) == Resolve(db, "review_queue", "open", "resolved")

AddCorrectionCapture(db) ==
  InsertOrIgnore(db, "correction_captures", [status |-> "pending"])
ResolveCorrectionCapture(db, status) ==
  Resolve(db, "correction_captures", "pending", status)

\* Counters are added up: the one write that is not the same when repeated.
RecordGateReport(db) == Write(db, "gate_stats", db["gate_stats"] + 1)

CreateTask(db) == InsertOrIgnore(db, "tasks", [status |-> "pending", attempts |-> 0])
UpdateTask(db, status) ==
  LET row == db["tasks"]
  IN IF row = Nil THEN Raise(db)
     ELSE Write(db, "tasks",
            [status |-> status, attempts |-> row.attempts + IF status = "failed" THEN 1 ELSE 0])

SetThemeScheduleState(db, enqueued, run) ==
  LET row == db["theme_schedule_state"]
      was == IF row = Nil THEN [enqueued |-> Nil, run |-> Nil] ELSE row
  IN Write(db, "theme_schedule_state",
       [enqueued |-> Given(enqueued, was.enqueued), run |-> Given(run, was.run)])

AddEvent(db, payload) == InsertSame(db, "events", [payload |-> payload])
\* An event that is not there, or no longer, gets no mark.
MarkWebhookDelivered(db) ==
  IF db["events"] = Nil THEN Done(db)
  ELSE InsertOrIgnore(db, "webhook_deliveries", "delivered")

\* The calls: a function and its arguments.
Calls ==
  {<<f>> : f \in
     {"clear_scope", "mark_card", "mark_record_observation", "purge_staged_records",
      "add_signal", "acknowledge_signal", "delete_sync_position",
      "revoke_subject_handle", "add_subject_merge", "remove_subject_merge",
      "enqueue_distill", "remove_distill_item", "fail_distill_item",
      "resolve_review_item", "add_correction_capture", "record_gate_report",
      "create_task", "mark_webhook_delivered"}}
  \cup {<<f, x>> : x \in Moments, f \in
     {"stage_records", "set_read_watermark", "save_mail_runtime_report",
      "add_subject_handle", "add_assertion", "replace_projection",
      "add_review_item", "add_event"}}
  \cup {<<"resolve_correction_capture", s>> : s \in {"curated", "discarded"}}
  \cup {<<"update_task", s>> : s \in {"running", "failed", "completed"}}
  \cup {<<f, x, y>> : x \in Moments, y \in Moments, f \in
     {"upsert_names", "upsert_subject", "update_mail_sync_position"}}
  \cup {<<f, x, y>> : x \in Moments, y \in Moments \cup {Nil}, f \in
     {"update_sync_position", "observe_source", "put_source_state",
      "set_theme_schedule_state"}}

\* The functions that write the same row, or read what another one wrote.
Companions ==
  {{"mark_card"}, {"mark_record_observation"},
   {"stage_records", "purge_staged_records"},
   {"add_signal", "acknowledge_signal"}, {"set_read_watermark"},
   {"observe_source", "put_source_state"},
   {"update_sync_position", "update_mail_sync_position", "delete_sync_position"},
   {"save_mail_runtime_report"}, {"upsert_names"}, {"upsert_subject"},
   {"add_subject_handle", "revoke_subject_handle"},
   {"add_subject_merge", "remove_subject_merge"},
   {"add_assertion", "replace_projection"},
   {"enqueue_distill", "remove_distill_item", "fail_distill_item"},
   {"add_review_item", "resolve_review_item"},
   {"add_correction_capture", "resolve_correction_capture"},
   {"record_gate_report"}, {"create_task", "update_task"},
   {"set_theme_schedule_state"}, {"add_event", "mark_webhook_delivered"}}
CallsOf(group) == {c \in Calls : c[1] \in group \cup {"clear_scope"}}

\* What a call does to the rows, and whether it returns or raises.
Effect(db, c) ==
  LET f == c[1]
  IN CASE f = "clear_scope" -> ClearScope(db)
       [] f = "mark_card" -> MarkCard(db)
       [] f = "mark_record_observation" -> MarkRecordObservation(db)
       [] f = "stage_records" -> StageRecords(db, c[2])
       [] f = "purge_staged_records" -> PurgeStagedRecords(db)
       [] f = "add_signal" -> AddSignal(db)
       [] f = "acknowledge_signal" -> AcknowledgeSignal(db)
       [] f = "set_read_watermark" -> SetReadWatermark(db, c[2])
       [] f = "observe_source" -> ObserveSource(db, c[2], c[3])
       [] f = "put_source_state" -> PutSourceState(db, c[2], c[3])
       [] f = "update_sync_position" -> UpdateSyncPosition(db, c[2], c[3])
       [] f = "update_mail_sync_position" -> UpdateMailSyncPosition(db, c[2], c[3])
       [] f = "delete_sync_position" -> DeleteSyncPosition(db)
       [] f = "save_mail_runtime_report" -> SaveMailRuntimeReport(db, c[2])
       [] f = "upsert_names" -> UpsertNames(db, c[2], c[3])
       [] f = "upsert_subject" -> UpsertSubject(db, c[2], c[3])
       [] f = "add_subject_handle" -> AddSubjectHandle(db, c[2])
       [] f = "revoke_subject_handle" -> RevokeSubjectHandle(db)
       [] f = "add_subject_merge" -> AddSubjectMerge(db)
       [] f = "remove_subject_merge" -> RemoveSubjectMerge(db)
       [] f = "add_assertion" -> AddAssertion(db, c[2])
       [] f = "replace_projection" -> ReplaceProjection(db, c[2])
       [] f = "enqueue_distill" -> EnqueueDistill(db)
       [] f = "remove_distill_item" -> RemoveDistillItem(db)
       [] f = "fail_distill_item" -> FailDistillItem(db)
       [] f = "add_review_item" -> AddReviewItem(db, c[2])
       [] f = "resolve_review_item" -> ResolveReviewItem(db)
       [] f = "add_correction_capture" -> AddCorrectionCapture(db)
       [] f = "resolve_correction_capture" -> ResolveCorrectionCapture(db, c[2])
       [] f = "record_gate_report" -> RecordGateReport(db)
       [] f = "create_task" -> CreateTask(db)
       [] f = "update_task" -> UpdateTask(db, c[2])
       [] f = "set_theme_schedule_state" -> SetThemeScheduleState(db, c[2], c[3])
       [] f = "add_event" -> AddEvent(db, c[2])
       [] f = "mark_webhook_delivered" -> MarkWebhookDelivered(db)
=============================================================================
