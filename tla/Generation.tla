----------------------------- MODULE Generation -----------------------------
(***************************************************************************)
(* QA generation (services/generation.py, repositories/generation.py) and  *)
(* the selections it is asked for (services/selection.py).  A request      *)
(* looks its selection up in SQL, inserts a PROCESSING record in MongoDB   *)
(* and queues a task; the task reads the selection again, calls the LLM    *)
(* and writes the result into the record.  Nothing spans the two databases *)
(* and nothing survives the process but the rows and the records.          *)
(*                                                                         *)
(* A generation g is one request to POST /selections/{id}/generate and the *)
(* record and the task it may lead to.                                     *)
(***************************************************************************)
CONSTANTS
  Generations,
  Selections,
  NoSelection   \* a request that has not come yet

ASSUME GenerationAssumption == NoSelection \notin Selections

VARIABLES
  selections,   \* the selections table: what is committed of each selection
  target,       \* the selection a request names
  rpc,          \* where each request stands
  tpc,          \* where each task stands
  record,       \* the MongoDB document of each generation
  held,         \* what the task is about to write into it, if anything
  hit           \* those a call of which failed, or that a crash cut short

vars == <<selections, target, rpc, tpc, record, held, hit>>

\* Of a record: its status and whether test_cases and validation_errors hold
\* anything.  Status "none": no record.
Results   == {"success", "partial", "failed"}
Record    == [status : {"none", "processing"} \cup Results,
              cases : BOOLEAN, errors : BOOLEAN]
NoRecord  == [status |-> "none", cases |-> FALSE, errors |-> FALSE]
NewRecord == [status |-> "processing", cases |-> FALSE, errors |-> FALSE]

Writing == {"rejecting", "storing", "handling"}   \* at an update_status call
Active  == {"queued", "calling"} \cup Writing

TypeOK ==
  /\ selections \in [Selections -> {"none", "live", "deleted"}]
  /\ target \in [Generations -> Selections \cup {NoSelection}]
  /\ rpc \in [Generations -> {"idle", "checked", "accepted", "refused", "failed"}]
  /\ tpc \in [Generations -> Active \cup {"none", "done", "lost"}]
  /\ record \in [Generations -> Record]
  /\ held \in [Generations -> Record]
  /\ hit \subseteq Generations

Init ==
  /\ selections = [s \in Selections |-> "none"]
  /\ target = [g \in Generations |-> NoSelection]
  /\ rpc = [g \in Generations |-> "idle"]
  /\ tpc = [g \in Generations |-> "none"]
  /\ record = [g \in Generations |-> NoRecord]
  /\ held = [g \in Generations |-> NoRecord]
  /\ hit = {}

\* A database call of the generation fails, or is not acknowledged.
Fault(g) == hit' = hit \cup {g}

-----------------------------------------------------------------------------
\* SelectionService.create_selection: one commit at the end.  Its checks (the
\* version is READY, the nodes are the version's) cannot go stale meanwhile:
\* READY is final and a READY tree never changes (VersionLifecycle).
CreateSelection(s) ==
  /\ selections[s] = "none"
  /\ selections' = [selections EXCEPT ![s] = "live"]
  /\ UNCHANGED <<target, rpc, tpc, record, held, hit>>

\* SelectionService.delete_selection.
DeleteSelection(s) ==
  /\ selections[s] = "live"
  /\ selections' = [selections EXCEPT ![s] = "deleted"]
  /\ UNCHANGED <<target, rpc, tpc, record, held, hit>>

\* trigger_generation looks the selection up.
CheckSelection(g, s) ==
  /\ rpc[g] = "idle"
  /\ target' = [target EXCEPT ![g] = s]
  /\ rpc' = [rpc EXCEPT ![g] = IF selections[s] = "live" THEN "checked" ELSE "refused"]
  /\ UNCHANGED <<selections, tpc, record, held, hit>>

\* generation_repo.create, and add_task: no await comes between the two.
CreateRecord(g) ==
  /\ rpc[g] = "checked"
  /\ rpc' = [rpc EXCEPT ![g] = "accepted"]
  /\ record' = [record EXCEPT ![g] = NewRecord]
  /\ tpc' = [tpc EXCEPT ![g] = "queued"]
  /\ UNCHANGED <<selections, target, held, hit>>

\* No session factory, no client or no server to send a call to: the request
\* ends before the call is made (get_session, get_database).
RequestUnavailable(g) ==
  /\ rpc[g] \in {"idle", "checked"}
  /\ rpc' = [rpc EXCEPT ![g] = "failed"]
  /\ UNCHANGED <<selections, target, tpc, record, held, hit>>

\* The lookup raises, or MongoDB does not answer the insert: the request fails
\* before add_task, and the insert may have taken effect all the same.
RequestFails(g) ==
  /\ rpc[g] \in {"idle", "checked"}
  /\ Fault(g)
  /\ rpc' = [rpc EXCEPT ![g] = "failed"]
  /\ \/ UNCHANGED record
     \/ rpc[g] = "checked" /\ record' = [record EXCEPT ![g] = NewRecord]
  /\ UNCHANGED <<selections, target, tpc, held>>

-----------------------------------------------------------------------------
\* The record after update_status(FAILED, {"validation_errors": [...]}): the
\* fields not named keep their values.
MarkedFailed(r) == [r EXCEPT !.status = "failed", !.errors = TRUE]

\* Seeded fault: the handler clears test_cases.
MarkedFailedCleared(r) == [status |-> "failed", cases |-> FALSE, errors |-> TRUE]

\* The update of the except block.  No one but the task writes its record, so
\* it may be computed from the record as the exception left it.
AfterException(r) == MarkedFailed(r)

\* Seeded fault: a missing selection returns without telling the record.
ReadSelectionSilently(g) ==
  /\ tpc[g] = "queued"
  /\ IF selections[target[g]] = "live"
       THEN tpc' = [tpc EXCEPT ![g] = "calling"] /\ UNCHANGED held
       ELSE tpc' = [tpc EXCEPT ![g] = "done"] /\ UNCHANGED held
  /\ UNCHANGED <<selections, target, rpc, record, hit>>

\* The task's SQL session: the selection and its nodes, or nothing.
ReadSelection(g) ==
  /\ tpc[g] = "queued"
  /\ IF selections[target[g]] = "live"
       THEN tpc' = [tpc EXCEPT ![g] = "calling"] /\ UNCHANGED held
       ELSE /\ tpc' = [tpc EXCEPT ![g] = "rejecting"]
            /\ held' = [held EXCEPT ![g] = MarkedFailed(record[g])]
  /\ UNCHANGED <<selections, target, rpc, record, hit>>

\* The session raises outside the try block: the task is over.
ReadSelectionFails(g) ==
  /\ tpc[g] = "queued"
  /\ Fault(g)
  /\ tpc' = [tpc EXCEPT ![g] = "lost"]
  /\ UNCHANGED <<selections, target, rpc, record, held>>

\* Seeded fault: errors are looked at before the cases.
GradeByErrors(cases, errors) ==
  [status |-> IF errors THEN "partial" ELSE "success",
   cases |-> cases, errors |-> errors]

\* The status of an answer with or without valid cases and errors; an answer
\* without cases gets an error of its own.
Grade(cases, errors) ==
  [status |-> IF ~cases THEN "failed" ELSE IF errors THEN "partial" ELSE "success",
   cases |-> cases, errors |-> errors \/ ~cases]

\* complete() returns and validate_llm_json sorts its cases.
LlmAnswers(g) ==
  /\ tpc[g] = "calling"
  /\ tpc' = [tpc EXCEPT ![g] = "storing"]
  /\ \E cases, errors \in BOOLEAN : held' = [held EXCEPT ![g] = Grade(cases, errors)]
  /\ UNCHANGED <<selections, target, rpc, record, hit>>

\* Seeded fault: an LLM error is logged and dropped.
LlmFailsUnrecorded(g) ==
  /\ tpc[g] = "calling"
  /\ tpc' = [tpc EXCEPT ![g] = "done"]
  /\ UNCHANGED <<selections, target, rpc, record, held, hit>>

\* complete() or the validation raises.
LlmFails(g) ==
  /\ tpc[g] = "calling"
  /\ tpc' = [tpc EXCEPT ![g] = "handling"]
  /\ held' = [held EXCEPT ![g] = AfterException(record[g])]
  /\ UNCHANGED <<selections, target, rpc, record, hit>>

\* An update_status call of the task succeeds; it was the task's last.
WriteRecord(g) ==
  /\ tpc[g] \in Writing
  /\ record' = [record EXCEPT ![g] = held[g]]
  /\ held' = [held EXCEPT ![g] = NoRecord]
  /\ tpc' = [tpc EXCEPT ![g] = "done"]
  /\ UNCHANGED <<selections, target, rpc, hit>>

\* An update_status call raises, with or without effect.  Only the one that
\* stores an answer is inside the try block; its handler tries to write FAILED.
WriteRecordFails(g) ==
  /\ tpc[g] \in Writing
  /\ Fault(g)
  /\ \/ UNCHANGED record
     \/ record' = [record EXCEPT ![g] = held[g]]
  /\ IF tpc[g] = "storing"
       THEN /\ tpc' = [tpc EXCEPT ![g] = "handling"]
            /\ held' = [held EXCEPT ![g] = AfterException(record'[g])]
       ELSE /\ tpc' = [tpc EXCEPT ![g] = "lost"]
            /\ held' = [held EXCEPT ![g] = NoRecord]
  /\ UNCHANGED <<selections, target, rpc>>

\* The process dies and is restarted: requests and tasks are gone.
Crash ==
  /\ hit' = hit \cup {g \in Generations : rpc[g] = "checked" \/ tpc[g] \in Active}
  /\ rpc' = [g \in Generations |-> IF rpc[g] = "checked" THEN "failed" ELSE rpc[g]]
  /\ tpc' = [g \in Generations |-> IF tpc[g] \in Active THEN "lost" ELSE tpc[g]]
  /\ held' = [g \in Generations |-> NoRecord]
  /\ UNCHANGED <<selections, target, record>>

TaskStep(g) == ReadSelection(g) \/ LlmAnswers(g) \/ LlmFails(g) \/ WriteRecord(g)

Next ==
  \/ \E s \in Selections : CreateSelection(s) \/ DeleteSelection(s)
  \/ \E g \in Generations :
       \/ \E s \in Selections : CheckSelection(g, s)
       \/ CreateRecord(g) \/ RequestUnavailable(g) \/ RequestFails(g)
       \/ TaskStep(g) \/ ReadSelectionFails(g) \/ WriteRecordFails(g)
  \/ Crash

Spec == Init /\ [][Next]_vars

(* The event loop runs each queued task; complete() returns or raises, since *)
(* its attempts are bounded and each has a timeout (LlmClient).             *)
FairSpec == Spec /\ \A g \in Generations : WF_vars(TaskStep(g))

-----------------------------------------------------------------------------
\* What a status says of the record it is in.
Describes(r) ==
  /\ r.status = "success" => r.cases /\ ~r.errors
  /\ r.status = "partial" => r.cases /\ r.errors
  /\ r.status = "failed"  => r.errors
  /\ r.status \in {"none", "processing"} => ~r.cases /\ ~r.errors

\* Whatever was lost on the way, a client never reads a status its record does
\* not bear out: SUCCESS has cases and no errors, PARTIAL both, FAILED says why,
\* PROCESSING has nothing yet.  The handler's update touches some fields of a
\* record that may hold an answer already (generation.py:142).
StatusDescribesRecord == \A g \in Generations : Describes(record[g])

\* Test cases once stored are never lost, a failure recorded after them and
\* deleted selections notwithstanding.
CasesAreKept ==
  [][\A g \in Generations : record[g].cases => record'[g].cases]_vars

\* What one step may do to a record: create it, resolve it, or mark it FAILED.
Advances(r, s) ==
  \/ r = s
  \/ r = NoRecord /\ s = NewRecord
  \/ r = NewRecord /\ s.status \in Results
  \/ r.status # "none" /\ s = MarkedFailed(r)

\* A client that polls a generation sees it come into being, be resolved, and at
\* most turn FAILED after that; it is never PROCESSING again, its result is never
\* replaced by another one, late updates and their handlers notwithstanding.
RecordsOnlyAdvance ==
  [][\A g \in Generations : Advances(record[g], record'[g])]_vars

\* A record still PROCESSING has a task at work on it, unless a call for it failed
\* or a crash cut it short: no path of the task ends without an update.
NoSilentStall ==
  \A g \in Generations :
    record[g].status = "processing" =>
      tpc[g] \in Active \/ g \in hit

\* How requests and tasks stand to the records: what makes the above inductive.
TasksMatchRecords ==
  \A g \in Generations :
    /\ rpc[g] \in {"idle", "checked"} => record[g] = NoRecord /\ tpc[g] = "none"
    /\ tpc[g] \in Active \ {"handling"} => record[g] = NewRecord
    /\ tpc[g] = "rejecting" => held[g] = MarkedFailed(NewRecord)
    /\ tpc[g] = "storing" => held[g].status \in Results /\ Describes(held[g])
    /\ tpc[g] = "handling" =>
         record[g].status # "none" /\ held[g] = MarkedFailed(record[g])

IInv == /\ TypeOK /\ StatusDescribesRecord
        /\ NoSilentStall /\ TasksMatchRecords

\* An accepted generation is resolved, however the LLM fails and even when its
\* selection is deleted under it, unless a call for it fails or a crash cuts it short.
AcceptedResolves ==
  \A g \in Generations :
    rpc[g] = "accepted" ~>
      record[g].status \in Results \/ g \in hit
=============================================================================
