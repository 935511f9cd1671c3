-------------------------- MODULE Generation_proofs --------------------------
(* Theorems about Generation and the process around it, for any number of    *)
(* generations, selections, failed calls, outages and restarts.              *)
EXTENDS Application, TLAPS

\* What an answer is graded as, and a failure, are records that describe
\* themselves (generation.py:106-113, 142-147).
LEMMA GradesDescribe ==
  ASSUME NEW cases \in BOOLEAN, NEW errors \in BOOLEAN
  PROVE  LET r == Grade(cases, errors) IN
         r \in Record /\ r.status \in Results /\ Describes(r)
BY DEF Grade, Record, Results, Describes

LEMMA FailuresDescribe ==
  ASSUME NEW r \in Record
  PROVE  LET f == MarkedFailed(r) IN
         /\ f \in Record /\ f.status = "failed" /\ Describes(f)
         /\ r.cases => f.cases
BY DEF MarkedFailed, Record, Results, Describes

LEMMA NewRecordDescribes ==
  NoRecord \in Record /\ NewRecord \in Record /\ Describes(NoRecord) /\ Describes(NewRecord)
BY DEF NoRecord, NewRecord, Record, Results, Describes

LEMMA InitIInv == Init => IInv
<1> SUFFICES ASSUME Init PROVE IInv
    OBVIOUS
<1>1. TypeOK
  BY NewRecordDescribes, GenerationAssumption DEF Init, TypeOK
<1>2. StatusDescribesRecord
  BY NewRecordDescribes DEF Init, StatusDescribesRecord
<1>3. NoSilentStall
  BY DEF Init, NoSilentStall, NoRecord
<1>4. TasksMatchRecords
  BY DEF Init, TasksMatchRecords, Active, Writing
<1> QED
  BY <1>1, <1>2, <1>3, <1>4 DEF IInv

\* What an update is about to write: a result that describes itself and keeps
\* the cases already stored.
LEMMA HeldIsSound ==
  ASSUME IInv, NEW g \in Generations, tpc[g] \in Writing
  PROVE  /\ held[g] \in Record /\ held[g].status \in Results /\ Describes(held[g])
         /\ record[g].cases => held[g].cases
<1> USE DEF IInv, TypeOK
<1>1. CASE tpc[g] \in {"rejecting", "storing"}
  <2>1. record[g] = NewRecord
    BY <1>1 DEF TasksMatchRecords, Active, Writing
  <2>2. CASE tpc[g] = "rejecting"
    BY <2>1, <2>2, FailuresDescribe, NewRecordDescribes
       DEF TasksMatchRecords, NewRecord, Results
  <2>3. CASE tpc[g] = "storing"
    BY <2>1, <2>3 DEF TasksMatchRecords, NewRecord
  <2> QED BY <1>1, <2>2, <2>3
<1>2. CASE tpc[g] = "handling"
  <2>1. held[g] = MarkedFailed(record[g])
    BY <1>2 DEF TasksMatchRecords
  <2>2. held[g].status = "failed" /\ held[g].errors = TRUE /\ held[g].cases = record[g].cases
    BY <2>1 DEF MarkedFailed, Record
  <2> QED BY <2>2 DEF Results, Describes, Record
<1> QED BY <1>1, <1>2 DEF Writing

-----------------------------------------------------------------------------
\* Steps that leave records alone keep what the records say.
LEMMA InductiveStep == IInv /\ [Next]_vars => IInv'
<1> SUFFICES ASSUME IInv, [Next]_vars PROVE IInv'
    OBVIOUS
<1> USE GenerationAssumption DEF IInv
<1>1. ASSUME NEW s \in Selections, CreateSelection(s) PROVE IInv'
  BY <1>1 DEF CreateSelection, TypeOK, StatusDescribesRecord, NoSilentStall, TasksMatchRecords
<1>2. ASSUME NEW s \in Selections, DeleteSelection(s) PROVE IInv'
  BY <1>2 DEF DeleteSelection, TypeOK, StatusDescribesRecord, NoSilentStall, TasksMatchRecords
<1>3. ASSUME NEW g \in Generations, NEW s \in Selections, CheckSelection(g, s) PROVE IInv'
  BY <1>3 DEF CheckSelection, TypeOK, StatusDescribesRecord, NoSilentStall, TasksMatchRecords
<1>4. ASSUME NEW g \in Generations, CreateRecord(g) PROVE IInv'
  <2> USE <1>4, NewRecordDescribes DEF CreateRecord
  <2>1. TypeOK'
    BY DEF TypeOK, Active
  <2>2. StatusDescribesRecord'
    BY DEF TypeOK, StatusDescribesRecord
  <2>3. NoSilentStall'
    BY DEF TypeOK, NoSilentStall, Active
  <2>4. TasksMatchRecords'
    BY DEF TypeOK, TasksMatchRecords, Active, Writing
  <2> QED BY <2>1, <2>2, <2>3, <2>4
<1>5. ASSUME NEW g \in Generations, RequestFails(g) PROVE IInv'
  <2> USE <1>5, NewRecordDescribes DEF RequestFails, Fault
  <2>1. TypeOK'
    BY DEF TypeOK
  <2>2. StatusDescribesRecord'
    BY DEF TypeOK, StatusDescribesRecord
  <2>3. NoSilentStall'
    BY DEF TypeOK, NoSilentStall
  <2>4. TasksMatchRecords'
    BY DEF TypeOK, TasksMatchRecords, Active, Writing
  <2> QED BY <2>1, <2>2, <2>3, <2>4
<1>14. ASSUME NEW g \in Generations, RequestUnavailable(g) PROVE IInv'
  BY <1>14 DEF RequestUnavailable, TypeOK, StatusDescribesRecord, NoSilentStall,
               TasksMatchRecords
<1>6. ASSUME NEW g \in Generations, ReadSelection(g) PROVE IInv'
  <2> USE <1>6 DEF ReadSelection
  <2>0. record[g] = NewRecord
    BY DEF TasksMatchRecords, Active, Writing
  <2>1. TypeOK'
    BY <2>0, NewRecordDescribes, FailuresDescribe DEF TypeOK, Active, Writing
  <2>2. StatusDescribesRecord'
    BY DEF StatusDescribesRecord
  <2>3. NoSilentStall'
    BY DEF TypeOK, NoSilentStall, Active, Writing
  <2>4. TasksMatchRecords'
    BY <2>0 DEF TypeOK, TasksMatchRecords, Active, Writing
  <2> QED BY <2>1, <2>2, <2>3, <2>4
<1>7. ASSUME NEW g \in Generations, ReadSelectionFails(g) PROVE IInv'
  BY <1>7 DEF ReadSelectionFails, Fault, TypeOK, StatusDescribesRecord,
              NoSilentStall, TasksMatchRecords, Active, Writing
<1>8. ASSUME NEW g \in Generations, LlmAnswers(g) PROVE IInv'
  <2> PICK cases \in BOOLEAN, errors \in BOOLEAN :
        held' = [held EXCEPT ![g] = Grade(cases, errors)]
    BY <1>8 DEF LlmAnswers
  <2> USE <1>8, GradesDescribe DEF LlmAnswers
  <2>1. TypeOK'
    BY DEF TypeOK, Active, Writing
  <2>2. StatusDescribesRecord'
    BY DEF StatusDescribesRecord
  <2>3. NoSilentStall'
    BY DEF TypeOK, NoSilentStall, Active, Writing
  <2>4. TasksMatchRecords'
    BY DEF TypeOK, TasksMatchRecords, Active, Writing
  <2> QED BY <2>1, <2>2, <2>3, <2>4
<1>9. ASSUME NEW g \in Generations, LlmFails(g) PROVE IInv'
  <2> USE <1>9 DEF LlmFails, AfterException
  <2>1. TypeOK'
    BY FailuresDescribe DEF TypeOK, Active, Writing
  <2>2. StatusDescribesRecord'
    BY DEF StatusDescribesRecord
  <2>3. NoSilentStall'
    BY DEF TypeOK, NoSilentStall, Active, Writing
  <2>4. TasksMatchRecords'
    BY DEF TypeOK, TasksMatchRecords, Active, Writing, NewRecord
  <2> QED BY <2>1, <2>2, <2>3, <2>4
<1>10. ASSUME NEW g \in Generations, WriteRecord(g) PROVE IInv'
  <2> USE <1>10, HeldIsSound, NewRecordDescribes DEF WriteRecord
  <2>1. TypeOK'
    BY DEF TypeOK
  <2>2. StatusDescribesRecord'
    BY DEF TypeOK, StatusDescribesRecord
  <2>3. NoSilentStall'
    BY DEF TypeOK, NoSilentStall, Results
  <2>4. TasksMatchRecords'
    BY DEF TypeOK, TasksMatchRecords, Active, Writing
  <2> QED BY <2>1, <2>2, <2>3, <2>4
<1>11. ASSUME NEW g \in Generations, WriteRecordFails(g) PROVE IInv'
  <2> USE <1>11, HeldIsSound DEF WriteRecordFails, Fault
  <2>0. record' \in [Generations -> Record]
    BY DEF TypeOK
  <2>1. TypeOK'
    BY <2>0, FailuresDescribe, NewRecordDescribes DEF TypeOK, Active, Writing, AfterException
  <2>2. StatusDescribesRecord'
    BY DEF TypeOK, StatusDescribesRecord
  <2>3. NoSilentStall'
    BY DEF TypeOK, NoSilentStall
  <2>4. TasksMatchRecords'
    <3>1. tpc[g] = "storing" => record'[g].status # "none"
      BY DEF TypeOK, TasksMatchRecords, Active, Writing, Results, NewRecord
    <3> QED
      BY <3>1 DEF TypeOK, TasksMatchRecords, Active, Writing, AfterException
  <2> QED BY <2>1, <2>2, <2>3, <2>4
<1>12. CASE Crash
  BY <1>12, NewRecordDescribes DEF Crash, TypeOK, StatusDescribesRecord, NoSilentStall,
               TasksMatchRecords, Active, Writing
<1>13. CASE UNCHANGED vars
  BY <1>13 DEF vars, TypeOK, StatusDescribesRecord, NoSilentStall, TasksMatchRecords
<1> QED
  BY <1>1, <1>2, <1>3, <1>4, <1>5, <1>6, <1>7, <1>8, <1>9, <1>10, <1>11, <1>12, <1>13, <1>14
     DEF Next, TaskStep

-----------------------------------------------------------------------------
\* The inductive invariant of requests, tasks and records (generation.py:33-253).
THEOREM Invariance == Spec => []IInv
BY InitIInv, InductiveStep, PTL DEF Spec

\* Every variable keeps its type.
THEOREM TypeCorrect == Spec => []TypeOK
<1>1. IInv => TypeOK
  BY DEF IInv
<1> QED BY <1>1, Invariance, PTL

\* A record's status is true of the record, whatever calls failed
\* (repositories/generation.py:122-182).
THEOREM StatusesDescribe == Spec => []StatusDescribesRecord
<1>1. IInv => StatusDescribesRecord
  BY DEF IInv
<1> QED BY <1>1, Invariance, PTL

\* Every path of the task ends in an update (generation.py:61-149): what leaves
\* a record PROCESSING is a failed call or a crash.
THEOREM StallsHaveACause == Spec => []NoSilentStall
<1>1. IInv => NoSilentStall
  BY DEF IInv
<1> QED BY <1>1, Invariance, PTL

\* No step removes stored test cases (generation.py:139-149).
THEOREM StoredCasesStay == Spec => CasesAreKept
<1>1. IInv /\ [Next]_vars => [\A g \in Generations : record[g].cases => record'[g].cases]_vars
  <2> SUFFICES ASSUME IInv, [Next]_vars, NEW h \in Generations, record[h].cases
               PROVE  record'[h].cases
      BY DEF vars
  <2>1. UNCHANGED record => record'[h].cases
    OBVIOUS
  <2>2. ASSUME NEW g \in Generations, CreateRecord(g) \/ RequestFails(g) PROVE record'[h].cases
    <3>1. g # h \/ UNCHANGED record
      BY <2>2 DEF CreateRecord, RequestFails, IInv, TasksMatchRecords, NoRecord
    <3> QED BY <2>1, <2>2, <3>1 DEF CreateRecord, RequestFails, IInv, TypeOK
  <2>3. ASSUME NEW g \in Generations, WriteRecord(g) \/ WriteRecordFails(g) PROVE record'[h].cases
    <3>1. g = h => held[h].cases
      BY <2>3, HeldIsSound DEF WriteRecord, WriteRecordFails
    <3> QED BY <2>1, <2>3, <3>1 DEF WriteRecord, WriteRecordFails, IInv, TypeOK
  <2> QED
    BY <2>1, <2>2, <2>3 DEF Next, TaskStep, CreateSelection, DeleteSelection, CheckSelection,
       RequestUnavailable, ReadSelection, ReadSelectionFails, LlmAnswers, LlmFails, Crash, vars
<1> QED BY <1>1, Invariance, PTL DEF Spec, CasesAreKept

\* An update of a task resolves its new record or marks it FAILED.
LEMMA UpdatesAdvance ==
  ASSUME IInv, NEW g \in Generations, tpc[g] \in Writing
  PROVE  Advances(record[g], held[g])
<1>1. CASE tpc[g] \in {"rejecting", "storing"}
  <2>1. record[g] = NewRecord
    BY <1>1 DEF IInv, TasksMatchRecords, Active, Writing
  <2> QED BY <1>1, <2>1, HeldIsSound DEF Advances, Writing
<1>2. CASE tpc[g] = "handling"
  BY <1>2 DEF IInv, TasksMatchRecords, Advances
<1> QED BY <1>1, <1>2 DEF Writing

\* A record is created, resolved and at most marked FAILED after that, in this
\* order and with nothing in between (services/generation.py:61-149).
THEOREM RecordsAdvance == Spec => RecordsOnlyAdvance
<1>1. IInv /\ [Next]_vars => [\A g \in Generations : Advances(record[g], record'[g])]_vars
  <2> SUFFICES ASSUME IInv, [Next]_vars, NEW h \in Generations
               PROVE  Advances(record[h], record'[h])
      BY DEF vars
  <2>1. UNCHANGED record => Advances(record[h], record'[h])
    BY DEF Advances
  <2>2. ASSUME NEW g \in Generations, CreateRecord(g) \/ RequestFails(g)
        PROVE  Advances(record[h], record'[h])
    <3>1. CASE UNCHANGED record
      BY <2>1, <3>1
    <3>2. CASE rpc[g] = "checked" /\ record' = [record EXCEPT ![g] = NewRecord]
      BY <3>2 DEF IInv, TypeOK, TasksMatchRecords, Advances
    <3> QED BY <2>2, <3>1, <3>2 DEF CreateRecord, RequestFails
  <2>3. ASSUME NEW g \in Generations, WriteRecord(g) \/ WriteRecordFails(g)
        PROVE  Advances(record[h], record'[h])
    <3>1. CASE UNCHANGED record
      BY <2>1, <3>1
    <3>2. CASE tpc[g] \in Writing /\ record' = [record EXCEPT ![g] = held[g]]
      BY <3>2, UpdatesAdvance DEF IInv, TypeOK, Advances
    <3> QED BY <2>3, <3>1, <3>2 DEF WriteRecord, WriteRecordFails
  <2> QED
    BY <2>1, <2>2, <2>3 DEF Next, TaskStep, CreateSelection, DeleteSelection, CheckSelection,
       RequestUnavailable, ReadSelection, ReadSelectionFails, LlmAnswers, LlmFails, Crash, vars
<1> QED BY <1>1, Invariance, PTL DEF Spec, RecordsOnlyAdvance

-----------------------------------------------------------------------------
\* The process adds no step to a generation: whatever it allows, Generation does.
LEMMA StepsAreGenerationSteps == AppNext => [Next]_vars
<1> SUFFICES ASSUME AppNext PROVE [Next]_vars
    OBVIOUS
<1>1. ASSUME NEW g \in Generations, RequestStep(g) PROVE Next
  BY <1>1 DEF RequestStep, Next
<1>2. ASSUME NEW g \in Generations, RequestStepFails(g) PROVE Next
  BY <1>2 DEF RequestStepFails, Next
<1>3. ASSUME NEW g \in Generations, AppTaskStep(g) PROVE Next
  BY <1>3 DEF AppTaskStep, TaskStep, Next
<1>4. ASSUME NEW g \in Generations, AppTaskStepFails(g) PROVE Next
  BY <1>4 DEF AppTaskStepFails, Next
<1>5. CASE SelectionStep
  BY <1>5 DEF SelectionStep, Next
<1>6. CASE ProcessDies
  BY <1>6 DEF ProcessDies, Next
<1> QED BY <1>1, <1>2, <1>3, <1>4, <1>5, <1>6 DEF AppNext, GenerationStep

\* The composition implements Generation, so what is proved of Generation holds
\* in it (observability.py:207-277 around services/generation.py).
THEOREM ApplicationRefines == AppSpec => Spec
<1>1. AppInit => Init
  BY DEF AppInit
<1>2. [AppNext]_appVars => [Next]_vars
  BY StepsAreGenerationSteps DEF appVars, vars
<1> QED BY <1>1, <1>2, PTL DEF AppSpec, Spec

\* Statuses stay true of their records through outages and restarts.
THEOREM StatusesDescribeInApplication == AppSpec => []StatusDescribesRecord
BY ApplicationRefines, StatusesDescribe, PTL

\* Records left PROCESSING have a cause, through outages and restarts.
THEOREM StallsHaveACauseInApplication == AppSpec => []NoSilentStall
BY ApplicationRefines, StallsHaveACause, PTL

\* Stored test cases outlive outages, shutdowns and crashes.
THEOREM StoredCasesStayInApplication == AppSpec => CasesAreKept
BY ApplicationRefines, StoredCasesStay

\* Records advance through outages, shutdowns and crashes.
THEOREM RecordsAdvanceInApplication == AppSpec => RecordsOnlyAdvance
BY ApplicationRefines, RecordsAdvance

-----------------------------------------------------------------------------
\* The session factory is there from its step of the lifespan to its end.
EngineInPlace == phase \notin {"database", "down"} => engine

AppInv == AppTypeOK /\ TypeOK /\ EngineInPlace /\ AtWorkOnlyWhileOpen

LEMMA AppInitInv == AppInit => AppInv
<1> SUFFICES ASSUME AppInit PROVE AppInv
    OBVIOUS
<1>1. TypeOK
  BY InitIInv DEF AppInit, IInv
<1>2. AppTypeOK /\ EngineInPlace /\ AtWorkOnlyWhileOpen
  BY DEF AppInit, Init, AppTypeOK, Starting, EngineInPlace, AtWorkOnlyWhileOpen, Active, Writing
<1> QED BY <1>1, <1>2 DEF AppInv

\* A step of a generation begins work only while the process serves and has what
\* the work needs.
LEMMA GenerationStepsKeepOpen ==
  ASSUME AppInv, GenerationStep, UNCHANGED process
  PROVE  AtWorkOnlyWhileOpen'
<1> USE DEF AppInv, TypeOK, AtWorkOnlyWhileOpen, process, EngineInPlace
<1>1. ASSUME NEW g \in Generations, RequestStep(g) \/ RequestStepFails(g)
      PROVE  AtWorkOnlyWhileOpen'
  <2>1. CASE phase = "serving" /\ engine /\ \E s \in Selections : CheckSelection(g, s)
    BY <2>1 DEF CheckSelection
  <2>2. CASE Usable /\ CreateRecord(g)
    BY <2>2 DEF CreateRecord, Usable
  <2>3. CASE RequestUnavailable(g)
    BY <2>3 DEF RequestUnavailable
  <2>4. CASE RequestFails(g)
    BY <2>4 DEF RequestFails
  <2> QED BY <1>1, <2>1, <2>2, <2>3, <2>4 DEF RequestStep, RequestStepFails
<1>2. ASSUME NEW g \in Generations, AppTaskStep(g) \/ AppTaskStepFails(g)
      PROVE  AtWorkOnlyWhileOpen'
  <2>1. tpc[g] \in Active
    BY <1>2 DEF AppTaskStep, AppTaskStepFails, ReadSelection, ReadSelectionFails,
                LlmAnswers, LlmFails, WriteRecord, WriteRecordFails, Active
  <2>2. UNCHANGED rpc /\ \A h \in Generations \ {g} : tpc'[h] = tpc[h]
    BY <1>2 DEF AppTaskStep, AppTaskStepFails, ReadSelection, ReadSelectionFails,
                LlmAnswers, LlmFails, WriteRecord, WriteRecordFails
  <2> QED BY <2>1, <2>2
<1>3. ASSUME SelectionStep PROVE AtWorkOnlyWhileOpen'
  BY <1>3 DEF SelectionStep, CreateSelection, DeleteSelection
<1> QED BY <1>1, <1>2, <1>3 DEF GenerationStep

LEMMA ProcessStepsKeepOpen ==
  ASSUME AppInv, ProcessStep, UNCHANGED vars
  PROVE  AppTypeOK' /\ EngineInPlace' /\ AtWorkOnlyWhileOpen'
<1> USE DEF AppInv, AppTypeOK, EngineInPlace, AtWorkOnlyWhileOpen, vars, Starting, Closing
<1>1. CASE InitDb \/ InitDbFails \/ InitMongo \/ EnsureIndexes \/ InitLimiter \/ Drain
  BY <1>1 DEF InitDb, InitDbFails, InitMongo, EnsureIndexes, InitLimiter, Drain
<1>2. CASE Drained \/ CloseMongo \/ CloseDb \/ Launch
  BY <1>2 DEF Drained, CloseMongo, CloseDb, Launch
<1>3. CASE Ready \/ Unready \/ MongoChanges
  BY <1>3 DEF Ready, Unready, MongoChanges
<1> QED BY <1>1, <1>2, <1>3 DEF ProcessStep, Lifespan

LEMMA AppInductiveStep == AppInv /\ TypeOK' /\ [AppNext]_appVars => AppInv'
<1> SUFFICES ASSUME AppInv, TypeOK', [AppNext]_appVars PROVE AppInv'
    OBVIOUS
<1>1. CASE GenerationStep /\ UNCHANGED process
  <2>1. AppTypeOK' /\ EngineInPlace'
    BY <1>1 DEF AppInv, AppTypeOK, EngineInPlace, process
  <2> QED BY <1>1, <2>1, GenerationStepsKeepOpen DEF AppInv
<1>2. CASE ProcessStep /\ UNCHANGED vars
  BY <1>2, ProcessStepsKeepOpen DEF AppInv
<1>3. CASE ProcessDies
  <2>1. AtWorkOnlyWhileOpen'
    BY <1>3 DEF ProcessDies, Crash, AppInv, TypeOK, AtWorkOnlyWhileOpen, Active, Writing
  <2>2. AppTypeOK' /\ EngineInPlace'
    BY <1>3 DEF ProcessDies, AppInv, AppTypeOK, EngineInPlace
  <2> QED BY <2>1, <2>2 DEF AppInv
<1>4. CASE UNCHANGED appVars
  BY <1>4 DEF appVars, vars, process, AppInv, AppTypeOK, TypeOK, EngineInPlace,
              AtWorkOnlyWhileOpen
<1> QED BY <1>1, <1>2, <1>3, <1>4 DEF AppNext

\* No request or task meets a closed engine or client: the lifespan opens before
\* it serves, and a shutdown closes when all work has ended
\* (observability.py:231-270).
THEOREM WorkOnlyWhileOpen == AppSpec => []AtWorkOnlyWhileOpen
<1>1. AppInit => AppInv
  BY AppInitInv
<1>2. AppInv /\ TypeOK' /\ [AppNext]_appVars => AppInv'
  BY AppInductiveStep
<1>3. AppSpec => []TypeOK
  BY ApplicationRefines, TypeCorrect, PTL
<1>4. AppInv => AtWorkOnlyWhileOpen
  BY DEF AppInv
<1> QED BY <1>1, <1>2, <1>3, <1>4, PTL DEF AppSpec
=============================================================================
