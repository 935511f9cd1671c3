----------------------------- MODULE Application ----------------------------
(***************************************************************************)
(* The process around Generation: the lifespan that opens and closes what  *)
(* requests and tasks take from module-level state (core/observability.py, *)
(* infrastructure/database.py, infrastructure/mongodb.py), the readiness   *)
(* probe (main.py), and a MongoDB server that comes and goes.  MongoDB is  *)
(* optional at start-up.  uvicorn ends the requests it has, and their      *)
(* background tasks, before the lifespan closes anything.                  *)
(***************************************************************************)
EXTENDS Generation

VARIABLES
  phase,       \* the step of the lifespan the process is at
  engine,      \* _engine and _session_factory are set
  client,      \* _client and _database; "invalid": their constructor raised
  reachable,   \* the MongoDB server answers
  probe        \* the last answer of /health/ready in this process

process == <<phase, engine, client, reachable, probe>>
appVars == <<vars, process>>

Starting == {"database", "mongodb", "indexes", "limiter"}
Closing  == {"close_mongodb", "close_database"}

AppTypeOK ==
  /\ phase \in Starting \cup Closing \cup {"serving", "draining", "down"}
  /\ engine \in BOOLEAN
  /\ client \in {"unset", "invalid", "set"}
  /\ reachable \in BOOLEAN
  /\ probe \in {"none", "ready", "unready"}

AppInit ==
  /\ Init
  /\ phase = "database"
  /\ engine = FALSE
  /\ client = "unset"
  /\ reachable \in BOOLEAN
  /\ probe = "none"

-----------------------------------------------------------------------------
(* The lifespan.                                                           *)

\* init_db: an engine and a session factory, which connect when they are used.
InitDb ==
  /\ phase = "database"
  /\ engine' = TRUE
  /\ phase' = "mongodb"
  /\ UNCHANGED <<client, reachable, probe>>

\* init_db raises, nothing catches it and the process exits.
InitDbFails ==
  /\ phase = "database"
  /\ phase' = "down"
  /\ UNCHANGED <<engine, client, reachable, probe>>

\* init_mongo: a client, which connects when it is used, and the database.  An
\* address that cannot be parsed or resolved raises before both are set.
InitMongo ==
  /\ phase = "mongodb"
  /\ \/ client' = "set" /\ phase' = "indexes"
     \/ client' = "invalid" /\ phase' = "limiter"
  /\ UNCHANGED <<engine, reachable, probe>>

\* Seeded fault: a start without MongoDB lets the client go.
EnsureIndexesOrLetGo ==
  /\ phase = "indexes"
  /\ client' = IF reachable THEN "set" ELSE "unset"
  /\ phase' = "limiter"
  /\ UNCHANGED <<engine, reachable, probe>>

\* Seeded fault: the start-up waits for MongoDB.
EnsureIndexesOrWait ==
  /\ phase = "indexes" /\ reachable
  /\ phase' = "limiter"
  /\ UNCHANGED <<engine, client, reachable, probe>>

\* ensure_indexes: the first call to the server, given up after five seconds.
\* What it raises is logged and the client stays.
EnsureIndexes ==
  /\ phase = "indexes"
  /\ phase' = "limiter"
  /\ UNCHANGED <<engine, client, reachable, probe>>

\* init_rate_limiter, which does without Redis if it must, and tracing.
InitLimiter ==
  /\ phase = "limiter"
  /\ phase' = "serving"
  /\ UNCHANGED <<engine, client, reachable, probe>>

\* SIGTERM: no new requests.
Drain ==
  /\ phase = "serving"
  /\ phase' = "draining"
  /\ UNCHANGED <<engine, client, reachable, probe>>

\* Requests and tasks have ended; close_rate_limiter.
Drained ==
  /\ phase = "draining"
  /\ \A g \in Generations : rpc[g] # "checked" /\ tpc[g] \notin Active
  /\ phase' = "close_mongodb"
  /\ UNCHANGED <<engine, client, reachable, probe>>

CloseMongo ==
  /\ phase = "close_mongodb"
  /\ client' = "unset"
  /\ phase' = "close_database"
  /\ UNCHANGED <<engine, reachable, probe>>

CloseDb ==
  /\ phase = "close_database"
  /\ engine' = FALSE
  /\ phase' = "down"
  /\ UNCHANGED <<client, reachable, probe>>

\* A new process, after a shutdown or a crash.
Launch ==
  /\ phase = "down"
  /\ phase' = "database"
  /\ engine' = FALSE /\ client' = "unset" /\ probe' = "none"
  /\ UNCHANGED reachable

Lifespan ==
  \/ InitDb \/ InitMongo \/ EnsureIndexes \/ InitLimiter
  \/ Drained \/ CloseMongo \/ CloseDb \/ Launch

-----------------------------------------------------------------------------
(* Requests.                                                               *)

\* readiness_check, and the database answers: ready, whatever the MongoDB check
\* says.
Ready ==
  /\ phase = "serving"
  /\ engine
  /\ probe' = "ready"
  /\ UNCHANGED <<phase, engine, client, reachable>>

\* check_db_health finds no engine, or the database does not answer.
Unready ==
  /\ phase = "serving"
  /\ probe' = "unready"
  /\ UNCHANGED <<phase, engine, client, reachable>>

Usable == client = "set" /\ reachable

\* Requests come while the process serves; what it has begun it ends.
RequestStep(g) ==
  \/ /\ phase = "serving"
     /\ engine
     /\ \E s \in Selections : CheckSelection(g, s)
  \/ /\ phase = "serving"
     /\ rpc[g] = "idle" /\ ~engine
     /\ RequestUnavailable(g)
  \/ /\ Usable
     /\ CreateRecord(g)
  \/ /\ rpc[g] = "checked" /\ ~Usable
     /\ RequestUnavailable(g)

RequestStepFails(g) ==
  /\ phase \in {"serving", "draining"}
  /\ RequestFails(g)

\* Without its session factory or MongoDB a task's call fails.
AppTaskStep(g) ==
  \/ engine /\ ReadSelection(g)
  \/ ~engine /\ ReadSelectionFails(g)
  \/ LlmAnswers(g) \/ LlmFails(g)
  \/ Usable /\ WriteRecord(g)
  \/ ~Usable /\ WriteRecordFails(g)

AppTaskStepFails(g) == ReadSelectionFails(g) \/ WriteRecordFails(g)

SelectionStep ==
  /\ phase \in {"serving", "draining"} /\ engine
  /\ \E s \in Selections : CreateSelection(s) \/ DeleteSelection(s)

\* The process dies, and its module-level state with it.
ProcessDies ==
  /\ phase # "down"
  /\ Crash
  /\ phase' = "down"
  /\ UNCHANGED <<engine, client, reachable, probe>>

\* The MongoDB server is lost, or is back.
MongoChanges ==
  /\ reachable' = ~reachable
  /\ UNCHANGED <<phase, engine, client, probe>>

GenerationStep ==
  \/ \E g \in Generations :
       RequestStep(g) \/ RequestStepFails(g) \/ AppTaskStep(g) \/ AppTaskStepFails(g)
  \/ SelectionStep

ProcessStep ==
  \/ Lifespan \/ InitDbFails \/ Drain
  \/ Ready \/ Unready
  \/ MongoChanges

AppNext ==
  \/ GenerationStep /\ UNCHANGED process
  \/ ProcessStep /\ UNCHANGED vars
  \/ ProcessDies

AppSpec == AppInit /\ [][AppNext]_appVars

(* Start-up and shutdown go on, the event loop runs requests and tasks, the  *)
(* process manager launches the process again, and a probe is answered by    *)
(* the database at last.                                                     *)
AppFairSpec ==
  /\ AppSpec
  /\ WF_appVars(Lifespan /\ UNCHANGED vars)
  /\ WF_appVars(Ready /\ UNCHANGED vars)
  /\ \A g \in Generations :
       /\ WF_appVars(RequestStep(g) /\ rpc[g] = "checked" /\ UNCHANGED process)
       /\ WF_appVars(AppTaskStep(g) /\ UNCHANGED process)
-----------------------------------------------------------------------------
\* What is at work has what it works with: no request runs without a session
\* factory, no task without it and a client, from the order of the lifespan
\* and because a shutdown drains before it closes (observability.py:231-270).
\* A probe that was ever answered found the engine in place.
AtWorkOnlyWhileOpen ==
  \A g \in Generations :
    /\ rpc[g] = "checked" => phase \in {"serving", "draining"} /\ engine
    /\ tpc[g] \in Active =>
         phase \in {"serving", "draining"} /\ engine /\ client = "set"

\* A start ends in a process that reports itself ready, whatever MongoDB does,
\* unless it is ended before (mongodb.py:21).
BecomesReady ==
  phase = "database" ~> probe = "ready" \/ phase \in {"draining", "down"}

\* After a start without MongoDB, generations are accepted once it is there,
\* with no restart: a request is turned away only while the server is away, if
\* a call of its own fails, or if the client could not be made (mongodb.py:22).
WorksOnceReachable ==
  \A g \in Generations :
    rpc[g] = "checked" ~>
      rpc[g] = "accepted" \/ ~reachable \/ client = "invalid" \/ g \in hit
=============================================================================
