------------------------- MODULE MCVersionLifecycle -------------------------
(* Model-checking instances of VersionLifecycle.                           *)
EXTENDS VersionLifecycle, TLC

\* Uploads are interchangeable: used by the runs that check no liveness.
UploadSymmetry == Permutations(Uploads)

\* Next without RecordFailureFails: the handler's own write does not fail, so what it
\* leaves unrecorded is due to the session that failed before.
HandlerNext ==
  \/ \E u \in Uploads, d \in Docs : CreateDocument(u, d)
  \/ \E u \in Uploads :
       \/ UploadStep(u) \/ TaskStep(u)
       \/ UploadFails(u) \/ CommitVersionUnacknowledged(u)
       \/ TaskDbFails(u) \/ CommitReadyUnacknowledged(u)
  \/ Crash
  \/ Quiescent

HandlerSpec == Init /\ [][HandlerNext]_vars
=============================================================================
