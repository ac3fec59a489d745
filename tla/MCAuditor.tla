----------------------------- MODULE MCAuditor -----------------------------
(* Auditor on a small instance, and its refinement of AuditTrail.          *)
EXTENDS Auditor, SequencesExt

\* The lines a reader finds, oldest file first.
AllLines == FlattenSeq([n \in 1..LastFile + 1 |->
              LET k == LastFile + 1 - n IN IF k \in DOMAIN disk THEN disk[k] ELSE <<>>])

Newest == CHOOSE e \in written \cup {0} : \A f \in written : f <= e

Trail == INSTANCE AuditTrail WITH trail <- AllLines, last <- Newest, Kept <- MaxSize

\* The files implement AuditTrail through queueing, rotation, failed file
\* operations and restarts: a reader sees new lines at the end and loses only
\* the beginning, never the last MaxSize lines; the steps inside a rotation
\* change nothing it sees.
ImplementsTrail == Trail!Spec
=============================================================================
