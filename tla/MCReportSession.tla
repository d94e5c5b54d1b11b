---- MODULE MCReportSession ----
\* One producer, two attachments, six calls after session.started.
EXTENDS ReportSession, TLC

Symmetry == Permutations(Attachments)
==========================
