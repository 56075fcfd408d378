-------------------------- MODULE MCIngestScheduler --------------------------
EXTENDS IngestScheduler, TLC
CONSTANTS i1, i2, p1, p2

\* Two instances with a handler each; the second also runs the other jobs.
MCHome == p1 :> i1 @@ p2 :> i2
=============================================================================
