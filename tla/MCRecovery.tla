----------------------------- MODULE MCRecovery -----------------------------
EXTENDS Recovery

\* The last process is followed up to the first record it logs.
Followed == (state = "open" /\ restarts = MaxRestarts) => nextLsn = ScannedLsn
=============================================================================
