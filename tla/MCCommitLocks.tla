---------------------------- MODULE MCCommitLocks ----------------------------
EXTENDS CommitLocks
CONSTANTS c1, c2, c3, a1, s1, s2
=============================================================================
