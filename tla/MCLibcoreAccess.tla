---------------------------- MODULE MCLibcoreAccess ----------------------------
EXTENDS LibcoreAccess, TLC

CONSTANTS t1, t2, t3, g1, g2

MCTasks == {t1, t2, t3}
MCGCJobs == {g1, g2}
=============================================================================
