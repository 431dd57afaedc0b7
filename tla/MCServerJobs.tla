---------------------------- MODULE MCServerJobs ----------------------------
EXTENDS ServerJobs, TLC

MCAnalyses == {1}
=============================================================================
