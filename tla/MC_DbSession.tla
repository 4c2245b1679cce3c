---------------------------- MODULE MC_DbSession ----------------------------
EXTENDS DbSession

\* one single-statement method and one of three statements
MCOps == {"updateStatus", "clearEntries"}
=============================================================================
