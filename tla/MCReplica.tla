----------------------------- MODULE MCReplica ------------------------------
\* Instances of Replica for TLC; the configuration gives the constants.
EXTENDS Replica
=============================================================================
