------------------------------ MODULE MCBatch -------------------------------
\* Instances of PublishBatch for TLC; the configuration gives the constants.
EXTENDS PublishBatch
=============================================================================
