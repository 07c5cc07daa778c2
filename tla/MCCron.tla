------------------------------- MODULE MCCron -------------------------------
\* Instances of Cron for TLC; the configurations give the constants.
EXTENDS Cron
=============================================================================
