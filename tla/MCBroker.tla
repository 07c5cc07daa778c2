------------------------------ MODULE MCBroker ------------------------------
(***************************************************************************)
(* Instances of Broker for TLC.  A behaviour of MCSpec belongs to one      *)
(* family, which says which features it uses, so that one run checks them  *)
(* side by side without the product of all of them.                        *)
(*                                                                         *)
(*   queue      one group, delays, retries, extends, pause, purge, redrive *)
(*   caps       one group, time-to-live, lifetime caps and redrive         *)
(*   operators  one group, reaps, purges, redrives and teardowns           *)
(*   tokens     one group, completion tokens                               *)
(*   dedup      two groups, dedup keys                                     *)
(***************************************************************************)
EXTENDS Broker

CONSTANTS
    Families,       \* the families of the run
    First           \* the group the families with one group use

VARIABLE family

NoTtl    == msgExpiry = {}
NoTokens == \A l \in LeaseIds : leases[l].live => leases[l].want = NoToken
NoKeys   == \A r \in DedupRefs : promised[r] = 0
OneGroup == \A q \in Queues : q[2] # First => ~meta[q].exists

\* The caps are checked on fewer leases and ids, and with redrives only.
Short ==
    /\ nextLease <= 3 /\ dropped = {}
    /\ \A q \in Queues : ~ReadMeta(q).paused
    /\ \A k \in Keys : msgs[k] # NoMessage => k[2] <= 2

Bounds ==
    \/ family = "queue" /\ OneGroup /\ NoTtl /\ NoTokens /\ NoKeys /\ now <= 3
    \/ family = "operators" /\ OneGroup /\ NoTtl /\ NoTokens /\ NoKeys /\ nextLease <= 3
    \/ family = "caps" /\ Short
    \/ family = "tokens" /\ OneGroup /\ NoKeys /\ nextLease <= 3
    \/ family = "dedup" /\ nextLease <= 2 /\ NoTokens

MCInit == Init /\ family \in Families

MCNext ==
    /\ \/ Tick \/ ClientNext \/ SweepNext
       \/ family \in {"queue", "caps", "operators"} /\ (ReapNext \/ AdminNext)
    /\ UNCHANGED family
    /\ Bounds'

MCSpec == MCInit /\ [][MCNext]_<<vars, family>>
=============================================================================
