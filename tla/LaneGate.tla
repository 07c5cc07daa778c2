------------------------------ MODULE LaneGate ------------------------------
(***************************************************************************)
(* Back-pressure on a lane (internal/node/control.go): the replicated rate *)
(* limit, the token bucket each node builds from it, and the pause, which  *)
(* is the memory of the node PauseLane reached.  A node that leads again   *)
(* finds the buckets and pauses of its earlier time.                       *)
(*                                                                         *)
(* ensureLaneConfig reads the store before it takes the lock, so that its  *)
(* two halves are two steps.  A bucket is refilled once a tick.            *)
(***************************************************************************)
EXTENDS Integers, FiniteSetsExt

CONSTANTS
    GateNodes, GateLanes,
    LaneConfigs,        \* the limits operators set, [rate, burst]
    Durations,          \* of pauses, 0 is until ResumeLane
    MaxClock            \* bound on the clock

LaneConfig == [rate: Nat, burst: Nat]

ASSUME LaneGateAssumption ==
    /\ LaneConfigs \subseteq LaneConfig
    /\ Durations \subseteq Nat /\ MaxClock \in Nat

VARIABLES
    clock,
    laneCfg,        \* LaneConfigRec under LaneConfigKey, NoConfig if none
    loadedCfg,      \* loadedLaneCfg of each node
    limiter,        \* tokens in each node's bucket, Unlimited without one
    pausedUntil,    \* paused of each node, 0 if absent
    settled         \* history: the node has loaded the limit since no call is
                    \* left that read an earlier one

gateVars == <<clock, laneCfg, loadedCfg, limiter, pausedUntil, settled>>

NoConfig  == [rate |-> 0, burst |-> -1]
Unlimited == -1
Forever   == MaxClock + 1

\* Mutant: a node keeps the limit it has built.
Outdated_First(n, l, raw) == loadedCfg[n][l] = NoConfig /\ raw # NoConfig

\* ensureLaneConfig compares records, not versions.
Outdated(n, l, raw) == raw # NoConfig /\ loadedCfg[n][l] # raw

\* The second half of ensureLaneConfig, on what the first half read; others says
\* that some other call still holds an earlier limit.
EnsureLaneConfig(n, l, raw, others) ==
    /\ IF Outdated(n, l, raw)
       THEN /\ loadedCfg' = [loadedCfg EXCEPT ![n][l] = raw]
            /\ limiter' = [limiter EXCEPT ![n][l] =
                  IF raw.rate = 0 THEN Unlimited ELSE Max({raw.burst, 1})]
       ELSE UNCHANGED <<loadedCfg, limiter>>
    /\ settled' = [settled EXCEPT ![n][l] = @ \/ (raw = laneCfg[l] /\ ~others)]

LanePaused(n, l) == clock < pausedUntil[n][l]

\* Mutant: a pause that will end is kept, and holds nothing back.
PassGate_Forever(n, l, open) ==
    /\ open = (pausedUntil[n][l] # Forever /\ limiter[n][l] # 0)
    /\ pausedUntil' = [pausedUntil EXCEPT ![n][l] = IF LanePaused(n, l) THEN @ ELSE 0]
    /\ limiter' = [limiter EXCEPT ![n][l] = IF open /\ @ # Unlimited THEN @ - 1 ELSE @]

\* laneGate behind the configuration: open says what it answers.
PassGate(n, l, open) ==
    /\ open = (~LanePaused(n, l) /\ limiter[n][l] # 0)
    /\ pausedUntil' = [pausedUntil EXCEPT ![n][l] = IF LanePaused(n, l) THEN @ ELSE 0]
    /\ limiter' = [limiter EXCEPT ![n][l] = IF open /\ @ # Unlimited THEN @ - 1 ELSE @]

\* CmdSetLaneConfig is applied; the caller goes on to ensureLaneConfig.
SetLaneConfig(l, c) ==
    /\ laneCfg' = [laneCfg EXCEPT ![l] = c]
    /\ settled' = [n \in GateNodes |-> [settled[n] EXCEPT ![l] = FALSE]]

PauseLane(n, l) ==
    \E d \in Durations :
        pausedUntil' = [pausedUntil EXCEPT ![n][l] =
                           IF d = 0 THEN Forever ELSE Min({clock + d, Forever})]

ResumeLane(n, l) == pausedUntil' = [pausedUntil EXCEPT ![n][l] = 0]

\* A tick of the clock, with the rate's tokens for every bucket.
GateTick ==
    /\ clock < MaxClock /\ clock' = clock + 1
    /\ limiter' = [n \in GateNodes |-> [l \in GateLanes |->
          IF limiter[n][l] = Unlimited THEN Unlimited
          ELSE Min({limiter[n][l] + loadedCfg[n][l].rate,
                    Max({loadedCfg[n][l].burst, 1})})]]

GateInit ==
    /\ clock = 1
    /\ laneCfg = [l \in GateLanes |-> NoConfig]
    /\ loadedCfg = [n \in GateNodes |-> [l \in GateLanes |-> NoConfig]]
    /\ limiter = [n \in GateNodes |-> [l \in GateLanes |-> Unlimited]]
    /\ pausedUntil = [n \in GateNodes |-> [l \in GateLanes |-> 0]]
    /\ settled = [n \in GateNodes |-> [l \in GateLanes |-> FALSE]]

-----------------------------------------------------------------------------
(* Properties                                                              *)

\* Types.
GateTypeOK ==
    /\ clock \in 1..MaxClock
    /\ laneCfg \in [GateLanes -> LaneConfigs \cup {NoConfig}]
    /\ loadedCfg \in [GateNodes -> [GateLanes -> LaneConfigs \cup {NoConfig}]]
    /\ \A n \in GateNodes, l \in GateLanes :
          limiter[n][l] \in Int /\ pausedUntil[n][l] \in 0..Forever

\* Calls read the limit before they lock and may put an old one back; but once no
\* call is left that read it before the change, the first to pass ensureLaneConfig
\* puts the stored limit in force for good, on a leader old or new.
LimitTakesHold ==
    \A n \in GateNodes, l \in GateLanes :
        settled[n][l] /\ laneCfg[l] # NoConfig => loadedCfg[n][l] = laneCfg[l]
=============================================================================
