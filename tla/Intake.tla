------------------------------- MODULE Intake -------------------------------
(***************************************************************************)
(* What the broker promises a producer, without leases, timers or rows:    *)
(* every group is a queue, a call appends its messages to the queues in    *)
(* the order of the call and all at once, and a message whose key is       *)
(* remembered, or repeats a key of the same call, is not appended again.   *)
(* Messages leave from anywhere; those that stay keep their order.         *)
(*                                                                         *)
(* A queue is the order of what waits in it: the pairs <<a, b>> such that  *)
(* b is a or stands behind it.                                             *)
(***************************************************************************)
EXTENDS Integers, Sequences, FiniteSets

CONSTANTS
    Queues,         \* the groups
    Refs, NoRef,    \* producer keys, and the absence of one
    MaxCall         \* bound on the messages of one call

VARIABLES
    call,           \* the messages of the call being served, << >> if none
    queue,          \* the order of each group, of messages by number of acceptance
    taken,          \* messages accepted so far
    known           \* the keys remembered

vars == <<call, queue, taken, known>>

Items == [q: Queues, ref: Refs \cup {NoRef}]
Calls == UNION {[1..n -> Items] : n \in 1..MaxCall}

Waiting(q) == {p[1] : p \in queue[q]}

\* The places of the messages of call c that are new.
Fresh(c) ==
    {i \in DOMAIN c :
        \/ c[i].ref = NoRef
        \/ c[i].ref \notin known /\ \A j \in 1..(i - 1) : c[j].ref # c[i].ref}

\* New messages are numbered on from the last accepted one.
Number(c, i) == taken + Cardinality({j \in Fresh(c) : j <= i})
New(c, q)    == {Number(c, i) : i \in {j \in Fresh(c) : c[j].q = q}}

\* The new messages stand behind those that wait, in the order of the call.
Accept(c) ==
    /\ queue' = [q \in Queues |->
          queue[q] \cup (Waiting(q) \X New(c, q))
                   \cup {p \in New(c, q) \X New(c, q) : p[1] <= p[2]}]
    /\ taken' = taken + Cardinality(Fresh(c))
    /\ known' = known \cup ({c[i].ref : i \in Fresh(c)} \ {NoRef})

\* A call of one message is served at once.
AcceptOne == call = << >> /\ (\E it \in Items : Accept(<<it>>)) /\ UNCHANGED call

BeginCall == call = << >> /\ call' \in Calls /\ UNCHANGED <<queue, taken, known>>

\* All of the call, or nothing of it.
EndCall ==
    /\ call # << >> /\ call' = << >>
    /\ Accept(call) \/ UNCHANGED <<queue, taken, known>>

\* Messages are acked, dead-lettered or dropped.
Depart ==
    /\ \E S \in SUBSET (1..taken) :
          queue' = [q \in Queues |-> {p \in queue[q] : p[1] \notin S /\ p[2] \notin S}]
    /\ UNCHANGED <<call, taken, known>>

\* Windows end.
Forget == known' \in SUBSET known /\ UNCHANGED <<call, queue, taken>>

Init == call = << >> /\ queue = [q \in Queues |-> {}] /\ taken = 0 /\ known = {}

Next == AcceptOne \/ BeginCall \/ EndCall \/ Depart \/ Forget

Spec == Init /\ [][Next]_vars
=============================================================================
