-------------------------- MODULE SingletonProofs ---------------------------
(***************************************************************************)
(* Proofs about Singleton for every set of clients, every horizon and every *)
(* number of requests on their way.                                         *)
(***************************************************************************)
EXTENDS Singleton, TLAPS

\* The requests that the record has not seen yet.
Pending == net \cup {log[i].req : i \in DOMAIN log}

Typed == TypeOK /\ log \in Seq(SingletonCmd)

\* A client renews, and is answered about, the grant it still has.
CallOK ==
    \A h \in Holders :
        /\ call[h] # NoCall => call[h].holder = h
        /\ call[h].op = "renew" => grant[h] # NoGrant /\ call[h].fence = grant[h].fence

\* Fences come from the record, each goes to one client, and a client that
\* releases a fence has no grant of it or of an older one.
FenceOK ==
    /\ \A h \in Holders : /\ grant[h].fence <= rec.fence
                          /\ grant[h] # NoGrant => grant[h].fence > 0
    /\ \A g, h \in Holders : grant[g].fence = grant[h].fence /\ grant[g] # NoGrant => g = h
    /\ \A m \in Pending :
          /\ m.fence <= rec.fence
          /\ m.op = "release" /\ grant[m.holder] # NoGrant =>
                m.fence < grant[m.holder].fence

FenceInv == Typed /\ CallOK /\ FenceOK

-----------------------------------------------------------------------------
(* Requests on their way                                                   *)

\* The requests after one more is stamped, after the oldest is applied, and
\* after one more is made.
LEMMA PendingType == Typed => Pending \subseteq Request
BY DEF Typed, TypeOK, Pending, SingletonCmd

\* Proposing a request moves it into the log: nothing new is pending.
LEMMA PendingPropose ==
    ASSUME Typed, NEW m \in net, Propose(m)
    PROVE  /\ Pending' \subseteq Pending
           /\ log' \in Seq(SingletonCmd)
           /\ \A i \in DOMAIN log' : log'[i] \in SingletonCmd
<1>1. PICK t \in (now - skew)..(now + skew) : log' = Append(log, [req |-> m, now |-> t])
    BY DEF Propose
<1>2. [req |-> m, now |-> t] \in SingletonCmd
    BY <1>1 DEF Typed, TypeOK, SingletonCmd
<1>3. log' \in Seq(SingletonCmd)
    BY <1>1, <1>2 DEF Typed
<1>4. ASSUME NEW i \in DOMAIN log' PROVE log'[i].req \in Pending
    BY <1>1, <1>2 DEF Typed, Pending
<1>5. net' \subseteq net
    BY DEF Propose
<1>6. QED
    BY <1>3, <1>4, <1>5 DEF Pending

\* Applying takes the head of the log: nothing new is pending.
LEMMA PendingApply ==
    ASSUME Typed, ApplySingleton
    PROVE  /\ Pending' \subseteq Pending
           /\ Head(log).req \in Pending /\ Head(log) \in SingletonCmd
           /\ log' \in Seq(SingletonCmd)
           /\ \A i \in DOMAIN log' : i + 1 \in DOMAIN log /\ log'[i] = log[i + 1]
           /\ \A i \in DOMAIN log' : log'[i] \in SingletonCmd
           /\ log # << >> /\ Head(log) = log[1] /\ 1 \in DOMAIN log
<1>1. /\ log # << >> /\ log \in Seq(SingletonCmd) /\ log' = Tail(log) /\ net' = net
    BY DEF ApplySingleton, Typed
<1>2. /\ 1 \in DOMAIN log /\ Head(log) = log[1] /\ log' \in Seq(SingletonCmd)
      /\ \A i \in DOMAIN log' : i + 1 \in DOMAIN log /\ log'[i] = log[i + 1]
    BY <1>1
<1>3. QED
    BY <1>1, <1>2 DEF Pending

\* Sending adds one pending request.
LEMMA PendingSend ==
    ASSUME NEW h, NEW op, NEW fence, NEW ttl, Send(h, op, fence, ttl)
    PROVE  Pending' = Pending \cup
              {[op |-> op, holder |-> h, fence |-> fence, ttl |-> ttl, sent |-> now]}
BY DEF Send, Pending

-----------------------------------------------------------------------------
(* Fences                                                                  *)

\* The sentinel grant has fence zero.
LEMMA NoGrantType == NoGrant \in Grant /\ NoGrant.fence = 0
BY SingletonAssumption DEF NoGrant, Grant

\* The fences are in order at the start.
LEMMA FenceInit == Init => FenceInv
<1> SUFFICES ASSUME Init PROVE FenceInv
    OBVIOUS
<1>1. now \in 1..Horizon
    BY SingletonAssumption DEF Init
<1>2. rec \in SingletonRec /\ rec.fence = 0 /\ rec.deadline = 0
    BY SingletonAssumption DEF Init, SingletonRec
<1>3. grant \in [Holders -> Grant] /\ \A h \in Holders : grant[h] = NoGrant
    BY NoGrantType DEF Init
<1>4. Typed
    BY <1>1, <1>2, <1>3 DEF Init, Typed, TypeOK
<1>5. CallOK
    BY DEF Init, CallOK, NoCall
<1>6. Pending = {}
    BY DEF Init, Pending
<1>7. FenceOK
    BY <1>2, <1>3, <1>6 DEF FenceOK, NoGrant
<1>8. QED
    BY <1>4, <1>5, <1>7 DEF FenceInv

\* A new request: an acquire, or a renew of the grant the client has.
LEMMA FenceSend ==
    ASSUME FenceInv, NEW h \in Holders, NEW op \in {"acquire", "renew"},
           NEW fence \in 0..MaxFence, NEW ttl \in Ttls,
           fence <= rec.fence,
           op = "renew" => grant[h] # NoGrant /\ fence = grant[h].fence,
           Send(h, op, fence, ttl), UNCHANGED grant
    PROVE  FenceInv'
<1> DEFINE m == [op |-> op, holder |-> h, fence |-> fence, ttl |-> ttl, sent |-> now]
<1>1. m \in Request
    BY DEF FenceInv, Typed, TypeOK, Request
<1>2. Typed'
    BY <1>1 DEF FenceInv, Typed, TypeOK, Send
<1>3. CallOK'
    BY <1>1 DEF FenceInv, Typed, TypeOK, CallOK, Send
<1>4. FenceOK'
  <2>1. Pending' = Pending \cup {m} /\ rec' = rec /\ grant' = grant
    BY PendingSend DEF Send
  <2>2. QED
    BY <2>1 DEF FenceInv, FenceOK
<1>5. QED
    BY <1>2, <1>3, <1>4 DEF FenceInv

\* A release request keeps the fences in order.
LEMMA FenceRelease ==
    ASSUME FenceInv, NEW h \in Holders, ReleaseSingleton(h)
    PROVE  FenceInv'
<1> DEFINE m == [op |-> "release", holder |-> h, fence |-> grant[h].fence,
                 ttl |-> 0, sent |-> now]
<1>0. Send(h, "release", grant[h].fence, 0) /\ grant' = [grant EXCEPT ![h] = NoGrant]
    BY DEF ReleaseSingleton
<1>1. m \in Request
    BY DEF FenceInv, Typed, TypeOK, Request, Grant
<1>2. Typed'
    BY <1>0, <1>1, SingletonAssumption
       DEF FenceInv, Typed, TypeOK, Send, NoGrant, Grant
<1>3. CallOK'
    BY <1>0, <1>1 DEF FenceInv, Typed, TypeOK, CallOK, Send
<1>4. FenceOK'
  <2>1. Pending' = Pending \cup {m} /\ rec' = rec
    BY <1>0, PendingSend DEF Send
  <2>2. /\ grant'[h] = NoGrant
        /\ \A g \in Holders \ {h} : grant'[g] = grant[g]
    BY <1>0 DEF FenceInv, Typed, TypeOK
  <2>3. Pending \subseteq Request
    BY PendingType DEF FenceInv
  <2>4. \A g \in Holders : grant'[g].fence <= rec'.fence
    BY <2>1, <2>2 DEF FenceInv, FenceOK, NoGrant, Typed, TypeOK, SingletonRec
  <2>5. \A g \in Holders : grant'[g] # NoGrant => grant'[g].fence > 0
    BY <2>2 DEF FenceInv, FenceOK
  <2>6. \A g, k \in Holders : grant'[g].fence = grant'[k].fence /\ grant'[g] # NoGrant => g = k
    BY <2>2, NoGrantType DEF FenceInv, FenceOK
  <2>7. \A r \in Pending' :
          /\ r.fence <= rec'.fence
          /\ r.op = "release" /\ grant'[r.holder] # NoGrant =>
                r.fence < grant'[r.holder].fence
    <3>1. \A r \in Pending : r.holder \in Holders
        BY <2>3 DEF Request
    <3>2. m.holder = h /\ m.fence <= rec.fence
        BY DEF FenceInv, FenceOK
    <3>3. QED
        BY <2>1, <2>2, <3>1, <3>2 DEF FenceInv, FenceOK
  <2>8. QED
    BY <2>4, <2>5, <2>6, <2>7 DEF FenceOK
<1>5. QED
    BY <1>2, <1>3, <1>4 DEF FenceInv

\* A call that times out, and a client that dies.
LEMMA FenceForget ==
    ASSUME FenceInv, NEW h \in Holders, CallTimesOut(h) \/ Restart(h)
    PROVE  FenceInv'
<1>1. /\ call' = [call EXCEPT ![h] = NoCall] /\ Pending' = Pending
      /\ UNCHANGED <<now, skew, rec, net, log>>
    BY DEF CallTimesOut, Restart, Pending
<1>2. /\ \A g \in Holders \ {h} : grant'[g] = grant[g] /\ call'[g] = call[g]
      /\ grant'[h] = grant[h] \/ grant'[h] = NoGrant
      /\ call'[h] = NoCall
      /\ grant' \in [Holders -> Grant]
  <2>1. call \in [Holders -> Request \cup {NoCall}] /\ grant \in [Holders -> Grant]
    BY DEF FenceInv, Typed, TypeOK
  <2>2. CASE CallTimesOut(h)
    BY <1>1, <2>1, <2>2 DEF CallTimesOut
  <2>3. CASE Restart(h)
    BY <1>1, <2>1, <2>3, NoGrantType DEF Restart
  <2>4. QED
    BY <2>2, <2>3
<1>3. Typed'
    BY <1>1, <1>2 DEF FenceInv, Typed, TypeOK
<1>4. CallOK'
    BY <1>2 DEF FenceInv, CallOK, NoCall
<1>5. FenceOK'
  <2>1. \A g \in Holders : /\ grant'[g].fence <= rec'.fence
                           /\ grant'[g] # NoGrant => grant'[g].fence > 0
    BY <1>1, <1>2 DEF FenceInv, FenceOK, NoGrant, Typed, TypeOK, SingletonRec
  <2>2. Pending \subseteq Request
    BY PendingType DEF FenceInv
  <2>3. \A g, k \in Holders : grant'[g].fence = grant'[k].fence /\ grant'[g] # NoGrant => g = k
    BY <1>2, NoGrantType DEF FenceInv, FenceOK
  <2>4. \A r \in Pending' :
          /\ r.fence <= rec'.fence
          /\ r.op = "release" /\ grant'[r.holder] # NoGrant =>
                r.fence < grant'[r.holder].fence
    <3>1. \A r \in Pending : r.holder \in Holders
        BY <2>2 DEF Request
    <3>2. QED
        BY <1>1, <1>2, <3>1 DEF FenceInv, FenceOK
  <2>5. QED
    BY <2>1, <2>3, <2>4 DEF FenceOK
<1>6. QED
    BY <1>3, <1>4, <1>5 DEF FenceInv

\* What an answer does: the client that still waits gets g, nobody else does.
LEMMA AnswerEffect ==
    ASSUME Typed, NEW m \in Request, NEW g \in Grant, Answer(m, g)
    PROVE  /\ call' \in [Holders -> Request \cup {NoCall}]
           /\ grant' \in [Holders -> Grant]
           /\ \A h \in Holders :
                 \/ call'[h] = call[h] /\ grant'[h] = grant[h]
                 \/ /\ h = m.holder /\ call[h] = m
                    /\ call'[h] = NoCall /\ grant'[h] = g
BY DEF Answer, Typed, TypeOK, Request

\* An entry is applied: the grant that its answer carries is none, the
\* client's own, or one with a fresh fence.
LEMMA ApplyEffect ==
    ASSUME FenceInv, ApplySingleton
    PROVE  \E g \in Grant :
              /\ Answer(Head(log).req, g)
              /\ rec' \in SingletonRec /\ (rec'.holder = Nobody => rec'.deadline = 0)
              /\ rec.fence <= rec'.fence
              /\ \/ g = NoGrant
                 \/ Head(log).req.op = "renew" /\ g.fence = Head(log).req.fence
                 \/ rec.fence < g.fence /\ g.fence <= rec'.fence
<1> DEFINE c == Head(log)
<1>1. c \in SingletonCmd
    BY PendingApply DEF FenceInv
<1>a. ApplyAcquire(c) \/ ApplyRenew(c) \/ ApplyRelease(c)
    BY DEF ApplySingleton
<1> HIDE DEF c
<1>2. NoGrant \in Grant
    BY NoGrantType
<1>b. /\ c.req.fence \in 0..MaxFence /\ c.req.holder \in Holders /\ c.now \in Int
      /\ c.req.ttl \in Nat /\ c.req.sent \in Nat
  <2>1. Ttls \subseteq Nat
    BY SingletonAssumption
  <2>2. c.req \in Request /\ c.now \in Int
    BY <1>1 DEF SingletonCmd
  <2>3. c.req.sent \in 1..Horizon /\ c.req.ttl \in Ttls \cup {0} /\ c.req.holder \in Holders
        /\ c.req.fence \in 0..MaxFence
    BY <2>2 DEF Request
  <2>4. c.req.sent \in Nat
    BY <2>3, SingletonAssumption
  <2>5. c.req.ttl \in Nat
    <3>1. 0 \in Nat
        OBVIOUS
    <3>2. QED
        BY <2>1, <2>3, <3>1, Zenon
  <2>6. QED
    BY <2>2, <2>3, <2>4, <2>5
<1>3. rec \in SingletonRec /\ rec.fence <= rec.fence /\ (rec.holder = Nobody => rec.deadline = 0)
    BY DEF FenceInv, Typed, TypeOK, SingletonRec
<1>4. CASE ApplyAcquire(c)
  <2>1. CASE HeldByOther(c)
    BY <1>2, <1>3, <1>4, <2>1 DEF ApplyAcquire, c
  <2>2. CASE ~HeldByOther(c)
    <3>1. Granted(c.req, rec.fence + 1) \in Grant
        BY <1>b, <1>3, <1>4, <2>2, SingletonAssumption
           DEF Granted, Grant, ApplyAcquire, SingletonRec
    <3>2. rec' \in SingletonRec /\ rec'.fence = rec.fence + 1 /\ rec'.holder # Nobody
        BY <1>b, <1>3, <1>4, <2>2, SingletonAssumption DEF ApplyAcquire, SingletonRec
    <3>3. Answer(c.req, Granted(c.req, rec.fence + 1))
        BY <1>4, <2>2 DEF ApplyAcquire
    <3>4. Granted(c.req, rec.fence + 1).fence = rec.fence + 1
        BY DEF Granted
    <3>5. rec.fence \in Nat
        BY <1>3 DEF SingletonRec
    <3>6. QED
        BY <3>1, <3>2, <3>3, <3>4, <3>5 DEF c
  <2>3. QED
    BY <2>1, <2>2
<1>5. CASE ApplyRenew(c)
  <2>1. CASE Owns(c.req)
    <3>1. Granted(c.req, c.req.fence) \in Grant
        BY <1>b DEF Granted, Grant
    <3>2. rec' \in SingletonRec /\ rec'.fence = rec.fence /\ rec'.holder # Nobody
        BY <1>b, <1>3, <1>5, <2>1, SingletonAssumption DEF ApplyRenew, Owns, SingletonRec
    <3>3. Granted(c.req, c.req.fence).fence = c.req.fence
        BY DEF Granted
    <3>4. QED
        BY <1>3, <1>5, <2>1, <3>1, <3>2, <3>3 DEF ApplyRenew, c
  <2>2. QED
    BY <1>2, <1>3, <1>5, <2>1 DEF ApplyRenew, c
<1>6. CASE ApplyRelease(c)
  <2>1. Answer(c.req, NoGrant) /\ (rec' = rec \/ rec' = Vacated)
    BY <1>6 DEF ApplyRelease
  <2>2. Vacated \in SingletonRec /\ Vacated.deadline = 0 /\ Vacated.fence = rec.fence
    <3>1. rec.fence \in 0..MaxFence /\ DOMAIN rec = {"holder", "deadline", "fence"}
        BY <1>3 DEF SingletonRec
    <3>2. /\ Vacated.holder = Nobody /\ Vacated.deadline = 0 /\ Vacated.fence = rec.fence
          /\ Vacated = [x \in DOMAIN rec |-> Vacated[x]]
        BY <1>3 DEF Vacated, SingletonRec
    <3>3. QED
        BY <3>1, <3>2 DEF SingletonRec
  <2>3. QED
    BY <1>2, <1>3, <2>1, <2>2 DEF c
<1>7. QED
    BY <1>a, <1>4, <1>5, <1>6

\* An applied command keeps the fences in order.
LEMMA FenceApply ==
    ASSUME FenceInv, ApplySingleton
    PROVE  FenceInv'
<1> DEFINE m == Head(log).req
<1>1. PICK g \in Grant :
              /\ Answer(m, g)
              /\ rec' \in SingletonRec /\ (rec'.holder = Nobody => rec'.deadline = 0)
              /\ rec.fence <= rec'.fence
              /\ \/ g = NoGrant
                 \/ m.op = "renew" /\ g.fence = m.fence
                 \/ rec.fence < g.fence /\ g.fence <= rec'.fence
    BY ApplyEffect
<1>2. m \in Request /\ Pending' \subseteq Pending /\ Pending \subseteq Request
    BY PendingApply, PendingType DEF FenceInv
<1>3. /\ call' \in [Holders -> Request \cup {NoCall}]
      /\ grant' \in [Holders -> Grant]
      /\ \A h \in Holders :
            \/ call'[h] = call[h] /\ grant'[h] = grant[h]
            \/ /\ h = m.holder /\ call[h] = m
               /\ call'[h] = NoCall /\ grant'[h] = g
    BY <1>1, <1>2, AnswerEffect DEF FenceInv
<1>4. Typed'
    BY <1>1, <1>2, <1>3, PendingApply DEF FenceInv, Typed, TypeOK, ApplySingleton
<1>5. CallOK'
    BY <1>3 DEF FenceInv, CallOK, NoCall
<1>6. FenceOK'
  <2>1. /\ \A h \in Holders : /\ grant[h] \in Grant /\ grant'[h] \in Grant
                              /\ grant[h].fence \in Nat /\ grant'[h].fence \in Nat
        /\ rec.fence \in Nat /\ rec'.fence \in Nat
        /\ \A r \in Pending : r.fence \in Nat /\ r.holder \in Holders
    <3>1. grant \in [Holders -> Grant] /\ rec \in SingletonRec
        BY DEF FenceInv, Typed, TypeOK
    <3>2. /\ \A x \in Grant : x.fence \in Nat
          /\ \A x \in SingletonRec : x.fence \in Nat
          /\ \A x \in Request : x.fence \in Nat /\ x.holder \in Holders
        BY SingletonAssumption DEF SingletonRec, Grant, Request
    <3>3. QED
        BY <1>1, <1>2, <1>3, <3>1, <3>2
  <2>2. ASSUME NEW h \in Holders
        PROVE  \/ grant'[h] = grant[h] \/ grant'[h] = NoGrant
               \/ grant'[h].fence = grant[h].fence /\ grant[h] # NoGrant
               \/ /\ h = m.holder /\ rec.fence < grant'[h].fence
                  /\ grant'[h].fence <= rec'.fence
    BY <1>1, <1>3, <2>2 DEF FenceInv, CallOK
  <2>3. \A h \in Holders : /\ grant'[h].fence <= rec'.fence
                           /\ grant'[h] # NoGrant => grant'[h].fence > 0
    BY <1>1, <2>1, <2>2 DEF FenceInv, FenceOK, NoGrant
  <2>4. \A g1, h \in Holders :
            grant'[g1].fence = grant'[h].fence /\ grant'[g1] # NoGrant => g1 = h
    BY <2>1, <2>2, <2>3 DEF FenceInv, FenceOK, NoGrant
  <2>5. \A r \in Pending' :
          /\ r.fence <= rec'.fence
          /\ r.op = "release" /\ grant'[r.holder] # NoGrant =>
                r.fence < grant'[r.holder].fence
    BY <1>1, <1>2, <2>1, <2>2 DEF FenceInv, FenceOK
  <2>6. QED
    BY <2>3, <2>4, <2>5 DEF FenceOK
<1>7. QED
    BY <1>4, <1>5, <1>6 DEF FenceInv

\* Steps that leave the record and the clients alone.
LEMMA FenceQuiet ==
    ASSUME FenceInv, UNCHANGED <<rec, call, grant>>, Pending' \subseteq Pending, Typed'
    PROVE  FenceInv'
BY DEF FenceInv, CallOK, FenceOK

\* Every step keeps the fences in order.
LEMMA FenceStep == FenceInv /\ [Next]_vars => FenceInv'
<1> SUFFICES ASSUME FenceInv, [Next]_vars PROVE FenceInv'
    OBVIOUS
<1>1. CASE Tick
  <2>1. Typed' /\ Pending' = Pending /\ UNCHANGED <<rec, call, grant>>
    BY <1>1, SingletonAssumption DEF Tick, FenceInv, Typed, TypeOK, Pending
  <2>2. QED
    BY <2>1, FenceQuiet
<1>2. CASE ClientNext
  <2>1. PICK h \in Holders :
            \/ \E ttl \in Ttls : AcquireSingleton(h, ttl) \/ RenewSingleton(h, ttl)
            \/ ReleaseSingleton(h)
            \/ CallTimesOut(h)
            \/ Restart(h)
    BY <1>2 DEF ClientNext
  <2>2. ASSUME NEW ttl \in Ttls, AcquireSingleton(h, ttl) PROVE FenceInv'
    <3>1. 0 \in 0..MaxFence /\ 0 <= rec.fence
        BY SingletonAssumption DEF FenceInv, Typed, TypeOK, SingletonRec
    <3>2. QED
        BY <2>2, <3>1, FenceSend DEF AcquireSingleton
  <2>3. ASSUME NEW ttl \in Ttls, RenewSingleton(h, ttl) PROVE FenceInv'
    <3>1. grant[h].fence \in 0..MaxFence /\ grant[h].fence <= rec.fence
        BY DEF FenceInv, Typed, TypeOK, Grant, FenceOK
    <3>2. QED
        BY <2>3, <3>1, FenceSend DEF RenewSingleton
  <2>4. QED
    BY <2>1, <2>2, <2>3, FenceRelease, FenceForget
<1>3. CASE ApplySingleton
    BY <1>3, FenceApply
<1>4. ASSUME NEW m \in net, Propose(m) PROVE FenceInv'
  <2>1. Pending' \subseteq Pending /\ Typed'
    BY <1>4, PendingPropose DEF FenceInv, Typed, TypeOK, Propose
  <2>2. QED
    BY <1>4, <2>1, FenceQuiet DEF Propose
<1>5. ASSUME NEW m \in net, Lose(m) PROVE FenceInv'
  <2>1. Pending' \subseteq Pending /\ Typed'
    BY <1>5 DEF FenceInv, Typed, TypeOK, Lose, Pending
  <2>2. QED
    BY <1>5, <2>1, FenceQuiet DEF Lose
<1>6. CASE UNCHANGED vars
  <2>1. Typed' /\ Pending' = Pending /\ UNCHANGED <<rec, call, grant>>
    BY <1>6 DEF vars, FenceInv, Typed, TypeOK, Pending
  <2>2. QED
    BY <2>1, FenceQuiet
<1>7. QED
    BY <1>1, <1>2, <1>3, <1>4, <1>5, <1>6 DEF Next, LeaderNext

\* The fences are in order in every reachable state.
LEMMA FenceAlways == Spec => []FenceInv
<1>1. Init => FenceInv
    BY FenceInit
<1>2. FenceInv /\ [Next]_vars => FenceInv'
    BY FenceStep
<1>3. QED
    BY <1>1, <1>2, PTL DEF Spec

\* Every variable keeps its type, and a vacant record has no deadline, through
\* applySingleton and every lost, delayed or repeated call.
THEOREM TypeCorrect == Spec => []TypeOK
<1>1. FenceInv => TypeOK
    BY DEF FenceInv, Typed
<1>2. QED
    BY <1>1, FenceAlways, PTL

\* Fencing works whatever the clocks do: applySingleton never lets two clients
\* have the same fence, and the record's fence is at least every granted one.
THEOREM FencesOutrank == Spec => []FenceOutranks
<1>1. FenceInv => FenceOutranks
    BY DEF FenceInv, FenceOK, FenceOutranks
<1>2. QED
    BY <1>1, FenceAlways, PTL

-----------------------------------------------------------------------------
(* Mutual exclusion, where the leaders' clocks agree and one ttl is in use  *)

\* What the leaders' stamps order: a request is stamped after it was sent, the
\* log is in the order of its stamps, and the record's deadline is one ttl after
\* a stamp older than those in the log.
StampOK ==
    /\ \A m \in net : m.sent <= now
    /\ \A i \in DOMAIN log : log[i].req.sent <= log[i].now /\ log[i].now <= now
    /\ \A i, j \in DOMAIN log : i <= j => log[i].now <= log[j].now
    /\ \A t \in Ttls : rec.holder # Nobody =>
          /\ rec.deadline <= now + t
          /\ \A i \in DOMAIN log : rec.deadline <= log[i].now + t

\* Acquire and renew carry a ttl.
TtlOK == \A m \in Pending : m.op # "release" => m.ttl \in Ttls

\* Whoever believes it holds the singleton is the record's holder, and stops
\* believing so no later than the record's deadline.
BeliefOK ==
    \A h \in Holders : Believes(h) => rec.holder = h /\ grant[h].until <= rec.deadline

MutexInv == FenceInv /\ TtlOK /\ (skew = 0 => StampOK /\ BeliefOK)

OneTtl == \A s, t \in Ttls : s = t

\* Nobody believes itself the holder at the start.
LEMMA MutexInit == Init => MutexInv
<1> SUFFICES ASSUME Init PROVE MutexInv
    OBVIOUS
<1>1. FenceInv
    BY FenceInit
<1>2. TtlOK /\ StampOK
    BY DEF Init, TtlOK, StampOK, Pending
<1>3. BeliefOK
    BY DEF Init, BeliefOK, Believes, NoGrant
<1>4. QED
    BY <1>1, <1>2, <1>3 DEF MutexInv

\* Time passes: fewer clients believe.
LEMMA MutexTick ==
    ASSUME MutexInv, Tick
    PROVE  MutexInv'
<1>1. FenceInv'
    BY FenceStep DEF MutexInv, Next
<1>2. TtlOK'
    BY DEF MutexInv, TtlOK, Pending, Tick
<1>3. /\ now \in Nat /\ now' = now + 1 /\ UNCHANGED <<skew, rec, net, log, grant>>
      /\ \A m \in net : m.sent \in Nat
      /\ \A i \in DOMAIN log : log[i].now \in Int
      /\ rec.deadline \in Int /\ Ttls \subseteq Nat
      /\ \A h \in Holders : grant[h].until \in Nat
    BY SingletonAssumption
       DEF Tick, MutexInv, FenceInv, Typed, TypeOK, Request, SingletonCmd, SingletonRec, Grant
<1>4. ASSUME skew = 0 PROVE StampOK'
    <2>1. StampOK
        BY <1>4 DEF MutexInv
    <2>2. \A m \in net' : m.sent <= now'
        BY <1>3, <2>1 DEF StampOK
    <2>3. \A i \in DOMAIN log' : log'[i].req.sent <= log'[i].now /\ log'[i].now <= now'
        BY <1>3, <2>1 DEF StampOK
    <2>4. \A i, j \in DOMAIN log' : i <= j => log'[i].now <= log'[j].now
        BY <1>3, <2>1 DEF StampOK
    <2>5. ASSUME NEW t \in Ttls, rec'.holder # Nobody
          PROVE  /\ rec'.deadline <= now' + t
                 /\ \A i \in DOMAIN log' : rec'.deadline <= log'[i].now + t
        <3>1. /\ t \in Nat /\ rec.deadline <= now + t
              /\ \A i \in DOMAIN log : rec.deadline <= log[i].now + t
            BY <1>3, <2>1, <2>5 DEF StampOK
        <3> QED
            BY <1>3, <3>1
    <2> QED
        BY <2>2, <2>3, <2>4, <2>5 DEF StampOK
<1>5. ASSUME skew = 0 PROVE BeliefOK'
    BY <1>3, <1>5 DEF MutexInv, BeliefOK, Believes
<1>6. QED
    BY <1>1, <1>2, <1>3, <1>4, <1>5 DEF MutexInv

\* A client makes a call, gives up on one, or dies.
LEMMA MutexClient ==
    ASSUME MutexInv, ClientNext
    PROVE  MutexInv'
<1>1. FenceInv'
    BY FenceStep DEF MutexInv, Next
<1>2. PICK h \in Holders :
            \/ \E ttl \in Ttls : AcquireSingleton(h, ttl) \/ RenewSingleton(h, ttl)
            \/ ReleaseSingleton(h)
            \/ CallTimesOut(h)
            \/ Restart(h)
    BY DEF ClientNext
<1>3. UNCHANGED <<now, skew, rec, log>>
    BY <1>2 DEF AcquireSingleton, RenewSingleton, ReleaseSingleton, Send, CallTimesOut, Restart
<1>4. \A g \in Holders : grant'[g] = grant[g] \/ grant'[g] = NoGrant
    BY <1>2 DEF AcquireSingleton, RenewSingleton, ReleaseSingleton, CallTimesOut, Restart,
                MutexInv, FenceInv, Typed, TypeOK
<1>5. \/ net' = net
      \/ \E op \in {"acquire", "renew", "release"}, fence \in {0, grant[h].fence},
           ttl \in Ttls \cup {0} :
            /\ op # "release" => ttl \in Ttls
            /\ net' = net \cup {[op |-> op, holder |-> h, fence |-> fence, ttl |-> ttl,
                                sent |-> now]}
    BY <1>2 DEF AcquireSingleton, RenewSingleton, ReleaseSingleton, Send, CallTimesOut, Restart
<1>6. TtlOK'
    BY <1>3, <1>5 DEF MutexInv, TtlOK, Pending
<1>7. ASSUME skew = 0 PROVE StampOK'
  <2>1. now \in Nat
    BY DEF MutexInv, FenceInv, Typed, TypeOK
  <2>2. \A m \in net' : m.sent <= now
    BY <1>5, <1>7, <2>1 DEF MutexInv, StampOK
  <2>3. QED
    BY <1>3, <1>7, <2>2 DEF MutexInv, StampOK
<1>8. ASSUME skew = 0 PROVE BeliefOK'
  <2>1. now \in Nat /\ now > 0 /\ NoGrant.until = 0
    BY DEF MutexInv, FenceInv, Typed, TypeOK, NoGrant
  <2>2. QED
    BY <1>3, <1>4, <1>8, <2>1 DEF MutexInv, BeliefOK, Believes
<1>9. QED
    BY <1>1, <1>3, <1>6, <1>7, <1>8 DEF MutexInv

\* The leader stamps a request with its clock; it is the youngest of the log.
LEMMA MutexPropose ==
    ASSUME MutexInv, NEW m \in net, Propose(m)
    PROVE  MutexInv'
<1>1. FenceInv' /\ Pending' \subseteq Pending
    BY FenceStep, PendingPropose DEF MutexInv, Next, LeaderNext, FenceInv
<1>2. TtlOK'
    BY <1>1 DEF MutexInv, TtlOK
<1>3. UNCHANGED <<now, skew, rec, grant>> /\ net' = net \ {m}
    BY DEF Propose
<1>4. ASSUME skew = 0 PROVE StampOK'
  <2>0. now \in Nat /\ log \in Seq(SingletonCmd)
    BY DEF MutexInv, FenceInv, Typed, TypeOK
  <2>1. PICK t \in (now - skew)..(now + skew) : log' = Append(log, [req |-> m, now |-> t])
    BY DEF Propose
  <2>2. t = now
    BY <1>4, <2>0, <2>1
  <2>3. /\ DOMAIN log' = 1..(Len(log) + 1) /\ DOMAIN log = 1..Len(log) /\ Len(log) \in Nat
        /\ \A i \in DOMAIN log : log'[i] = log[i]
        /\ log'[Len(log) + 1] = [req |-> m, now |-> now]
    BY <2>0, <2>1, <2>2
  <2>4. \A i \in DOMAIN log' :
            i \in DOMAIN log \/ (i = Len(log) + 1 /\ i \notin DOMAIN log)
    BY <2>3
  <2>5. \A i \in DOMAIN log' : log'[i].req.sent <= log'[i].now /\ log'[i].now <= now
    BY <1>4, <2>0, <2>3, <2>4 DEF MutexInv, StampOK
  <2>6. \A i, j \in DOMAIN log' : i <= j => log'[i].now <= log'[j].now
    <3> SUFFICES ASSUME NEW i \in DOMAIN log', NEW j \in DOMAIN log', i <= j
                 PROVE  log'[i].now <= log'[j].now
        OBVIOUS
    <3>1. CASE j \in DOMAIN log
      <4>1. i \in DOMAIN log
        BY <2>3, <3>1
      <4>2. QED
        BY <1>4, <2>3, <3>1, <4>1 DEF MutexInv, StampOK
    <3>2. CASE j = Len(log) + 1
        BY <2>3, <2>5, <3>2
    <3>3. QED
        BY <2>4, <3>1, <3>2
  <2>7. \A k \in Ttls : rec'.holder # Nobody =>
          /\ rec'.deadline <= now' + k
          /\ \A i \in DOMAIN log' : rec'.deadline <= log'[i].now + k
    BY <1>3, <1>4, <2>3, <2>4 DEF MutexInv, StampOK
  <2>8. \A r \in net' : r.sent <= now'
    BY <1>3, <1>4 DEF MutexInv, StampOK
  <2>9. QED
    BY <1>3, <2>5, <2>6, <2>7, <2>8 DEF StampOK
<1>5. ASSUME skew = 0 PROVE BeliefOK'
    BY <1>3, <1>5 DEF MutexInv, BeliefOK, Believes
<1>6. QED
    BY <1>1, <1>2, <1>3, <1>4, <1>5 DEF MutexInv

\* A lost request keeps the beliefs within the row.
LEMMA MutexLose ==
    ASSUME MutexInv, NEW m \in net, Lose(m)
    PROVE  MutexInv'
<1>1. FenceInv'
    BY FenceStep DEF MutexInv, Next, LeaderNext
<1>2. UNCHANGED <<now, skew, rec, log, grant>> /\ net' \subseteq net
    BY DEF Lose
<1>3. QED
    BY <1>1, <1>2 DEF MutexInv, TtlOK, StampOK, BeliefOK, Believes, Pending

\* What applySingleton does to the record and to a client that waits, with one
\* ttl: the holder's deadline never moves back while the lease runs.
LEMMA MutexApply ==
    ASSUME OneTtl, MutexInv, ApplySingleton
    PROVE  MutexInv'
<1> DEFINE c == Head(log)
           m == c.req
<1>1. FenceInv' /\ Pending' \subseteq Pending /\ m \in Pending /\ c \in SingletonCmd
    BY FenceStep, PendingApply DEF MutexInv, Next, LeaderNext, FenceInv
<1>2. TtlOK'
    BY <1>1 DEF MutexInv, TtlOK
<1>3. /\ UNCHANGED <<now, skew, net>>
      /\ ApplyAcquire(c) \/ ApplyRenew(c) \/ ApplyRelease(c)
    BY DEF ApplySingleton
<1>4. /\ 1 \in DOMAIN log /\ c = log[1]
      /\ \A i \in DOMAIN log' : i + 1 \in DOMAIN log /\ log'[i] = log[i + 1]
    BY PendingApply DEF MutexInv, FenceInv
<1>5. log \in Seq(SingletonCmd) /\ log' \in Seq(SingletonCmd)
    BY PendingApply DEF MutexInv, FenceInv, Typed
<1> HIDE DEF c
<1>6. SUFFICES ASSUME skew = 0 PROVE StampOK' /\ BeliefOK'
    BY <1>1, <1>2, <1>3 DEF MutexInv
<1>7. StampOK /\ BeliefOK /\ Typed /\ CallOK /\ FenceOK
    BY <1>6 DEF MutexInv, FenceInv
<1>8. /\ c.now \in Int /\ m.sent \in Nat /\ m.sent <= c.now /\ c.now <= now
      /\ \A i \in DOMAIN log' : log'[i].now \in Int /\ c.now <= log'[i].now
      /\ now \in Nat /\ now > 0 /\ rec.deadline \in Int /\ Ttls \subseteq Nat
      /\ m.op # "release" => m.ttl \in Ttls
      /\ m.holder \in Holders /\ m \in Request
  <2>1. \A i \in DOMAIN log' : 1 <= i + 1 /\ log[i + 1] \in SingletonCmd
    BY <1>4, <1>5, <1>7 DEF Typed, TypeOK
  <2>2. QED
    BY <1>1, <1>4, <1>7, <2>1, SingletonAssumption
       DEF StampOK, Typed, TypeOK, SingletonCmd, Request, SingletonRec, MutexInv, TtlOK
<1>9. ASSUME NEW d, rec'.deadline = d, rec'.holder # Nobody,
             \/ d = rec.deadline /\ rec.holder # Nobody
             \/ m.ttl \in Ttls /\ d = c.now + m.ttl
      PROVE  \A t \in Ttls : /\ d <= now + t
                             /\ \A i \in DOMAIN log' : d <= log'[i].now + t
  <2> SUFFICES ASSUME NEW t \in Ttls
               PROVE  d <= now + t /\ \A i \in DOMAIN log' : d <= log'[i].now + t
    OBVIOUS
  <2>1. CASE d = rec.deadline /\ rec.holder # Nobody
    BY <1>4, <1>7, <2>1 DEF StampOK
  <2>2. CASE m.ttl \in Ttls /\ d = c.now + m.ttl
    <3>1. m.ttl = t
        BY <2>2 DEF OneTtl
    <3>2. t \in Nat
        BY <1>8
    <3>3. QED
        BY <1>8, <2>2, <3>1, <3>2
  <2>3. QED
    BY <1>9, <2>1, <2>2
<1>10. ASSUME \/ rec'.holder = Nobody
              \/ rec.holder # Nobody /\ rec'.deadline = rec.deadline
              \/ m.ttl \in Ttls /\ rec'.deadline = c.now + m.ttl
       PROVE  StampOK'
  <2>1. /\ \A r \in net' : r.sent <= now'
        /\ \A i \in DOMAIN log' : log'[i].req.sent <= log'[i].now /\ log'[i].now <= now'
    BY <1>3, <1>4, <1>7 DEF StampOK
  <2>2. \A i, j \in DOMAIN log' : i <= j => log'[i].now <= log'[j].now
    <3>1. \A i, j \in DOMAIN log' : i <= j => i + 1 <= j + 1
        BY <1>5
    <3>2. QED
        BY <1>4, <1>7, <3>1 DEF StampOK
  <2>3. \A t \in Ttls : rec'.holder # Nobody =>
          /\ rec'.deadline <= now' + t
          /\ \A i \in DOMAIN log' : rec'.deadline <= log'[i].now + t
    BY <1>3, <1>9, <1>10
  <2>4. QED
    BY <2>1, <2>2, <2>3 DEF StampOK
<1>11. \A h \in Holders : Believes(h) =>
            /\ rec.holder = h /\ h # Nobody /\ grant[h] # NoGrant
            /\ grant[h].until \in Nat /\ grant[h].until <= rec.deadline
            /\ grant[h].until > now
  <2>1. \A h \in Holders : grant[h].until \in Nat
    BY <1>7 DEF Typed, TypeOK, Grant
  <2>2. QED
    BY <1>7, <1>8, <2>1, SingletonAssumption DEF BeliefOK, Believes, NoGrant
<1>12. NoGrant \in Grant /\ NoGrant.until = 0
    BY NoGrantType DEF NoGrant
<1>13. ASSUME NEW g \in Grant, Answer(m, g)
       PROVE  \A h \in Holders : \/ grant'[h] = grant[h]
                                 \/ h = m.holder /\ grant'[h] = g
    BY <1>7, <1>8, <1>13, AnswerEffect
<1>14. CASE ApplyAcquire(c) /\ ~HeldByOther(c)
  <2>1. /\ rec'.holder = m.holder /\ rec'.deadline = c.now + m.ttl
        /\ Answer(m, Granted(m, rec.fence + 1)) /\ m.op = "acquire"
        /\ rec.fence < MaxFence
    BY <1>14 DEF ApplyAcquire
  <2>2. m.ttl \in Ttls /\ m.ttl \in Nat
    BY <1>8, <2>1
  <2>3. Granted(m, rec.fence + 1) \in Grant
    <3>1. rec.fence + 1 \in 0..MaxFence /\ m.sent + m.ttl \in Nat
      <4>1. rec.fence \in Nat /\ MaxFence \in Nat
        BY <1>7, SingletonAssumption DEF Typed, TypeOK, SingletonRec
      <4>2. QED
        BY <1>8, <2>1, <2>2, <4>1
    <3>2. QED
        BY <3>1 DEF Granted, Grant
  <2>4. ASSUME NEW h \in Holders, Believes(h)' PROVE rec'.holder = h /\ grant'[h].until <= rec'.deadline
    <3>1. CASE grant'[h] = grant[h]
      <4>1. Believes(h)
        BY <1>3, <2>4, <3>1 DEF Believes
      <4>2. h = m.holder
        BY <1>8, <1>11, <1>14, <4>1 DEF HeldByOther
      <4>3. rec.deadline <= c.now + m.ttl
        BY <1>4, <1>7, <1>11, <2>2, <4>1 DEF StampOK
      <4>4. QED
        BY <1>8, <1>11, <2>1, <2>2, <3>1, <4>1, <4>2, <4>3
    <3>2. CASE h = m.holder /\ grant'[h] = Granted(m, rec.fence + 1)
        BY <1>8, <2>1, <2>2, <3>2 DEF Granted
    <3>3. QED
        BY <1>13, <2>1, <2>3, <3>1, <3>2
  <2>5. QED
    BY <1>10, <2>1, <2>2, <2>4 DEF BeliefOK
<1>15. CASE ApplyRenew(c) /\ Owns(m)
  <2>1. /\ rec'.holder = rec.holder /\ rec.holder = m.holder
        /\ rec'.deadline = c.now + m.ttl
        /\ Answer(m, Granted(m, m.fence)) /\ m.op = "renew"
    BY <1>7, <1>15 DEF ApplyRenew, Owns, Typed, TypeOK, SingletonRec
  <2>2. m.ttl \in Ttls /\ m.ttl \in Nat
    BY <1>8, <2>1
  <2>3. Granted(m, m.fence) \in Grant
    BY <1>8, <2>2 DEF Granted, Grant, Request
  <2>4. ASSUME NEW h \in Holders, Believes(h)' PROVE rec'.holder = h /\ grant'[h].until <= rec'.deadline
    <3>1. CASE grant'[h] = grant[h]
      <4>1. Believes(h)
        BY <1>3, <2>4, <3>1 DEF Believes
      <4>3. rec.deadline <= c.now + m.ttl
        BY <1>4, <1>7, <1>11, <2>2, <4>1 DEF StampOK
      <4>4. QED
        BY <1>8, <1>11, <2>1, <2>2, <3>1, <4>1, <4>3
    <3>2. CASE h = m.holder /\ grant'[h] = Granted(m, m.fence)
        BY <1>8, <2>1, <2>2, <3>2 DEF Granted
    <3>3. QED
        BY <1>13, <2>1, <2>3, <3>1, <3>2
  <2>5. QED
    BY <1>10, <2>1, <2>2, <2>4 DEF BeliefOK
<1>16. CASE rec' = rec /\ Answer(m, NoGrant)
  <2>1. ASSUME NEW h \in Holders, Believes(h)' PROVE grant'[h] = grant[h] /\ Believes(h)
    BY <1>3, <1>8, <1>12, <1>13, <1>16, <2>1 DEF Believes
  <2>2. BeliefOK'
    BY <1>7, <1>16, <2>1 DEF BeliefOK
  <2>3. QED
    BY <1>10, <1>16, <2>2
<1>17. CASE ApplyRelease(c) /\ Owns(m)
  <2>1. /\ rec'.holder = Nobody /\ Answer(m, NoGrant) /\ m.op = "release"
        /\ rec.holder = m.holder /\ rec.fence = m.fence
    BY <1>7, <1>17 DEF ApplyRelease, Owns, Vacated, Typed, TypeOK, SingletonRec
  <2>2. ASSUME NEW h \in Holders, Believes(h) PROVE FALSE
    <3>1. rec.holder = h /\ grant[h] # NoGrant
        BY <1>11, <2>2
    <3>2. m.fence < grant[h].fence /\ grant[h].fence <= rec.fence
        BY <1>1, <1>7, <2>1, <3>1 DEF FenceOK
    <3>3. rec.fence \in Nat /\ grant[h].fence \in Nat
        BY <1>7 DEF Typed, TypeOK, SingletonRec, Grant
    <3>4. QED
        BY <2>1, <3>2, <3>3
  <2>3. ASSUME NEW h \in Holders, Believes(h)' PROVE FALSE
    BY <1>3, <1>8, <1>12, <1>13, <2>1, <2>2, <2>3 DEF Believes
  <2>4. QED
    BY <1>10, <2>1, <2>3 DEF BeliefOK
<1>18. QED
    BY <1>3, <1>14, <1>15, <1>16, <1>17 DEF ApplyAcquire, ApplyRenew, ApplyRelease

\* Every step keeps the beliefs within the row, when all ask for one TTL.
LEMMA MutexStep == OneTtl /\ MutexInv /\ [Next]_vars => MutexInv'
<1> SUFFICES ASSUME OneTtl, MutexInv, [Next]_vars PROVE MutexInv'
    OBVIOUS
<1>1. CASE UNCHANGED vars
  <2>1. FenceInv'
    BY FenceStep DEF MutexInv
  <2>2. QED
    BY <1>1, <2>1
       DEF vars, MutexInv, TtlOK, StampOK, BeliefOK, Believes, Pending
<1>2. QED
    BY <1>1, MutexTick, MutexClient, MutexPropose, MutexLose, MutexApply DEF Next, LeaderNext

\* With leaders' clocks that agree and one ttl in use, no two clients hold the
\* singleton at once, however many requests are delayed, repeated, lost or
\* answered late.
THEOREM MutualExclusionHolds ==
    ASSUME OneTtl
    PROVE  Spec => []MutualExclusion
<1>1. Init => MutexInv
    BY MutexInit
<1>2. MutexInv /\ [Next]_vars => MutexInv'
    BY MutexStep
<1>3. MutexInv => MutualExclusion
    BY DEF MutexInv, BeliefOK, MutualExclusion
<1>4. QED
    BY <1>1, <1>2, <1>3, PTL DEF Spec
=============================================================================
