---------------------------- MODULE GatewayProofs ---------------------------
(***************************************************************************)
(* Proofs about Auth, LaneGate and WorkStream: principals, the gate of a   *)
(* lane and workers' streams, for every set of nodes, principals, streams  *)
(* and messages, and every length of the log.                              *)
(***************************************************************************)
EXTENDS WorkStream, TLAPS, FiniteSetTheorems

-----------------------------------------------------------------------------
(* Principals: rows, commands and what applying one does                   *)

RowOK(r) ==
    r # Absent => /\ DOMAIN r = {"token", "tags", "disabled", "grants"}
                  /\ r.token \in Nat /\ r.grants \in Seq(AuthGrant)

StoreOK(store) == DOMAIN store = Names /\ \A p \in Names : RowOK(store[p])

Minting(c) == c.op \in {"create", "rotate"}

CmdOK(c) ==
    /\ c.name \in Names /\ c.op \in {"create", "rotate", "disable", "grant", "revoke"}
    /\ Minting(c) => c.token \in Nat
    /\ c.op = "create" => c.grants \in Seq(AuthGrant)
    /\ c.op = "grant" => c.grant \in AuthGrant
    /\ c.op = "revoke" => c.index \in Nat \ {0}

\* What applyAuthPrincipal makes of the row of the principal it names.
LEMMA ApplyRow ==
    ASSUME NEW store, NEW c, StoreOK(store), CmdOK(c)
    PROVE  LET old == store[c.name]
               new == ApplyAuth(store, c)[c.name]
           IN  /\ StoreOK(ApplyAuth(store, c))
               /\ \A p \in Names \ {c.name} : ApplyAuth(store, c)[p] = store[p]
               /\ new # old /\ old = Absent =>
                     c.op = "create" /\ new.token = c.token /\ new # Absent
               /\ old # Absent =>
                     /\ new # Absent
                     /\ new.token = IF c.op = "rotate" THEN c.token ELSE old.token
                     /\ c.op = "grant" => new.grants = Append(old.grants, c.grant)
                     /\ c.op \notin {"grant", "revoke"} => new.grants = old.grants
<1>. DEFINE old == store[c.name]
            Make == [token |-> c.token, tags |-> c.tags, disabled |-> FALSE, grants |-> c.grants]
<1>1. c.name \in Names /\ RowOK(old) /\ DOMAIN store = Names
  BY DEF StoreOK, CmdOK
<1>2. ASSUME NEW r, ApplyAuth(store, c) = [store EXCEPT ![c.name] = r], RowOK(r)
      PROVE  /\ StoreOK(ApplyAuth(store, c)) /\ ApplyAuth(store, c)[c.name] = r
             /\ \A p \in Names \ {c.name} : ApplyAuth(store, c)[p] = store[p]
  BY <1>1, <1>2 DEF StoreOK
<1>3. CASE Creates(store, c)
  <2>1. ApplyAuth(store, c) = [store EXCEPT ![c.name] = Make]
    BY <1>3 DEF ApplyAuth, Creates
  <2>2. c.op = "create" /\ old = Absent /\ c.token \in Nat /\ c.grants \in Seq(AuthGrant)
    BY <1>3 DEF Creates, CmdOK, Minting
  <2>3. Make.token = c.token /\ Make # Absent /\ RowOK(Make)
    BY <2>2 DEF RowOK, Absent, NoToken
  <2>. QED  BY <1>2, <2>1, <2>2, <2>3
<1>4. CASE old # Absent /\ c.op = "rotate"
  <2>1. ApplyAuth(store, c) = [store EXCEPT ![c.name] = [old EXCEPT !.token = c.token]]
    BY <1>1, <1>4 DEF ApplyAuth, Creates
  <2>2. c.token \in Nat
    BY <1>4 DEF CmdOK, Minting
  <2>3. LET new == [old EXCEPT !.token = c.token]
        IN  new.token = c.token /\ new.grants = old.grants /\ RowOK(new) /\ new # Absent
    BY <1>1, <1>4, <2>2 DEF RowOK, Absent, NoToken
  <2>. QED  BY <1>2, <1>4, <2>1, <2>3
<1>5. CASE old # Absent /\ c.op = "disable"
  <2>1. ApplyAuth(store, c) = [store EXCEPT ![c.name] = [old EXCEPT !.disabled = c.disabled]]
    BY <1>1, <1>5 DEF ApplyAuth, Creates
  <2>3. LET new == [old EXCEPT !.disabled = c.disabled]
        IN  new.token = old.token /\ new.grants = old.grants /\ RowOK(new) /\ new # Absent
    BY <1>1, <1>5 DEF RowOK, Absent, NoToken
  <2>. QED  BY <1>2, <1>5, <2>1, <2>3
<1>6. CASE old # Absent /\ c.op = "grant"
  <2>1. ApplyAuth(store, c) =
            [store EXCEPT ![c.name] = [old EXCEPT !.grants = Append(old.grants, c.grant)]]
    BY <1>1, <1>6 DEF ApplyAuth, Creates, Appended, RowOK
  <2>2. c.grant \in AuthGrant /\ Append(old.grants, c.grant) \in Seq(AuthGrant)
    BY <1>1, <1>6 DEF CmdOK, RowOK
  <2>3. LET new == [old EXCEPT !.grants = Append(old.grants, c.grant)]
        IN  /\ new.token = old.token /\ new.grants = Append(old.grants, c.grant)
            /\ RowOK(new) /\ new # Absent
    BY <1>1, <1>6, <2>2 DEF RowOK, Absent, NoToken
  <2>. QED  BY <1>2, <1>6, <2>1, <2>3
<1>7. CASE old # Absent /\ c.op = "revoke" /\ c.index <= Len(old.grants)
  <2>1. ApplyAuth(store, c) =
            [store EXCEPT ![c.name] = [old EXCEPT !.grants = RemoveAt(old.grants, c.index)]]
    BY <1>1, <1>7 DEF ApplyAuth, Creates, RowOK
  <2>2. RemoveAt(old.grants, c.index) \in Seq(AuthGrant)
    <3>1. old.grants \in Seq(AuthGrant) /\ c.index \in 1..Len(old.grants)
      BY <1>1, <1>7 DEF RowOK, CmdOK
    <3>. HIDE DEF old
    <3>. QED  BY <3>1 DEF RemoveAt
  <2>3. LET new == [old EXCEPT !.grants = RemoveAt(old.grants, c.index)]
        IN  new.token = old.token /\ RowOK(new) /\ new # Absent
    BY <1>1, <1>7, <2>2 DEF RowOK, Absent, NoToken
  <2>. QED  BY <1>2, <1>7, <2>1, <2>3
<1>8. CASE /\ ~Creates(store, c)
           /\ \/ old = Absent \/ c.op = "create"
              \/ c.op = "revoke" /\ ~(c.index <= Len(old.grants))
  <2>1. ApplyAuth(store, c) = store
    BY <1>8 DEF ApplyAuth
  <2>. QED  BY <1>1, <1>8, <2>1
<1>. QED  BY <1>3, <1>4, <1>5, <1>6, <1>7, <1>8 DEF CmdOK

-----------------------------------------------------------------------------
(* What a step of the administrators, of the nodes or of Raft may do        *)

\* The tokens a fresh one must differ from.
Proposed ==
    {authLog[i] : i \in DOMAIN authLog}
      \cup {calls[a].cmd : a \in {x \in Admins : calls[x].at = "admitted"}}
Used == {c.token : c \in {x \in Proposed : x.op \in {"create", "rotate"}}}

CallOK(a) ==
    LET k == calls[a]
    IN  /\ k.at \in {"idle", "listed", "admitted"} /\ DOMAIN k = {"at", "node", "cmd"}
        /\ k.at # "idle" => CmdOK(k.cmd)
        /\ k.at = "listed" => k.cmd.op = "revoke"
        /\ k.at = "admitted" => k.node \in Nodes
        /\ k.at # "idle" /\ Minting(k.cmd) => k.cmd.token > 0

AuthTyped ==
    /\ authLog \in Seq({authLog[i] : i \in DOMAIN authLog})
    /\ Len(authLog) <= MaxAuthLog
    /\ \A i \in 1..Len(authLog) :
          CmdOK(authLog[i]) /\ (authLog[i].op = "rotate" => authLog[i].token > 0)
    /\ DOMAIN calls = Admins /\ \A a \in Admins : CallOK(a)
    /\ DOMAIN applied = Nodes /\ DOMAIN rows = Nodes /\ DOMAIN retired = Nodes
    /\ \A n \in Nodes : applied[n] \in 0..Len(authLog) /\ StoreOK(rows[n])

\* The values of a function on a finite set.
LEMMA ImageBound ==
    ASSUME NEW S, IsFiniteSet(S), NEW f
    PROVE  /\ IsFiniteSet({f[x] : x \in S})
           /\ Cardinality({f[x] : x \in S}) <= Cardinality(S)
<1>. DEFINE T == {f[x] : x \in S}
            g == [x \in S |-> f[x]]
<1>1. g \in Surjection(S, T)
  BY DEF Surjection
<1>. HIDE DEF T, g
<1>2. IsFiniteSet(T) /\ Cardinality(T) <= Cardinality(S)
  BY <1>1, FS_Surjection
<1>. QED  BY <1>2 DEF T

\* mintAuthToken finds a token: there are more than may be in use.
LEMMA FreshToken ==
    ASSUME AuthTyped
    PROVE  MintedToken \in Nat \ {0} /\ MintedToken \notin Used
<1>. DEFINE N == MaxAuthLog + Cardinality(Admins) + 1
            InLog == {authLog[i] : i \in DOMAIN authLog}
            InCalls == {calls[a].cmd : a \in {x \in Admins : calls[x].at = "admitted"}}
            Calling == {x \in Admins : calls[x].at = "admitted"}
            Makers == {x \in Proposed : x.op \in {"create", "rotate"}}
<1>1. /\ IsFiniteSet(InLog) /\ Cardinality(InLog) <= MaxAuthLog /\ Cardinality(InLog) \in Nat
  <2>1. /\ DOMAIN authLog = 1..Len(authLog) /\ Len(authLog) \in Nat
        /\ Len(authLog) <= MaxAuthLog
    BY DEF AuthTyped
  <2>2. IsFiniteSet(DOMAIN authLog) /\ Cardinality(DOMAIN authLog) = Len(authLog)
    <3>1. /\ IsFiniteSet(1..Len(authLog))
          /\ Cardinality(1..Len(authLog)) =
                IF 1 > Len(authLog) THEN 0 ELSE Len(authLog) - 1 + 1
      BY <2>1, FS_Interval
    <3>. QED  BY <2>1, <3>1
  <2>3. IsFiniteSet(InLog) /\ Cardinality(InLog) <= Cardinality(DOMAIN authLog)
    BY <2>2, ImageBound
  <2>. QED  BY <2>1, <2>2, <2>3, FS_CardinalityType, AuthAssumption
<1>2. /\ IsFiniteSet(InCalls) /\ Cardinality(InCalls) <= Cardinality(Admins)
      /\ Cardinality(InCalls) \in Nat /\ Cardinality(Admins) \in Nat
  <2>1. IsFiniteSet(Calling) /\ Cardinality(Calling) <= Cardinality(Admins)
    BY AuthAssumption, FS_Subset
  <2>2. IsFiniteSet(InCalls) /\ Cardinality(InCalls) <= Cardinality(Calling)
    <3>. DEFINE f == [x \in Calling |-> calls[x].cmd]
    <3>1. IsFiniteSet({f[x] : x \in Calling}) /\ Cardinality({f[x] : x \in Calling}) <= Cardinality(Calling)
      BY <2>1, ImageBound
    <3>2. {f[x] : x \in Calling} = InCalls
      OBVIOUS
    <3>. QED  BY <3>1, <3>2
  <2>. QED  BY <2>1, <2>2, FS_CardinalityType, AuthAssumption
<1>3. /\ IsFiniteSet(Proposed) /\ Cardinality(Proposed) \in Nat
      /\ Cardinality(Proposed) <= MaxAuthLog + Cardinality(Admins)
  <2>1. IsFiniteSet(InLog \cup InCalls)
    BY <1>1, <1>2, FS_Union
  <2>2. /\ Cardinality(InLog \cup InCalls) =
              Cardinality(InLog) + Cardinality(InCalls) - Cardinality(InLog \cap InCalls)
        /\ Cardinality(InLog \cap InCalls) \in Nat
    BY <1>1, <1>2, FS_Union, FS_Intersection, FS_CardinalityType
  <2>3. Proposed = InLog \cup InCalls
    BY DEF Proposed
  <2>. HIDE DEF InLog, InCalls
  <2>. QED  BY <1>1, <1>2, <2>1, <2>2, <2>3, FS_CardinalityType, AuthAssumption
<1>4. /\ IsFiniteSet(Makers) /\ Cardinality(Makers) <= Cardinality(Proposed)
  <2>1. Makers \subseteq Proposed
    OBVIOUS
  <2>. QED  BY <1>3, <2>1, FS_Subset
<1>5. IsFiniteSet(Used) /\ Cardinality(Used) <= Cardinality(Makers)
  <2>1. Used = {c.token : c \in Makers}
    BY DEF Used
  <2>. HIDE DEF Makers
  <2>. DEFINE f == [c \in Makers |-> c.token]
  <2>2. IsFiniteSet({f[c] : c \in Makers}) /\ Cardinality({f[c] : c \in Makers}) <= Cardinality(Makers)
    BY <1>4, ImageBound
  <2>3. {f[c] : c \in Makers} = Used
    BY <2>1
  <2>. QED  BY <2>2, <2>3
<1>6. Cardinality(Used) \in Nat /\ Cardinality(Makers) \in Nat
  BY <1>4, <1>5, FS_CardinalityType
<1>7. N \in Nat /\ Cardinality(Used) < N
  <2>. HIDE DEF Makers, InLog, InCalls
  <2>. QED  BY <1>2, <1>3, <1>4, <1>5, <1>6, AuthAssumption
<1>8. \E t \in 1..N : t \notin Used
  <2>1. SUFFICES ASSUME 1..N \subseteq Used PROVE FALSE
    OBVIOUS
  <2>2. Cardinality(1..N) <= Cardinality(Used)
    BY <1>5, <2>1, FS_Subset
  <2>3. Cardinality(1..N) = N
    BY <1>7, FS_Interval
  <2>. HIDE DEF N
  <2>. QED  BY <1>6, <1>7, <2>2, <2>3
<1>9. MintedToken = CHOOSE t \in 1..N : t \notin Used
  BY DEF MintedToken, Used, Proposed
<1>. HIDE DEF N
<1>. QED  BY <1>7, <1>8, <1>9

\* A step may append to the log one entry, the bootstrap's or a call's own.
Grows(c) ==
    /\ Len(authLog) < MaxAuthLog /\ authLog' = Append(authLog, c)
    /\ \/ c = BootstrapCmd /\ calls' = calls
       \/ \E a \in Admins : /\ calls[a].at = "admitted" /\ c = calls[a].cmd
                            /\ calls' = [calls EXCEPT ![a] = IdleCall]

\* A step may let one node apply the entry that is next for it.
Applies(n) == applied[n] < Len(authLog') /\ ApplyAt(n, authLog'[applied[n] + 1])

\* A step that leaves the log alone may move one call.
Admits(a) ==
    /\ calls[a].at = "idle"
    /\ \E n \in Nodes : \E c \in AuthPrincipalCmd :
          calls' = [calls EXCEPT ![a] = [at |-> "admitted", node |-> n, cmd |-> c]]
ListsGrant(a) ==
    /\ calls[a].at = "idle"
    /\ \E n \in Nodes : \E p \in Present(rows[n]) : \E i \in DOMAIN rows[n][p].grants :
          calls' = [calls EXCEPT ![a] =
             [at |-> "listed", node |-> NoNode, cmd |->
                RevokePrincipalGrantRequest(p, i, rows[n][p].grants[i],
                                            Revokes(p, applied[n]))]]
Readmits(a) ==
    /\ calls[a].at = "listed"
    /\ \E n \in Nodes : calls' = [calls EXCEPT ![a].at = "admitted", ![a].node = n]
Ends(a) == calls' = [calls EXCEPT ![a] = IdleCall]

\* A commit appends one command, applied on the node at once.
LEMMA CommitEffect ==
    ASSUME AuthTyped, NEW n \in Nodes, NEW c, Commit(n, c)
    PROVE  Applies(n) /\ Len(authLog) < MaxAuthLog /\ authLog' = Append(authLog, c)
<1>1. authLog' = Append(authLog, c) /\ applied[n] = Len(authLog) /\ ApplyAt(n, c)
  BY DEF Commit
<1>2. authLog'[Len(authLog) + 1] = c /\ Len(authLog') = Len(authLog) + 1 /\ Len(authLog) \in Nat
  BY <1>1 DEF AuthTyped
<1>. QED  BY <1>1, <1>2 DEF Commit, Applies

\* What a step does to the log, to one node and to one call.
LEMMA AuthEffect ==
    ASSUME AuthTyped, AuthNext
    PROVE  /\ \/ authLog' = authLog
              \/ \E c : Grows(c)
           /\ \/ UNCHANGED <<applied, rows, retired, misrevoked>>
              \/ \E n \in Nodes : Applies(n)
           /\ authLog' = authLog =>
                 \/ calls' = calls
                 \/ \E a \in Admins : Admits(a) \/ ListsGrant(a) \/ Readmits(a) \/ Ends(a)
<1>1. ASSUME NEW n \in Nodes, Open(n) \/ Boot(n) \/ Serve(n) \/ Exit(n) \/ Elect(n)
      PROVE  UNCHANGED <<authLog, calls, applied, rows, retired, misrevoked>>
  BY <1>1 DEF Open, Boot, Serve, Exit, Elect
<1>2. ASSUME NEW n \in Nodes, Bootstrap(n)
      PROVE  Grows(BootstrapCmd) /\ Applies(n)
  <2>1. Commit(n, BootstrapCmd) /\ calls' = calls
    BY <1>2 DEF Bootstrap
  <2>. QED  BY <2>1, CommitEffect DEF Grows
<1>3. ASSUME NEW n \in Nodes, CatchUp(n)
      PROVE  UNCHANGED <<authLog, calls>> /\ Applies(n)
  BY <1>3 DEF CatchUp, Applies
<1>4. ASSUME NEW n \in Nodes, NEW a \in Admins, Call(a, n) \/ List(a, n) \/ CallRevoke(a, n)
      PROVE  /\ UNCHANGED <<authLog, applied, rows, retired, misrevoked>>
             /\ Admits(a) \/ ListsGrant(a) \/ Readmits(a)
  <2>1. CASE Call(a, n)
    BY <2>1 DEF Call, Admits
  <2>2. CASE List(a, n)
    BY <2>2 DEF List, ListsGrant
  <2>3. CASE CallRevoke(a, n)
    BY <2>3 DEF CallRevoke, Readmits
  <2>. QED  BY <1>4, <2>1, <2>2, <2>3
<1>5. ASSUME NEW a \in Admins, ProposeCall(a)
      PROVE  Grows(calls[a].cmd) /\ \E n \in Nodes : Applies(n)
  <2>1. /\ Commit(calls[a].node, calls[a].cmd) /\ calls[a].at = "admitted"
        /\ calls' = [calls EXCEPT ![a] = IdleCall]
    BY <1>5 DEF ProposeCall
  <2>2. calls[a].node \in Nodes
    BY <2>1 DEF AuthTyped, CallOK
  <2>. QED  BY <2>1, <2>2, CommitEffect DEF Grows
<1>6. ASSUME NEW a \in Admins, CallFails(a)
      PROVE  /\ UNCHANGED <<applied, rows, retired, misrevoked>>
             /\ \/ authLog' = authLog /\ Ends(a)
                \/ Grows(calls[a].cmd)
  BY <1>6 DEF CallFails, Ends, Grows
<1>7. AuthNext => \/ \E n \in Nodes : Open(n) \/ Boot(n) \/ Serve(n) \/ Exit(n) \/ Elect(n)
                  \/ \E n \in Nodes : Bootstrap(n)
                  \/ \E n \in Nodes : CatchUp(n)
                  \/ \E n \in Nodes, a \in Admins : Call(a, n) \/ List(a, n) \/ CallRevoke(a, n)
                  \/ \E a \in Admins : ProposeCall(a)
                  \/ \E a \in Admins : CallFails(a)
  BY DEF AuthNext
<1>8. ASSUME NEW c, Grows(c) PROVE authLog' # authLog
  <2>1. Len(authLog') = Len(authLog) + 1 /\ Len(authLog) \in Nat
    BY <1>8 DEF Grows, AuthTyped
  <2>. QED  BY <2>1
<1>9. CASE \E n \in Nodes : Bootstrap(n)
  BY <1>2, <1>8, <1>9
<1>10. CASE \E a \in Admins : ProposeCall(a)
  BY <1>5, <1>8, <1>10
<1>11. CASE \E a \in Admins : CallFails(a)
  BY <1>6, <1>8, <1>11
<1>. QED  BY <1>1, <1>3, <1>4, <1>7, <1>9, <1>10, <1>11

-----------------------------------------------------------------------------
(* Types of the principals' state                                          *)

\* The bootstrap command creates the first token.
LEMMA BootstrapOK ==
    CmdOK(BootstrapCmd) /\ BootstrapCmd.token = 0 /\ BootstrapCmd.op = "create"
<1>. DEFINE g == [lanes |-> Lanes \cup {Unnamed}, groups |-> Groups \cup {Unnamed},
                  actions |-> {"admin"}]
<1>1. g \in AuthGrant
  BY DEF AuthGrant, AuthAction
<1>2. <<g>> \in Seq(AuthGrant)
  BY <1>1
<1>. HIDE DEF g
<1>3. BootstrapCmd = [op |-> "create", name |-> BootstrapAdminPrincipal, token |-> BootToken,
                      tags |-> {"administrator"}, grants |-> <<g>>]
  BY DEF BootstrapCmd, g
<1>. QED  BY <1>2, <1>3, AuthAssumption DEF CmdOK, Minting, BootToken

\* What the handlers propose is well formed, and mints a token of its own.
LEMMA ProposedOK ==
    ASSUME AuthTyped, NEW c \in AuthPrincipalCmd
    PROVE  /\ CmdOK(c) /\ c.op # "revoke"
           /\ Minting(c) => c.token > 0 /\ c.token \notin Used
<1>1. MintedToken \in Nat \ {0} /\ MintedToken \notin Used
  BY FreshToken
<1>2. ValidGrants \subseteq AuthGrant
  BY AuthAssumption DEF ValidGrants
<1>3. CASE c \in CreatePrincipalRequest
  <2>1. c.grants \in Seq(AuthGrant)
    <3>1. c.grants \in {<<g>> : g \in ValidGrants} \cup {<< >>}
      BY <1>3 DEF CreatePrincipalRequest
    <3>2. ASSUME NEW g \in ValidGrants PROVE <<g>> \in Seq(AuthGrant)
      <4>1. g \in AuthGrant
        BY <1>2
      <4>. QED  BY <4>1
    <3>3. << >> \in Seq(AuthGrant)
      OBVIOUS
    <3>. QED  BY <3>1, <3>2, <3>3
  <2>. QED  BY <1>1, <1>3, <2>1 DEF CreatePrincipalRequest, CmdOK, Minting
<1>4. CASE c \in RotatePrincipalTokenRequest
  BY <1>1, <1>4 DEF RotatePrincipalTokenRequest, CmdOK, Minting
<1>5. CASE c \in SetPrincipalDisabledRequest
  BY <1>5 DEF SetPrincipalDisabledRequest, CmdOK, Minting
<1>6. CASE c \in GrantPrincipalRequest
  BY <1>2, <1>6 DEF GrantPrincipalRequest, CmdOK, Minting
<1>. QED  BY <1>3, <1>4, <1>5, <1>6 DEF AuthPrincipalCmd

\* The log after an entry has been appended.
LEMMA GrownLog ==
    ASSUME AuthTyped, NEW c, Grows(c)
    PROVE  /\ CmdOK(c) /\ (c.op = "rotate" => c.token > 0)
           /\ Len(authLog) \in Nat /\ Len(authLog') = Len(authLog) + 1
           /\ DOMAIN authLog' = 1..Len(authLog')
           /\ \A i \in 1..Len(authLog) : authLog'[i] = authLog[i]
           /\ authLog'[Len(authLog) + 1] = c
           /\ authLog' \in Seq({authLog'[i] : i \in DOMAIN authLog'})
<1>1. authLog' = Append(authLog, c)
  BY DEF Grows
<1>2. /\ Len(authLog) \in Nat /\ Len(authLog') = Len(authLog) + 1
      /\ DOMAIN authLog' = 1..Len(authLog')
      /\ \A i \in 1..Len(authLog) : authLog'[i] = authLog[i]
      /\ authLog'[Len(authLog) + 1] = c
  BY <1>1 DEF AuthTyped
<1>3. CmdOK(c) /\ (c.op = "rotate" => c.token > 0)
  <2>1. CASE c = BootstrapCmd
    BY <2>1, BootstrapOK
  <2>2. ASSUME NEW a \in Admins, calls[a].at = "admitted", c = calls[a].cmd
        PROVE  CmdOK(c) /\ (c.op = "rotate" => c.token > 0)
    BY <2>2 DEF AuthTyped, CallOK, Minting
  <2>. QED  BY <2>1, <2>2 DEF Grows
<1>4. authLog' \in Seq({authLog'[i] : i \in DOMAIN authLog'})
  <2>. DEFINE S == {authLog[i] : i \in DOMAIN authLog}
              T == {authLog'[i] : i \in DOMAIN authLog'}
  <2>1. authLog \in Seq(S) /\ DOMAIN authLog = 1..Len(authLog)
    BY DEF AuthTyped
  <2>2. S \subseteq T /\ c \in T
    BY <1>2, <2>1
  <2>. HIDE DEF S, T
  <2>3. authLog \in Seq(T)
    BY <2>1, <2>2
  <2>4. authLog' \in Seq(T)
    BY <1>1, <2>2, <2>3
  <2>. QED  BY <2>4 DEF T
<1>. QED  BY <1>2, <1>3, <1>4

\* A call's next state.
LEMMA CallsOK ==
    ASSUME AuthTyped, AuthNext
    PROVE  DOMAIN calls' = Admins /\ \A a \in Admins : CallOK(a)'
<1>1. DOMAIN calls = Admins /\ \A a \in Admins : CallOK(a)
  BY DEF AuthTyped
<1>2. CASE calls' = calls
  BY <1>1, <1>2 DEF CallOK
<1>3. ASSUME NEW a \in Admins, calls' = [calls EXCEPT ![a] = IdleCall]
      PROVE  DOMAIN calls' = Admins /\ \A x \in Admins : CallOK(x)'
  <2>1. IdleCall.at = "idle" /\ DOMAIN IdleCall = {"at", "node", "cmd"}
    BY DEF IdleCall
  <2>2. \A x \in Admins : calls'[x] = calls[x] \/ calls'[x] = IdleCall
    BY <1>1, <1>3
  <2>. QED  BY <1>1, <1>3, <2>1, <2>2 DEF CallOK
<1>4. ASSUME NEW a \in Admins, Admits(a)
      PROVE  DOMAIN calls' = Admins /\ \A x \in Admins : CallOK(x)'
  <2>1. PICK n \in Nodes, c \in AuthPrincipalCmd :
            calls' = [calls EXCEPT ![a] = [at |-> "admitted", node |-> n, cmd |-> c]]
    BY <1>4 DEF Admits
  <2>2. CmdOK(c) /\ (Minting(c) => c.token > 0)
    BY ProposedOK
  <2>. QED  BY <1>1, <2>1, <2>2 DEF CallOK
<1>5. ASSUME NEW a \in Admins, ListsGrant(a)
      PROVE  DOMAIN calls' = Admins /\ \A x \in Admins : CallOK(x)'
  <2>1. PICK n \in Nodes : \E p \in Present(rows[n]) : \E i \in DOMAIN rows[n][p].grants :
          calls' = [calls EXCEPT ![a] =
             [at |-> "listed", node |-> NoNode, cmd |->
                RevokePrincipalGrantRequest(p, i, rows[n][p].grants[i],
                                            Revokes(p, applied[n]))]]
    BY <1>5 DEF ListsGrant
  <2>p. PICK p \in Present(rows[n]) : \E i \in DOMAIN rows[n][p].grants :
          calls' = [calls EXCEPT ![a] =
             [at |-> "listed", node |-> NoNode, cmd |->
                RevokePrincipalGrantRequest(p, i, rows[n][p].grants[i],
                                            Revokes(p, applied[n]))]]
    BY <2>1
  <2>2. PICK i \in DOMAIN rows[n][p].grants :
          calls' = [calls EXCEPT ![a] =
             [at |-> "listed", node |-> NoNode, cmd |->
                RevokePrincipalGrantRequest(p, i, rows[n][p].grants[i],
                                            Revokes(p, applied[n]))]]
    BY <2>p
  <2>. DEFINE c == RevokePrincipalGrantRequest(p, i, rows[n][p].grants[i], Revokes(p, applied[n]))
  <2>3. p \in Names /\ i \in Nat \ {0}
    BY <2>p, <2>2 DEF Present, AuthTyped, StoreOK, RowOK
  <2>4. CmdOK(c) /\ c.op = "revoke" /\ ~Minting(c)
    BY <2>3 DEF RevokePrincipalGrantRequest, CmdOK, Minting
  <2>. HIDE DEF c
  <2>5. calls' = [calls EXCEPT ![a] = [at |-> "listed", node |-> NoNode, cmd |-> c]]
    BY <2>2 DEF c
  <2>. QED  BY <1>1, <2>4, <2>5 DEF CallOK
<1>6. ASSUME NEW a \in Admins, Readmits(a)
      PROVE  DOMAIN calls' = Admins /\ \A x \in Admins : CallOK(x)'
  <2>1. PICK n \in Nodes : calls' = [calls EXCEPT ![a].at = "admitted", ![a].node = n]
    BY <1>6 DEF Readmits
  <2>2. calls[a].at = "listed" /\ CmdOK(calls[a].cmd) /\ calls[a].cmd.op = "revoke"
    BY <1>1, <1>6 DEF Readmits, CallOK
  <2>3. /\ \A x \in Admins \ {a} : calls'[x] = calls[x]
        /\ DOMAIN calls' = Admins
        /\ calls'[a] = [[calls[a] EXCEPT !.at = "admitted"] EXCEPT !.node = n]
    BY <1>1, <2>1
  <2>4. \A x \in Admins \ {a} : CallOK(x)'
    BY <1>1, <2>3 DEF CallOK
  <2>5. CallOK(a)'
    BY <1>1, <2>2, <2>3 DEF CallOK, Minting
  <2>. QED  BY <2>3, <2>4, <2>5
<1>. QED  BY AuthEffect, <1>2, <1>3, <1>4, <1>5, <1>6 DEF Grows, Ends

\* The log keeps its types, and keeps what it had.
LEMMA LogOK ==
    ASSUME AuthTyped, AuthNext
    PROVE  /\ authLog' \in Seq({authLog'[i] : i \in DOMAIN authLog'})
           /\ Len(authLog) \in Nat /\ Len(authLog') \in Nat
           /\ Len(authLog) <= Len(authLog') /\ Len(authLog') <= MaxAuthLog
           /\ \A i \in 1..Len(authLog) : authLog'[i] = authLog[i]
           /\ \A i \in 1..Len(authLog') :
                 CmdOK(authLog'[i]) /\ (authLog'[i].op = "rotate" => authLog'[i].token > 0)
<1>1. CASE authLog' = authLog
  BY <1>1 DEF AuthTyped
<1>2. ASSUME NEW c, Grows(c)
      PROVE  /\ authLog' \in Seq({authLog'[i] : i \in DOMAIN authLog'})
             /\ Len(authLog) \in Nat /\ Len(authLog') \in Nat
             /\ Len(authLog) <= Len(authLog') /\ Len(authLog') <= MaxAuthLog
             /\ \A i \in 1..Len(authLog) : authLog'[i] = authLog[i]
             /\ \A i \in 1..Len(authLog') :
                   CmdOK(authLog'[i]) /\ (authLog'[i].op = "rotate" => authLog'[i].token > 0)
  <2>1. /\ CmdOK(c) /\ (c.op = "rotate" => c.token > 0)
        /\ Len(authLog) \in Nat /\ Len(authLog') = Len(authLog) + 1
        /\ \A i \in 1..Len(authLog) : authLog'[i] = authLog[i]
        /\ authLog'[Len(authLog) + 1] = c
        /\ authLog' \in Seq({authLog'[i] : i \in DOMAIN authLog'})
    BY <1>2, GrownLog
  <2>2. Len(authLog) < MaxAuthLog /\ MaxAuthLog \in Nat
    BY <1>2, AuthAssumption DEF Grows
  <2>3. \A i \in 1..Len(authLog') : i \in 1..Len(authLog) \/ i = Len(authLog) + 1
    BY <2>1
  <2>4. \A i \in 1..Len(authLog') :
            CmdOK(authLog'[i]) /\ (authLog'[i].op = "rotate" => authLog'[i].token > 0)
    BY <2>1, <2>3 DEF AuthTyped
  <2>. QED  BY <2>1, <2>2, <2>4
<1>. QED  BY <1>1, <1>2, AuthEffect

\* What a node applies next, and the row it touches.
LEMMA AppliesEffect ==
    ASSUME AuthTyped, AuthNext, NEW n \in Nodes, Applies(n)
    PROVE  LET c == authLog'[applied[n] + 1]
           IN  /\ CmdOK(c) /\ applied[n] + 1 \in 1..Len(authLog')
               /\ (c.op = "rotate" => c.token > 0)
               /\ rows' = [rows EXCEPT ![n] = ApplyAuth(rows[n], c)]
               /\ applied' = [applied EXCEPT ![n] = applied[n] + 1]
               /\ retired' = [retired EXCEPT ![n] = retired[n] \cup Retires(n, c)]
               /\ misrevoked' = (misrevoked \/ Misses(n, c))
               /\ StoreOK(rows[n]) /\ StoreOK(ApplyAuth(rows[n], c))
<1>1. applied[n] \in Nat /\ applied[n] < Len(authLog') /\ Len(authLog') \in Nat
      /\ DOMAIN applied = Nodes /\ DOMAIN rows = Nodes /\ DOMAIN retired = Nodes
      /\ StoreOK(rows[n])
  BY LogOK DEF Applies, AuthTyped
<1>2. applied[n] + 1 \in 1..Len(authLog')
  BY <1>1
<1>. DEFINE c == authLog'[applied[n] + 1]
<1>3. CmdOK(c) /\ (c.op = "rotate" => c.token > 0)
  BY <1>2, LogOK
<1>4. ApplyAt(n, c)
  BY DEF Applies
<1>. HIDE DEF c
<1>5. StoreOK(ApplyAuth(rows[n], c))
  BY <1>1, <1>3, ApplyRow
<1>6. /\ rows' = [rows EXCEPT ![n] = ApplyAuth(rows[n], c)]
      /\ applied' = [applied EXCEPT ![n] = applied[n] + 1]
      /\ retired' = [retired EXCEPT ![n] = retired[n] \cup Retires(n, c)]
      /\ misrevoked' = (misrevoked \/ Misses(n, c))
  BY <1>4 DEF ApplyAt
<1>. QED  BY <1>1, <1>2, <1>3, <1>5, <1>6 DEF c

\* Every step keeps the types.
LEMMA AuthTypedStep == AuthTyped /\ [AuthNext]_authVars => AuthTyped'
<1>. SUFFICES ASSUME AuthTyped, [AuthNext]_authVars PROVE AuthTyped'
  OBVIOUS
<1>1. CASE UNCHANGED authVars
  BY <1>1 DEF authVars, AuthTyped, CallOK
<1>2. CASE AuthNext
  <2>1. /\ authLog' \in Seq({authLog'[i] : i \in DOMAIN authLog'})
        /\ Len(authLog) <= Len(authLog') /\ Len(authLog') <= MaxAuthLog
        /\ Len(authLog) \in Nat /\ Len(authLog') \in Nat
        /\ \A i \in 1..Len(authLog') :
              CmdOK(authLog'[i]) /\ (authLog'[i].op = "rotate" => authLog'[i].token > 0)
    BY <1>2, LogOK
  <2>2. DOMAIN calls' = Admins /\ \A a \in Admins : CallOK(a)'
    BY <1>2, CallsOK
  <2>3. /\ DOMAIN applied' = Nodes /\ DOMAIN rows' = Nodes /\ DOMAIN retired' = Nodes
        /\ \A n \in Nodes : applied'[n] \in 0..Len(authLog') /\ StoreOK(rows'[n])
    <3>1. CASE UNCHANGED <<applied, rows, retired, misrevoked>>
      BY <2>1, <3>1 DEF AuthTyped
    <3>2. ASSUME NEW n \in Nodes, Applies(n)
          PROVE  /\ DOMAIN applied' = Nodes /\ DOMAIN rows' = Nodes /\ DOMAIN retired' = Nodes
                 /\ \A x \in Nodes : applied'[x] \in 0..Len(authLog') /\ StoreOK(rows'[x])
      <4>. DEFINE c == authLog'[applied[n] + 1]
      <4>1. /\ applied[n] + 1 \in 1..Len(authLog')
            /\ rows' = [rows EXCEPT ![n] = ApplyAuth(rows[n], c)]
            /\ applied' = [applied EXCEPT ![n] = applied[n] + 1]
            /\ retired' = [retired EXCEPT ![n] = retired[n] \cup Retires(n, c)]
            /\ StoreOK(ApplyAuth(rows[n], c))
        BY <1>2, <3>2, AppliesEffect
      <4>. HIDE DEF c
      <4>. QED  BY <2>1, <4>1 DEF AuthTyped
    <3>. QED  BY <1>2, <3>1, <3>2, AuthEffect
  <2>. QED  BY <2>1, <2>2, <2>3 DEF AuthTyped
<1>. QED  BY <1>1, <1>2

\* The types hold at the start.
LEMMA AuthTypedInit == AuthInit => AuthTyped
<1>. SUFFICES ASSUME AuthInit PROVE AuthTyped
  OBVIOUS
<1>1. \A n \in Nodes : StoreOK(rows[n])
  BY DEF AuthInit, StoreOK, RowOK
<1>2. authLog \in Seq({authLog[i] : i \in DOMAIN authLog}) /\ Len(authLog) = 0
  BY DEF AuthInit
<1>3. \A a \in Admins : CallOK(a)
  BY DEF AuthInit, CallOK, IdleCall
<1>4. \A i \in 1..Len(authLog) : FALSE
  BY <1>2
<1>. QED  BY <1>1, <1>2, <1>3, <1>4, AuthAssumption DEF AuthInit, AuthTyped

-----------------------------------------------------------------------------
(* Rotated tokens                                                          *)

\* A rotation's token is new, against the log and against the calls; those of
\* different calls differ.
MintsApart ==
    /\ \A i, j \in 1..Len(authLog) :
          i < j /\ Minting(authLog[i]) /\ authLog[j].op = "rotate" =>
              authLog[i].token # authLog[j].token
    /\ \A a \in Admins : calls[a].at = "admitted" /\ Minting(calls[a].cmd) =>
          /\ \A i \in 1..Len(authLog) :
                Minting(authLog[i]) => authLog[i].token # calls[a].cmd.token
          /\ \A b \in Admins \ {a} : calls[b].at = "admitted" /\ Minting(calls[b].cmd) =>
                calls[b].cmd.token # calls[a].cmd.token

\* The tokens of a node's rows, and those rotated away, come from entries the
\* node has applied; and a principal with a rotated token has a row.
MintedBy(entries, k, t) ==
    \E i \in 1..k : Minting(entries[i]) /\ entries[i].token = t

RowsMinted ==
    \A n \in Nodes :
        /\ \A p \in Names : rows[n][p] # Absent => MintedBy(authLog, applied[n], rows[n][p].token)
        /\ \A p \in Names : \A t : <<p, t>> \in retired[n] =>
              rows[n][p] # Absent /\ MintedBy(authLog, applied[n], t)

TokenInv == AuthTyped /\ MintsApart /\ RowsMinted /\ RotationSticks

\* Every step keeps the minted tokens apart.
LEMMA MintsStep ==
    ASSUME AuthTyped, MintsApart, AuthNext
    PROVE  MintsApart'
<1>. DEFINE Busy(a) == calls[a].at = "admitted" /\ Minting(calls[a].cmd)
<1>0. DOMAIN calls = Admins /\ \A a \in Admins : CallOK(a)
  BY DEF AuthTyped
<1>1. ASSUME authLog' = authLog,
             \A a \in Admins : Busy(a)' => Busy(a) /\ calls'[a].cmd.token = calls[a].cmd.token
      PROVE  MintsApart'
  BY <1>1 DEF MintsApart
<1>2. ASSUME NEW a \in Admins, Ends(a), authLog' = authLog PROVE MintsApart'
  <2>1. \A x \in Admins : calls'[x] = calls[x] \/ calls'[x].at = "idle"
    BY <1>0, <1>2 DEF Ends, IdleCall
  <2>. QED  BY <1>1, <1>2, <2>1
<1>3. ASSUME NEW a \in Admins, ListsGrant(a), authLog' = authLog PROVE MintsApart'
  <2>1. \A x \in Admins : calls'[x] = calls[x] \/ calls'[x].at = "listed"
    BY <1>0, <1>3 DEF ListsGrant
  <2>. QED  BY <1>1, <1>3, <2>1
<1>4. ASSUME NEW a \in Admins, Readmits(a), authLog' = authLog PROVE MintsApart'
  <2>1. /\ \A x \in Admins \ {a} : calls'[x] = calls[x]
        /\ calls'[a].cmd = calls[a].cmd
    BY <1>0, <1>4 DEF Readmits, CallOK
  <2>2. ~Minting(calls[a].cmd)
    BY <1>0, <1>4 DEF Readmits, CallOK, Minting
  <2>. QED  BY <1>1, <1>4, <2>1, <2>2
<1>5. ASSUME NEW a \in Admins, Admits(a), authLog' = authLog PROVE MintsApart'
  <2>1. PICK n \in Nodes, c \in AuthPrincipalCmd :
            calls' = [calls EXCEPT ![a] = [at |-> "admitted", node |-> n, cmd |-> c]]
    BY <1>5 DEF Admits
  <2>2. /\ \A x \in Admins \ {a} : calls'[x] = calls[x]
        /\ calls'[a].cmd = c
    BY <1>0, <2>1
  <2>3. Minting(c) => c.token \notin Used
    BY ProposedOK
  <2>4. \A i \in 1..Len(authLog) : Minting(authLog[i]) => authLog[i].token \in Used
    <3>1. DOMAIN authLog = 1..Len(authLog)
      BY DEF AuthTyped
    <3>. QED  BY <3>1 DEF Used, Proposed, Minting
  <2>5. \A x \in Admins : Busy(x) => calls[x].cmd.token \in Used
    BY DEF Used, Proposed, Minting
  <2>. QED  BY <1>5, <2>2, <2>3, <2>4, <2>5 DEF MintsApart
<1>6. ASSUME NEW c, Grows(c) PROVE MintsApart'
  <2>1. /\ Len(authLog) \in Nat /\ Len(authLog') = Len(authLog) + 1
        /\ \A i \in 1..Len(authLog) : authLog'[i] = authLog[i]
        /\ authLog'[Len(authLog) + 1] = c
    BY <1>6, GrownLog
  <2>2. \A i \in 1..Len(authLog') : i \in 1..Len(authLog) \/ i = Len(authLog) + 1
    BY <2>1
  <2>3. CASE c = BootstrapCmd /\ calls' = calls
    <3>1. c.op = "create" /\ c.token = 0
      BY <2>3, BootstrapOK
    <3>2. \A a \in Admins : Busy(a) => calls[a].cmd.token # 0
      BY <1>0 DEF CallOK, CmdOK
    <3>3. \A i, j \in 1..Len(authLog') :
            i < j /\ Minting(authLog'[i]) /\ authLog'[j].op = "rotate" =>
                i \in 1..Len(authLog) /\ j \in 1..Len(authLog)
      BY <2>1, <2>2, <3>1
    <3>. QED  BY <2>1, <2>2, <2>3, <3>1, <3>2, <3>3 DEF MintsApart
  <2>4. ASSUME NEW a \in Admins, calls[a].at = "admitted", c = calls[a].cmd,
               calls' = [calls EXCEPT ![a] = IdleCall]
        PROVE  MintsApart'
    <3>1. /\ \A x \in Admins \ {a} : calls'[x] = calls[x]
          /\ calls'[a].at = "idle"
      BY <1>0, <2>4 DEF IdleCall
    <3>2. \A i, j \in 1..Len(authLog') :
            i < j /\ Minting(authLog'[i]) /\ authLog'[j].op = "rotate" =>
                authLog'[i].token # authLog'[j].token
      <4>1. SUFFICES ASSUME NEW i \in 1..Len(authLog'), NEW j \in 1..Len(authLog'),
                            i < j, Minting(authLog'[i]), authLog'[j].op = "rotate"
                     PROVE  authLog'[i].token # authLog'[j].token
        OBVIOUS
      <4>2. i \in 1..Len(authLog)
        BY <2>1, <4>1
      <4>3. CASE j \in 1..Len(authLog)
        BY <2>1, <4>1, <4>2, <4>3 DEF MintsApart
      <4>4. CASE j = Len(authLog) + 1
        <5>1. Minting(calls[a].cmd) /\ authLog'[j] = calls[a].cmd
          BY <2>1, <2>4, <4>1, <4>4 DEF Minting
        <5>. QED  BY <2>1, <2>4, <4>1, <4>2, <5>1 DEF MintsApart
      <4>. QED  BY <2>2, <4>3, <4>4
    <3>3. ASSUME NEW x \in Admins, Busy(x)'
          PROVE  x # a /\ Busy(x) /\ calls'[x] = calls[x]
      BY <3>1, <3>3
    <3>4. ASSUME NEW x \in Admins, Busy(x)', NEW i \in 1..Len(authLog'), Minting(authLog'[i])
          PROVE  authLog'[i].token # calls'[x].cmd.token
      <4>1. x # a /\ Busy(x) /\ calls'[x] = calls[x]
        BY <3>3, <3>4
      <4>2. CASE i \in 1..Len(authLog)
        BY <2>1, <3>4, <4>1, <4>2 DEF MintsApart
      <4>3. CASE i = Len(authLog) + 1
        <5>1. authLog'[i] = calls[a].cmd /\ Busy(a)
          BY <2>1, <2>4, <3>4, <4>3
        <5>. QED  BY <4>1, <5>1 DEF MintsApart
      <4>. QED  BY <2>2, <4>2, <4>3
    <3>5. ASSUME NEW x \in Admins, Busy(x)', NEW y \in Admins \ {x}, Busy(y)'
          PROVE  calls'[y].cmd.token # calls'[x].cmd.token
      BY <3>3, <3>5 DEF MintsApart
    <3>. QED  BY <3>2, <3>4, <3>5 DEF MintsApart
  <2>. QED  BY <1>6, <2>3, <2>4 DEF Grows
<1>7. CASE UNCHANGED <<authLog, calls>>
  BY <1>7 DEF MintsApart
<1>. QED  BY AuthEffect, <1>2, <1>3, <1>4, <1>5, <1>6, <1>7

\* A node applies an entry: a token the entry brings is not one rotated away.
LEMMA RowsStep ==
    ASSUME TokenInv, AuthNext, MintsApart'
    PROVE  RowsMinted' /\ RotationSticks'
<1>0. AuthTyped /\ MintsApart /\ RowsMinted /\ RotationSticks
  BY DEF TokenInv
<1>1. /\ Len(authLog) \in Nat /\ Len(authLog') \in Nat /\ Len(authLog) <= Len(authLog')
      /\ \A i \in 1..Len(authLog) : authLog'[i] = authLog[i]
  BY <1>0, LogOK
<1>2. \A n \in Nodes : applied[n] \in Nat /\ applied[n] <= Len(authLog)
  BY <1>0 DEF AuthTyped
<1>3. \A n \in Nodes : \A i \in 1..applied[n] : i \in 1..Len(authLog) /\ authLog'[i] = authLog[i]
  BY <1>1, <1>2
<1>4. ASSUME NEW n \in Nodes, applied'[n] \in Nat, applied[n] <= applied'[n], NEW t, MintedBy(authLog, applied[n], t)
      PROVE  MintedBy(authLog', applied'[n], t)
  <2>1. PICK i \in 1..applied[n] : Minting(authLog[i]) /\ authLog[i].token = t
    BY <1>4 DEF MintedBy
  <2>2. i \in 1..applied'[n]
    BY <1>2, <1>4, <2>1
  <2>. QED  BY <1>3, <2>1, <2>2 DEF MintedBy
<1>5. CASE UNCHANGED <<applied, rows, retired, misrevoked>>
  <2>1. RotationSticks'
    BY <1>0, <1>5 DEF RotationSticks, Present
  <2>2. \A n \in Nodes : \A t : MintedBy(authLog, applied[n], t) => MintedBy(authLog', applied'[n], t)
    BY <1>2, <1>4, <1>5
  <2>. QED  BY <1>0, <1>5, <2>1, <2>2 DEF RowsMinted
<1>6. ASSUME NEW n \in Nodes, Applies(n)
      PROVE  RowsMinted' /\ RotationSticks'
  <2>. DEFINE c == authLog'[applied[n] + 1]
              j == applied[n] + 1
              old == rows[n][c.name]
              new == ApplyAuth(rows[n], c)[c.name]
  <2>1. /\ CmdOK(c) /\ j \in 1..Len(authLog')
        /\ rows' = [rows EXCEPT ![n] = ApplyAuth(rows[n], c)]
        /\ applied' = [applied EXCEPT ![n] = j]
        /\ retired' = [retired EXCEPT ![n] = retired[n] \cup Retires(n, c)]
        /\ StoreOK(rows[n])
    BY <1>0, <1>6, AppliesEffect
  <2>2. /\ DOMAIN rows = Nodes /\ DOMAIN applied = Nodes /\ DOMAIN retired = Nodes
    BY <1>0 DEF AuthTyped
  <2>3. /\ \A p \in Names \ {c.name} : ApplyAuth(rows[n], c)[p] = rows[n][p]
        /\ new # old /\ old = Absent => c.op = "create" /\ new.token = c.token /\ new # Absent
        /\ old # Absent => /\ new # Absent
                           /\ new.token = IF c.op = "rotate" THEN c.token ELSE old.token
    BY <2>1, ApplyRow
  <2>4. Retires(n, c) = IF old # Absent /\ new.token # old.token THEN {<<c.name, old.token>>} ELSE {}
    BY DEF Retires
  <2>5. c.name \in Names
    BY <2>1 DEF CmdOK
  <2>6. /\ rows'[n] = ApplyAuth(rows[n], c) /\ applied'[n] = j
        /\ retired'[n] = retired[n] \cup Retires(n, c)
        /\ \A x \in Nodes \ {n} : /\ rows'[x] = rows[x] /\ applied'[x] = applied[x]
                                  /\ retired'[x] = retired[x]
    BY <2>1, <2>2
  <2>7. j \in Nat /\ applied[n] <= j /\ j \in 1..j /\ authLog'[j] = c
    BY <1>2
  <2>8. \A t : MintedBy(authLog, applied[n], t) => MintedBy(authLog', applied'[n], t)
    BY <1>4, <2>6, <2>7
  <2>9. Minting(c) => MintedBy(authLog', applied'[n], c.token)
    BY <2>6, <2>7 DEF MintedBy
  \* A rotation's token is none that the node has met.
  <2>10. ASSUME c.op = "rotate", NEW t, MintedBy(authLog, applied[n], t) PROVE t # c.token
    <3>1. PICK i \in 1..applied[n] : Minting(authLog[i]) /\ authLog[i].token = t
      BY <2>10 DEF MintedBy
    <3>2. i \in 1..Len(authLog') /\ i < j /\ authLog'[i] = authLog[i]
      BY <1>1, <1>2, <1>3, <2>1, <3>1
    <3>. QED  BY <2>1, <2>10, <3>1, <3>2 DEF MintsApart
  <2>. HIDE DEF c, j, old, new
  <2>11. ASSUME NEW p \in Names, rows'[n][p] # Absent
         PROVE  MintedBy(authLog', applied'[n], rows'[n][p].token)
    <3>1. CASE p # c.name
      BY <1>0, <2>3, <2>6, <2>8, <2>11, <3>1 DEF RowsMinted
    <3>2. CASE p = c.name
      <4>1. rows'[n][p] = new /\ rows[n][p] = old
        BY <2>6, <3>2 DEF new, old
      <4>2. CASE old = Absent
        BY <2>3, <2>9, <2>11, <4>1, <4>2 DEF Minting
      <4>3. CASE old # Absent
        <5>1. MintedBy(authLog', applied'[n], old.token)
          BY <1>0, <2>8, <2>11, <4>1, <4>3 DEF RowsMinted
        <5>. QED  BY <2>3, <2>9, <4>1, <4>3, <5>1 DEF Minting
      <4>. QED  BY <4>2, <4>3
    <3>. QED  BY <3>1, <3>2
  <2>12. ASSUME NEW p \in Names, NEW t, <<p, t>> \in retired'[n]
         PROVE  rows'[n][p] # Absent /\ MintedBy(authLog', applied'[n], t)
    <3>1. CASE <<p, t>> \in retired[n]
      <4>1. rows[n][p] # Absent /\ MintedBy(authLog, applied[n], t)
        BY <1>0, <3>1 DEF RowsMinted
      <4>2. rows'[n][p] # Absent
        BY <2>3, <2>6, <4>1 DEF new, old
      <4>. QED  BY <2>8, <4>1, <4>2
    <3>2. CASE <<p, t>> \in Retires(n, c)
      <4>1. old # Absent /\ p = c.name /\ t = old.token
        BY <2>4, <3>2
      <4>2. MintedBy(authLog, applied[n], t)
        BY <1>0, <2>5, <4>1 DEF RowsMinted, old
      <4>3. rows'[n][p] # Absent
        BY <2>3, <2>6, <4>1 DEF new
      <4>. QED  BY <2>8, <4>2, <4>3
    <3>. QED  BY <2>6, <2>12, <3>1, <3>2
  <2>13. ASSUME NEW p \in Names, rows'[n][p] # Absent, <<p, rows'[n][p].token>> \in retired'[n]
         PROVE  FALSE
    <3>1. CASE p # c.name
      <4>1. rows'[n][p] = rows[n][p]
        BY <2>3, <2>6, <3>1
      <4>2. <<p, rows[n][p].token>> \in retired[n]
        BY <2>4, <2>6, <2>13, <3>1, <4>1
      <4>. QED  BY <1>0, <2>13, <4>1, <4>2 DEF RotationSticks, Present
    <3>2. CASE p = c.name
      <4>1. rows'[n][p] = new /\ rows[n][p] = old
        BY <2>6, <3>2 DEF new, old
      <4>2. CASE old = Absent
        <5>1. <<p, new.token>> \in retired[n]
          BY <2>4, <2>6, <2>13, <4>1, <4>2
        <5>. QED  BY <1>0, <4>1, <4>2, <5>1 DEF RowsMinted
      <4>3. CASE old # Absent /\ new.token = old.token
        <5>1. <<p, old.token>> \in retired[n]
          BY <2>4, <2>6, <2>13, <4>1, <4>3
        <5>. QED  BY <1>0, <4>1, <4>3, <5>1 DEF RotationSticks, Present
      <4>4. CASE old # Absent /\ new.token # old.token
        <5>1. c.op = "rotate" /\ new.token = c.token
          BY <2>3, <4>4
        <5>2. <<p, c.token>> \in retired[n]
          BY <2>4, <2>6, <2>13, <4>1, <4>4, <5>1
        <5>3. MintedBy(authLog, applied[n], c.token)
          BY <1>0, <5>2 DEF RowsMinted
        <5>. QED  BY <2>10, <5>1, <5>3
      <4>. QED  BY <4>2, <4>3, <4>4
    <3>. QED  BY <3>1, <3>2
  <2>14. ASSUME NEW x \in Nodes \ {n}
         PROVE  /\ \A t : MintedBy(authLog, applied[x], t) => MintedBy(authLog', applied'[x], t)
                /\ UNCHANGED <<rows[x], retired[x]>>
    BY <1>2, <1>4, <2>6
  <2>15. RowsMinted'
    BY <1>0, <2>11, <2>12, <2>14 DEF RowsMinted
  <2>16. RotationSticks'
    BY <1>0, <2>13, <2>14 DEF RotationSticks, Present
  <2>. QED  BY <2>15, <2>16
<1>. QED  BY <1>0, <1>5, <1>6, AuthEffect

\* Every step keeps the token rows in line with the log.
LEMMA TokenStep == TokenInv /\ [AuthNext]_authVars => TokenInv'
<1>. SUFFICES ASSUME TokenInv, [AuthNext]_authVars PROVE TokenInv'
  OBVIOUS
<1>1. AuthTyped'
  BY AuthTypedStep DEF TokenInv
<1>2. CASE AuthNext
  <2>1. MintsApart'
    BY <1>2, MintsStep DEF TokenInv
  <2>. QED  BY <1>1, <1>2, <2>1, RowsStep DEF TokenInv
<1>3. CASE UNCHANGED authVars
  BY <1>1, <1>3
     DEF authVars, TokenInv, MintsApart, RowsMinted, MintedBy, RotationSticks, Present
<1>. QED  BY <1>2, <1>3

\* The token rows are in line with the log at the start.
LEMMA TokenInit == AuthInit => TokenInv
<1>. SUFFICES ASSUME AuthInit PROVE TokenInv
  OBVIOUS
<1>1. Len(authLog) = 0 /\ \A i \in 1..Len(authLog) : FALSE
  BY DEF AuthInit
<1>2. MintsApart
  BY <1>1 DEF AuthInit, MintsApart, IdleCall
<1>3. RowsMinted /\ RotationSticks
  BY DEF AuthInit, RowsMinted, RotationSticks, Present
<1>. QED  BY <1>2, <1>3, AuthTypedInit DEF TokenInv

-----------------------------------------------------------------------------
(* Revokes by place                                                        *)

RevokeSet(entries, p, k) == {i \in 1..k : entries[i].op = "revoke" /\ entries[i].name = p}
RevokeCount(entries, p, k) == Cardinality(RevokeSet(entries, p, k))

\* H[i] is the store after i entries.  While no grant of a principal is revoked
\* its grants keep their places, and a revoke in the log names what one of the
\* stores before it held.
Prefixed(r, s) ==
    /\ s # Absent /\ Len(r.grants) <= Len(s.grants)
    /\ \A i \in 1..Len(r.grants) : s.grants[i] = r.grants[i]

KeepsPlaces(entries, H) ==
    \A k, a \in 0..Len(entries) : \A p \in Names :
        /\ k <= a /\ H[k][p] # Absent
        /\ RevokeCount(entries, p, k) = RevokeCount(entries, p, a)
        => Prefixed(H[k][p], H[a][p])

Seen(entries, H, c, k) ==
    /\ H[k][c.name] # Absent /\ c.index \in 1..Len(H[k][c.name].grants)
    /\ H[k][c.name].grants[c.index] = c.grant
    /\ c.revokes = RevokeCount(entries, c.name, k)

HistoryOK(entries, H) ==
    /\ \A i \in 0..Len(entries) : StoreOK(H[i])
    /\ \A i \in 1..Len(entries) : H[i] = ApplyAuth(H[i - 1], entries[i])
    /\ KeepsPlaces(entries, H)
    /\ \A j \in 1..Len(entries) : entries[j].op = "revoke" =>
          \E k \in 0..(j - 1) : Seen(entries, H, entries[j], k)

CallsSeen(H) ==
    \A a \in Admins : calls[a].at # "idle" /\ calls[a].cmd.op = "revoke" =>
        \E k \in 0..Len(authLog) : Seen(authLog, H, calls[a].cmd, k)

RowsOf(H) == \A n \in Nodes : rows[n] = H[applied[n]]

GrantInv == /\ AuthTyped /\ RevokesNamed
            /\ \E H : HistoryOK(authLog, H) /\ CallsSeen(H) /\ RowsOf(H)

\* How one more entry changes the count of revokes.
LEMMA RevokeCounts ==
    ASSUME NEW entries, NEW p, NEW k \in Nat
    PROVE  /\ RevokeCount(entries, p, k) \in Nat
           /\ entries[k + 1].op = "revoke" /\ entries[k + 1].name = p =>
                 RevokeCount(entries, p, k + 1) = RevokeCount(entries, p, k) + 1
           /\ ~(entries[k + 1].op = "revoke" /\ entries[k + 1].name = p) =>
                 RevokeCount(entries, p, k + 1) = RevokeCount(entries, p, k)
           /\ \A a \in Nat : k <= a => RevokeCount(entries, p, k) <= RevokeCount(entries, p, a)
<1>. DEFINE R(x) == RevokeSet(entries, p, x)
<1>1. ASSUME NEW x \in Nat PROVE IsFiniteSet(R(x)) /\ Cardinality(R(x)) \in Nat
  <2>1. IsFiniteSet(1..x)
    BY FS_Interval
  <2>2. R(x) \subseteq 1..x
    BY DEF RevokeSet
  <2>. QED  BY <2>1, <2>2, FS_Subset, FS_CardinalityType
<1>2. ASSUME NEW a \in Nat, k <= a PROVE Cardinality(R(k)) <= Cardinality(R(a))
  <2>1. R(k) \subseteq R(a)
    BY <1>2 DEF RevokeSet
  <2>. QED  BY <1>1, <2>1, FS_Subset
<1>3. CASE entries[k + 1].op = "revoke" /\ entries[k + 1].name = p
  <2>1. R(k + 1) = R(k) \cup {k + 1} /\ k + 1 \notin R(k)
    BY <1>3 DEF RevokeSet
  <2>. HIDE DEF R
  <2>2. Cardinality(R(k + 1)) = Cardinality(R(k)) + 1
    BY <1>1, <2>1, FS_AddElement
  <2>. QED  BY <1>1, <1>2, <1>3, <2>2 DEF RevokeCount, R
<1>4. CASE ~(entries[k + 1].op = "revoke" /\ entries[k + 1].name = p)
  <2>1. R(k + 1) = R(k)
    BY <1>4 DEF RevokeSet
  <2>. QED  BY <1>1, <1>2, <1>4, <2>1 DEF RevokeCount
<1>. QED  BY <1>3, <1>4

\* A longer log counts the same revokes among its first entries.
LEMMA SameCount ==
    ASSUME NEW s, NEW t, NEW p, NEW k \in Nat, \A i \in 1..k : s[i] = t[i]
    PROVE  RevokeCount(s, p, k) = RevokeCount(t, p, k)
<1>1. RevokeSet(s, p, k) = RevokeSet(t, p, k)
  BY DEF RevokeSet
<1>. QED  BY <1>1 DEF RevokeCount

\* One more entry keeps the places of the principal's grants, unless it revokes one.
LEMMA EntryKeepsPlaces ==
    ASSUME NEW store, NEW c, StoreOK(store), CmdOK(c), NEW p \in Names, NEW r,
           RowOK(r), r # Absent, Prefixed(r, store[p]), ~(c.op = "revoke" /\ c.name = p)
    PROVE  Prefixed(r, ApplyAuth(store, c)[p])
<1>1. RowOK(store[p]) /\ c.name \in Names
  BY DEF StoreOK, CmdOK
<1>2. CASE c.name # p
  <2>1. ApplyAuth(store, c)[p] = store[p]
    BY <1>2, ApplyRow
  <2>. QED  BY <2>1
<1>3. CASE c.name = p
  <2>. DEFINE old == store[p]  new == ApplyAuth(store, c)[p]
  <2>1. old # Absent
    BY DEF Prefixed
  <2>2. /\ new # Absent
        /\ c.op = "grant" => new.grants = Append(old.grants, c.grant)
        /\ c.op \notin {"grant", "revoke"} => new.grants = old.grants
    <3>1. store[c.name] # Absent /\ c.op # "revoke"
      BY <1>3, <2>1
    <3>2. LET o == store[c.name]  n == ApplyAuth(store, c)[c.name]
          IN  /\ n # Absent
              /\ c.op = "grant" => n.grants = Append(o.grants, c.grant)
              /\ c.op \notin {"grant", "revoke"} => n.grants = o.grants
      BY ONLY StoreOK(store), CmdOK(c), <3>1, ApplyRow
    <3>. QED  BY <1>3, <3>2, Zenon
  <2>. HIDE DEF new
  <2>3. old.grants \in Seq(AuthGrant) /\ r.grants \in Seq(AuthGrant)
    BY <1>1, <2>1 DEF RowOK
  <2>4. CASE c.op = "grant"
    <3>1. c.grant \in AuthGrant
      BY <2>4 DEF CmdOK
    <3>2. /\ Len(new.grants) = Len(old.grants) + 1 /\ Len(old.grants) \in Nat
          /\ Len(r.grants) \in Nat
          /\ \A i \in 1..Len(old.grants) : new.grants[i] = old.grants[i]
      BY <2>2, <2>3, <2>4, <3>1
    <3>3. Len(r.grants) <= Len(old.grants)
      BY DEF Prefixed
    <3>4. \A i \in 1..Len(r.grants) : i \in 1..Len(old.grants)
      BY <3>2, <3>3
    <3>. QED  BY <2>2, <3>2, <3>3, <3>4 DEF Prefixed, new
  <2>5. CASE c.op # "grant"
    BY <1>3, <2>2, <2>5 DEF Prefixed, new
  <2>. QED  BY <2>4, <2>5
<1>. QED  BY <1>2, <1>3

\* The history grows with the log.
LEMMA HistoryGrows ==
    ASSUME NEW s, NEW t, NEW c, NEW H, HistoryOK(s, H), Len(s) \in Nat, CmdOK(c),
           \A i \in 1..Len(s) : CmdOK(s[i]),
           Len(t) = Len(s) + 1, \A i \in 1..Len(s) : t[i] = s[i], t[Len(s) + 1] = c,
           c.op = "revoke" => \E k \in 0..Len(s) : Seen(s, H, c, k)
    PROVE  \E G : HistoryOK(t, G) /\ \A i \in 0..Len(s) : G[i] = H[i]
<1>. DEFINE N == Len(s)
            G == [i \in 0..(N + 1) |-> IF i <= N THEN H[i] ELSE ApplyAuth(H[N], c)]
<1>1. /\ \A i \in 0..N : G[i] = H[i]
      /\ G[N + 1] = ApplyAuth(G[N], c) /\ G[N] = H[N]
      /\ \A i \in 0..(N + 1) : i \in 0..N \/ i = N + 1
      /\ \A i \in 1..(N + 1) : i \in 1..N \/ i = N + 1
      /\ \A i \in 1..N : i \in 0..N /\ i - 1 \in 0..N
      /\ N \in 0..N /\ N \in Nat /\ Len(t) = N + 1
      /\ N + 1 - 1 = N
  OBVIOUS
<1>. HIDE DEF G, N
<1>2. StoreOK(G[N]) /\ StoreOK(G[N + 1])
  <2>1. StoreOK(G[N])
    BY <1>1 DEF HistoryOK, N
  <2>. QED  BY <1>1, <2>1, ApplyRow
<1>3. \A i \in 0..Len(t) : StoreOK(G[i])
  BY <1>1, <1>2 DEF HistoryOK, N
<1>4. \A i \in 1..Len(t) : G[i] = ApplyAuth(G[i - 1], t[i])
  <2>1. ASSUME NEW i \in 1..N PROVE G[i] = ApplyAuth(G[i - 1], t[i])
    BY <1>1, <2>1 DEF HistoryOK, N
  <2>2. G[N + 1] = ApplyAuth(G[N + 1 - 1], t[N + 1])
    BY <1>1 DEF N
  <2>. QED  BY <1>1, <2>1, <2>2
<1>5. \A k \in 0..N : \A p : RevokeCount(t, p, k) = RevokeCount(s, p, k)
  <2>. SUFFICES ASSUME NEW k \in 0..N, NEW p PROVE RevokeCount(t, p, k) = RevokeCount(s, p, k)
    OBVIOUS
  <2>1. k \in Nat /\ \A i \in 1..k : t[i] = s[i]
    BY <1>1 DEF N
  <2>. QED  BY <2>1, SameCount
<1>6. KeepsPlaces(t, G)
  <2>. SUFFICES ASSUME NEW k \in 0..Len(t), NEW a \in 0..Len(t), NEW p \in Names,
                       k <= a, G[k][p] # Absent,
                       RevokeCount(t, p, k) = RevokeCount(t, p, a)
                PROVE  Prefixed(G[k][p], G[a][p])
    BY DEF KeepsPlaces
  <2>1. CASE a \in 0..N
    <3>1. k \in 0..N
      BY <1>1, <2>1
    <3>. QED  BY <1>1, <1>5, <2>1, <3>1 DEF HistoryOK, KeepsPlaces, N
  <2>2. CASE a = N + 1 /\ k = N + 1
    <3>1. RowOK(G[a][p])
      BY <1>2, <2>2 DEF StoreOK
    <3>2. Len(G[a][p].grants) \in Nat
      BY <2>2, <3>1 DEF RowOK
    <3>. QED  BY <2>2, <3>2 DEF Prefixed
  <2>3. CASE a = N + 1 /\ k \in 0..N
    <3>0. k \in Nat /\ N \in Nat /\ k <= N
      BY <1>1, <2>3
    <3>1. /\ RevokeCount(t, p, k) \in Nat /\ RevokeCount(t, p, N) \in Nat
          /\ RevokeCount(t, p, k) <= RevokeCount(t, p, N)
          /\ IF c.op = "revoke" /\ c.name = p
             THEN RevokeCount(t, p, N + 1) = RevokeCount(t, p, N) + 1
             ELSE RevokeCount(t, p, N + 1) = RevokeCount(t, p, N)
      <4>1. t[N + 1] = c
        BY DEF N
      <4>2. /\ RevokeCount(t, p, k) \in Nat
            /\ \A x \in Nat : k <= x => RevokeCount(t, p, k) <= RevokeCount(t, p, x)
        BY <3>0, RevokeCounts
      <4>3. /\ RevokeCount(t, p, N) \in Nat
            /\ t[N + 1].op = "revoke" /\ t[N + 1].name = p =>
                  RevokeCount(t, p, N + 1) = RevokeCount(t, p, N) + 1
            /\ ~(t[N + 1].op = "revoke" /\ t[N + 1].name = p) =>
                  RevokeCount(t, p, N + 1) = RevokeCount(t, p, N)
        BY <3>0, RevokeCounts
      <4>. QED  BY <3>0, <4>1, <4>2, <4>3
    <3>2. /\ RevokeCount(t, p, k) = RevokeCount(t, p, N)
          /\ ~(c.op = "revoke" /\ c.name = p)
      BY <2>3, <3>1
    <3>3. Prefixed(G[k][p], G[N][p])
      BY <1>1, <1>5, <2>3, <3>0, <3>2 DEF HistoryOK, KeepsPlaces, N
    <3>4. RowOK(G[k][p])
      BY <1>1, <1>3, <2>3 DEF StoreOK
    <3>5. Prefixed(G[k][p], ApplyAuth(G[N], c)[p])
      BY <1>2, <3>2, <3>3, <3>4, EntryKeepsPlaces
    <3>. QED  BY <1>1, <2>3, <3>5
  <2>. QED  BY <1>1, <2>1, <2>2, <2>3
<1>7. \A j \in 1..Len(t) : t[j].op = "revoke" => \E k \in 0..(j - 1) : Seen(t, G, t[j], k)
  <2>1. ASSUME NEW j \in 1..N, t[j].op = "revoke"
        PROVE  \E k \in 0..(j - 1) : Seen(t, G, t[j], k)
    <3>1. t[j] = s[j]
      BY DEF N
    <3>2. PICK k \in 0..(j - 1) : Seen(s, H, s[j], k)
      BY <2>1, <3>1 DEF HistoryOK, N
    <3>3. k \in 0..N
      BY <1>1, <3>2
    <3>4. Seen(t, G, t[j], k)
      BY <1>1, <1>5, <3>1, <3>2, <3>3 DEF Seen
    <3>. QED  BY <3>2, <3>4
  <2>2. ASSUME c.op = "revoke" PROVE \E k \in 0..N : Seen(t, G, c, k)
    BY <1>1, <1>5, <2>2 DEF Seen, N
  <2>3. t[N + 1] = c
    BY DEF N
  <2>. QED  BY <1>1, <2>1, <2>2, <2>3
<1>8. HistoryOK(t, G)
  BY <1>3, <1>4, <1>6, <1>7 DEF HistoryOK
<1>. QED  BY <1>1, <1>8 DEF N

\* The grant rows are those of the empty log at the start.
LEMMA GrantInit == AuthInit => GrantInv
<1>. SUFFICES ASSUME AuthInit PROVE GrantInv
  OBVIOUS
<1>. DEFINE empty == [p \in Names |-> Absent]
            H == [i \in 0..0 |-> empty]
<1>1. Len(authLog) = 0 /\ 0..Len(authLog) = {0} /\ 1..Len(authLog) = {}
  BY DEF AuthInit
<1>2. StoreOK(empty) /\ H[0] = empty /\ \A p \in Names : empty[p] = Absent
  BY DEF StoreOK, RowOK
<1>. HIDE DEF H, empty
<1>3. HistoryOK(authLog, H)
  BY <1>1, <1>2 DEF HistoryOK, KeepsPlaces
<1>4. CallsSeen(H)
  BY DEF AuthInit, CallsSeen, IdleCall
<1>5. RowsOf(H)
  BY <1>2 DEF AuthInit, RowsOf, empty
<1>6. RevokesNamed
  BY DEF AuthInit, RevokesNamed
<1>. QED  BY <1>3, <1>4, <1>5, <1>6, AuthTypedInit DEF GrantInv

\* The history after a step: the old one, with one store more when the log grew.
LEMMA HistoryStep ==
    ASSUME AuthTyped, AuthNext, NEW H, HistoryOK(authLog, H), CallsSeen(H)
    PROVE  \E G : HistoryOK(authLog', G) /\ \A i \in 0..Len(authLog) : G[i] = H[i]
<1>1. CASE authLog' = authLog
  BY <1>1
<1>2. ASSUME NEW c, Grows(c)
      PROVE  \E G : HistoryOK(authLog', G) /\ \A i \in 0..Len(authLog) : G[i] = H[i]
  <2>1. /\ CmdOK(c) /\ Len(authLog) \in Nat /\ Len(authLog') = Len(authLog) + 1
        /\ \A i \in 1..Len(authLog) : authLog'[i] = authLog[i]
        /\ authLog'[Len(authLog) + 1] = c
    BY <1>2, GrownLog
  <2>2. \A i \in 1..Len(authLog) : CmdOK(authLog[i])
    BY DEF AuthTyped
  <2>3. c.op = "revoke" => \E k \in 0..Len(authLog) : Seen(authLog, H, c, k)
    BY <1>2 DEF Grows, BootstrapCmd, CallsSeen
  <2>. QED  BY <2>1, <2>2, <2>3, HistoryGrows
<1>. QED  BY <1>1, <1>2, AuthEffect

\* What was seen in the log is seen in the longer one.
LEMMA StillSeen ==
    ASSUME AuthTyped, AuthNext, NEW H, NEW G, \A i \in 0..Len(authLog) : G[i] = H[i],
           NEW k \in 0..Len(authLog)
    PROVE  /\ \A p : RevokeCount(authLog', p, k) = RevokeCount(authLog, p, k)
           /\ \A c : Seen(authLog, H, c, k) => Seen(authLog', G, c, k)
<1>1. k \in Nat /\ \A i \in 1..k : authLog'[i] = authLog[i]
  BY LogOK
<1>2. \A p : RevokeCount(authLog', p, k) = RevokeCount(authLog, p, k)
  BY <1>1, SameCount
<1>. QED  BY <1>2 DEF Seen

\* A call goes on from a state of the log it has seen.
LEMMA CallsSeenStep ==
    ASSUME AuthTyped, AuthNext, NEW H, CallsSeen(H), HistoryOK(authLog, H), RowsOf(H), NEW G,
           \A i \in 0..Len(authLog) : G[i] = H[i]
    PROVE  CallsSeen(G)'
<1>1. SUFFICES ASSUME NEW a \in Admins, calls'[a].at # "idle", calls'[a].cmd.op = "revoke"
               PROVE  \E k \in 0..Len(authLog') : Seen(authLog', G, calls'[a].cmd, k)
  BY DEF CallsSeen
<1>2. Len(authLog) \in Nat /\ Len(authLog') \in Nat /\ Len(authLog) <= Len(authLog')
  BY LogOK
<1>3. ASSUME NEW c, NEW k \in 0..Len(authLog), Seen(authLog, H, c, k)
      PROVE  \E x \in 0..Len(authLog') : Seen(authLog', G, c, x)
  <2>1. Seen(authLog', G, c, k)
    BY <1>3, StillSeen
  <2>2. k \in 0..Len(authLog')
    BY <1>2
  <2>. QED  BY <2>1, <2>2
<1>4. CASE calls'[a].cmd = calls[a].cmd /\ calls[a].at # "idle"
  BY <1>1, <1>3, <1>4 DEF CallsSeen
<1>5. DOMAIN calls = Admins /\ DOMAIN calls[a] = {"at", "node", "cmd"}
  BY DEF AuthTyped, CallOK
<1>6. CASE calls' = calls
  BY <1>1, <1>4, <1>6
<1>7. ASSUME NEW b \in Admins, calls' = [calls EXCEPT ![b] = IdleCall]
      PROVE  calls'[a].cmd = calls[a].cmd /\ calls[a].at # "idle"
  BY <1>1, <1>5, <1>7 DEF IdleCall
<1>8. ASSUME NEW b \in Admins, Admits(b)
      PROVE  calls'[a].cmd = calls[a].cmd /\ calls[a].at # "idle"
  <2>1. PICK n \in Nodes, c \in AuthPrincipalCmd :
            calls' = [calls EXCEPT ![b] = [at |-> "admitted", node |-> n, cmd |-> c]]
    BY <1>8 DEF Admits
  <2>2. c.op # "revoke"
    BY DEF AuthPrincipalCmd, CreatePrincipalRequest, RotatePrincipalTokenRequest,
           SetPrincipalDisabledRequest, GrantPrincipalRequest
  <2>. QED  BY <1>1, <1>5, <2>1, <2>2
<1>9. ASSUME NEW b \in Admins, Readmits(b)
      PROVE  calls'[a].cmd = calls[a].cmd /\ calls[a].at # "idle"
  BY <1>1, <1>5, <1>9 DEF Readmits
<1>10. ASSUME NEW b \in Admins, ListsGrant(b), calls'[a] # calls[a]
       PROVE  \E k \in 0..Len(authLog') : Seen(authLog', G, calls'[a].cmd, k)
  <2>1. PICK n \in Nodes : \E p \in Present(rows[n]) : \E i \in DOMAIN rows[n][p].grants :
          calls' = [calls EXCEPT ![b] =
             [at |-> "listed", node |-> NoNode, cmd |->
                RevokePrincipalGrantRequest(p, i, rows[n][p].grants[i],
                                            Revokes(p, applied[n]))]]
    BY <1>10 DEF ListsGrant
  <2>2. PICK p \in Present(rows[n]) : \E i \in DOMAIN rows[n][p].grants :
          calls' = [calls EXCEPT ![b] =
             [at |-> "listed", node |-> NoNode, cmd |->
                RevokePrincipalGrantRequest(p, i, rows[n][p].grants[i],
                                            Revokes(p, applied[n]))]]
    BY <2>1
  <2>3. PICK i \in DOMAIN rows[n][p].grants :
          calls' = [calls EXCEPT ![b] =
             [at |-> "listed", node |-> NoNode, cmd |->
                RevokePrincipalGrantRequest(p, i, rows[n][p].grants[i],
                                            Revokes(p, applied[n]))]]
    BY <2>2
  <2>. DEFINE c == RevokePrincipalGrantRequest(p, i, rows[n][p].grants[i], Revokes(p, applied[n]))
  <2>4. calls'[a].cmd = c
    BY <1>5, <1>10, <2>3
  <2>5. /\ c.name = p /\ c.index = i /\ c.grant = rows[n][p].grants[i]
        /\ c.revokes = Revokes(p, applied[n])
    BY DEF RevokePrincipalGrantRequest
  <2>6. Revokes(p, applied[n]) = RevokeCount(authLog, p, applied[n])
    BY DEF Revokes, RevokeCount, RevokeSet
  <2>. HIDE DEF c
  <2>7. p \in Names /\ rows[n][p] # Absent /\ rows[n] = H[applied[n]]
        /\ applied[n] \in 0..Len(authLog) /\ RowOK(rows[n][p])
    BY DEF Present, RowsOf, AuthTyped, StoreOK
  <2>8. i \in 1..Len(rows[n][p].grants)
    <3>1. rows[n][p].grants \in Seq(AuthGrant)
      BY <2>7 DEF RowOK
    <3>. QED  BY <2>3, <3>1
  <2>9. Seen(authLog, H, c, applied[n])
    BY <2>5, <2>6, <2>7, <2>8 DEF Seen
  <2>. QED  BY <1>3, <2>4, <2>7, <2>9
<1>11. CASE calls'[a] = calls[a]
  BY <1>1, <1>4, <1>11
<1>12. CASE \E c : Grows(c)
  <2>1. \/ calls' = calls
        \/ \E b \in Admins : calls' = [calls EXCEPT ![b] = IdleCall]
    BY <1>12 DEF Grows
  <2>. QED  BY <1>4, <1>6, <1>7, <2>1
<1>13. CASE authLog' = authLog
  <2>1. \/ calls' = calls
        \/ \E b \in Admins : Admits(b) \/ ListsGrant(b) \/ Readmits(b) \/ Ends(b)
    BY <1>13, AuthEffect
  <2>. QED  BY <1>4, <1>6, <1>7, <1>8, <1>9, <1>10, <1>11, <2>1 DEF Ends
<1>. QED  BY <1>12, <1>13, AuthEffect

\* Every step keeps the grant rows in line with the log.
LEMMA GrantStep == GrantInv /\ [AuthNext]_authVars => GrantInv'
<1>. SUFFICES ASSUME GrantInv, [AuthNext]_authVars PROVE GrantInv'
  OBVIOUS
<1>0. AuthTyped /\ RevokesNamed /\ AuthTyped'
  BY AuthTypedStep DEF GrantInv
<1>1. PICK H : HistoryOK(authLog, H) /\ CallsSeen(H) /\ RowsOf(H)
  BY DEF GrantInv
<1>2. CASE UNCHANGED authVars
  BY <1>0, <1>1, <1>2 DEF authVars, GrantInv, CallsSeen, RowsOf, RevokesNamed
<1>3. CASE AuthNext
  <2>1. PICK G : HistoryOK(authLog', G) /\ \A i \in 0..Len(authLog) : G[i] = H[i]
    BY <1>0, <1>1, <1>3, HistoryStep
  <2>2. CallsSeen(G)'
    BY <1>0, <1>1, <1>3, <2>1, CallsSeenStep
  <2>3. \A n \in Nodes : applied[n] \in 0..Len(authLog) /\ rows[n] = G[applied[n]]
    BY <1>0, <1>1, <2>1 DEF AuthTyped, RowsOf
  <2>4. ASSUME UNCHANGED <<applied, rows, retired, misrevoked>>
        PROVE  RowsOf(G)' /\ RevokesNamed'
    BY <1>0, <2>3, <2>4 DEF RowsOf, RevokesNamed
  <2>5. ASSUME NEW n \in Nodes, Applies(n)
        PROVE  RowsOf(G)' /\ RevokesNamed'
    <3>. DEFINE c == authLog'[applied[n] + 1]
                j == applied[n] + 1
    <3>1. /\ CmdOK(c) /\ j \in 1..Len(authLog')
          /\ rows' = [rows EXCEPT ![n] = ApplyAuth(rows[n], c)]
          /\ applied' = [applied EXCEPT ![n] = j]
          /\ misrevoked' = (misrevoked \/ Misses(n, c))
      BY <1>0, <1>3, <2>5, AppliesEffect
    <3>2. DOMAIN rows = Nodes /\ DOMAIN applied = Nodes /\ j - 1 = applied[n]
      BY <1>0, <2>3 DEF AuthTyped
    <3>3. G[j] = ApplyAuth(G[j - 1], authLog'[j])
      BY <2>1, <3>1 DEF HistoryOK
    <3>4. RowsOf(G)'
      BY <2>3, <3>1, <3>2, <3>3 DEF RowsOf
    <3>5. ~Misses(n, c)
      <4>1. SUFFICES ASSUME c.op = "revoke", Revokes(c.name, applied[n]) = c.revokes
                     PROVE  /\ ~(c.index > Len(rows[n][c.name].grants))
                            /\ rows[n][c.name].grants[c.index] = c.grant
        BY DEF Misses
      <4>. HIDE DEF c
      <4>2. PICK k \in 0..(j - 1) : Seen(authLog', G, c, k)
        BY <2>1, <3>1, <4>1 DEF HistoryOK, c
      <4>. DEFINE a == applied[n]
      <4>3. /\ Len(authLog) \in Nat /\ Len(authLog') \in Nat /\ Len(authLog) <= Len(authLog')
        BY <1>0, <1>3, LogOK
      <4>4. /\ k \in 0..Len(authLog') /\ a \in 0..Len(authLog') /\ k <= a
            /\ a \in 0..Len(authLog) /\ c.name \in Names
        BY <2>3, <3>1, <4>2, <4>3 DEF CmdOK
      <4>5. RevokeCount(authLog', c.name, a) = RevokeCount(authLog, c.name, a)
        BY <1>0, <1>3, <2>1, <4>4, StillSeen
      <4>6. Revokes(c.name, a) = RevokeCount(authLog, c.name, a)
        BY DEF Revokes, RevokeCount, RevokeSet
      <4>7. RevokeCount(authLog', c.name, k) = RevokeCount(authLog', c.name, a)
        BY <4>1, <4>2, <4>5, <4>6 DEF Seen
      <4>8. Prefixed(G[k][c.name], G[a][c.name])
        BY <2>1, <4>2, <4>4, <4>7 DEF HistoryOK, KeepsPlaces, Seen
      <4>9. /\ c.index \in 1..Len(G[k][c.name].grants)
            /\ G[k][c.name].grants[c.index] = c.grant
        BY <4>2 DEF Seen
      <4>10. /\ Len(G[k][c.name].grants) <= Len(G[a][c.name].grants)
             /\ G[a][c.name].grants[c.index] = c.grant
        BY <4>8, <4>9 DEF Prefixed
      <4>11. rows[n] = G[a] /\ RowOK(G[a][c.name]) /\ RowOK(G[k][c.name])
             /\ G[a][c.name] # Absent /\ G[k][c.name] # Absent
        BY <2>1, <2>3, <4>2, <4>4, <4>8 DEF HistoryOK, StoreOK, Prefixed, Seen
      <4>12. Len(G[a][c.name].grants) \in Nat /\ Len(G[k][c.name].grants) \in Nat
        BY <4>11 DEF RowOK
      <4>13. c.index \in Nat /\ c.index <= Len(G[k][c.name].grants)
        BY <4>9, <4>12
      <4>14. ~(c.index > Len(G[a][c.name].grants))
        <5>1. \A x, y, z \in Nat : x <= y /\ y <= z => ~(x > z)
          OBVIOUS
        <5>. HIDE DEF a
        <5>. QED  BY <4>10, <4>12, <4>13, <5>1, Zenon
      <4>. QED  BY <4>10, <4>11, <4>14
    <3>7. ~misrevoked'
      <4>1. ~misrevoked
        BY <1>0 DEF RevokesNamed
      <4>. HIDE DEF c
      <4>. QED  BY <3>1, <3>5, <4>1, Zenon
    <3>. QED  BY <3>4, <3>7 DEF RevokesNamed
  <2>6. RowsOf(G)' /\ RevokesNamed'
    BY <1>0, <1>3, <2>4, <2>5, AuthEffect
  <2>. QED  BY <1>0, <2>1, <2>2, <2>6 DEF GrantInv
<1>. QED  BY <1>2, <1>3

-----------------------------------------------------------------------------
(* Streams and gates leave the principals alone                            *)

\* A step of the gateway is a step of the authorisation, or leaves it alone.
LEMMA StepOfAuth == [GatewayNext]_gatewayVars => [AuthNext]_authVars
<1>1. ASSUME NEW s \in Streams,
             \/ \E n \in Nodes, t \in WorkerTokens : Dial(s, n, t)
             \/ \E f \in Requests : RecvLeaseRequest(s, f)
             \/ \E f \in Settlement : RecvSettlement(s, f)
      PROVE  UNCHANGED authVars
  BY <1>1 DEF Dial, RecvLeaseRequest, RecvSettlement, Refused
<1>2. ASSUME NEW s \in Streams,
             \/ TakeLeaseRequest(s) \/ TakeSettlement(s) \/ Ticker(s)
             \/ Begin(s) \/ Ensure(s) \/ Gate(s)
      PROVE  UNCHANGED authVars
  BY <1>2 DEF TakeLeaseRequest, TakeSettlement, Ticker, Begin, Ensure, Gate
<1>3. ASSUME NEW s \in Streams,
             Lease(s) \/ LeaseUnsent(s) \/ LeaseEmpty(s) \/ LeaseFails(s) \/ Close(s)
      PROVE  UNCHANGED authVars
  BY <1>3 DEF Lease, LeaseUnsent, LeaseOne, LeaseEmpty, LeaseFails, Close
<1>4. ASSUME NEW m \in Messages, Expire(m) PROVE UNCHANGED authVars
  BY <1>4 DEF Expire
<1>5. StreamNext => UNCHANGED authVars
  BY <1>1, <1>2, <1>3, <1>4 DEF StreamNext
<1>6. GateNext => UNCHANGED authVars
  BY DEF GateNext, SetLimit, Pause, Resume, SetLimitReads, SetLimitEnds, ClockTick
<1>7. UNCHANGED gatewayVars => UNCHANGED authVars
  BY DEF gatewayVars
<1>. QED  BY <1>5, <1>6, <1>7 DEF GatewayNext

\* A token rotated away never comes back: no order of bootstraps, elections, calls
\* that fail and commit anyway, and nodes that catch up late puts it back.
THEOREM RotationIsFinal == GatewaySpec => []RotationSticks
<1>1. GatewayInit => TokenInv
  BY TokenInit DEF GatewayInit
<1>2. TokenInv /\ [GatewayNext]_gatewayVars => TokenInv'
  BY StepOfAuth, TokenStep
<1>3. TokenInv => RotationSticks
  BY DEF TokenInv
<1>. QED  BY <1>1, <1>2, <1>3, PTL DEF GatewaySpec

\* RevokePrincipalGrant names a grant by its place: it removes the grant that was
\* listed there, on every node and whenever it is applied, unless another revoke of
\* the principal has been applied since the listing.
THEOREM RevokesWhatWasListed == GatewaySpec => []RevokesNamed
<1>1. GatewayInit => GrantInv
  BY GrantInit DEF GatewayInit
<1>2. GrantInv /\ [GatewayNext]_gatewayVars => GrantInv'
  BY StepOfAuth, GrantStep
<1>3. GrantInv => RevokesNamed
  BY DEF GrantInv
<1>. QED  BY <1>1, <1>2, <1>3, PTL DEF GatewaySpec

-----------------------------------------------------------------------------
(* Streams: the shape of their state and what each step makes of it        *)

StreamFields ==
    {"open", "node", "token", "workAuthorized", "broken", "recvCh", "lane", "allow", "deny",
     "credit", "inflight", "lastPaused", "at", "raw", "held", "stray",
     "cleared"}

Calling == {"read", "ensured", "gated"}

\* A stream that is in a lease call has a lane and credit to spare.
StreamOK(w) ==
    /\ DOMAIN w = StreamFields /\ (w.open => w.node \in Nodes)
    /\ w.at \in {"select", "deliver"} \cup Calling /\ (w.at # "select" => w.open)
    /\ w.lane \in Lanes \cup {Unnamed} /\ (w.at \in Calling => w.lane \in Lanes)
    /\ w.allow \subseteq Groups /\ w.recvCh \in Seq(WorkClientMsg)
    /\ w.credit \in Nat /\ w.inflight \in Nat /\ w.inflight <= w.credit
    /\ w.at \in Calling => w.inflight < w.credit

StreamsOK == DOMAIN work = Streams /\ \A s \in Streams : StreamOK(work[s])

\* The smaller of two numbers.
LEMMA MinOfTwo == ASSUME NEW a \in Int, NEW b \in Int
                  PROVE  Min({a, b}) = IF a <= b THEN a ELSE b
  BY DEF Min

\* The larger of two numbers.
LEMMA MaxOfTwo == ASSUME NEW a \in Int, NEW b \in Int
                  PROVE  Max({a, b}) = IF a >= b THEN a ELSE b
  BY DEF Max

\* The other streams are where they were.
OnlyStream(s) == DOMAIN work' = Streams /\ \A x \in Streams \ {s} : work'[x] = work[x]

SameTerms(w, v) ==
    /\ DOMAIN v = StreamFields
    /\ v.open = w.open /\ v.node = w.node /\ v.lane = w.lane /\ v.allow = w.allow
    /\ v.deny = w.deny /\ v.credit = w.credit
SameReader(w, v) == /\ v.recvCh = w.recvCh /\ v.held = w.held /\ v.stray = w.stray
                    /\ v.cleared = w.cleared
SameLoop(w, v) == /\ SameTerms(w, v) /\ v.at = w.at /\ v.raw = w.raw /\ v.token = w.token
                  /\ v.inflight = w.inflight

\* A stream that begins or has ended.
Blank(v) ==
    /\ DOMAIN v = StreamFields /\ (v.open => v.node \in Nodes)
    /\ v.at = "select" /\ v.lane = Unnamed /\ v.allow = {}
    /\ v.credit = 0 /\ v.inflight = 0 /\ v.recvCh = << >> /\ v.held = {} /\ v.cleared = {}

\* The loop moves on without a frame or a lease.
Moves(w, v, at) ==
    SameTerms(w, v) /\ SameReader(w, v) /\ v.at = at /\ v.inflight = w.inflight

\* A closed stream holds nothing.
LEMMA ClosedBlank == Blank(Closed)
  BY DEF Blank, Closed, StreamFields

\* A dialled stream starts with nothing.
LEMMA DialEffect ==
    ASSUME StreamsOK, NEW s \in Streams, NEW n \in Nodes, NEW t, Dial(s, n, t)
    PROVE  OnlyStream(s) /\ Blank(work'[s])
<1>1. work' = [work EXCEPT ![s] = [Closed EXCEPT !.open = TRUE, !.node = n, !.token = t]]
  BY DEF Dial
<1>2. Blank([Closed EXCEPT !.open = TRUE, !.node = n, !.token = t])
  BY DEF Blank, Closed, StreamFields
<1>. QED  BY <1>1, <1>2 DEF StreamsOK, OnlyStream

\* An ended stream holds nothing.
LEMMA EndEffect ==
    ASSUME StreamsOK, NEW s \in Streams, work' = [work EXCEPT ![s] = Closed]
    PROVE  OnlyStream(s) /\ Blank(work'[s])
  BY ClosedBlank DEF StreamsOK, OnlyStream

\* A refusal leaves the loop and the reader where they were.
LEMMA RefusedEffect ==
    ASSUME StreamsOK, NEW s \in Streams, Refused(s)
    PROVE  OnlyStream(s) /\ SameLoop(work[s], work'[s]) /\ SameReader(work[s], work'[s])
  BY DEF StreamsOK, StreamOK, StreamFields, OnlyStream, SameLoop, SameTerms, SameReader, Refused

\* A lease request is refused, or queued after its checks.
Queues(s, f) ==
    /\ ChecksPass(work[s].node, work[s].token, f)
    /\ OnlyStream(s) /\ SameLoop(work[s], work'[s])
    /\ work'[s].recvCh = Append(work[s].recvCh, f) /\ work'[s].held = work[s].held
    /\ work'[s].stray = work[s].stray
    /\ work'[s].cleared = work[s].cleared \cup Cleared(work[s].node, work[s].token)

\* An admitted request is queued for the loop.
LEMMA RecvLeaseEffect ==
    ASSUME StreamsOK, NEW s \in Streams, NEW f, RecvLeaseRequest(s, f), ~Refused(s)
    PROVE  Queues(s, f)
  BY DEF StreamsOK, StreamOK, StreamFields, OnlyStream, SameLoop, SameTerms,
         RecvLeaseRequest, Queues

Returned(s, f) ==
    /\ OnlyStream(s) /\ SameLoop(work[s], work'[s])
    /\ work'[s].recvCh = Append(work[s].recvCh, f) /\ work'[s].cleared = work[s].cleared
    /\ work'[s].stray = work[s].stray \cup ({f.lease} \ work[s].held)
    /\ work'[s].held = IF f.kind = "extend" THEN work[s].held ELSE work[s].held \ {f.lease}

\* An admitted settlement settles its lease and is queued for the loop.
LEMMA RecvSettlementEffect ==
    ASSUME StreamsOK, NEW s \in Streams, NEW f, RecvSettlement(s, f), ~Refused(s)
    PROVE  Returned(s, f)
<1>1. DOMAIN work = Streams /\ DOMAIN work[s] = StreamFields
  BY DEF StreamsOK, StreamOK
<1>. DEFINE v == [work[s] EXCEPT
                    !.recvCh = Append(@, f), !.stray = @ \cup ({f.lease} \ work[s].held),
                    !.held = IF f.kind = "extend" THEN @ ELSE @ \ {f.lease}]
<1>2. work' = [work EXCEPT ![s] = v]
  BY <1>1 DEF RecvSettlement
<1>3. /\ SameLoop(work[s], v) /\ v.cleared = work[s].cleared
      /\ v.recvCh = Append(work[s].recvCh, f)
      /\ v.stray = work[s].stray \cup ({f.lease} \ work[s].held)
      /\ v.held = IF f.kind = "extend" THEN work[s].held ELSE work[s].held \ {f.lease}
  BY <1>1 DEF SameLoop, SameTerms, StreamFields
<1>. HIDE DEF v
<1>4. OnlyStream(s) /\ work'[s] = v
  BY <1>1, <1>2 DEF OnlyStream
<1>. QED  BY <1>3, <1>4 DEF Returned

\* The loop takes the first frame of the queue.
TakesRequest(s, f) ==
    LET w == work[s]  v == work'[s]
    IN  /\ OnlyStream(s) /\ DOMAIN v = StreamFields
        /\ v.open = w.open /\ v.node = w.node /\ v.at = "deliver"
        /\ v.recvCh = Tail(w.recvCh) /\ v.held = w.held /\ v.stray = w.stray
        /\ v.cleared = w.cleared
        /\ v.credit = w.credit + f.credit /\ v.inflight = w.inflight
        /\ v.lane = IF f.lane = Unnamed THEN w.lane ELSE f.lane
        /\ v.allow = IF f.allow = {} THEN w.allow ELSE f.allow

\* The loop takes a request, or ends the stream.
LEMMA TakeLeaseEffect ==
    ASSUME StreamsOK, NEW s \in Streams, TakeLeaseRequest(s)
    PROVE  \/ OnlyStream(s) /\ Blank(work'[s])
           \/ TakesRequest(s, Head(work[s].recvCh))
<1>. DEFINE w == work[s]  f == Head(w.recvCh)
            base == [w EXCEPT
                     !.recvCh = Tail(@), !.credit = @ + f.credit,
                     !.lane = IF f.lane = Unnamed THEN @ ELSE f.lane,
                     !.allow = IF f.allow = {} THEN @ ELSE f.allow,
                     !.deny = IF f.deny = {} THEN @ ELSE f.deny]
<1>1. work' = [work EXCEPT ![s] = IF leader # w.node THEN Closed ELSE Onward(base)]
  BY DEF TakeLeaseRequest
<1>2. DOMAIN work = Streams /\ DOMAIN w = StreamFields
  BY DEF StreamsOK, StreamOK
<1>3. CASE leader # w.node
  BY <1>1, <1>3, EndEffect
<1>4. CASE leader = w.node
  <2>1. OnlyStream(s) /\ work'[s] = Onward(base)
    BY <1>1, <1>2, <1>4 DEF OnlyStream
  <2>. HIDE DEF f
  <2>2. /\ DOMAIN base = StreamFields /\ base.open = w.open /\ base.node = w.node
        /\ base.recvCh = Tail(w.recvCh) /\ base.held = w.held /\ base.stray = w.stray
        /\ base.cleared = w.cleared /\ base.credit = w.credit + f.credit /\ base.inflight = w.inflight
        /\ base.lane = IF f.lane = Unnamed THEN w.lane ELSE f.lane
        /\ base.allow = IF f.allow = {} THEN w.allow ELSE f.allow
    BY <1>2 DEF StreamFields
  <2>. HIDE DEF base
  <2>3. /\ DOMAIN Onward(base) = StreamFields
        /\ Onward(base).at = "deliver" /\ Onward(base).open = base.open
        /\ Onward(base).node = base.node /\ Onward(base).recvCh = base.recvCh
        /\ Onward(base).held = base.held /\ Onward(base).cleared = base.cleared
        /\ Onward(base).stray = base.stray
        /\ Onward(base).credit = base.credit /\ Onward(base).inflight = base.inflight
        /\ Onward(base).lane = base.lane /\ Onward(base).allow = base.allow
    BY <2>2 DEF Onward, StreamFields
  <2>. QED  BY <2>1, <2>2, <2>3 DEF TakesRequest, f
<1>. QED  BY <1>3, <1>4

TakesSettlement(s, f) ==
    LET w == work[s]  v == work'[s]
    IN  /\ OnlyStream(s) /\ SameTerms(w, v) /\ v.at = "deliver"
        /\ v.recvCh = Tail(w.recvCh) /\ v.held = w.held /\ v.stray = w.stray
        /\ v.cleared = w.cleared
        /\ v.inflight = IF f.kind # "extend" THEN Max({w.inflight - 1, 0}) ELSE w.inflight

\* The loop takes a settlement and gives its credit back.
LEMMA TakeSettlementEffect ==
    ASSUME StreamsOK, NEW s \in Streams, TakeSettlement(s)
    PROVE  TakesSettlement(s, Head(work[s].recvCh))
<1>. DEFINE w == work[s]  f == Head(w.recvCh)
            base == [w EXCEPT
              !.recvCh = Tail(@),
              !.inflight = IF Returns(f) THEN Max({@ - 1, 0}) ELSE @]
<1>1. work' = [work EXCEPT ![s] = Onward(base)]
  BY DEF TakeSettlement
<1>2. DOMAIN work = Streams /\ DOMAIN w = StreamFields
  BY DEF StreamsOK, StreamOK
<1>3. OnlyStream(s) /\ work'[s] = Onward(base)
  BY <1>1, <1>2 DEF OnlyStream
<1>. HIDE DEF f
<1>4. /\ SameTerms(w, base)
      /\ base.recvCh = Tail(w.recvCh) /\ base.held = w.held /\ base.stray = w.stray
      /\ base.cleared = w.cleared /\ base.inflight = IF f.kind # "extend" THEN Max({w.inflight - 1, 0}) ELSE w.inflight
  BY <1>2 DEF StreamFields, SameTerms, Returns
<1>. HIDE DEF base
<1>5. /\ SameTerms(base, Onward(base)) /\ Onward(base).at = "deliver"
      /\ Onward(base).recvCh = base.recvCh /\ Onward(base).held = base.held
      /\ Onward(base).cleared = base.cleared /\ Onward(base).inflight = base.inflight
      /\ Onward(base).stray = base.stray
  BY <1>4 DEF Onward, StreamFields, SameTerms
<1>. QED  BY <1>3, <1>4, <1>5 DEF TakesSettlement, SameTerms, f

\* Steps of the loop that take nothing from the queue.
LEMMA TickerEffect ==
    ASSUME StreamsOK, NEW s \in Streams, Ticker(s)
    PROVE  OnlyStream(s) /\ Moves(work[s], work'[s], "deliver") /\ work[s].open
<1>1. work' = [work EXCEPT ![s] = Onward(work[s])] /\ work[s].open
  BY DEF Ticker, StreamsOK
<1>2. DOMAIN work = Streams /\ DOMAIN work[s] = StreamFields
  BY DEF StreamsOK, StreamOK
<1>3. Moves(work[s], Onward(work[s]), "deliver")
  BY <1>2 DEF Onward, Moves, SameTerms, SameReader, StreamFields
<1>. QED  BY <1>1, <1>2, <1>3 DEF OnlyStream

\* A pass begins with a read of the lane when there is credit.
LEMMA BeginEffect ==
    ASSUME StreamsOK, NEW s \in Streams, Begin(s)
    PROVE  /\ OnlyStream(s) /\ work[s].open
           /\ \/ ~HasCredit(s) /\ Moves(work[s], work'[s], "select")
              \/ /\ HasCredit(s) /\ Moves(work[s], work'[s], "read")
                 /\ work'[s].raw = laneCfg[work[s].lane]
<1>1. DOMAIN work = Streams /\ DOMAIN work[s] = StreamFields
  BY DEF StreamsOK, StreamOK
<1>. QED  BY <1>1 DEF Begin, OnlyStream, Moves, SameTerms, SameReader, StreamFields

\* The lane of a pass is brought up to date on the node.
LEMMA EnsureEffect ==
    ASSUME StreamsOK, NEW s \in Streams, Ensure(s)
    PROVE  /\ OnlyStream(s) /\ work[s].open /\ work[s].at = "read"
           /\ Moves(work[s], work'[s], "ensured")
<1>1. DOMAIN work = Streams /\ DOMAIN work[s] = StreamFields
  BY DEF StreamsOK, StreamOK
<1>. QED  BY <1>1 DEF Ensure, OnlyStream, Moves, SameTerms, SameReader, StreamFields

\* The gate opens or the pass is over.
LEMMA GateEffect ==
    ASSUME StreamsOK, NEW s \in Streams, Gate(s)
    PROVE  /\ OnlyStream(s) /\ work[s].open /\ work[s].at = "ensured"
           /\ \E open \in BOOLEAN :
                 /\ PassGate(work[s].node, work[s].lane, open)
                 /\ Moves(work[s], work'[s], IF open THEN "gated" ELSE "select")
<1>1. DOMAIN work = Streams /\ DOMAIN work[s] = StreamFields
  BY DEF StreamsOK, StreamOK
<1>2. PICK open \in BOOLEAN :
              /\ PassGate(work[s].node, work[s].lane, open)
              /\ work' = [work EXCEPT ![s].at = IF open THEN "gated" ELSE "select"]
  BY DEF Gate
<1>3. OnlyStream(s) /\ Moves(work[s], work'[s], IF open THEN "gated" ELSE "select")
  BY <1>1, <1>2 DEF OnlyStream, Moves, SameTerms, SameReader, StreamFields
<1>. QED  BY <1>2, <1>3 DEF Gate

\* A lease takes one credit and is held by the stream.
LEMMA LeaseEffect ==
    ASSUME StreamsOK, NEW s \in Streams, Lease(s)
    PROVE  /\ OnlyStream(s) /\ LeaseOne(s) /\ work[s].open /\ work[s].at = "gated"
           /\ SameTerms(work[s], work'[s]) /\ work'[s].at = "deliver"
           /\ work'[s].inflight = work[s].inflight + 1
           /\ work'[s].held = work[s].held \cup {leases + 1}
           /\ work'[s].recvCh = work[s].recvCh /\ work'[s].cleared = work[s].cleared
           /\ work'[s].stray = work[s].stray
<1>1. DOMAIN work = Streams /\ DOMAIN work[s] = StreamFields
  BY DEF StreamsOK, StreamOK
<1>. QED  BY <1>1 DEF Lease, LeaseOne, OnlyStream, SameTerms, StreamFields

\* A pass without a message is over.
LEMMA LeaseEmptyEffect ==
    ASSUME StreamsOK, NEW s \in Streams, LeaseEmpty(s)
    PROVE  OnlyStream(s) /\ Moves(work[s], work'[s], "select")
<1>1. DOMAIN work = Streams /\ DOMAIN work[s] = StreamFields
  BY DEF StreamsOK, StreamOK
<1>. QED  BY <1>1 DEF LeaseEmpty, OnlyStream, Moves, SameTerms, SameReader, StreamFields

\* The two kinds of client frame.
LEMMA FrameTypes ==
    /\ Requests \subseteq WorkClientMsg /\ Settlement \subseteq WorkClientMsg
    /\ \A f \in WorkClientMsg : f.kind = "lease" => f \in LeaseRequest
    /\ \A f \in WorkClientMsg : f.kind # "lease" => f \in Settlement
    /\ \A f \in LeaseRequest : /\ f.kind = "lease" /\ f.lane \in Lanes \cup {Unnamed}
                               /\ f.allow \subseteq Groups /\ f.credit \in Nat
    /\ \A f \in Settlement : f.kind # "lease" /\ f.lease \in 1..MaxLeases
  BY WorkStreamAssumption DEF WorkClientMsg, LeaseRequest, Settlement

\* What the head and the tail of the frames are.
LEMMA QueueEnds ==
    ASSUME NEW q \in Seq(WorkClientMsg), q # << >>
    PROVE  /\ Head(q) \in WorkClientMsg /\ Head(q) = q[1] /\ Tail(q) \in Seq(WorkClientMsg)
           /\ Len(q) \in Nat \ {0} /\ Len(Tail(q)) = Len(q) - 1
           /\ \A i \in 1..Len(Tail(q)) : Tail(q)[i] = q[i + 1] /\ i + 1 \in 1..Len(q)
  OBVIOUS

\* A stream that holds nothing is in order.
LEMMA BlankOK == ASSUME NEW v, Blank(v) PROVE StreamOK(v)
  BY DEF Blank, StreamOK, Calling

\* Every step of a stream leaves it in shape.
LEMMA StreamsStep == StreamsOK /\ [GatewayNext]_gatewayVars => StreamsOK'
<1>. SUFFICES ASSUME StreamsOK, [GatewayNext]_gatewayVars PROVE StreamsOK'
  OBVIOUS
<1>1. ASSUME NEW s \in Streams, OnlyStream(s), StreamOK(work'[s]) PROVE StreamsOK'
  BY <1>1 DEF StreamsOK, OnlyStream
<1>2. ASSUME work' = work PROVE StreamsOK'
  BY <1>2 DEF StreamsOK
<1>3. ASSUME NEW s \in Streams, OnlyStream(s), Blank(work'[s]) PROVE StreamsOK'
  BY <1>1, <1>3, BlankOK
<1>4. ASSUME NEW s \in Streams, OnlyStream(s), SameLoop(work[s], work'[s]),
             work'[s].recvCh \in Seq(WorkClientMsg)
      PROVE  StreamsOK'
  <2>1. StreamOK(work'[s])
    BY <1>4 DEF StreamsOK, StreamOK, SameLoop, SameTerms
  <2>. QED  BY <1>1, <1>4, <2>1
<1>5. ASSUME NEW s \in Streams, OnlyStream(s), NEW at, Moves(work[s], work'[s], at), work[s].open,
             at \in Calling, work[s].at \in Calling \/ HasCredit(s)
      PROVE  StreamsOK'
  <2>1. StreamOK(work'[s])
    BY <1>5 DEF StreamsOK, StreamOK, Moves, SameTerms, SameReader, HasCredit
  <2>. QED  BY <1>1, <1>5, <2>1
<1>50. ASSUME NEW s \in Streams, OnlyStream(s), work[s].open,
              Moves(work[s], work'[s], "select") \/ Moves(work[s], work'[s], "deliver")
       PROVE  StreamsOK'
  <2>1. StreamOK(work'[s])
    BY <1>50 DEF StreamsOK, StreamOK, Moves, SameTerms, SameReader, Calling
  <2>. QED  BY <1>1, <1>50, <2>1
<1>6. ASSUME NEW s \in Streams PROVE work[s].recvCh \in Seq(WorkClientMsg)
  BY DEF StreamsOK, StreamOK
<1>7. ASSUME NEW s \in Streams, Refused(s) PROVE StreamsOK'
  BY <1>4, <1>6, <1>7, RefusedEffect DEF SameReader
<1>8. ASSUME NEW s \in Streams, NEW f \in Requests, RecvLeaseRequest(s, f) PROVE StreamsOK'
  <2>1. ASSUME ~Refused(s) PROVE StreamsOK'
    <3>1. Queues(s, f)
      BY <1>8, <2>1, RecvLeaseEffect
    <3>2. f \in WorkClientMsg
      BY FrameTypes
    <3>3. work'[s].recvCh \in Seq(WorkClientMsg)
      BY <1>6, <3>1, <3>2 DEF Queues
    <3>. QED  BY <1>4, <3>1, <3>3 DEF Queues
  <2>. QED  BY <1>7, <2>1
<1>9. ASSUME NEW s \in Streams, NEW f \in Settlement, RecvSettlement(s, f) PROVE StreamsOK'
  <2>1. ASSUME ~Refused(s) PROVE StreamsOK'
    <3>1. Returned(s, f)
      BY <1>9, <2>1, RecvSettlementEffect
    <3>2. f \in WorkClientMsg
      BY FrameTypes
    <3>3. work'[s].recvCh \in Seq(WorkClientMsg)
      BY <1>6, <3>1, <3>2 DEF Returned
    <3>. QED  BY <1>4, <3>1, <3>3 DEF Returned
  <2>. QED  BY <1>7, <2>1
<1>10. ASSUME NEW s \in Streams, TakeLeaseRequest(s) PROVE StreamsOK'
  <2>. DEFINE f == Head(work[s].recvCh)
  <2>1. work[s].recvCh # << >> /\ f.kind = "lease" /\ work[s].open
    BY <1>10 DEF TakeLeaseRequest
  <2>2. f \in LeaseRequest /\ Tail(work[s].recvCh) \in Seq(WorkClientMsg)
    BY <1>6, <2>1, QueueEnds, FrameTypes
  <2>. HIDE DEF f
  <2>3. f.lane \in Lanes \cup {Unnamed} /\ f.allow \subseteq Groups /\ f.credit \in Nat
    BY <2>2, FrameTypes
  <2>4. ASSUME TakesRequest(s, f) PROVE StreamsOK'
    <3>1. StreamOK(work'[s])
      BY <2>1, <2>2, <2>3, <2>4 DEF StreamsOK, StreamOK, TakesRequest, Calling
    <3>. QED  BY <1>1, <2>4, <3>1 DEF TakesRequest
  <2>. QED  BY <1>3, <1>10, <2>4, TakeLeaseEffect DEF f
<1>11. ASSUME NEW s \in Streams, TakeSettlement(s) PROVE StreamsOK'
  <2>. DEFINE f == Head(work[s].recvCh)
  <2>1. work[s].recvCh # << >> /\ work[s].open /\ TakesSettlement(s, f)
    BY <1>11, TakeSettlementEffect DEF TakeSettlement
  <2>2. Tail(work[s].recvCh) \in Seq(WorkClientMsg)
    BY <1>6, <2>1, QueueEnds
  <2>. HIDE DEF f
  <2>3. work[s].inflight \in Nat /\ work[s].credit \in Nat /\ work[s].inflight <= work[s].credit
    BY DEF StreamsOK, StreamOK
  <2>4. work'[s].inflight \in Nat /\ work'[s].inflight <= work[s].credit
    <3>1. Max({work[s].inflight - 1, 0}) =
              IF work[s].inflight - 1 >= 0 THEN work[s].inflight - 1 ELSE 0
      BY <2>3, MaxOfTwo
    <3>. QED  BY <2>1, <2>3, <3>1 DEF TakesSettlement
  <2>5. StreamOK(work'[s])
    BY <2>1, <2>2, <2>4 DEF StreamsOK, StreamOK, TakesSettlement, SameTerms, Calling
  <2>. QED  BY <1>1, <2>1, <2>5 DEF TakesSettlement
<1>12. ASSUME NEW s \in Streams, Ticker(s) PROVE StreamsOK'
  <2>1. OnlyStream(s) /\ Moves(work[s], work'[s], "deliver") /\ work[s].open
    BY <1>12, TickerEffect
  <2>. QED  BY <1>50, <2>1
<1>13. ASSUME NEW s \in Streams, Begin(s) PROVE StreamsOK'
  <2>1. OnlyStream(s) /\ work[s].open
    BY <1>13, BeginEffect
  <2>2. CASE Moves(work[s], work'[s], "select")
    BY <1>50, <2>1, <2>2
  <2>3. CASE HasCredit(s) /\ Moves(work[s], work'[s], "read")
    <3>1. "read" \in Calling
      BY DEF Calling
    <3>. QED  BY <1>5, <2>1, <2>3, <3>1
  <2>. QED  BY <1>13, <2>2, <2>3, BeginEffect
<1>14. ASSUME NEW s \in Streams, Ensure(s) PROVE StreamsOK'
  <2>1. /\ OnlyStream(s) /\ work[s].open /\ work[s].at = "read"
        /\ Moves(work[s], work'[s], "ensured")
    BY <1>14, EnsureEffect
  <2>2. {"read", "ensured"} \subseteq Calling
    BY DEF Calling
  <2>. QED  BY <1>5, <2>1, <2>2
<1>15. ASSUME NEW s \in Streams, Gate(s) PROVE StreamsOK'
  <2>1. PICK open \in BOOLEAN : Moves(work[s], work'[s], IF open THEN "gated" ELSE "select")
    BY <1>15, GateEffect
  <2>2. OnlyStream(s) /\ work[s].open /\ work[s].at = "ensured"
    BY <1>15, GateEffect
  <2>3. {"ensured", "gated"} \subseteq Calling
    BY DEF Calling
  <2>4. CASE open
    BY <1>5, <2>1, <2>2, <2>3, <2>4
  <2>5. CASE ~open
    BY <1>50, <2>1, <2>2, <2>5
  <2>. QED  BY <2>4, <2>5
<1>16. ASSUME NEW s \in Streams, Lease(s) PROVE StreamsOK'
  <2>1. StreamOK(work'[s])
    BY <1>16, LeaseEffect DEF StreamsOK, StreamOK, SameTerms, Calling
  <2>. QED  BY <1>1, <1>16, <2>1, LeaseEffect
<1>17. ASSUME NEW s \in Streams, LeaseEmpty(s) PROVE StreamsOK'
  <2>1. OnlyStream(s) /\ Moves(work[s], work'[s], "select") /\ work[s].open
    BY <1>17, LeaseEmptyEffect DEF LeaseEmpty
  <2>. QED  BY <1>50, <2>1
<1>18. ASSUME NEW s \in Streams, LeaseUnsent(s) \/ LeaseFails(s) \/ Close(s) PROVE StreamsOK'
  BY <1>3, <1>18, EndEffect DEF LeaseUnsent, LeaseFails, Close
<1>19. ASSUME NEW s \in Streams, NEW n \in Nodes, NEW t, Dial(s, n, t) PROVE StreamsOK'
  BY <1>3, <1>19, DialEffect
<1>20. CASE StreamNext
  BY <1>2, <1>8, <1>9, <1>10, <1>11, <1>12, <1>13, <1>14, <1>15, <1>16, <1>17, <1>18, <1>19, <1>20
     DEF StreamNext, Expire
<1>21. GateNext => work' = work
  BY DEF GateNext, SetLimit, Pause, Resume, SetLimitReads, SetLimitEnds, ClockTick, workVars
<1>22. UNCHANGED gatewayVars \/ UNCHANGED workVars => work' = work
  BY DEF gatewayVars, workVars
<1>. QED  BY <1>2, <1>20, <1>21, <1>22 DEF GatewayNext

\* The streams are in order at the start.
LEMMA StreamsInit == GatewayInit => StreamsOK
<1>1. StreamOK(Closed)
  BY ClosedBlank, BlankOK
<1>. QED  BY <1>1 DEF GatewayInit, StreamsOK

-----------------------------------------------------------------------------
(* The limit of a lane                                                     *)

GateShape ==
    /\ leader \in Nodes \cup {NoNode} /\ DOMAIN laneCfg = Lanes
    /\ DOMAIN loadedCfg = Nodes /\ DOMAIN settled = Nodes
    /\ \A n \in Nodes : DOMAIN loadedCfg[n] = Lanes /\ settled[n] \in [Lanes -> BOOLEAN]
    /\ DOMAIN setter = Setters
    /\ \A o \in Setters : /\ DOMAIN setter[o] = {"at", "node", "lane", "raw"}
                          /\ setter[o] # Idle => setter[o].node \in Nodes /\ setter[o].lane \in Lanes

\* A call that is to install what it has read.
ReadsAt(c, n, l) == c.at = "read" /\ c.node = n /\ c.lane = l

\* Once settled, every call that is to install a limit has read the stored one.
CallsAgree ==
    \A n \in Nodes, l \in Lanes : settled[n][l] =>
        /\ \A s \in Streams : ReadsAt(work[s], n, l) => work[s].raw = laneCfg[l]
        /\ \A o \in Setters : ReadsAt(setter[o], n, l) => setter[o].raw = laneCfg[l]

LimitInv == StreamsOK /\ GateShape /\ CallsAgree /\ LimitTakesHold

\* The leader is a node or none.
LEMMA LeaderStep == leader \in Nodes \cup {NoNode} /\ [AuthNext]_authVars
                        => leader' \in Nodes \cup {NoNode}
<1>. SUFFICES ASSUME leader \in Nodes \cup {NoNode}, [AuthNext]_authVars
              PROVE  leader' \in Nodes \cup {NoNode}
  OBVIOUS
<1>1. CASE UNCHANGED authVars
  BY <1>1 DEF authVars
<1>2. ASSUME NEW n \in Nodes, Open(n) \/ Boot(n) \/ Bootstrap(n) \/ Serve(n) \/ Exit(n)
                                \/ Elect(n) \/ CatchUp(n)
      PROVE  leader' \in Nodes \cup {NoNode}
  BY <1>2 DEF Open, Boot, Bootstrap, Serve, Exit, Elect, CatchUp
<1>3. ASSUME NEW n \in Nodes, NEW a \in Admins, Call(a, n) \/ List(a, n) \/ CallRevoke(a, n)
      PROVE  leader' = leader
  BY <1>3 DEF Call, List, CallRevoke
<1>4. ASSUME NEW a \in Admins, ProposeCall(a) \/ CallFails(a) PROVE leader' = leader
  BY <1>4 DEF ProposeCall, CallFails
<1>. QED  BY <1>1, <1>2, <1>3, <1>4 DEF AuthNext

\* A lane brought up to date on one node is untouched on the others.
LEMMA EnsureLaneEffect ==
    ASSUME GateShape, NEW n \in Nodes, NEW l \in Lanes, NEW raw, NEW others \in BOOLEAN,
           EnsureLaneConfig(n, l, raw, others)
    PROVE  /\ DOMAIN loadedCfg' = Nodes /\ DOMAIN settled' = Nodes
           /\ \A x \in Nodes : DOMAIN loadedCfg'[x] = Lanes /\ settled'[x] \in [Lanes -> BOOLEAN]
           /\ \A x \in Nodes, y \in Lanes : x # n \/ y # l =>
                 settled'[x][y] = settled[x][y] /\ loadedCfg'[x][y] = loadedCfg[x][y]
           /\ settled'[n][l] => settled[n][l] \/ (raw = laneCfg[l] /\ ~others)
           /\ raw # NoConfig => loadedCfg'[n][l] = raw
<1>1. /\ DOMAIN loadedCfg = Nodes /\ DOMAIN settled = Nodes
      /\ \A x \in Nodes : DOMAIN loadedCfg[x] = Lanes /\ settled[x] \in [Lanes -> BOOLEAN]
  BY DEF GateShape
<1>2. /\ DOMAIN loadedCfg' = Nodes /\ \A x \in Nodes : DOMAIN loadedCfg'[x] = Lanes
      /\ \A x \in Nodes, y \in Lanes : x # n \/ y # l => loadedCfg'[x][y] = loadedCfg[x][y]
      /\ raw # NoConfig => loadedCfg'[n][l] = raw
  <2>1. CASE Outdated(n, l, raw)
    <3>1. loadedCfg' = [loadedCfg EXCEPT ![n][l] = raw]
      BY <2>1 DEF EnsureLaneConfig
    <3>. QED  BY <1>1, <3>1
  <2>2. CASE ~Outdated(n, l, raw)
    <3>1. loadedCfg' = loadedCfg /\ (raw # NoConfig => loadedCfg[n][l] = raw)
      BY <2>2 DEF EnsureLaneConfig, Outdated
    <3>. QED  BY <1>1, <3>1
  <2>. QED  BY <2>1, <2>2
<1>3. settled' = [settled EXCEPT ![n][l] = settled[n][l] \/ (raw = laneCfg[l] /\ ~others)]
  BY DEF EnsureLaneConfig
<1>. DEFINE b == settled[n][l] \/ (raw = laneCfg[l] /\ ~others)
<1>4. b \in BOOLEAN
  BY Zenon
<1>5. settled' = [settled EXCEPT ![n][l] = b]
  BY <1>3
<1>6. b => settled[n][l] \/ (raw = laneCfg[l] /\ ~others)
  BY Zenon
<1>. HIDE DEF b
<1>7. /\ DOMAIN settled' = Nodes
      /\ \A x \in Nodes : settled'[x] \in [Lanes -> BOOLEAN]
      /\ \A x \in Nodes, y \in Lanes : x # n \/ y # l => settled'[x][y] = settled[x][y]
      /\ settled'[n][l] = b
  BY <1>1, <1>4, <1>5
<1>8. settled'[n][l] => settled[n][l] \/ (raw = laneCfg[l] /\ ~others)
  BY <1>6, <1>7, Zenon
<1>. QED  BY <1>2, <1>7, <1>8

\* A stream's or a setter's call ends with ensureLaneConfig.
LEMMA InstallKeeps ==
    ASSUME LimitInv, laneCfg' = laneCfg, leader' = leader, NEW n \in Nodes, NEW l \in Lanes, NEW raw,
           NEW others \in BOOLEAN, EnsureLaneConfig(n, l, raw, others),
           settled[n][l] => raw = laneCfg[l],
           \A s \in Streams : work'[s].at = "read" => work'[s] = work[s],
           \A o \in Setters : setter'[o].at = "read" => setter'[o] = setter[o],
           \A s \in Streams : work'[s].at = "read" /\ ~others /\ ReadsAt(work[s], n, l) =>
                 work[s].raw = laneCfg[l],
           \A o \in Setters : setter'[o].at = "read" /\ ~others /\ ReadsAt(setter[o], n, l) =>
                 setter[o].raw = laneCfg[l]
    PROVE  CallsAgree' /\ LimitTakesHold'
<1>0. GateNodes = Nodes /\ GateLanes = Lanes /\ GateShape
  BY WorkStreamAssumption DEF LimitInv
<1>1. /\ \A x \in Nodes, y \in Lanes : x # n \/ y # l =>
            settled'[x][y] = settled[x][y] /\ loadedCfg'[x][y] = loadedCfg[x][y]
      /\ settled'[n][l] => settled[n][l] \/ (raw = laneCfg[l] /\ ~others)
      /\ raw # NoConfig => loadedCfg'[n][l] = raw
  BY <1>0, EnsureLaneEffect
<1>2. ASSUME NEW x \in Nodes, NEW y \in Lanes, settled'[x][y]
      PROVE  /\ \A s \in Streams : ReadsAt(work'[s], x, y) => work'[s].raw = laneCfg[y]
             /\ \A o \in Setters : ReadsAt(setter'[o], x, y) => setter'[o].raw = laneCfg[y]
             /\ laneCfg[y] # NoConfig => loadedCfg'[x][y] = laneCfg[y]
  <2>1. CASE settled[x][y]
    BY <1>0, <1>1, <1>2, <2>1 DEF LimitInv, CallsAgree, LimitTakesHold, ReadsAt
  <2>2. CASE ~settled[x][y]
    <3>1. x = n /\ y = l /\ raw = laneCfg[l] /\ ~others
      BY <1>1, <1>2, <2>2
    <3>. QED  BY <1>1, <3>1 DEF ReadsAt
  <2>. QED  BY <2>1, <2>2
<1>. QED  BY <1>0, <1>2 DEF CallsAgree, LimitTakesHold

\* Steps of a stream other than ensureLaneConfig leave the limits alone, and what a
\* stream is to install is what it was to install, or what is stored.
LEMMA ReadersKeep ==
    ASSUME StreamsOK, NEW s \in Streams,
           \/ \E n \in Nodes, t \in WorkerTokens : Dial(s, n, t)
           \/ \E f \in Requests : RecvLeaseRequest(s, f)
           \/ \E f \in Settlement : RecvSettlement(s, f)
           \/ TakeLeaseRequest(s) \/ TakeSettlement(s) \/ Ticker(s) \/ Begin(s) \/ Gate(s)
           \/ Lease(s) \/ LeaseUnsent(s) \/ LeaseEmpty(s) \/ LeaseFails(s) \/ Close(s)
    PROVE  /\ UNCHANGED <<laneCfg, loadedCfg, settled, setter>>
           /\ \A x \in Streams : work'[x].at = "read" =>
                 \/ /\ work[x].at = "read" /\ work'[x].node = work[x].node
                    /\ work'[x].lane = work[x].lane /\ work'[x].raw = work[x].raw
                 \/ work'[x].raw = laneCfg[work'[x].lane]
<1>. DEFINE Kept == \A x \in Streams : work'[x].at = "read" =>
                       \/ /\ work[x].at = "read" /\ work'[x].node = work[x].node
                          /\ work'[x].lane = work[x].lane /\ work'[x].raw = work[x].raw
                       \/ work'[x].raw = laneCfg[work'[x].lane]
<1>1. UNCHANGED <<laneCfg, loadedCfg, settled, setter>>
  <2>1. ASSUME \/ \E n \in Nodes, t \in WorkerTokens : Dial(s, n, t)
               \/ \E f \in Requests : RecvLeaseRequest(s, f)
               \/ \E f \in Settlement : RecvSettlement(s, f)
        PROVE  UNCHANGED <<laneCfg, loadedCfg, settled, setter>>
    BY <2>1 DEF Dial, RecvLeaseRequest, RecvSettlement, Refused, gateVars
  <2>2. ASSUME TakeLeaseRequest(s) \/ TakeSettlement(s) \/ Ticker(s) \/ Begin(s) \/ Gate(s)
        PROVE  UNCHANGED <<laneCfg, loadedCfg, settled, setter>>
    BY <2>2 DEF TakeLeaseRequest, TakeSettlement, Ticker, Begin, Gate, gateVars
  <2>3. ASSUME Lease(s) \/ LeaseUnsent(s) \/ LeaseEmpty(s) \/ LeaseFails(s) \/ Close(s)
        PROVE  UNCHANGED <<laneCfg, loadedCfg, settled, setter>>
    BY <2>3 DEF Lease, LeaseUnsent, LeaseOne, LeaseEmpty, LeaseFails, Close, gateVars
  <2>. QED  BY <2>1, <2>2, <2>3
<1>2. ASSUME OnlyStream(s), \/ work'[s].at # "read" \/ SameLoop(work[s], work'[s])
                            \/ work'[s].raw = laneCfg[work'[s].lane]
      PROVE  Kept
  BY <1>2 DEF OnlyStream, SameLoop, SameTerms
<1>3. ASSUME OnlyStream(s), Blank(work'[s]) PROVE Kept
  BY <1>2, <1>3 DEF Blank
<1>. HIDE DEF Kept
<1>4. ASSUME NEW n \in Nodes, NEW t, Dial(s, n, t) PROVE Kept
  BY <1>3, <1>4, DialEffect
<1>5. ASSUME Refused(s) PROVE Kept
  BY <1>2, <1>5, RefusedEffect
<1>6. ASSUME NEW f, RecvLeaseRequest(s, f) PROVE Kept
  BY <1>2, <1>5, <1>6, RecvLeaseEffect DEF Queues
<1>7. ASSUME NEW f, RecvSettlement(s, f) PROVE Kept
  BY <1>2, <1>5, <1>7, RecvSettlementEffect DEF Returned
<1>8. ASSUME TakeLeaseRequest(s) PROVE Kept
  <2>1. ASSUME TakesRequest(s, Head(work[s].recvCh)) PROVE Kept
    BY <1>2, <2>1 DEF TakesRequest
  <2>. QED  BY <1>3, <1>8, <2>1, TakeLeaseEffect
<1>9. ASSUME TakeSettlement(s) PROVE Kept
  <2>1. TakesSettlement(s, Head(work[s].recvCh))
    BY <1>9, TakeSettlementEffect
  <2>2. OnlyStream(s) /\ work'[s].at # "read"
    BY <2>1 DEF TakesSettlement
  <2>. QED  BY <1>2, <2>2
<1>10. ASSUME Ticker(s) PROVE Kept
  <2>1. OnlyStream(s) /\ work'[s].at # "read"
    BY <1>10, TickerEffect DEF Moves
  <2>. QED  BY <1>2, <2>1
<1>11. ASSUME Begin(s) PROVE Kept
  <2>1. OnlyStream(s) /\ (work'[s].at # "read" \/ work'[s].raw = laneCfg[work'[s].lane])
    BY <1>11, BeginEffect DEF Moves, SameTerms
  <2>. QED  BY <1>2, <2>1
<1>12. ASSUME Gate(s) PROVE Kept
  <2>1. OnlyStream(s) /\ work'[s].at # "read"
    BY <1>12, GateEffect DEF Moves
  <2>. QED  BY <1>2, <2>1
<1>13. ASSUME Lease(s) PROVE Kept
  <2>1. OnlyStream(s) /\ work'[s].at # "read"
    BY <1>13, LeaseEffect
  <2>. QED  BY <1>2, <2>1
<1>14. ASSUME LeaseEmpty(s) PROVE Kept
  <2>1. OnlyStream(s) /\ work'[s].at # "read"
    BY <1>14, LeaseEmptyEffect DEF Moves
  <2>. QED  BY <1>2, <2>1
<1>15. ASSUME LeaseUnsent(s) \/ LeaseFails(s) \/ Close(s) PROVE Kept
  BY <1>3, <1>15, EndEffect DEF LeaseUnsent, LeaseFails, Close
<1>16. Kept
  BY <1>4, <1>6, <1>7, <1>8, <1>9, <1>10, <1>11, <1>12, <1>13, <1>14, <1>15
<1>. QED  BY <1>1, <1>16 DEF Kept

\* Every step keeps a stored limit in force where it was loaded.
LEMMA LimitStep == LimitInv /\ [GatewayNext]_gatewayVars => LimitInv'
<1>. SUFFICES ASSUME LimitInv, [GatewayNext]_gatewayVars PROVE LimitInv'
  OBVIOUS
<1>0. /\ StreamsOK /\ GateShape /\ CallsAgree /\ LimitTakesHold /\ StreamsOK'
      /\ GateNodes = Nodes /\ GateLanes = Lanes /\ Streams \cap Setters = {}
  BY StreamsStep, WorkStreamAssumption DEF LimitInv
<1>1. leader' \in Nodes \cup {NoNode}
  BY <1>0, StepOfAuth, LeaderStep DEF GateShape
\* What most steps keep.
<1>2. ASSUME UNCHANGED <<laneCfg, loadedCfg, settled, setter>>,
             \A x \in Streams : work'[x].at = "read" =>
                 \/ /\ work[x].at = "read" /\ work'[x].node = work[x].node
                    /\ work'[x].lane = work[x].lane /\ work'[x].raw = work[x].raw
                 \/ work'[x].raw = laneCfg[work'[x].lane]
      PROVE  LimitInv'
  <2>1. GateShape'
    BY <1>0, <1>1, <1>2 DEF GateShape
  <2>2. CallsAgree'
    BY <1>0, <1>2 DEF CallsAgree, ReadsAt
  <2>3. LimitTakesHold'
    BY <1>0, <1>2 DEF LimitTakesHold
  <2>. QED  BY <1>0, <2>1, <2>2, <2>3 DEF LimitInv
<1>3. ASSUME UNCHANGED <<laneCfg, loadedCfg, settled, setter, work>> PROVE LimitInv'
  BY <1>2, <1>3
<1>4. ASSUME NEW s \in Streams, Ensure(s) PROVE LimitInv'
  <2>. DEFINE w == work[s]
              others == HoldsStale(w.node, w.lane, s)
  <2>1. /\ EnsureLaneConfig(w.node, w.lane, w.raw, others)
        /\ UNCHANGED <<leader, laneCfg, setter>> /\ w.at = "read"
    BY <1>4 DEF Ensure, authVars
  <2>2. w.node \in Nodes /\ w.lane \in Lanes
    BY <1>0, <2>1 DEF StreamsOK, StreamOK, Calling
  <2>3. others \in BOOLEAN
    BY DEF HoldsStale
  <2>4. OnlyStream(s) /\ work'[s].at = "ensured"
    BY <1>0, <1>4, EnsureEffect DEF Moves
  <2>5. settled[w.node][w.lane] => w.raw = laneCfg[w.lane]
    BY <1>0, <2>1, <2>2 DEF CallsAgree, ReadsAt
  <2>6. \A x \in Streams : work'[x].at = "read" => x # s /\ work'[x] = work[x]
    BY <2>4 DEF OnlyStream
  <2>7. \A x \in Streams : work'[x].at = "read" /\ ~others /\ ReadsAt(work[x], w.node, w.lane) =>
            work[x].raw = laneCfg[w.lane]
    BY <2>6 DEF HoldsStale, ReadsAt
  <2>8. \A o \in Setters : setter'[o].at = "read" /\ ~others /\ ReadsAt(setter[o], w.node, w.lane) =>
            setter[o].raw = laneCfg[w.lane]
    BY <1>0 DEF HoldsStale, ReadsAt
  <2>. HIDE DEF w, others
  <2>9. CallsAgree' /\ LimitTakesHold'
    BY <2>1, <2>2, <2>3, <2>5, <2>6, <2>7, <2>8, InstallKeeps
  <2>10. /\ DOMAIN loadedCfg' = Nodes /\ DOMAIN settled' = Nodes
         /\ \A x \in Nodes : DOMAIN loadedCfg'[x] = Lanes /\ settled'[x] \in [Lanes -> BOOLEAN]
    BY <1>0, <2>1, <2>2, <2>3, EnsureLaneEffect
  <2>11. GateShape'
    BY <1>0, <1>1, <2>1, <2>10 DEF GateShape
  <2>. QED  BY <1>0, <2>9, <2>11 DEF LimitInv
<1>5. ASSUME NEW o \in Setters, SetLimitEnds(o) PROVE LimitInv'
  <2>. DEFINE c == setter[o]
              others == HoldsStale(c.node, c.lane, o)
  <2>1. /\ EnsureLaneConfig(c.node, c.lane, c.raw, others)
        /\ UNCHANGED <<leader, laneCfg, work>> /\ c.at = "read"
        /\ setter' = [setter EXCEPT ![o] = Idle]
    BY <1>5 DEF SetLimitEnds, authVars
  <2>2. c.node \in Nodes /\ c.lane \in Lanes
    BY <1>0, <2>1 DEF GateShape, Idle
  <2>3. others \in BOOLEAN
    BY DEF HoldsStale
  <2>4. /\ setter'[o] = Idle /\ DOMAIN setter' = Setters
        /\ \A x \in Setters \ {o} : setter'[x] = setter[x]
    BY <1>0, <2>1 DEF GateShape
  <2>5. settled[c.node][c.lane] => c.raw = laneCfg[c.lane]
    BY <1>0, <2>1, <2>2 DEF CallsAgree, ReadsAt
  <2>6. \A x \in Setters : setter'[x].at = "read" => x # o /\ setter'[x] = setter[x]
    BY <2>4 DEF Idle
  <2>7. \A x \in Setters : setter'[x].at = "read" /\ ~others /\ ReadsAt(setter[x], c.node, c.lane) =>
            setter[x].raw = laneCfg[c.lane]
    BY <2>6 DEF HoldsStale, ReadsAt
  <2>8. \A s \in Streams : work'[s].at = "read" /\ ~others /\ ReadsAt(work[s], c.node, c.lane) =>
            work[s].raw = laneCfg[c.lane]
    BY <1>0 DEF HoldsStale, ReadsAt
  <2>80. \A s \in Streams : work'[s].at = "read" => work'[s] = work[s]
    BY <2>1
  <2>. HIDE DEF c, others
  <2>9. CallsAgree' /\ LimitTakesHold'
    BY <2>1, <2>2, <2>3, <2>5, <2>6, <2>7, <2>8, <2>80, InstallKeeps
  <2>10. /\ DOMAIN loadedCfg' = Nodes /\ DOMAIN settled' = Nodes
         /\ \A x \in Nodes : DOMAIN loadedCfg'[x] = Lanes /\ settled'[x] \in [Lanes -> BOOLEAN]
    BY <1>0, <2>1, <2>2, <2>3, EnsureLaneEffect
  <2>11. GateShape'
    BY <1>0, <1>1, <2>1, <2>4, <2>10 DEF GateShape, Idle
  <2>. QED  BY <1>0, <2>9, <2>11 DEF LimitInv
<1>6. ASSUME NEW o \in Setters, NEW l \in Lanes, NEW c \in LaneConfigs, SetLimit(o, l, c)
      PROVE  LimitInv'
  <2>1. /\ laneCfg' = [laneCfg EXCEPT ![l] = c]
        /\ settled' = [n \in Nodes |-> [settled[n] EXCEPT ![l] = FALSE]]
        /\ setter' = [setter EXCEPT ![o] =
                     [at |-> "applied", node |-> leader, lane |-> l, raw |-> NoConfig]]
        /\ leader \in Nodes /\ UNCHANGED <<loadedCfg, work>>
    BY <1>0, <1>6 DEF SetLimit, SetLaneConfig, GateShape
  <2>2. /\ DOMAIN settled' = Nodes /\ DOMAIN laneCfg' = Lanes
        /\ \A n \in Nodes : settled'[n] \in [Lanes -> BOOLEAN] /\ ~settled'[n][l]
        /\ \A n \in Nodes, y \in Lanes \ {l} : settled'[n][y] = settled[n][y]
        /\ \A y \in Lanes \ {l} : laneCfg'[y] = laneCfg[y]
    BY <1>0, <2>1 DEF GateShape
  <2>3. /\ DOMAIN setter' = Setters /\ setter'[o].at = "applied"
        /\ DOMAIN setter'[o] = {"at", "node", "lane", "raw"}
        /\ setter'[o].node \in Nodes /\ setter'[o].lane \in Lanes
        /\ \A x \in Setters \ {o} : setter'[x] = setter[x]
    BY <1>0, <2>1 DEF GateShape
  <2>4. GateShape'
    BY <1>0, <1>1, <2>1, <2>2, <2>3 DEF GateShape
  <2>5. CallsAgree'
    BY <1>0, <2>1, <2>2, <2>3 DEF CallsAgree, ReadsAt
  <2>6. LimitTakesHold'
    BY <1>0, <2>1, <2>2 DEF LimitTakesHold
  <2>. QED  BY <1>0, <2>4, <2>5, <2>6 DEF LimitInv
<1>7. ASSUME NEW o \in Setters, SetLimitReads(o) PROVE LimitInv'
  <2>1. /\ setter[o].at = "applied" /\ UNCHANGED <<laneCfg, loadedCfg, settled, work>>
        /\ setter' = [setter EXCEPT ![o].at = "read", ![o].raw = laneCfg[setter[o].lane]]
    BY <1>7 DEF SetLimitReads, gateVars
  <2>2. /\ DOMAIN setter' = Setters /\ DOMAIN setter'[o] = {"at", "node", "lane", "raw"}
        /\ setter'[o].node = setter[o].node /\ setter'[o].lane = setter[o].lane
        /\ setter'[o].raw = laneCfg[setter[o].lane]
        /\ \A x \in Setters \ {o} : setter'[x] = setter[x]
        /\ setter[o].node \in Nodes /\ setter[o].lane \in Lanes
    BY <1>0, <2>1 DEF GateShape, Idle
  <2>3. GateShape'
    BY <1>0, <1>1, <2>1, <2>2 DEF GateShape
  <2>4. CallsAgree'
    BY <1>0, <2>1, <2>2 DEF CallsAgree, ReadsAt
  <2>5. LimitTakesHold'
    BY <1>0, <2>1 DEF LimitTakesHold
  <2>. QED  BY <1>0, <2>3, <2>4, <2>5 DEF LimitInv
<1>8. CASE StreamNext
  <2>1. ASSUME NEW s \in Streams,
           \/ \E n \in Nodes, t \in WorkerTokens : Dial(s, n, t)
           \/ \E f \in Requests : RecvLeaseRequest(s, f)
           \/ \E f \in Settlement : RecvSettlement(s, f)
           \/ TakeLeaseRequest(s) \/ TakeSettlement(s) \/ Ticker(s) \/ Begin(s) \/ Gate(s)
           \/ Lease(s) \/ LeaseUnsent(s) \/ LeaseEmpty(s) \/ LeaseFails(s) \/ Close(s)
        PROVE  LimitInv'
    BY <1>0, <1>2, <2>1, ReadersKeep
  <2>2. ASSUME NEW m \in Messages, Expire(m) PROVE LimitInv'
    BY <1>3, <2>2 DEF Expire, gateVars
  <2>. QED  BY <1>4, <1>8, <2>1, <2>2 DEF StreamNext
<1>9. CASE GateNext
  <2>1. ASSUME NEW l \in Lanes, Pause(l) \/ Resume(l) PROVE LimitInv'
    BY <1>3, <2>1 DEF Pause, Resume, workVars
  <2>2. ASSUME ClockTick PROVE LimitInv'
    BY <1>3, <2>2 DEF ClockTick, workVars
  <2>. QED  BY <1>5, <1>6, <1>7, <1>9, <2>1, <2>2 DEF GateNext
<1>10. CASE UNCHANGED <<gateVars, workVars>> \/ UNCHANGED gatewayVars
  BY <1>3, <1>10 DEF gateVars, workVars, gatewayVars
<1>. QED  BY <1>8, <1>9, <1>10 DEF GatewayNext

\* Once no call is left that read an earlier limit, the first lease call or setter
\* that goes through ensureLaneConfig puts the stored limit in force on its node, and
\* it stays in force until the limit is set again: for every number of nodes, streams
\* and concurrent SetLaneRateLimit calls, and every change of leader.
THEOREM LimitHolds == GatewaySpec => []LimitTakesHold
<1>1. GatewayInit => LimitInv
  <2>. SUFFICES ASSUME GatewayInit PROVE LimitInv
    OBVIOUS
  <2>1. GateNodes = Nodes /\ GateLanes = Lanes
    BY WorkStreamAssumption
  <2>2. StreamsOK
    BY StreamsInit
  <2>3. GateShape
    BY <2>1 DEF GatewayInit, GateInit, AuthInit, QueueInit, GateShape, Idle
  <2>4. CallsAgree /\ LimitTakesHold
    BY <2>1 DEF GatewayInit, GateInit, CallsAgree, LimitTakesHold
  <2>. QED  BY <2>2, <2>3, <2>4 DEF LimitInv
<1>2. LimitInv => LimitTakesHold
  BY DEF LimitInv
<1>. QED  BY <1>1, <1>2, LimitStep, PTL DEF GatewaySpec

-----------------------------------------------------------------------------
(* The pause of a lane                                                     *)

PauseShape ==
    /\ clock \in Nat /\ leader \in Nodes \cup {NoNode} /\ DOMAIN late = Streams
    /\ DOMAIN pausedUntil = Nodes /\ \A n \in Nodes : pausedUntil[n] \in [Lanes -> Int]

\* A stream behind the gate of a lane that is paused has not leased since the pause.
LateOnce ==
    \A s \in Streams :
        /\ late[s] \in {0, 1}
        /\ work[s].at = "gated" /\ LanePaused(work[s].node, work[s].lane) => late[s] = 0

PauseInv == StreamsOK /\ PauseShape /\ LateOnce

\* Only laneGate lets a stream through.
LEMMA GatedKeep ==
    ASSUME StreamsOK, NEW s \in Streams,
           \/ \E n \in Nodes, t \in WorkerTokens : Dial(s, n, t)
           \/ \E f \in Requests : RecvLeaseRequest(s, f)
           \/ \E f \in Settlement : RecvSettlement(s, f)
           \/ TakeLeaseRequest(s) \/ TakeSettlement(s) \/ Ticker(s) \/ Begin(s) \/ Ensure(s)
           \/ Lease(s) \/ LeaseUnsent(s) \/ LeaseEmpty(s) \/ LeaseFails(s) \/ Close(s)
    PROVE  OnlyStream(s) /\ (SameLoop(work[s], work'[s]) \/ work'[s].at # "gated")
<1>. DEFINE Kept == OnlyStream(s) /\ (SameLoop(work[s], work'[s]) \/ work'[s].at # "gated")
<1>1. ASSUME OnlyStream(s), Blank(work'[s]) PROVE Kept
  BY <1>1 DEF Blank
<1>2. ASSUME Refused(s) PROVE Kept
  BY <1>2, RefusedEffect
<1>3. ASSUME NEW n \in Nodes, NEW t, Dial(s, n, t) PROVE Kept
  BY <1>1, <1>3, DialEffect
<1>4. ASSUME NEW f, RecvLeaseRequest(s, f) PROVE Kept
  BY <1>2, <1>4, RecvLeaseEffect DEF Queues
<1>5. ASSUME NEW f, RecvSettlement(s, f) PROVE Kept
  BY <1>2, <1>5, RecvSettlementEffect DEF Returned
<1>6. ASSUME TakeLeaseRequest(s) PROVE Kept
  BY <1>1, <1>6, TakeLeaseEffect DEF TakesRequest
<1>7. ASSUME TakeSettlement(s) PROVE Kept
  BY <1>7, TakeSettlementEffect DEF TakesSettlement
<1>8. ASSUME Ticker(s) \/ Begin(s) PROVE Kept
  BY <1>8, TickerEffect, BeginEffect DEF Moves
<1>9. ASSUME Ensure(s) PROVE Kept
  BY <1>9, EnsureEffect DEF Moves
<1>10. ASSUME Lease(s) \/ LeaseEmpty(s) PROVE Kept
  BY <1>10, LeaseEffect, LeaseEmptyEffect DEF Moves
<1>11. ASSUME LeaseUnsent(s) \/ LeaseFails(s) \/ Close(s) PROVE Kept
  BY <1>1, <1>11, EndEffect DEF LeaseUnsent, LeaseFails, Close
<1>. HIDE DEF Kept
<1>12. Kept
  BY <1>3, <1>4, <1>5, <1>6, <1>7, <1>8, <1>9, <1>10, <1>11
<1>. QED  BY <1>12 DEF Kept

\* LanePaused after the step.
PausedNext(n, l) == clock' < pausedUntil'[n][l]

\* Every step keeps a stream to the one lease that was past the gate when the lane paused.
LEMMA PauseStep == PauseInv /\ [GatewayNext]_gatewayVars => PauseInv'
<1>. SUFFICES ASSUME PauseInv, [GatewayNext]_gatewayVars PROVE PauseInv'
  OBVIOUS
<1>0. /\ StreamsOK /\ PauseShape /\ LateOnce /\ StreamsOK'
      /\ GateNodes = Nodes /\ GateLanes = Lanes
  BY StreamsStep, WorkStreamAssumption DEF PauseInv
<1>1. leader' \in Nodes \cup {NoNode}
  BY <1>0, StepOfAuth, LeaderStep DEF PauseShape
<1>2. ASSUME NEW s \in Streams, OnlyStream(s),
             SameLoop(work[s], work'[s]) \/ work'[s].at # "gated",
             UNCHANGED <<clock, pausedUntil>>, DOMAIN late' = Streams,
             \A x \in Streams \ {s} : late'[x] = late[x],
             late'[s] \in {0, 1}, work'[s].at = "gated" => late'[s] = late[s]
      PROVE  PauseInv'
  <2>1. PauseShape'
    BY <1>0, <1>1, <1>2 DEF PauseShape
  <2>2. LateOnce'
    BY <1>0, <1>2 DEF LateOnce, LanePaused, PausedNext, OnlyStream, SameLoop, SameTerms
  <2>. QED  BY <1>0, <2>1, <2>2 DEF PauseInv
<1>3. ASSUME NEW s \in Streams,
             \/ \E n \in Nodes, t \in WorkerTokens : Dial(s, n, t)
             \/ \E f \in Requests : RecvLeaseRequest(s, f)
             \/ \E f \in Settlement : RecvSettlement(s, f)
             \/ TakeSettlement(s) \/ Ticker(s) \/ Begin(s) \/ Ensure(s)
             \/ LeaseEmpty(s) \/ LeaseFails(s) \/ Close(s)
      PROVE  PauseInv'
  <2>1. ASSUME \/ \E n \in Nodes, t \in WorkerTokens : Dial(s, n, t)
               \/ \E f \in Requests : RecvLeaseRequest(s, f)
               \/ \E f \in Settlement : RecvSettlement(s, f)
        PROVE  UNCHANGED <<clock, pausedUntil, late>>
    BY <2>1 DEF Dial, RecvLeaseRequest, RecvSettlement, Refused, gateVars
  <2>2. ASSUME \/ TakeSettlement(s) \/ Ticker(s) \/ Begin(s) \/ Ensure(s)
               \/ LeaseEmpty(s) \/ LeaseFails(s) \/ Close(s)
        PROVE  UNCHANGED <<clock, pausedUntil, late>>
    BY <2>2 DEF TakeSettlement, Ticker, Begin, Ensure, LeaseEmpty, LeaseFails, Close, gateVars
  <2>3. UNCHANGED <<clock, pausedUntil, late>>
    BY <1>3, <2>1, <2>2
  <2>4. OnlyStream(s) /\ (SameLoop(work[s], work'[s]) \/ work'[s].at # "gated")
    BY <1>0, <1>3, GatedKeep
  <2>. QED  BY <1>0, <1>2, <2>3, <2>4 DEF LateOnce, PauseShape
<1>4. ASSUME NEW s \in Streams, TakeLeaseRequest(s) PROVE PauseInv'
  <2>1. UNCHANGED <<clock, pausedUntil>> /\ \E v \in {0, late[s]} : late' = [late EXCEPT ![s] = v]
    BY <1>0, <1>4 DEF TakeLeaseRequest, gateVars, PauseShape
  <2>2. OnlyStream(s) /\ work'[s].at # "gated"
    BY <1>0, <1>4, TakeLeaseEffect DEF Blank, TakesRequest
  <2>3. /\ DOMAIN late' = Streams /\ \A x \in Streams \ {s} : late'[x] = late[x]
        /\ late'[s] \in {0, 1}
    BY <1>0, <2>1 DEF PauseShape, LateOnce
  <2>. QED  BY <1>2, <2>1, <2>2, <2>3
<1>5. ASSUME NEW s \in Streams, Lease(s) \/ LeaseUnsent(s) PROVE PauseInv'
  <2>1. LeaseOne(s) /\ OnlyStream(s) /\ work'[s].at # "gated"
    <3>1. CASE Lease(s)
      BY <1>0, <3>1, LeaseEffect
    <3>2. CASE LeaseUnsent(s)
      BY <1>0, <3>2, EndEffect DEF LeaseUnsent, Blank
    <3>. QED  BY <1>5, <3>1, <3>2
  <2>2. /\ work[s].at = "gated" /\ UNCHANGED <<clock, pausedUntil>>
        /\ late' = [late EXCEPT ![s] = IF LanePaused(work[s].node, work[s].lane)
                                       THEN late[s] + 1 ELSE 0]
    BY <2>1 DEF LeaseOne, gateVars
  <2>3. LanePaused(work[s].node, work[s].lane) => late[s] = 0
    BY <1>0, <2>2 DEF LateOnce
  <2>4. /\ DOMAIN late' = Streams /\ \A x \in Streams \ {s} : late'[x] = late[x]
        /\ late'[s] \in {0, 1}
    BY <1>0, <2>2, <2>3 DEF PauseShape
  <2>. QED  BY <1>2, <2>1, <2>2, <2>4
<1>6. ASSUME NEW s \in Streams, Gate(s) PROVE PauseInv'
  <2>. DEFINE n == work[s].node  l == work[s].lane
  <2>1. /\ OnlyStream(s) /\ work[s].open /\ work[s].at = "ensured" /\ UNCHANGED <<clock, late>>
    BY <1>0, <1>6, GateEffect DEF Gate
  <2>2. n \in Nodes /\ l \in Lanes
    BY <1>0, <2>1 DEF StreamsOK, StreamOK, Calling
  <2>3. PICK open \in BOOLEAN :
            /\ PassGate(n, l, open)
            /\ Moves(work[s], work'[s], IF open THEN "gated" ELSE "select")
    BY <1>0, <1>6, GateEffect
  <2>4. work'[s].node = n /\ work'[s].lane = l
    BY <2>3 DEF Moves, SameTerms
  <2>. HIDE DEF n, l
  <2>5. /\ pausedUntil' = [pausedUntil EXCEPT ![n][l] = IF LanePaused(n, l) THEN pausedUntil[n][l] ELSE 0]
        /\ open => ~LanePaused(n, l)
    BY <2>3 DEF PassGate
  <2>6. /\ DOMAIN pausedUntil' = Nodes /\ \A x \in Nodes : pausedUntil'[x] \in [Lanes -> Int]
        /\ \A x \in Nodes, y \in Lanes : pausedUntil'[x][y] \in {pausedUntil[x][y], 0}
        /\ ~LanePaused(n, l) => pausedUntil'[n][l] = 0
    BY <1>0, <2>2, <2>5 DEF PauseShape
  <2>7. \A x \in Nodes, y \in Lanes : PausedNext(x, y) => LanePaused(x, y)
    BY <1>0, <2>1, <2>6 DEF PauseShape, LanePaused, PausedNext
  <2>8. open => ~PausedNext(n, l)
    BY <2>2, <2>5, <2>7
  <2>9. ASSUME NEW x \in Streams, work'[x].at = "gated", PausedNext(work'[x].node, work'[x].lane)
        PROVE  late[x] = 0
    <3>1. CASE x = s
      BY <2>3, <2>4, <2>8, <2>9, <3>1 DEF Moves
    <3>2. CASE x # s
      <4>1. work'[x] = work[x] /\ work[x].node \in Nodes /\ work[x].lane \in Lanes
        BY <1>0, <2>1, <2>9, <3>2 DEF OnlyStream, StreamsOK, StreamOK, Calling
      <4>2. LanePaused(work[x].node, work[x].lane)
        BY <2>7, <2>9, <4>1
      <4>. QED  BY <1>0, <2>9, <4>1, <4>2 DEF LateOnce
    <3>. QED  BY <3>1, <3>2
  <2>10. LateOnce'
    BY <1>0, <2>1, <2>9 DEF LateOnce, LanePaused, PausedNext
  <2>11. PauseShape'
    BY <1>0, <1>1, <2>1, <2>6 DEF PauseShape
  <2>. QED  BY <1>0, <2>10, <2>11 DEF PauseInv
\* Steps that end pauses, or none.
<1>7. ASSUME UNCHANGED <<work, late>>, clock' \in Nat,
             DOMAIN pausedUntil' = Nodes, \A x \in Nodes : pausedUntil'[x] \in [Lanes -> Int],
             \A x \in Nodes, y \in Lanes : PausedNext(x, y) => LanePaused(x, y)
      PROVE  PauseInv'
  <2>1. ASSUME NEW x \in Streams, work'[x].at = "gated", PausedNext(work'[x].node, work'[x].lane)
        PROVE  late[x] = 0
    <3>1. work[x].node \in Nodes /\ work[x].lane \in Lanes /\ work[x].at = "gated"
      BY <1>0, <1>7, <2>1 DEF StreamsOK, StreamOK, Calling
    <3>. QED  BY <1>0, <1>7, <2>1, <3>1 DEF LateOnce
  <2>2. LateOnce'
    BY <1>0, <1>7, <2>1 DEF LateOnce, LanePaused, PausedNext
  <2>3. PauseShape'
    BY <1>0, <1>1, <1>7 DEF PauseShape
  <2>. QED  BY <1>0, <2>2, <2>3 DEF PauseInv
<1>8. ASSUME UNCHANGED <<clock, pausedUntil, work, late>> PROVE PauseInv'
  BY <1>0, <1>7, <1>8 DEF PauseShape, LanePaused, PausedNext
<1>9. ASSUME NEW l \in Lanes, Pause(l) PROVE PauseInv'
  <2>1. PICK d \in Durations :
          pausedUntil' = [pausedUntil EXCEPT ![leader][l] =
                             IF d = 0 THEN Forever ELSE Min({clock + d, Forever})]
    BY <1>9 DEF Pause, PauseLane
  <2>. DEFINE u == IF d = 0 THEN Forever ELSE Min({clock + d, Forever})
  <2>2. u \in Int
    <3>1. clock + d \in Int /\ Forever \in Int
      BY <1>0, LaneGateAssumption DEF PauseShape, Forever
    <3>. QED  BY <3>1, MinOfTwo
  <2>. HIDE DEF u
  <2>3. /\ leader \in Nodes /\ UNCHANGED <<clock, work>> /\ pausedUntil' = [pausedUntil EXCEPT ![leader][l] = u]
        /\ late' = IF LanePaused(leader, l) THEN late
                   ELSE [s \in Streams |-> IF work[s].lane = l THEN 0 ELSE late[s]]
    BY <1>0, <1>9, <2>1 DEF Pause, PauseShape, u
  <2>4. /\ DOMAIN pausedUntil' = Nodes /\ \A x \in Nodes : pausedUntil'[x] \in [Lanes -> Int]
        /\ \A x \in Nodes, y \in Lanes : x # leader \/ y # l => pausedUntil'[x][y] = pausedUntil[x][y]
    BY <1>0, <2>2, <2>3 DEF PauseShape
  <2>5. /\ DOMAIN late' = Streams /\ \A x \in Streams : late'[x] \in {0, 1}
        /\ \A x \in Streams : late'[x] \in {0, late[x]}
        /\ ~LanePaused(leader, l) => \A x \in Streams : work[x].lane = l => late'[x] = 0
    BY <1>0, <2>3 DEF PauseShape, LateOnce
  <2>6. ASSUME NEW x \in Streams, work'[x].at = "gated", PausedNext(work'[x].node, work'[x].lane)
        PROVE  late'[x] = 0
    <3>1. work[x].node \in Nodes /\ work[x].lane \in Lanes /\ work[x].at = "gated"
      BY <1>0, <2>3, <2>6 DEF StreamsOK, StreamOK, Calling
    <3>2. CASE work[x].node # leader \/ work[x].lane # l
      <4>1. LanePaused(work[x].node, work[x].lane)
        BY <2>3, <2>4, <2>6, <3>1, <3>2 DEF LanePaused, PausedNext
      <4>. QED  BY <1>0, <2>5, <3>1, <4>1 DEF LateOnce
    <3>3. CASE work[x].node = leader /\ work[x].lane = l
      BY <1>0, <2>5, <3>1, <3>3 DEF LateOnce
    <3>. QED  BY <3>2, <3>3
  <2>7. LateOnce'
    BY <2>5, <2>6 DEF LateOnce, LanePaused, PausedNext
  <2>8. PauseShape'
    BY <1>0, <1>1, <2>3, <2>4, <2>5 DEF PauseShape
  <2>. QED  BY <1>0, <2>7, <2>8 DEF PauseInv
<1>10. ASSUME NEW l \in Lanes, Resume(l) PROVE PauseInv'
  <2>1. /\ leader \in Nodes /\ UNCHANGED <<clock, work, late>>
        /\ pausedUntil' = [pausedUntil EXCEPT ![leader][l] = 0]
    BY <1>0, <1>10 DEF Resume, ResumeLane, workVars, PauseShape
  <2>2. /\ DOMAIN pausedUntil' = Nodes /\ \A x \in Nodes : pausedUntil'[x] \in [Lanes -> Int]
        /\ \A x \in Nodes, y \in Lanes : pausedUntil'[x][y] \in {pausedUntil[x][y], 0}
    BY <1>0, <2>1 DEF PauseShape
  <2>3. \A x \in Nodes, y \in Lanes : PausedNext(x, y) => LanePaused(x, y)
    BY <1>0, <2>1, <2>2 DEF PauseShape, LanePaused, PausedNext
  <2>. QED  BY <1>0, <1>7, <2>1, <2>2, <2>3 DEF PauseShape
<1>11. ASSUME ClockTick PROVE PauseInv'
  <2>1. clock' = clock + 1 /\ UNCHANGED <<pausedUntil, work, late>>
    BY <1>11 DEF ClockTick, GateTick, workVars
  <2>2. \A x \in Nodes, y \in Lanes : PausedNext(x, y) => LanePaused(x, y)
    BY <1>0, <2>1 DEF PauseShape, LanePaused, PausedNext
  <2>. QED  BY <1>0, <1>7, <2>1, <2>2 DEF PauseShape
<1>12. CASE StreamNext
  <2>1. ASSUME NEW m \in Messages, Expire(m) PROVE PauseInv'
    BY <1>8, <2>1 DEF Expire, gateVars
  <2>. QED  BY <1>3, <1>4, <1>5, <1>6, <1>12, <2>1 DEF StreamNext
<1>13. CASE GateNext
  <2>1. ASSUME NEW o \in Setters, NEW l \in Lanes, NEW c \in LaneConfigs, SetLimit(o, l, c)
        PROVE  PauseInv'
    BY <1>8, <2>1 DEF SetLimit
  <2>2. ASSUME NEW o \in Setters, SetLimitReads(o) \/ SetLimitEnds(o) PROVE PauseInv'
    BY <1>8, <2>2 DEF SetLimitReads, SetLimitEnds, gateVars
  <2>. QED  BY <1>9, <1>10, <1>11, <1>13, <2>1, <2>2 DEF GateNext
<1>14. CASE UNCHANGED <<gateVars, workVars>> \/ UNCHANGED gatewayVars
  BY <1>8, <1>14 DEF gateVars, workVars, gatewayVars
<1>. QED  BY <1>12, <1>13, <1>14 DEF GatewayNext

\* After PauseLane a stream leases at most once more from the lane, the call that had
\* passed laneGate: whatever the number of streams, whoever leads, and however pauses
\* end, are renewed and are resumed.
THEOREM PauseHolds == GatewaySpec => []PauseDrains
<1>1. GatewayInit => PauseInv
  <2>. SUFFICES ASSUME GatewayInit PROVE PauseInv
    OBVIOUS
  <2>1. GateNodes = Nodes /\ GateLanes = Lanes
    BY WorkStreamAssumption
  <2>2. StreamsOK
    BY StreamsInit
  <2>3. PauseShape
    BY <2>1 DEF GatewayInit, GateInit, AuthInit, QueueInit, PauseShape
  <2>4. LateOnce
    BY DEF GatewayInit, QueueInit, LateOnce
  <2>. QED  BY <2>2, <2>3, <2>4 DEF PauseInv
<1>2. PauseInv => PauseDrains
  BY DEF PauseInv, LateOnce, PauseDrains
<1>. QED  BY <1>1, <1>2, PauseStep, PTL DEF GatewaySpec

-----------------------------------------------------------------------------
(* Leases and credit: the ledger of a stream                               *)

\* The settlements of a queue, and those that give a credit back.
Settles(q) == {i \in 1..Len(q) : q[i].kind # "lease"}
GivesBack(q) == {i \in Settles(q) : q[i].kind # "extend"}
UnsettledOf(w) == w.held \cup {w.recvCh[i].lease : i \in Settles(w.recvCh)}

\* L lease ids have been given out.  A lease whose settlement is queued is neither
\* held any more nor settled again, so that what is not settled fits the inflight count.
Ledger(w, L) ==
    /\ w.held \subseteq 1..L
    /\ \A i \in Settles(w.recvCh) : w.recvCh[i].lease \in 1..L
    /\ \A i \in GivesBack(w.recvCh) :
          /\ w.recvCh[i].lease \notin w.held
          /\ \A j \in Settles(w.recvCh) : i < j => w.recvCh[j].lease # w.recvCh[i].lease
    /\ Cardinality(UnsettledOf(w)) <= w.inflight

\* The ledger of a stream whose worker settled only leases it held.
Even(w, L) == w.stray = {} => Ledger(w, L)

\* The unsettled leases of a stream are finitely many.
LEMMA LedgerFinite ==
    ASSUME NEW w, NEW L \in Nat, w.held \subseteq 1..L,
           \A i \in Settles(w.recvCh) : w.recvCh[i].lease \in 1..L
    PROVE  /\ UnsettledOf(w) \subseteq 1..L /\ IsFiniteSet(UnsettledOf(w))
           /\ Cardinality(UnsettledOf(w)) \in Nat
<1>1. UnsettledOf(w) \subseteq 1..L
  BY DEF UnsettledOf
<1>2. IsFiniteSet(1..L)
  BY FS_Interval
<1>. QED  BY <1>1, <1>2, FS_Subset, FS_CardinalityType

\* The ledger depends on the leases held, the frames and the credit used.
LEMMA LedgerKeeps ==
    ASSUME NEW w, NEW v, NEW L \in Nat, NEW M \in Nat, L <= M, Ledger(w, L),
           v.held = w.held, v.recvCh = w.recvCh, v.inflight = w.inflight
    PROVE  Ledger(v, M)
<1>1. 1..L \subseteq 1..M
  OBVIOUS
<1>. QED  BY <1>1 DEF Ledger, UnsettledOf

\* A stream that holds nothing has an even ledger.
LEMMA LedgerBlank == ASSUME NEW v, NEW L \in Nat, Blank(v) PROVE Ledger(v, L)
<1>1. v.held = {} /\ v.recvCh = << >> /\ v.inflight = 0
  BY DEF Blank
<1>2. Settles(v.recvCh) = {} /\ GivesBack(v.recvCh) = {}
  BY <1>1 DEF Settles, GivesBack
<1>3. UnsettledOf(v) = {}
  BY <1>1, <1>2 DEF UnsettledOf
<1>. QED  BY <1>1, <1>2, <1>3, FS_EmptySet DEF Ledger

\* A frame at the end of the queue.
LEMMA AppendFrame ==
    ASSUME NEW q \in Seq(WorkClientMsg), NEW f \in WorkClientMsg
    PROVE  /\ Len(Append(q, f)) = Len(q) + 1 /\ Append(q, f)[Len(q) + 1] = f
           /\ Len(q) \in Nat /\ \A i \in 1..Len(q) : Append(q, f)[i] = q[i]
           /\ f.kind = "lease" => Settles(Append(q, f)) = Settles(q)
           /\ f.kind # "lease" => Settles(Append(q, f)) = Settles(q) \cup {Len(q) + 1}
           /\ f.kind \in {"lease", "extend"} => GivesBack(Append(q, f)) = GivesBack(q)
           /\ f.kind \notin {"lease", "extend"} =>
                 GivesBack(Append(q, f)) = GivesBack(q) \cup {Len(q) + 1}
<1>1. /\ Len(Append(q, f)) = Len(q) + 1 /\ Append(q, f)[Len(q) + 1] = f
      /\ Len(q) \in Nat /\ \A i \in 1..Len(q) : Append(q, f)[i] = q[i]
  OBVIOUS
<1>. DEFINE p == Append(q, f)
<1>. HIDE DEF p
<1>2. /\ Len(p) = Len(q) + 1 /\ p[Len(q) + 1] = f
      /\ \A i \in 1..Len(q) : p[i] = q[i]
      /\ \A i \in 1..Len(p) : i \in 1..Len(q) \/ i = Len(q) + 1
      /\ \A i \in 1..Len(q) : i \in 1..Len(p) /\ Len(q) + 1 \in 1..Len(p)
      /\ Len(q) + 1 \in 1..Len(p)
  BY <1>1 DEF p
<1>3. /\ f.kind = "lease" => Settles(p) = Settles(q)
      /\ f.kind # "lease" => Settles(p) = Settles(q) \cup {Len(q) + 1}
  BY <1>2 DEF Settles
<1>4. /\ \A i \in Settles(q) : p[i] = q[i]
      /\ \A i \in Settles(q) : i # Len(q) + 1
  BY <1>1, <1>2 DEF Settles
<1>5. /\ f.kind \in {"lease", "extend"} => GivesBack(p) = GivesBack(q)
      /\ f.kind \notin {"lease", "extend"} => GivesBack(p) = GivesBack(q) \cup {Len(q) + 1}
  BY <1>2, <1>3, <1>4 DEF GivesBack
<1>. QED  BY <1>1, <1>3, <1>5 DEF p

\* A queued request leaves the ledger even.
LEMMA LedgerRequest ==
    ASSUME NEW w, NEW v, NEW L \in Nat, Ledger(w, L), w.recvCh \in Seq(WorkClientMsg),
           NEW f \in WorkClientMsg, f.kind = "lease",
           v.recvCh = Append(w.recvCh, f), v.held = w.held, v.inflight = w.inflight
    PROVE  Ledger(v, L)
<1>. DEFINE q == w.recvCh  p == v.recvCh
<1>1. /\ Settles(p) = Settles(q) /\ GivesBack(p) = GivesBack(q)
      /\ \A i \in 1..Len(q) : p[i] = q[i]
  BY AppendFrame
<1>2. \A i \in Settles(q) : p[i] = q[i]
  BY <1>1 DEF Settles
<1>3. UnsettledOf(v) = UnsettledOf(w)
  BY <1>1, <1>2 DEF UnsettledOf
<1>. QED  BY <1>1, <1>2, <1>3 DEF Ledger, GivesBack

\* The worker returns a lease it holds, or extends it.
LEMMA LedgerReturn ==
    ASSUME NEW w, NEW v, NEW L \in Nat, Ledger(w, L), w.recvCh \in Seq(WorkClientMsg),
           NEW f \in WorkClientMsg, f.kind # "lease", f.lease \in w.held,
           v.recvCh = Append(w.recvCh, f), v.inflight = w.inflight,
           v.held = IF f.kind = "extend" THEN w.held ELSE w.held \ {f.lease}
    PROVE  Ledger(v, L)
<1>. DEFINE q == w.recvCh  p == v.recvCh  N == Len(q) + 1
<1>1. /\ Settles(p) = Settles(q) \cup {N} /\ p[N] = f /\ Len(q) \in Nat
      /\ \A i \in 1..Len(q) : p[i] = q[i]
      /\ f.kind = "extend" => GivesBack(p) = GivesBack(q)
      /\ f.kind # "extend" => GivesBack(p) = GivesBack(q) \cup {N}
  BY AppendFrame
<1>2. \A i \in Settles(q) : p[i] = q[i] /\ i < N /\ i \in Nat /\ N \in Nat
  BY <1>1 DEF Settles
<1>. HIDE DEF p, q, N
<1>3. UnsettledOf(v) = UnsettledOf(w)
  <2>1. UnsettledOf(v) = v.held \cup {p[i].lease : i \in Settles(p)}
    BY DEF UnsettledOf, p
  <2>2. UnsettledOf(w) = w.held \cup {q[i].lease : i \in Settles(q)}
    BY DEF UnsettledOf, q
  <2>3. {p[i].lease : i \in Settles(p)} = {q[i].lease : i \in Settles(q)} \cup {f.lease}
    <3>. DEFINE A == {p[i].lease : i \in Settles(p)}
                B == {q[i].lease : i \in Settles(q)}
    <3>1. ASSUME NEW x \in A PROVE x \in B \cup {f.lease}
      <4>1. PICK i \in Settles(p) : x = p[i].lease
        OBVIOUS
      <4>2. CASE i = N
        BY <1>1, <4>1, <4>2
      <4>3. CASE i \in Settles(q)
        <5>1. x = q[i].lease
          BY <1>2, <4>1, <4>3
        <5>. QED  BY <4>3, <5>1
      <4>. QED  BY <1>1, <4>2, <4>3
    <3>2. ASSUME NEW x \in B PROVE x \in A
      <4>1. PICK i \in Settles(q) : x = q[i].lease
        OBVIOUS
      <4>2. i \in Settles(p) /\ x = p[i].lease
        BY <1>1, <1>2, <4>1
      <4>. QED  BY <4>2
    <3>3. f.lease \in A
      <4>1. N \in Settles(p) /\ f.lease = p[N].lease
        BY <1>1
      <4>. QED  BY <4>1
    <3>. HIDE DEF A, B
    <3>4. A = B \cup {f.lease}
      BY <3>1, <3>2, <3>3
    <3>. QED  BY <3>4 DEF A, B
  <2>. QED  BY <2>1, <2>2, <2>3
<1>4. \A i \in Settles(p) : p[i].lease \in 1..L
  BY <1>1, <1>2 DEF Ledger, p, q
<1>5. \A i \in GivesBack(q) : i \in Settles(q)
  BY DEF GivesBack
<1>6. \A i \in GivesBack(q) : /\ q[i].lease \notin w.held
                              /\ \A j \in Settles(q) : i < j => q[j].lease # q[i].lease
  BY DEF Ledger, q
<1>7. v.held \subseteq w.held
  OBVIOUS
<1>8. ASSUME NEW i \in GivesBack(p)
      PROVE  p[i].lease \notin v.held /\ \A j \in Settles(p) : i < j => p[j].lease # p[i].lease
  <2>1. CASE i \in GivesBack(q)
    BY <1>1, <1>2, <1>5, <1>6, <1>7, <2>1
  <2>2. CASE i = N /\ f.kind # "extend"
    <3>1. N \in Nat
      BY <1>1 DEF N
    <3>2. \A j \in Settles(p) : ~(N < j)
      BY <1>1, <1>2, <3>1
    <3>3. p[i].lease \notin v.held
      BY <1>1, <2>2
    <3>. QED  BY <2>2, <3>2, <3>3
  <2>. QED  BY <1>1, <1>8, <2>1, <2>2
<1>. QED  BY <1>3, <1>4, <1>7, <1>8 DEF Ledger, p

\* The loop takes the first frame.
LEMMA TailFrame ==
    ASSUME NEW q \in Seq(WorkClientMsg), q # << >>
    PROVE  /\ \A i \in Settles(Tail(q)) : i + 1 \in Settles(q) /\ Tail(q)[i] = q[i + 1]
           /\ \A i \in GivesBack(Tail(q)) : i + 1 \in GivesBack(q) /\ i \in Settles(Tail(q))
           /\ \A i \in Settles(q) : i # 1 => i - 1 \in Settles(Tail(q)) /\ Tail(q)[i - 1] = q[i]
           /\ Head(q).kind # "lease" => 1 \in Settles(q)
           /\ Head(q).kind \notin {"lease", "extend"} => 1 \in GivesBack(q)
           /\ Head(q).kind = "lease" => 1 \notin Settles(q)
           /\ \A i \in Settles(q) : i \in Nat /\ i >= 1
           /\ \A i \in Settles(Tail(q)) : i \in Nat /\ i >= 1
<1>. DEFINE p == Tail(q)
<1>1. /\ Len(q) \in Nat \ {0} /\ Len(p) = Len(q) - 1 /\ Head(q) = q[1]
      /\ \A i \in 1..Len(p) : p[i] = q[i + 1] /\ i + 1 \in 1..Len(q)
  BY QueueEnds
<1>2. \A i \in 1..Len(q) : i # 1 => i - 1 \in 1..Len(p) /\ p[i - 1] = q[i]
  <2>. SUFFICES ASSUME NEW i \in 1..Len(q), i # 1 PROVE i - 1 \in 1..Len(p) /\ p[i - 1] = q[i]
    OBVIOUS
  <2>. HIDE DEF p
  <2>1. i - 1 \in 1..Len(p) /\ (i - 1) + 1 = i
    BY <1>1
  <2>. QED  BY <1>1, <2>1
<1>3. 1 \in 1..Len(q)
  BY <1>1
<1>. HIDE DEF p
<1>4. /\ \A i \in Settles(p) : i + 1 \in Settles(q) /\ p[i] = q[i + 1]
      /\ \A i \in Settles(q) : i # 1 => i - 1 \in Settles(p) /\ p[i - 1] = q[i]
  BY <1>1, <1>2 DEF Settles
<1>5. \A i \in GivesBack(p) : i + 1 \in GivesBack(q) /\ i \in Settles(p)
  BY <1>4 DEF GivesBack
<1>6. /\ Head(q).kind # "lease" => 1 \in Settles(q)
      /\ Head(q).kind = "lease" => 1 \notin Settles(q)
      /\ \A i \in Settles(q) : i \in Nat /\ i >= 1
      /\ \A i \in Settles(p) : i \in Nat /\ i >= 1
  BY <1>1, <1>3 DEF Settles
<1>7. Head(q).kind \notin {"lease", "extend"} => 1 \in GivesBack(q)
  BY <1>1, <1>6 DEF GivesBack
<1>. QED  BY <1>4, <1>5, <1>6, <1>7 DEF p

\* Taking a frame leaves the ledger even.
LEMMA LedgerTake ==
    ASSUME NEW w, NEW v, NEW L \in Nat, Ledger(w, L), w.recvCh \in Seq(WorkClientMsg),
           w.recvCh # << >>, w.inflight \in Nat, v.recvCh = Tail(w.recvCh), v.held = w.held,
           v.inflight = IF Head(w.recvCh).kind \in {"lease", "extend"} THEN w.inflight
                        ELSE Max({w.inflight - 1, 0})
    PROVE  Ledger(v, L)
<1>. DEFINE q == w.recvCh  p == v.recvCh  f == Head(w.recvCh)
<1>1. /\ \A i \in Settles(p) : i + 1 \in Settles(q) /\ p[i] = q[i + 1]
      /\ \A i \in GivesBack(p) : i + 1 \in GivesBack(q) /\ i \in Settles(p)
      /\ \A i \in Settles(q) : i # 1 => i - 1 \in Settles(p) /\ p[i - 1] = q[i]
      /\ f.kind # "lease" => 1 \in Settles(q)
      /\ f.kind \notin {"lease", "extend"} => 1 \in GivesBack(q)
      /\ f.kind = "lease" => 1 \notin Settles(q)
      /\ \A i \in Settles(q) : i \in Nat /\ i >= 1
      /\ \A i \in Settles(p) : i \in Nat /\ i >= 1
  BY TailFrame
<1>2. f = q[1]
  BY QueueEnds
<1>3. /\ w.held \subseteq 1..L
      /\ \A i \in Settles(q) : q[i].lease \in 1..L
      /\ \A i \in GivesBack(q) : /\ q[i].lease \notin w.held
                                 /\ \A j \in Settles(q) : i < j => q[j].lease # q[i].lease
      /\ Cardinality(UnsettledOf(w)) <= w.inflight
  BY DEF Ledger
<1>4. /\ UnsettledOf(w) = w.held \cup {q[i].lease : i \in Settles(q)}
      /\ UnsettledOf(v) = w.held \cup {p[i].lease : i \in Settles(p)}
  BY DEF UnsettledOf
<1>. HIDE DEF p, q, f
<1>5. \A i \in Settles(p) : p[i].lease \in 1..L
  BY <1>1, <1>3
<1>6. ASSUME NEW i \in GivesBack(p)
      PROVE  p[i].lease \notin v.held /\ \A j \in Settles(p) : i < j => p[j].lease # p[i].lease
  <2>1. i + 1 \in GivesBack(q) /\ p[i] = q[i + 1] /\ i \in Nat
    BY <1>1
  <2>2. \A j \in Settles(p) : i < j => j + 1 \in Settles(q) /\ p[j] = q[j + 1] /\ i + 1 < j + 1
    BY <1>1, <2>1
  <2>. QED  BY <1>3, <2>1, <2>2
<1>7. {p[i].lease : i \in Settles(p)} = {q[i].lease : i \in Settles(q) \ {1}}
  <2>. DEFINE A == {p[i].lease : i \in Settles(p)}
              B == {q[i].lease : i \in Settles(q) \ {1}}
  <2>1. ASSUME NEW x \in A PROVE x \in B
    <3>1. PICK i \in Settles(p) : x = p[i].lease
      OBVIOUS
    <3>2. i + 1 \in Settles(q) /\ x = q[i + 1].lease
      BY <1>1, <3>1
    <3>3. i + 1 # 1
      <4>1. i \in Nat /\ i >= 1
        BY <1>1
      <4>. QED  BY <4>1
    <3>. QED  BY <3>2, <3>3
  <2>2. ASSUME NEW x \in B PROVE x \in A
    <3>1. PICK i \in Settles(q) \ {1} : x = q[i].lease
      OBVIOUS
    <3>2. i - 1 \in Settles(p) /\ x = p[i - 1].lease
      BY <1>1, <3>1
    <3>. QED  BY <3>2
  <2>. QED  BY <2>1, <2>2
<1>8. UnsettledOf(v) \subseteq UnsettledOf(w)
  BY <1>4, <1>7
<1>9. /\ IsFiniteSet(UnsettledOf(w)) /\ Cardinality(UnsettledOf(w)) \in Nat
  BY <1>3, LedgerFinite DEF q
<1>10. IsFiniteSet(UnsettledOf(v)) /\ Cardinality(UnsettledOf(v)) \in Nat
       /\ Cardinality(UnsettledOf(v)) <= Cardinality(UnsettledOf(w))
  BY <1>8, <1>9, FS_Subset, FS_CardinalityType
<1>11. CASE f.kind \in {"lease", "extend"}
  <2>1. Cardinality(UnsettledOf(v)) <= v.inflight
    BY <1>3, <1>9, <1>10, <1>11 DEF f
  <2>. QED  BY <1>3, <1>5, <1>6, <2>1 DEF Ledger, p
<1>12. CASE f.kind \notin {"lease", "extend"}
  <2>1. 1 \in GivesBack(q) /\ 1 \in Settles(q)
    BY <1>1, <1>12
  <2>2. \A j \in Settles(q) \ {1} : 1 < j
    BY <1>1
  <2>3. f.lease \notin UnsettledOf(v)
    BY <1>2, <1>3, <1>4, <1>7, <2>1, <2>2
  <2>4. UnsettledOf(w) = UnsettledOf(v) \cup {f.lease}
    BY <1>2, <1>4, <1>7, <2>1
  <2>5. Cardinality(UnsettledOf(w)) = Cardinality(UnsettledOf(v)) + 1
    BY <1>10, <2>3, <2>4, FS_AddElement
  <2>6. Max({w.inflight - 1, 0}) = IF w.inflight - 1 >= 0 THEN w.inflight - 1 ELSE 0
    BY MaxOfTwo
  <2>7. Cardinality(UnsettledOf(v)) <= v.inflight
    BY <1>3, <1>9, <1>10, <1>12, <2>5, <2>6 DEF f
  <2>. QED  BY <1>3, <1>5, <1>6, <2>7 DEF Ledger, p
<1>. QED  BY <1>11, <1>12

\* One more lease.
LEMMA LedgerLease ==
    ASSUME NEW w, NEW v, NEW L \in Nat, Ledger(w, L), w.inflight \in Nat,
           v.recvCh = w.recvCh, v.held = w.held \cup {L + 1}, v.inflight = w.inflight + 1
    PROVE  Ledger(v, L + 1)
<1>1. /\ IsFiniteSet(UnsettledOf(w)) /\ Cardinality(UnsettledOf(w)) \in Nat
      /\ UnsettledOf(w) \subseteq 1..L
  BY LedgerFinite DEF Ledger
<1>2. UnsettledOf(v) = UnsettledOf(w) \cup {L + 1} /\ L + 1 \notin UnsettledOf(w)
  BY <1>1 DEF UnsettledOf
<1>3. Cardinality(UnsettledOf(v)) = Cardinality(UnsettledOf(w)) + 1
  <2>1. Cardinality(UnsettledOf(w) \cup {L + 1}) = Cardinality(UnsettledOf(w)) + 1
    BY ONLY <1>1, <1>2, FS_AddElement
  <2>. QED  BY ONLY <1>2, <2>1
<1>4. 1..L \subseteq 1..(L + 1) /\ L + 1 \in 1..(L + 1) /\ L + 1 \notin 1..L
  OBVIOUS
<1>5. \A i \in GivesBack(w.recvCh) : i \in Settles(w.recvCh)
  BY DEF GivesBack
<1>6. Cardinality(UnsettledOf(v)) <= v.inflight
  BY <1>1, <1>3 DEF Ledger
<1>7. v.held \subseteq 1..(L + 1) /\ \A i \in Settles(v.recvCh) : v.recvCh[i].lease \in 1..(L + 1)
  BY <1>4 DEF Ledger
<1>8. ASSUME NEW i \in GivesBack(v.recvCh)
      PROVE  /\ v.recvCh[i].lease \notin v.held
             /\ \A j \in Settles(v.recvCh) : i < j => v.recvCh[j].lease # v.recvCh[i].lease
  <2>1. w.recvCh[i].lease \in 1..L /\ w.recvCh[i].lease \notin w.held
    BY <1>5 DEF Ledger
  <2>. QED  BY <1>4, <2>1 DEF Ledger
<1>. QED  BY <1>6, <1>7, <1>8 DEF Ledger

\* Lease ids are given out in order, each to one message.
HolderShape ==
    /\ leases \in Nat /\ DOMAIN holder = Messages
    /\ \A m \in Messages :
          \/ holder[m] \in {Ready, Gone}
          \/ holder[m].lease \in 1..leases /\ holder[m].stream \in Streams
LeasesApart ==
    \A m1, m2 \in Messages :
        m1 # m2 /\ Leased(m1) /\ Leased(m2) => holder[m1].lease # holder[m2].lease
CreditInv ==
    /\ StreamsOK /\ HolderShape /\ LeasesApart
    /\ \A s \in Streams : Even(work[s], leases)

\* What a step does to the messages: nothing, or it ends leases, or gives one out.
Frees ==
    /\ leases' = leases /\ DOMAIN holder' = Messages
    /\ \A m \in Messages : holder'[m] = holder[m] \/ holder'[m] \in {Ready, Gone}
HandsOut(s, m) ==
    /\ leases' = leases + 1 /\ DOMAIN holder' = Messages /\ m \in Eligible(work[s])
    /\ holder'[m].lease = leases + 1 /\ holder'[m].stream = s
    /\ \A x \in Messages \ {m} : holder'[x] = holder[x]

\* A leased message names its lease and stream.
LEMMA LeasedShape ==
    ASSUME HolderShape, NEW m \in Messages, Leased(m)
    PROVE  holder[m].lease \in 1..leases /\ holder[m].stream \in Streams
<1>1. ~(Ready.lease > 0) /\ ~(Gone.lease > 0)
  BY DEF Ready, Gone
<1>. QED  BY <1>1 DEF HolderShape, Leased

\* Giving leases back keeps the others apart.
LEMMA FreesKeeps ==
    ASSUME HolderShape, LeasesApart, Frees
    PROVE  /\ HolderShape' /\ LeasesApart'
           /\ \A m \in Messages : Leased(m)' => holder'[m] = holder[m]
<1>1. ~(Ready.lease > 0) /\ ~(Gone.lease > 0)
  BY DEF Ready, Gone
<1>2. \A m \in Messages : Leased(m)' => holder'[m] = holder[m]
  BY <1>1 DEF Frees, Leased
<1>3. HolderShape'
  BY DEF HolderShape, Frees
<1>4. LeasesApart'
  BY <1>2 DEF LeasesApart, Leased
<1>. QED  BY <1>2, <1>3, <1>4

\* A new lease is apart from the others.
LEMMA HandsOutKeeps ==
    ASSUME HolderShape, LeasesApart, NEW s \in Streams, NEW m, HandsOut(s, m)
    PROVE  HolderShape' /\ LeasesApart'
<1>1. m \in Messages /\ leases \in Nat /\ leases' = leases + 1
  BY DEF HandsOut, Eligible, HolderShape
<1>2. \A i \in 1..leases : i \in 1..leases' /\ i # leases'
  BY <1>1
<1>3. leases' \in 1..leases' /\ leases' \in Nat
  BY <1>1
<1>4. HolderShape'
  BY <1>1, <1>2, <1>3 DEF HolderShape, HandsOut
<1>5. ASSUME NEW x \in Messages \ {m}, Leased(x)'
      PROVE  Leased(x) /\ holder'[x].lease = holder[x].lease /\ holder[x].lease # leases'
  <2>1. holder'[x] = holder[x]
    BY DEF HandsOut
  <2>2. Leased(x)
    BY <1>5, <2>1 DEF Leased
  <2>. QED  BY <1>2, <2>1, <2>2, LeasedShape
<1>6. LeasesApart'
  <2>. SUFFICES ASSUME NEW m1 \in Messages, NEW m2 \in Messages, m1 # m2, Leased(m1)', Leased(m2)'
                PROVE  holder'[m1].lease # holder'[m2].lease
    BY DEF LeasesApart
  <2>0. holder'[m].lease = leases'
    BY DEF HandsOut
  <2>1. CASE m1 # m /\ m2 # m
    BY <1>5, <2>1 DEF LeasesApart
  <2>2. CASE m1 = m
    BY <1>5, <2>0, <2>2
  <2>3. CASE m2 = m
    BY <1>5, <2>0, <2>3
  <2>. QED  BY <2>1, <2>2, <2>3
<1>. QED  BY <1>4, <1>6

\* A settlement gives a lease back.
LEMMA SettledFrees ==
    ASSUME HolderShape, leases' = leases, NEW s \in Streams, NEW f, Settled(s, f)
    PROVE  Frees
<1>1. PICK to \in {Ready, Gone} :
          holder' = [m \in Messages |-> IF leader = work[s].node /\ holder[m].lease = f.lease
                                        THEN to ELSE holder[m]]
  BY DEF Settled
<1>. QED  BY <1>1 DEF Frees

\* A lease hands out one message.
LEMMA LeaseOneHands ==
    ASSUME HolderShape, NEW s \in Streams, LeaseOne(s)
    PROVE  \E m \in Messages : HandsOut(s, m)
<1>1. PICK m \in Eligible(work[s]) :
          holder' = [holder EXCEPT ![m] = [lease |-> leases + 1, stream |-> s]]
  BY DEF LeaseOne
<1>2. m \in Messages /\ leases' = leases + 1 /\ DOMAIN holder = Messages
  BY DEF Eligible, LeaseOne, HolderShape
<1>3. HandsOut(s, m)
  BY <1>1, <1>2 DEF HandsOut
<1>. QED  BY <1>2, <1>3

\* Which steps touch the messages.
LEMMA MessageSteps ==
    ASSUME HolderShape, StreamsOK, [GatewayNext]_gatewayVars
    PROVE  \/ Frees
           \/ \E s \in Streams : /\ Lease(s) \/ LeaseUnsent(s)
                                 /\ \E m \in Messages : HandsOut(s, m)
<1>1. ASSUME UNCHANGED <<holder, leases>> PROVE Frees
  BY <1>1 DEF Frees, HolderShape
<1>2. ASSUME NEW s \in Streams,
             \/ \E n \in Nodes, t \in WorkerTokens : Dial(s, n, t)
             \/ \E f \in Requests : RecvLeaseRequest(s, f)
             \/ \E f \in Settlement : RecvSettlement(s, f)
      PROVE  UNCHANGED <<holder, leases>>
  BY <1>2 DEF Dial, RecvLeaseRequest, RecvSettlement, Refused
<1>3. ASSUME NEW s \in Streams,
             \/ TakeLeaseRequest(s) \/ Ticker(s) \/ Begin(s) \/ Ensure(s) \/ Gate(s)
             \/ LeaseEmpty(s) \/ LeaseFails(s) \/ Close(s)
      PROVE  UNCHANGED <<holder, leases>>
  BY <1>3 DEF TakeLeaseRequest, Ticker, Begin, Ensure, Gate, LeaseEmpty, LeaseFails, Close
<1>4. ASSUME NEW s \in Streams, TakeSettlement(s) PROVE Frees
  <2>1. leases' = leases
    BY <1>4 DEF TakeSettlement
  <2>2. holder' = holder \/ Settled(s, Head(work[s].recvCh))
    BY <1>4 DEF TakeSettlement
  <2>. QED  BY <1>1, <2>1, <2>2, SettledFrees
<1>5. ASSUME NEW s \in Streams, Lease(s) \/ LeaseUnsent(s)
      PROVE  \E m \in Messages : HandsOut(s, m)
  BY <1>5, LeaseOneHands DEF Lease, LeaseUnsent
<1>6. ASSUME NEW m \in Messages, Expire(m) PROVE Frees
  BY <1>6 DEF Expire, Frees, HolderShape
<1>7. StreamNext => \/ Frees
                    \/ \E s \in Streams : /\ Lease(s) \/ LeaseUnsent(s)
                                          /\ \E m \in Messages : HandsOut(s, m)
  BY <1>1, <1>2, <1>3, <1>4, <1>5, <1>6 DEF StreamNext
<1>8. GateNext => UNCHANGED <<holder, leases>>
  BY DEF GateNext, SetLimit, Pause, Resume, SetLimitReads, SetLimitEnds, ClockTick, workVars
<1>9. UNCHANGED gatewayVars \/ UNCHANGED workVars => UNCHANGED <<holder, leases>>
  BY DEF gatewayVars, workVars
<1>. QED  BY <1>1, <1>7, <1>8, <1>9 DEF GatewayNext

\* Every step keeps the ledger of every stream even.
LEMMA LedgerStep ==
    ASSUME CreditInv, [GatewayNext]_gatewayVars
    PROVE  \A x \in Streams : Even(work'[x], leases')
<1>0. /\ StreamsOK /\ HolderShape /\ \A x \in Streams : Even(work[x], leases)
      /\ leases \in Nat
  BY DEF CreditInv, HolderShape
<1>1. leases' \in Nat /\ leases <= leases' /\ (leases' = leases \/ leases' = leases + 1)
  BY <1>0, MessageSteps DEF Frees, HandsOut
<1>. DEFINE Kept == \A x \in Streams : Even(work'[x], leases')
<1>2. ASSUME NEW s \in Streams, OnlyStream(s), Even(work'[s], leases') PROVE Kept
  <2>1. ASSUME NEW x \in Streams \ {s} PROVE Even(work'[x], leases')
    <3>1. work'[x] = work[x]
      BY <1>2 DEF OnlyStream
    <3>. QED  BY <1>0, <1>1, <3>1, LedgerKeeps DEF Even
  <2>. QED  BY <1>2, <2>1
<1>3. ASSUME work' = work PROVE Kept
  BY <1>0, <1>1, <1>3, LedgerKeeps DEF Even
<1>. HIDE DEF Kept
<1>4. ASSUME NEW s \in Streams, OnlyStream(s), Blank(work'[s]) PROVE Kept
  BY <1>1, <1>2, <1>4, LedgerBlank DEF Even
<1>5. ASSUME NEW s \in Streams, OnlyStream(s), SameReader(work[s], work'[s]),
             work'[s].inflight = work[s].inflight
      PROVE  Kept
  <2>1. Even(work'[s], leases')
    BY <1>0, <1>1, <1>5, LedgerKeeps DEF SameReader, Even
  <2>. QED  BY <1>2, <1>5, <2>1
<1>6. ASSUME NEW s \in Streams, OnlyStream(s), NEW at, Moves(work[s], work'[s], at) PROVE Kept
  BY <1>5, <1>6 DEF Moves
<1>7. ASSUME NEW s \in Streams PROVE work[s].recvCh \in Seq(WorkClientMsg) /\ work[s].inflight \in Nat
  BY <1>0 DEF StreamsOK, StreamOK
<1>8. ASSUME NEW s \in Streams, Refused(s) PROVE Kept
  BY <1>0, <1>5, <1>8, RefusedEffect DEF SameLoop
<1>9. ASSUME NEW s \in Streams, NEW f \in Requests, RecvLeaseRequest(s, f) PROVE Kept
  <2>1. ASSUME ~Refused(s) PROVE Kept
    <3>1. Queues(s, f) /\ leases' = leases
      BY <1>0, <1>9, <2>1, RecvLeaseEffect DEF RecvLeaseRequest
    <3>2. f \in WorkClientMsg /\ f.kind = "lease"
      BY FrameTypes, WorkStreamAssumption
    <3>3. Even(work'[s], leases)
      BY <1>0, <1>7, <3>1, <3>2, LedgerRequest DEF Queues, SameLoop, Even
    <3>. QED  BY <1>2, <3>1, <3>3 DEF Queues
  <2>. QED  BY <1>8, <2>1
<1>10. ASSUME NEW s \in Streams, NEW f \in Settlement, RecvSettlement(s, f) PROVE Kept
  <2>1. ASSUME ~Refused(s) PROVE Kept
    <3>1. Returned(s, f) /\ leases' = leases
      BY <1>0, <1>10, <2>1, RecvSettlementEffect DEF RecvSettlement
    <3>2. f \in WorkClientMsg /\ f.kind # "lease"
      BY FrameTypes
    <3>3. Even(work'[s], leases)
      BY <1>0, <1>7, <3>1, <3>2, LedgerReturn DEF Returned, SameLoop, Even
    <3>. QED  BY <1>2, <3>1, <3>3 DEF Returned
  <2>. QED  BY <1>8, <2>1
<1>11. ASSUME NEW s \in Streams, TakeLeaseRequest(s) PROVE Kept
  <2>1. work[s].recvCh # << >> /\ Head(work[s].recvCh).kind = "lease" /\ leases' = leases
    BY <1>11 DEF TakeLeaseRequest
  <2>2. ASSUME TakesRequest(s, Head(work[s].recvCh)) PROVE Kept
    <3>1. Even(work'[s], leases)
      BY <1>0, <1>7, <2>1, <2>2, LedgerTake DEF TakesRequest, Even
    <3>. QED  BY <1>2, <2>1, <2>2, <3>1 DEF TakesRequest
  <2>. QED  BY <1>0, <1>4, <1>11, <2>2, TakeLeaseEffect
<1>12. ASSUME NEW s \in Streams, TakeSettlement(s) PROVE Kept
  <2>1. /\ work[s].recvCh # << >> /\ Head(work[s].recvCh).kind # "lease" /\ leases' = leases
        /\ TakesSettlement(s, Head(work[s].recvCh))
    BY <1>0, <1>12, TakeSettlementEffect DEF TakeSettlement
  <2>2. Even(work'[s], leases)
    BY <1>0, <1>7, <2>1, LedgerTake DEF TakesSettlement, Even
  <2>. QED  BY <1>2, <2>1, <2>2 DEF TakesSettlement
<1>13. ASSUME NEW s \in Streams, Ticker(s) \/ Begin(s) PROVE Kept
  BY <1>0, <1>6, <1>13, TickerEffect, BeginEffect
<1>14. ASSUME NEW s \in Streams, Ensure(s) \/ Gate(s) PROVE Kept
  BY <1>0, <1>6, <1>14, EnsureEffect, GateEffect
<1>15. ASSUME NEW s \in Streams, Lease(s) PROVE Kept
  <2>1. /\ OnlyStream(s) /\ leases' = leases + 1
        /\ work'[s].inflight = work[s].inflight + 1
        /\ work'[s].held = work[s].held \cup {leases + 1}
        /\ work'[s].recvCh = work[s].recvCh /\ work'[s].stray = work[s].stray
    BY <1>0, <1>15, LeaseEffect DEF LeaseOne
  <2>2. Even(work'[s], leases + 1)
    BY <1>0, <1>7, <2>1, LedgerLease DEF Even
  <2>. QED  BY <1>2, <2>1, <2>2
<1>16. ASSUME NEW s \in Streams, LeaseEmpty(s) PROVE Kept
  BY <1>0, <1>6, <1>16, LeaseEmptyEffect
<1>17. ASSUME NEW s \in Streams, LeaseUnsent(s) \/ LeaseFails(s) \/ Close(s) PROVE Kept
  BY <1>0, <1>4, <1>17, EndEffect DEF LeaseUnsent, LeaseFails, Close
<1>18. ASSUME NEW s \in Streams, NEW n \in Nodes, NEW t, Dial(s, n, t) PROVE Kept
  BY <1>0, <1>4, <1>18, DialEffect
<1>19. CASE StreamNext
  <2>1. Kept
    BY <1>3, <1>9, <1>10, <1>11, <1>12, <1>13, <1>14, <1>15, <1>16, <1>17, <1>18, <1>19
       DEF StreamNext, Expire
  <2>. QED  BY <2>1 DEF Kept
<1>20. GateNext => work' = work
  BY DEF GateNext, SetLimit, Pause, Resume, SetLimitReads, SetLimitEnds, ClockTick, workVars
<1>21. UNCHANGED gatewayVars \/ UNCHANGED workVars => work' = work
  BY DEF gatewayVars, workVars
<1>. QED  BY <1>3, <1>19, <1>20, <1>21 DEF GatewayNext, Kept

\* Every step keeps the leases within the credit.
LEMMA CreditStep == CreditInv /\ [GatewayNext]_gatewayVars => CreditInv'
<1>. SUFFICES ASSUME CreditInv, [GatewayNext]_gatewayVars PROVE CreditInv'
  OBVIOUS
<1>1. StreamsOK' /\ StreamsOK /\ HolderShape /\ LeasesApart
  BY StreamsStep DEF CreditInv
<1>2. HolderShape' /\ LeasesApart'
  BY <1>1, MessageSteps, FreesKeeps, HandsOutKeeps
<1>. QED  BY <1>1, <1>2, LedgerStep DEF CreditInv

\* The leases are within the credit at the start.
LEMMA CreditInit == GatewayInit => CreditInv
<1>. SUFFICES ASSUME GatewayInit PROVE CreditInv
  OBVIOUS
<1>1. HolderShape
  BY DEF GatewayInit, QueueInit, HolderShape
<1>2. ~(Ready.lease > 0)
  BY DEF Ready
<1>3. LeasesApart
  BY <1>2 DEF GatewayInit, QueueInit, LeasesApart, Leased
<1>4. \A s \in Streams : Even(work[s], leases)
  BY ClosedBlank, LedgerBlank DEF GatewayInit, QueueInit, Even
<1>. QED  BY <1>1, <1>3, <1>4, StreamsInit DEF CreditInv

\* Credit bounds what a stream holds: its inflight count is at most the credit it asked
\* for, whatever frames its worker sends; and if the worker settled only leases it held,
\* its live leases that are not settled yet are at most that count, for every number of
\* streams and messages, every queue of frames, and however leases expire.
THEOREM CreditIsKept == GatewaySpec => []CreditBounds
<1>1. CreditInv => CreditBounds
  <2>0. CreditInv => \A s \in Streams : work[s].inflight <= work[s].credit
    BY DEF CreditInv, StreamsOK, StreamOK
  <2>. SUFFICES ASSUME CreditInv, NEW s \in Streams, work[s].stray = {}
                PROVE  Cardinality({m \in Messages : Leased(m) /\ holder[m].lease \in Unsettled(s)})
                          <= work[s].inflight
    BY <2>0 DEF CreditBounds
  <2>. DEFINE S == {m \in Messages : Leased(m) /\ holder[m].lease \in Unsettled(s)}
              U == UnsettledOf(work[s])
              g == [m \in S |-> holder[m].lease]
  <2>1. Unsettled(s) = U
    <3>1. work[s].recvCh \in Seq(WorkClientMsg)
      BY DEF CreditInv, StreamsOK, StreamOK
    <3>2. DOMAIN work[s].recvCh = 1..Len(work[s].recvCh)
      BY <3>1
    <3>. QED  BY <3>2 DEF Unsettled, UnsettledOf, Settles
  <2>2. IsFiniteSet(U) /\ Cardinality(U) \in Nat /\ Cardinality(U) <= work[s].inflight
    BY LedgerFinite DEF CreditInv, Even, Ledger, HolderShape
  <2>3. g \in Injection(S, U)
    <3>1. g \in [S -> U]
      BY <2>1
    <3>2. \A a, b \in S : g[a] = g[b] => a = b
      BY DEF CreditInv, LeasesApart
    <3>. HIDE DEF g, S, U
    <3>. QED  BY <3>1, <3>2 DEF Injection, IsInjective
  <2>. HIDE DEF S, U, g
  <2>4. IsFiniteSet(S) /\ Cardinality(S) <= Cardinality(U)
    BY <2>2, <2>3, FS_Injection
  <2>5. Cardinality(S) \in Nat
    BY <2>4, FS_CardinalityType
  <2>6. work[s].inflight \in Nat /\ work[s].inflight <= work[s].credit
    BY DEF CreditInv, StreamsOK, StreamOK
  <2>7. Cardinality(S) <= work[s].inflight
    BY <2>2, <2>4, <2>5, <2>6
  <2>. QED  BY <2>6, <2>7 DEF S
<1>. QED  BY <1>1, CreditInit, CreditStep, PTL DEF GatewaySpec

-----------------------------------------------------------------------------
(* What a stream is cleared for                                            *)

\* The rows of every node hold open grants only.
OpenRows(store) ==
    \A p \in Names : store[p] # Absent =>
        \A i \in 1..Len(store[p].grants) : store[p].grants[i] \in OpenGrants
RowsOpen == OnlyOpen => \A n \in Nodes : OpenRows(rows[n])

\* Applying an entry that gives open grants only, or none, leaves no other.
LEMMA ApplyOpen ==
    ASSUME NEW store, NEW c, StoreOK(store), CmdOK(c), OpenRows(store),
           Given(c) \subseteq OpenGrants
    PROVE  OpenRows(ApplyAuth(store, c))
<1>. DEFINE old == store[c.name]
            Make == [token |-> c.token, tags |-> c.tags, disabled |-> FALSE, grants |-> c.grants]
<1>1. c.name \in Names /\ RowOK(old) /\ DOMAIN store = Names
  BY DEF StoreOK, CmdOK
<1>2. ASSUME NEW r, ApplyAuth(store, c) = [store EXCEPT ![c.name] = r],
             \A i \in 1..Len(r.grants) : r.grants[i] \in OpenGrants
      PROVE  OpenRows(ApplyAuth(store, c))
  BY <1>1, <1>2 DEF OpenRows
<1>3. CASE Creates(store, c)
  <2>1. ApplyAuth(store, c) = [store EXCEPT ![c.name] = Make]
    BY <1>3 DEF ApplyAuth, Creates
  <2>2. c.op = "create" /\ c.grants \in Seq(AuthGrant)
    BY <1>3 DEF Creates, CmdOK
  <2>3. \A i \in 1..Len(c.grants) : c.grants[i] \in OpenGrants
    BY <2>2 DEF Given
  <2>4. Make.grants = c.grants
    OBVIOUS
  <2>. HIDE DEF Make
  <2>. QED  BY <1>2, <2>1, <2>3, <2>4
<1>4. ASSUME old # Absent
      PROVE  /\ old.grants \in Seq(AuthGrant) /\ Len(old.grants) \in Nat
             /\ \A i \in 1..Len(old.grants) : old.grants[i] \in OpenGrants
             /\ DOMAIN old = {"token", "tags", "disabled", "grants"}
  BY <1>1, <1>4 DEF OpenRows, RowOK
<1>5. CASE old # Absent /\ c.op = "rotate"
  <2>1. ApplyAuth(store, c) = [store EXCEPT ![c.name] = [old EXCEPT !.token = c.token]]
    BY <1>1, <1>5 DEF ApplyAuth, Creates
  <2>2. [old EXCEPT !.token = c.token].grants = old.grants
    BY <1>4, <1>5
  <2>. QED  BY <1>2, <1>4, <1>5, <2>1, <2>2
<1>6. CASE old # Absent /\ c.op = "disable"
  <2>1. ApplyAuth(store, c) = [store EXCEPT ![c.name] = [old EXCEPT !.disabled = c.disabled]]
    BY <1>1, <1>6 DEF ApplyAuth, Creates
  <2>2. [old EXCEPT !.disabled = c.disabled].grants = old.grants
    BY <1>4, <1>6
  <2>. QED  BY <1>2, <1>4, <1>6, <2>1, <2>2
<1>7. CASE old # Absent /\ c.op = "grant"
  <2>. DEFINE gs == Append(old.grants, c.grant)
  <2>1. ApplyAuth(store, c) = [store EXCEPT ![c.name] = [old EXCEPT !.grants = gs]]
    BY <1>1, <1>4, <1>7 DEF ApplyAuth, Creates, Appended
  <2>2. c.grant \in OpenGrants
    BY <1>7 DEF Given
  <2>3. [old EXCEPT !.grants = gs].grants = gs
    BY <1>4, <1>7
  <2>. HIDE DEF old
  <2>4. \A i \in 1..Len(gs) : gs[i] \in OpenGrants
    BY <1>4, <1>7, <2>2
  <2>. QED  BY <1>2, <2>1, <2>3, <2>4 DEF old
<1>8. CASE old # Absent /\ c.op = "revoke" /\ c.index <= Len(old.grants)
  <2>. DEFINE gs == RemoveAt(old.grants, c.index)
  <2>1. ApplyAuth(store, c) = [store EXCEPT ![c.name] = [old EXCEPT !.grants = gs]]
    BY <1>1, <1>4, <1>8 DEF ApplyAuth, Creates
  <2>2. c.index \in 1..Len(old.grants)
    BY <1>4, <1>8 DEF CmdOK
  <2>3. [old EXCEPT !.grants = gs].grants = gs
    BY <1>4, <1>8
  <2>. HIDE DEF old
  <2>4. \A i \in 1..Len(gs) : gs[i] \in OpenGrants
    <3>1. PICK q \in Seq(AuthGrant) : q = old.grants
      BY <1>4, <1>8
    <3>2. PICK k \in 1..Len(q) : k = c.index
      BY <2>2, <3>1
    <3>3. \A i \in 1..Len(q) : q[i] \in OpenGrants
      BY <1>4, <1>8, <3>1
    <3>4. q \in Seq(OpenGrants)
      BY <3>3
    <3>5. RemoveAt(q, k) \in Seq(OpenGrants)
      BY <3>4 DEF RemoveAt
    <3>6. gs \in Seq(OpenGrants)
      BY <3>1, <3>2, <3>5
    <3>. HIDE DEF gs
    <3>. QED  BY <3>6
  <2>. QED  BY <1>2, <2>1, <2>3, <2>4 DEF old
<1>9. CASE /\ ~Creates(store, c)
           /\ \/ old = Absent \/ c.op = "create"
              \/ c.op = "revoke" /\ ~(c.index <= Len(old.grants))
  <2>1. ApplyAuth(store, c) = store
    BY <1>9 DEF ApplyAuth
  <2>. QED  BY <2>1
<1>. QED  BY <1>3, <1>5, <1>6, <1>7, <1>8, <1>9 DEF CmdOK

\* The log only grows: what is open so far was open before, and so are the rows.
LEMMA OpenStep ==
    ASSUME AuthTyped, RowsOpen, [AuthNext]_authVars
    PROVE  (OnlyOpen' => OnlyOpen) /\ RowsOpen'
<1>1. CASE UNCHANGED authVars
  BY <1>1 DEF authVars, OnlyOpen, RowsOpen
<1>2. CASE AuthNext
  <2>1. /\ authLog' \in Seq({authLog'[i] : i \in DOMAIN authLog'})
        /\ Len(authLog) \in Nat /\ Len(authLog') \in Nat /\ Len(authLog) <= Len(authLog')
        /\ \A i \in 1..Len(authLog) : authLog'[i] = authLog[i]
    BY <1>2, LogOK
  <2>2. DOMAIN authLog' = 1..Len(authLog') /\ DOMAIN authLog = 1..Len(authLog)
    BY <2>1 DEF AuthTyped
  <2>3. ASSUME OnlyOpen' PROVE OnlyOpen
    <3>1. \A i \in 1..Len(authLog) : i \in 1..Len(authLog')
      BY <2>1
    <3>. QED  BY <2>1, <2>2, <2>3, <3>1 DEF OnlyOpen
  <2>4. ASSUME OnlyOpen', NEW n \in Nodes, Applies(n) PROVE \A x \in Nodes : OpenRows(rows'[x])
    <3>. DEFINE c == authLog'[applied[n] + 1]
    <3>1. /\ CmdOK(c) /\ applied[n] + 1 \in 1..Len(authLog') /\ StoreOK(rows[n])
          /\ rows' = [rows EXCEPT ![n] = ApplyAuth(rows[n], c)]
      BY <1>2, <2>4, AppliesEffect
    <3>2. Given(c) \subseteq OpenGrants
      BY <2>2, <2>4, <3>1 DEF OnlyOpen
    <3>. HIDE DEF c
    <3>3. \A x \in Nodes : OpenRows(rows[x])
      BY <2>3, <2>4 DEF RowsOpen
    <3>4. OpenRows(ApplyAuth(rows[n], c))
      BY <3>1, <3>2, <3>3, ApplyOpen
    <3>5. DOMAIN rows = Nodes
      BY DEF AuthTyped
    <3>. QED  BY <3>1, <3>3, <3>4, <3>5
  <2>5. ASSUME OnlyOpen', rows' = rows PROVE \A x \in Nodes : OpenRows(rows'[x])
    BY <2>3, <2>5 DEF RowsOpen
  <2>6. rows' = rows \/ \E n \in Nodes : Applies(n)
    BY <1>2, AuthEffect
  <2>. QED  BY <2>3, <2>4, <2>5, <2>6 DEF RowsOpen
<1>. QED  BY <1>1, <1>2

\* A stream is cleared for every lane and group that a request may lead to, unless the
\* request names neither and so changes nothing.
Covers(lane, allow, cleared) ==
    lane # Unnamed \/ allow # {} =>
        \A l \in (IF lane = Unnamed THEN Lanes ELSE {lane}),
           g \in (IF allow = {} THEN Groups ELSE allow) : ClearedFor(l, g, cleared)

\* The requests in the queue and the terms in force are cleared.
Covered(w) ==
    /\ \A i \in 1..Len(w.recvCh) : w.recvCh[i].kind = "lease" =>
          Covers(w.recvCh[i].lane, w.recvCh[i].allow, w.cleared)
    /\ w.lane # Unnamed => Covers(w.lane, w.allow, w.cleared)

GrantedInv ==
    /\ AuthTyped /\ RowsOpen /\ CreditInv /\ StreamWithinGrants
    /\ \A s \in Streams : Covered(work[s])

\* The stream holds nothing new, and is cleared for what it was.
Within(w, v) == v.held = {} \/ (v.held \subseteq w.held /\ w.cleared \subseteq v.cleared)

\* A check that passes for names left out passes for any name, if every grant is open.
LEMMA OpenCheck ==
    ASSUME AuthTyped, NEW n \in Nodes, OpenRows(rows[n]), NEW token,
           NEW l0 \in Lanes \cup {Unnamed}, NEW g0 \in Groups \cup {Unnamed},
           NEW l \in Lanes, NEW g \in Groups, l0 \in {l, Unnamed}, g0 \in {g, Unnamed},
           <<l0, g0>> \in Cleared(n, token)
    PROVE  <<l, g>> \in Cleared(n, token)
<1>. DEFINE Check(x, y) == [action |-> "consume", lane |-> x, group |-> y]
<1>1. Authorized(rows[n], token, {Check(l0, g0)})
  BY DEF Cleared
<1>2. SUFFICES Authorized(rows[n], token, {Check(l, g)})
  BY DEF Cleared
<1>3. CASE ~AuthEnabled(rows[n])
  BY <1>3 DEF Authorized
<1>4. CASE AuthEnabled(rows[n])
  <2>1. PICK p \in Present(rows[n]) :
            /\ rows[n][p].token = token /\ ~rows[n][p].disabled
            /\ principalAllows(rows[n][p], Check(l0, g0))
    BY <1>1, <1>4 DEF Authorized
  <2>2. rows[n][p].grants \in Seq(AuthGrant)
    BY DEF Present, AuthTyped, StoreOK, RowOK
  <2>3. \A i \in DOMAIN rows[n][p].grants : rows[n][p].grants[i] \in OpenGrants
    BY <2>2 DEF OpenRows, Present
  <2>4. principalAllows(rows[n][p], Check(l, g))
    <3>1. CASE "administrator" \in rows[n][p].tags
      BY <3>1 DEF principalAllows
    <3>2. ASSUME NEW i \in DOMAIN rows[n][p].grants,
                 grantAllows(rows[n][p].grants[i], Check(l0, g0))
          PROVE  principalAllows(rows[n][p], Check(l, g))
      <4>. DEFINE gr == rows[n][p].grants[i]
      <4>1. /\ gr.actions \cap {"admin", "consume"} # {}
            /\ l0 \in gr.lanes /\ g0 \in gr.groups /\ gr \in OpenGrants
        BY <2>3, <3>2 DEF grantAllows
      <4>. HIDE DEF gr
      <4>2. l \in gr.lanes /\ g \in gr.groups
        BY <4>1 DEF OpenGrants
      <4>3. grantAllows(gr, Check(l, g))
        BY <4>1, <4>2 DEF grantAllows
      <4>. QED  BY <4>3 DEF principalAllows, gr
    <3>3. Check(l0, g0).action # "read"
      OBVIOUS
    <3>. QED  BY <2>1, <3>1, <3>2, <3>3 DEF principalAllows
  <2>. QED  BY <2>1, <2>4 DEF Authorized
<1>. QED  BY <1>3, <1>4

\* A request that passes its checks clears all it may lead to, under the names it gives.
LEMMA ChecksCover ==
    ASSUME AuthTyped, RowsOpen, NEW n \in Nodes, NEW token, NEW f \in LeaseRequest,
           ChecksPass(n, token, f)
    PROVE  Covers(f.lane, f.allow, Cleared(n, token))
<1>. DEFINE Ls == IF f.lane = Unnamed THEN Lanes ELSE {f.lane}
            Gs == IF f.allow = {} THEN Groups ELSE f.allow
            Check(l, g) == [action |-> "consume", lane |-> l, group |-> g]
<1>1. f.lane \in Lanes \cup {Unnamed} /\ f.allow \subseteq Groups
  BY DEF LeaseRequest
<1>2. SUFFICES ASSUME NEW l \in Ls, NEW g \in Gs, f.lane # Unnamed \/ f.allow # {}
               PROVE  ClearedFor(l, g, Cleared(n, token))
  BY DEF Covers
<1>3. l \in Lanes /\ g \in Groups
  BY <1>1
<1>. DEFINE h == IF f.allow = {} THEN Unnamed ELSE g
            checks == {Check(f.lane, x) : x \in IF f.allow = {} THEN {Unnamed} ELSE f.allow}
<1>4. Check(f.lane, h) \in checks
  OBVIOUS
<1>5. Authorized(rows[n], token, checks)
  BY DEF ChecksPass
<1>6. Authorized(rows[n], token, {Check(f.lane, h)})
  <2>. HIDE DEF checks
  <2>. QED  BY <1>4, <1>5 DEF Authorized
<1>7. <<f.lane, h>> \in Cleared(n, token)
  BY <1>1, <1>3, <1>6 DEF Cleared
<1>8. <<f.lane, h>> \in StandsFor(l, g) /\ f.lane \in {l, Unnamed} /\ h \in {g, Unnamed}
  BY <1>2 DEF StandsFor
<1>9. ASSUME OnlyOpen PROVE <<l, g>> \in Cleared(n, token)
  <2>1. OpenRows(rows[n])
    BY <1>9 DEF RowsOpen
  <2>2. h \in Groups \cup {Unnamed}
    BY <1>3
  <2>. HIDE DEF h
  <2>. QED  BY <1>1, <1>3, <1>7, <1>8, <2>1, <2>2, OpenCheck
<1>. QED  BY <1>7, <1>8, <1>9 DEF ClearedFor

\* More checks that pass clear for what fewer did.
LEMMA CoverGrows ==
    ASSUME NEW lane, NEW allow, NEW c, NEW d, c \subseteq d, Covers(lane, allow, c)
    PROVE  Covers(lane, allow, d)
<1>1. ASSUME NEW l, NEW g, ClearedFor(l, g, c) PROVE ClearedFor(l, g, d)
  BY <1>1 DEF ClearedFor
<1>. QED  BY <1>1 DEF Covers

\* Taking a request: what it leaves out stays as it was, and is cleared all the same.
LEMMA CoverCombines ==
    ASSUME NEW f \in LeaseRequest, NEW lane \in Lanes \cup {Unnamed}, NEW allow,
           allow \subseteq Groups, NEW c, Covers(f.lane, f.allow, c),
           lane # Unnamed => Covers(lane, allow, c),
           (IF f.lane = Unnamed THEN lane ELSE f.lane) # Unnamed
    PROVE  Covers(IF f.lane = Unnamed THEN lane ELSE f.lane,
                  IF f.allow = {} THEN allow ELSE f.allow, c)
<1>1. f.allow \subseteq Groups
  BY DEF LeaseRequest
<1>2. CASE f.lane = Unnamed /\ f.allow = {}
  BY <1>2
<1>3. CASE f.lane # Unnamed \/ f.allow # {}
  BY <1>1, <1>3 DEF Covers
<1>. QED  BY <1>2, <1>3

\* Later grants do not take back what a stream was cleared for.
LEMMA CoverStays ==
    ASSUME OnlyOpen' => OnlyOpen, NEW c
    PROVE  \A lane, allow : Covers(lane, allow, c) => Covers(lane, allow, c)'
<1>1. \A l, g : ClearedFor(l, g, c) => ClearedFor(l, g, c)'
  BY DEF ClearedFor
<1>. QED  BY <1>1 DEF Covers

\* A stream that holds nothing needs no grant.
LEMMA BlankCovered == ASSUME NEW v, Blank(v) PROVE Covered(v)
<1>1. v.recvCh = << >> /\ v.lane = Unnamed
  BY DEF Blank
<1>. QED  BY <1>1 DEF Covered

\* Every step keeps what a stream may lease within the grants of its token.
LEMMA CoveredStep ==
    ASSUME GrantedInv, [GatewayNext]_gatewayVars
    PROVE  /\ \A x \in Streams : Covered(work'[x])
           /\ \A x \in Streams : Within(work[x], work'[x]) \/ Lease(x)
<1>0. /\ AuthTyped /\ RowsOpen /\ StreamsOK /\ \A x \in Streams : Covered(work[x])
  BY DEF GrantedInv, CreditInv
<1>. DEFINE Kept == /\ \A x \in Streams : Covered(work'[x])
                    /\ \A x \in Streams : Within(work[x], work'[x]) \/ Lease(x)
<1>2. ASSUME NEW s \in Streams, OnlyStream(s), Covered(work'[s]),
             Within(work[s], work'[s]) \/ Lease(s)
      PROVE  Kept
  BY <1>0, <1>2 DEF OnlyStream, Within
<1>3. ASSUME work' = work PROVE Kept
  BY <1>0, <1>3 DEF Within
<1>. HIDE DEF Kept
<1>4. ASSUME NEW s \in Streams, OnlyStream(s), Blank(work'[s]) PROVE Kept
  <2>1. Within(work[s], work'[s])
    BY <1>4 DEF Within, Blank
  <2>. QED  BY <1>2, <1>4, <2>1, BlankCovered
<1>5. ASSUME NEW s \in Streams, OnlyStream(s), SameReader(work[s], work'[s]),
             SameTerms(work[s], work'[s])
      PROVE  Kept
  <2>1. Covered(work'[s]) /\ Within(work[s], work'[s])
    BY <1>0, <1>5 DEF SameReader, SameTerms, Covered, Within
  <2>. QED  BY <1>2, <1>5, <2>1
<1>6. ASSUME NEW s \in Streams, OnlyStream(s), NEW at, Moves(work[s], work'[s], at) PROVE Kept
  BY <1>5, <1>6 DEF Moves
<1>7. ASSUME NEW s \in Streams
      PROVE  /\ work[s].recvCh \in Seq(WorkClientMsg) /\ (work[s].open => work[s].node \in Nodes)
             /\ work[s].lane \in Lanes \cup {Unnamed} /\ work[s].allow \subseteq Groups
  BY <1>0 DEF StreamsOK, StreamOK
<1>8. ASSUME NEW s \in Streams, Refused(s) PROVE Kept
  BY <1>0, <1>5, <1>8, RefusedEffect DEF SameLoop
\* A frame at the end of the queue.
<1>80. ASSUME NEW s \in Streams, NEW f \in WorkClientMsg, OnlyStream(s),
              SameLoop(work[s], work'[s]), work'[s].recvCh = Append(work[s].recvCh, f),
              work'[s].held \subseteq work[s].held, work[s].cleared \subseteq work'[s].cleared,
              f.kind = "lease" => Covers(f.lane, f.allow, work'[s].cleared)
       PROVE  Kept
  <2>. DEFINE q == work[s].recvCh  p == work'[s].recvCh
  <2>1. /\ Len(p) = Len(q) + 1 /\ p[Len(q) + 1] = f /\ Len(q) \in Nat
        /\ \A i \in 1..Len(q) : p[i] = q[i]
    BY <1>7, <1>80, AppendFrame
  <2>2. \A i \in 1..Len(p) : i \in 1..Len(q) \/ i = Len(q) + 1
    BY <2>1
  <2>3. \A i \in 1..Len(q) : q[i].kind = "lease" => Covers(q[i].lane, q[i].allow, work[s].cleared)
    BY <1>0 DEF Covered
  <2>4. \A i \in 1..Len(p) : p[i].kind = "lease" => Covers(p[i].lane, p[i].allow, work'[s].cleared)
    BY <1>80, <2>1, <2>2, <2>3, CoverGrows
  <2>5. work'[s].lane # Unnamed => Covers(work'[s].lane, work'[s].allow, work'[s].cleared)
    BY <1>0, <1>80, CoverGrows DEF Covered, SameLoop, SameTerms
  <2>6. Covered(work'[s]) /\ Within(work[s], work'[s])
    BY <1>80, <2>4, <2>5 DEF Covered, Within
  <2>. QED  BY <1>2, <1>80, <2>6
<1>9. ASSUME NEW s \in Streams, NEW f \in Requests, RecvLeaseRequest(s, f) PROVE Kept
  <2>1. ASSUME ~Refused(s) PROVE Kept
    <3>1. Queues(s, f)
      BY <1>0, <1>9, <2>1, RecvLeaseEffect
    <3>2. f \in WorkClientMsg /\ f \in LeaseRequest
      BY FrameTypes, WorkStreamAssumption
    <3>3. work[s].node \in Nodes
      BY <1>7, <1>9 DEF RecvLeaseRequest, CanReceive
    <3>4. Covers(f.lane, f.allow, Cleared(work[s].node, work[s].token))
      BY <1>0, <3>1, <3>2, <3>3, ChecksCover DEF Queues
    <3>5. Covers(f.lane, f.allow, work'[s].cleared)
      BY <3>1, <3>4, CoverGrows DEF Queues
    <3>. QED  BY <1>80, <3>1, <3>2, <3>5 DEF Queues
  <2>. QED  BY <1>8, <2>1
<1>10. ASSUME NEW s \in Streams, NEW f \in Settlement, RecvSettlement(s, f) PROVE Kept
  <2>1. ASSUME ~Refused(s) PROVE Kept
    <3>1. Returned(s, f)
      BY <1>0, <1>10, <2>1, RecvSettlementEffect
    <3>2. f \in WorkClientMsg /\ f.kind # "lease"
      BY FrameTypes
    <3>. QED  BY <1>80, <3>1, <3>2 DEF Returned
  <2>. QED  BY <1>8, <2>1
<1>11. ASSUME NEW s \in Streams, work[s].recvCh # << >>, work'[s].recvCh = Tail(work[s].recvCh),
              OnlyStream(s), work'[s].held = work[s].held, work'[s].cleared = work[s].cleared,
              work'[s].lane # Unnamed => Covers(work'[s].lane, work'[s].allow, work[s].cleared)
       PROVE  Kept
  <2>. DEFINE q == work[s].recvCh  p == work'[s].recvCh
  <2>1. \A i \in 1..Len(p) : p[i] = q[i + 1] /\ i + 1 \in 1..Len(q)
    BY <1>7, <1>11, QueueEnds
  <2>2. \A i \in 1..Len(q) : q[i].kind = "lease" => Covers(q[i].lane, q[i].allow, work[s].cleared)
    BY <1>0 DEF Covered
  <2>3. Covered(work'[s]) /\ Within(work[s], work'[s])
    BY <1>11, <2>1, <2>2 DEF Covered, Within
  <2>. QED  BY <1>2, <1>11, <2>3
<1>12. ASSUME NEW s \in Streams, TakeLeaseRequest(s) PROVE Kept
  <2>. DEFINE f == Head(work[s].recvCh)
  <2>1. work[s].recvCh # << >> /\ f.kind = "lease"
    BY <1>12 DEF TakeLeaseRequest
  <2>2. f \in LeaseRequest /\ f = work[s].recvCh[1] /\ 1 \in 1..Len(work[s].recvCh)
    BY <1>7, <2>1, QueueEnds, FrameTypes
  <2>3. Covers(f.lane, f.allow, work[s].cleared)
    BY <1>0, <2>1, <2>2 DEF Covered
  <2>. HIDE DEF f
  <2>4. ASSUME TakesRequest(s, f) PROVE Kept
    <3>1. work'[s].lane # Unnamed => Covers(work'[s].lane, work'[s].allow, work[s].cleared)
      BY <1>0, <1>7, <2>2, <2>3, <2>4, CoverCombines DEF TakesRequest, Covered
    <3>. QED  BY <1>11, <2>1, <2>4, <3>1 DEF TakesRequest
  <2>. QED  BY <1>0, <1>4, <1>12, <2>4, TakeLeaseEffect DEF f
<1>13. ASSUME NEW s \in Streams, TakeSettlement(s) PROVE Kept
  <2>1. work[s].recvCh # << >> /\ TakesSettlement(s, Head(work[s].recvCh))
    BY <1>0, <1>13, TakeSettlementEffect DEF TakeSettlement
  <2>2. work'[s].lane # Unnamed => Covers(work'[s].lane, work'[s].allow, work[s].cleared)
    BY <1>0, <2>1 DEF TakesSettlement, SameTerms, Covered
  <2>. QED  BY <1>11, <2>1, <2>2 DEF TakesSettlement
<1>14. ASSUME NEW s \in Streams, Ticker(s) \/ Begin(s) PROVE Kept
  BY <1>0, <1>6, <1>14, TickerEffect, BeginEffect
<1>15. ASSUME NEW s \in Streams, Ensure(s) \/ Gate(s) PROVE Kept
  BY <1>0, <1>6, <1>15, EnsureEffect, GateEffect
<1>16. ASSUME NEW s \in Streams, Lease(s) PROVE Kept
  <2>1. OnlyStream(s) /\ Covered(work'[s])
    BY <1>0, <1>16, LeaseEffect DEF SameTerms, Covered
  <2>. QED  BY <1>2, <1>16, <2>1
<1>17. ASSUME NEW s \in Streams, LeaseEmpty(s) PROVE Kept
  BY <1>0, <1>6, <1>17, LeaseEmptyEffect
<1>18. ASSUME NEW s \in Streams, LeaseUnsent(s) \/ LeaseFails(s) \/ Close(s) PROVE Kept
  BY <1>0, <1>4, <1>18, EndEffect DEF LeaseUnsent, LeaseFails, Close
<1>19. ASSUME NEW s \in Streams, NEW n \in Nodes, NEW t, Dial(s, n, t) PROVE Kept
  BY <1>0, <1>4, <1>19, DialEffect
<1>20. CASE StreamNext
  <2>1. Kept
    BY <1>3, <1>9, <1>10, <1>12, <1>13, <1>14, <1>15, <1>16, <1>17, <1>18, <1>19, <1>20
       DEF StreamNext, Expire
  <2>. QED  BY <2>1 DEF Kept
<1>21. GateNext => work' = work
  BY DEF GateNext, SetLimit, Pause, Resume, SetLimitReads, SetLimitEnds, ClockTick, workVars
<1>22. UNCHANGED gatewayVars \/ UNCHANGED workVars => work' = work
  BY DEF gatewayVars, workVars
<1>. QED  BY <1>3, <1>20, <1>21, <1>22 DEF GatewayNext, Kept

\* Every step keeps the leases within the grants.
LEMMA GrantedStep == GrantedInv /\ [GatewayNext]_gatewayVars => GrantedInv'
<1>. SUFFICES ASSUME GrantedInv, [GatewayNext]_gatewayVars PROVE GrantedInv'
  OBVIOUS
<1>. DEFINE Sent == \A m \in Messages :
                Leased(m)' /\ holder'[m].lease \in work'[holder'[m].stream].held
                => ClearedFor(m.lane, m.group, work'[holder'[m].stream].cleared)
<1>0. /\ AuthTyped' /\ AuthTyped /\ RowsOpen /\ CreditInv' /\ CreditInv /\ StreamsOK /\ HolderShape /\ LeasesApart
      /\ StreamWithinGrants /\ \A x \in Streams : Covered(work[x])
  BY StepOfAuth, AuthTypedStep, CreditStep DEF GrantedInv, CreditInv
<1>1. \A x \in Streams : Covered(work'[x])
  BY CoveredStep
<1>a. (OnlyOpen' => OnlyOpen) /\ RowsOpen'
  BY <1>0, StepOfAuth, OpenStep
<1>b. (\A x \in Streams : Covered(work[x]))'
  <2>1. ASSUME NEW x \in Streams PROVE Covered(work[x])'
    <3>1. PICK v : v = work'[x]
      OBVIOUS
    <3>2. \A lane, allow : Covers(lane, allow, v.cleared) => Covers(lane, allow, v.cleared)'
      BY <1>a, CoverStays
    <3>3. Covered(v)
      BY <1>1, <3>1
    <3>4. Covered(v)'
      BY <3>2, <3>3 DEF Covered
    <3>. QED  BY <3>1, <3>4 DEF Covered
  <2>. QED  BY <2>1
<1>2. \A x \in Streams : Within(work[x], work'[x]) \/ Lease(x)
  BY CoveredStep
\* A lease that stays held is one that was held, or the one just given out.
<1>3. ASSUME NEW m \in Messages, Leased(m), holder'[m] = holder[m],
             holder[m].lease \in work'[holder[m].stream].held
      PROVE  ClearedFor(m.lane, m.group, work'[holder[m].stream].cleared)
  <2>. DEFINE x == holder[m].stream
  <2>1. holder[m].lease \in 1..leases /\ x \in Streams /\ leases \in Nat
    BY <1>0, <1>3, LeasedShape DEF HolderShape
  <2>2. holder[m].lease \in work[x].held => ClearedFor(m.lane, m.group, work[x].cleared)
    BY <1>0, <1>3 DEF StreamWithinGrants
  <2>3. CASE Within(work[x], work'[x])
    BY <1>3, <2>2, <2>3 DEF Within, ClearedFor
  <2>4. CASE Lease(x)
    <3>1. work'[x].held = work[x].held \cup {leases + 1} /\ work'[x].cleared = work[x].cleared
      BY <1>0, <2>1, <2>4, LeaseEffect
    <3>2. holder[m].lease # leases + 1
      BY <2>1
    <3>. QED  BY <1>3, <2>2, <3>1, <3>2
  <2>. QED  BY <1>2, <2>1, <2>3, <2>4
<1>4. ASSUME Frees PROVE Sent
  <2>1. \A m \in Messages : Leased(m)' => holder'[m] = holder[m]
    BY <1>0, <1>4, FreesKeeps
  <2>. QED  BY <1>3, <2>1 DEF Leased
<1>5. ASSUME NEW s \in Streams, Lease(s) \/ LeaseUnsent(s), NEW m \in Messages, HandsOut(s, m)
      PROVE  Sent
  <2>1. ASSUME NEW x \in Messages \ {m}, Leased(x)',
               holder'[x].lease \in work'[holder'[x].stream].held
        PROVE  ClearedFor(x.lane, x.group, work'[holder'[x].stream].cleared)
    <3>1. holder'[x] = holder[x]
      BY <1>5 DEF HandsOut
    <3>. QED  BY <1>3, <2>1, <3>1 DEF Leased
  <2>2. ASSUME holder'[m].lease \in work'[s].held
        PROVE  ClearedFor(m.lane, m.group, work'[s].cleared)
    <3>1. CASE LeaseUnsent(s)
      <4>1. work'[s].held = {}
        BY <1>0, <3>1, EndEffect DEF LeaseUnsent, Blank
      <4>. QED  BY <2>2, <4>1
    <3>2. CASE Lease(s)
      <4>1. work[s].at = "gated" /\ work'[s].cleared = work[s].cleared
        BY <1>0, <3>2, LeaseEffect
      <4>2. work[s].lane \in Lanes /\ Unnamed \notin Lanes
        BY <1>0, <4>1, AuthAssumption DEF StreamsOK, StreamOK, Calling
      <4>3. Covers(work[s].lane, work[s].allow, work[s].cleared)
        BY <1>0, <4>2 DEF Covered
      <4>4. /\ m.lane = work[s].lane /\ m.group \in Groups
            /\ work[s].allow # {} => m.group \in work[s].allow
        BY <1>5, WorkStreamAssumption DEF HandsOut, Eligible
      <4>. QED  BY <4>1, <4>2, <4>3, <4>4 DEF Covers
    <3>. QED  BY <1>5, <3>1, <3>2
  <2>3. holder'[m].stream = s
    BY <1>5 DEF HandsOut
  <2>. QED  BY <2>1, <2>2, <2>3
<1>. HIDE DEF Sent
<1>6. Sent
  BY <1>0, <1>4, <1>5, MessageSteps
<1>7. StreamWithinGrants'
  BY <1>6, <1>a DEF Sent, StreamWithinGrants, ClearedFor, Leased
<1>. QED  BY <1>0, <1>7, <1>a, <1>b DEF GrantedInv

\* What a worker is sent lies in a lane and a group that stand behind a check of its token
\* that passed when one of its lease requests came in: however several requests' lanes,
\* filters and omissions combine, however the frames queue, whatever it settles, and
\* however grants change meanwhile.  One of the two was checked by name; both were, or would
\* have been, unless a grant was given whose pattern matches the empty name and not all.
THEOREM WorkStaysWithinGrants == GatewaySpec => []StreamWithinGrants
<1>1. GatewayInit => GrantedInv
  <2>. SUFFICES ASSUME GatewayInit PROVE GrantedInv
    OBVIOUS
  <2>1. AuthTyped /\ CreditInv
    BY AuthTypedInit, CreditInit DEF GatewayInit
  <2>2. ~(Ready.lease > 0)
    BY DEF Ready
  <2>3. StreamWithinGrants
    BY <2>2 DEF GatewayInit, QueueInit, StreamWithinGrants, Leased
  <2>4. \A s \in Streams : Covered(work[s])
    BY ClosedBlank, BlankCovered DEF GatewayInit
  <2>5. RowsOpen
    BY DEF GatewayInit, AuthInit, RowsOpen, OpenRows
  <2>. QED  BY <2>1, <2>3, <2>4, <2>5 DEF GrantedInv
<1>2. GrantedInv => StreamWithinGrants
  BY DEF GrantedInv
<1>. QED  BY <1>1, <1>2, GrantedStep, PTL DEF GatewaySpec
=============================================================================
