-------------------------------- MODULE Auth --------------------------------
(***************************************************************************)
(* Replicated principals (internal/node/auth.go, internal/fsm/apply_auth): *)
(* administrators' calls on the leader, each node's copy of the rows, and  *)
(* the start of a node that is given a bootstrap token (cmdServe).         *)
(*                                                                         *)
(* A pattern is the set of names it matches, Unnamed standing for the      *)
(* empty string; a token is a number, BootToken the one nodes start with.  *)
(* A call authorises on the rows of the node it reaches, and is proposed   *)
(* later; an entry whose proposer gets an error may still commit.          *)
(***************************************************************************)
EXTENDS Integers, Sequences, FiniteSets, SequencesExt

CONSTANTS
    Nodes, NoNode,
    Names,              \* principal names, "root" among them
    Lanes, Groups,      \* names a check may mention
    Unnamed,            \* the empty lane or group of a check
    GrantsInUse,        \* grants administrators hand out
    TagsInUse,          \* tag sets administrators hand out
    Admins,             \* concurrent administrators
    MaxAuthLog          \* bound on the committed entries

BootstrapAdminPrincipal == "root"

AuthAction == {"publish", "consume", "complete", "configure", "read", "workflow",
               "admin"}
AuthGrant  == [lanes: SUBSET (Lanes \cup {Unnamed}),
               groups: SUBSET (Groups \cup {Unnamed}), actions: SUBSET AuthAction]
Tag        == {"administrator", "dashboard", "monitoring"}
AuthCheck  == [action: AuthAction, lane: Lanes \cup {Unnamed},
               group: Groups \cup {Unnamed}]

ASSUME AuthAssumption ==
    /\ NoNode \notin Nodes /\ BootstrapAdminPrincipal \in Names
    /\ Unnamed \notin Lanes \cup Groups
    /\ GrantsInUse \subseteq AuthGrant /\ TagsInUse \subseteq SUBSET Tag
    /\ MaxAuthLog \in Nat /\ IsFiniteSet(Admins)

VARIABLES
    leader,         \* the node that leads, or NoNode
    authLog,        \* committed CmdAuthPrincipal entries
    applied,        \* how many of them each node has applied
    rows,           \* each node's principal rows
    phase,          \* where cmdServe is on each node
    guarded,        \* the node is started with a bootstrap token
    calls,          \* administrators' calls
    retired,        \* history: <<name, token>> pairs rotated away in rows[n]
    misrevoked      \* history: a revoke took another grant than the one listed

authVars == <<leader, authLog, applied, rows, phase, guarded, calls, retired, misrevoked>>

BootToken == 0
NoToken   == -1
Absent    == [token |-> NoToken]
IdleCall  == [at |-> "idle", node |-> NoNode, cmd |-> Absent]

AuthPrincipal == [token: Nat, tags: SUBSET Tag, disabled: BOOLEAN,
                  grants: Seq(AuthGrant)]

-----------------------------------------------------------------------------
(* Decisions                                                               *)

Present(store) == {p \in Names : store[p] # Absent}

AuthEnabled(store) == Present(store) # {}

grantAllows(g, c) ==
    /\ g.actions \cap {"admin", c.action} # {}
    /\ c.lane \in g.lanes /\ c.group \in g.groups

principalAllows(p, c) ==
    \/ "administrator" \in p.tags
    \/ c.action = "read" /\ p.tags \cap {"dashboard", "monitoring"} # {}
    \/ \E i \in DOMAIN p.grants : grantAllows(p.grants[i], c)

\* requireAuth on AuthorizeToken: with no principal every call goes through.
Authorized(store, token, checks) ==
    \/ ~AuthEnabled(store)
    \/ \E p \in Present(store) :
          /\ store[p].token = token /\ ~store[p].disabled
          /\ \A c \in checks : principalAllows(store[p], c)

\* checksForUnary of the principal calls.
AdminCheck == [action |-> "admin", lane |-> Unnamed, group |-> Unnamed]

\* validateGrants: a grant names an action.
ValidGrant(g) == g.actions # {}

-----------------------------------------------------------------------------
(* applyAuthPrincipal: an entry that is refused changes nothing            *)

\* Mutant: create does not look for an existing row.
Creates_Anew(store, c) == c.op = "create"

Creates(store, c) == c.op = "create" /\ store[c.name] = Absent

\* Mutant: a new grant goes in front of the others.
Appended_First(grants, g) == <<g>> \o grants

Appended(grants, g) == Append(grants, g)

ApplyAuth(store, c) ==
    LET p == store[c.name]
    IN  CASE Creates(store, c) ->
               [store EXCEPT ![c.name] = [token |-> c.token, tags |-> c.tags,
                                          disabled |-> FALSE, grants |-> c.grants]]
          [] c.op = "rotate" /\ p # Absent ->
               [store EXCEPT ![c.name].token = c.token]
          [] c.op = "disable" /\ p # Absent ->
               [store EXCEPT ![c.name].disabled = c.disabled]
          [] c.op = "grant" /\ p # Absent ->
               [store EXCEPT ![c.name].grants = Appended(@, c.grant)]
          [] c.op = "revoke" /\ p # Absent /\ c.index <= Len(p.grants) ->
               [store EXCEPT ![c.name].grants = RemoveAt(@, c.index)]
          [] OTHER -> store

Retires(n, c) ==
    LET p == c.name
    IN  IF rows[n][p] # Absent /\ ApplyAuth(rows[n], c)[p].token # rows[n][p].token
        THEN {<<p, rows[n][p].token>>} ELSE {}

\* The revokes of a principal among the first k entries.
Revokes(name, k) ==
    Cardinality({i \in 1..k : authLog[i].op = "revoke" /\ authLog[i].name = name})

\* A revoke takes another grant than the one listed, though no other revoke of
\* the principal lies between the listing and it.
Misses(n, c) ==
    /\ c.op = "revoke" /\ Revokes(c.name, applied[n]) = c.revokes
    /\ LET grants == rows[n][c.name].grants
       IN  c.index > Len(grants) \/ grants[c.index] # c.grant

\* Node n applies the next entry, c.
ApplyAt(n, c) ==
    /\ rows' = [rows EXCEPT ![n] = ApplyAuth(@, c)]
    /\ applied' = [applied EXCEPT ![n] = @ + 1]
    /\ retired' = [retired EXCEPT ![n] = @ \cup Retires(n, c)]
    /\ misrevoked' = (misrevoked \/ Misses(n, c))

\* A node behind the log applies.
CatchUp(n) ==
    /\ phase[n] # "down" /\ applied[n] < Len(authLog)
    /\ ApplyAt(n, authLog[applied[n] + 1])
    /\ UNCHANGED <<leader, authLog, phase, guarded, calls>>

\* Entry c commits through n, which has applied everything before it.
Commit(n, c) ==
    /\ leader = n /\ applied[n] = Len(authLog) /\ Len(authLog) < MaxAuthLog
    /\ authLog' = Append(authLog, c)
    /\ ApplyAt(n, c)

-----------------------------------------------------------------------------
(* Administrators                                                          *)

Tokens == {rows[n][p].token : n \in Nodes, p \in Names} \cup {BootToken}

\* mintAuthToken: a token nobody has or had.
MintedToken ==
    LET Proposed == {authLog[i] : i \in DOMAIN authLog}
                      \cup {calls[a].cmd : a \in {x \in Admins : calls[x].at = "admitted"}}
        Used     == {c.token : c \in {x \in Proposed : x.op \in {"create", "rotate"}}}
    IN  CHOOSE t \in 1..(MaxAuthLog + Cardinality(Admins) + 1) : t \notin Used

ValidGrants == {g \in GrantsInUse : ValidGrant(g)}

CreatePrincipalRequest ==
    [op: {"create"}, name: Names, tags: TagsInUse,
     grants: {<<g>> : g \in ValidGrants} \cup {<< >>}, token: {MintedToken}]
RotatePrincipalTokenRequest == [op: {"rotate"}, name: Names, token: {MintedToken}]
SetPrincipalDisabledRequest == [op: {"disable"}, name: Names, disabled: BOOLEAN]
GrantPrincipalRequest       == [op: {"grant"}, name: Names, grant: ValidGrants]
\* What was listed, and when, stays with the command for the properties only.
RevokePrincipalGrantRequest(p, i, grant, revokes) ==
    [op |-> "revoke", name |-> p, index |-> i, grant |-> grant, revokes |-> revokes]

\* What the calls propose.
AuthPrincipalCmd ==
    CreatePrincipalRequest \cup RotatePrincipalTokenRequest
    \cup SetPrincipalDisabledRequest \cup GrantPrincipalRequest

\* AuthUnaryInterceptor, then LeaderGuardInterceptor.
Admitted(n, token) ==
    /\ phase[n] = "serving"
    /\ Authorized(rows[n], token, {AdminCheck})
    /\ leader = n

\* A call other than a revoke reaches the handler on n.
Call(a, n) ==
    /\ calls[a].at = "idle" /\ \E t \in Tokens : Admitted(n, t)
    /\ \E c \in AuthPrincipalCmd :
          calls' = [calls EXCEPT ![a] = [at |-> "admitted", node |-> n, cmd |-> c]]
    /\ UNCHANGED <<leader, authLog, applied, rows, phase, guarded, retired, misrevoked>>

\* ListPrincipals, which any node answers; the administrator picks a grant.
List(a, n) ==
    /\ calls[a].at = "idle" /\ phase[n] = "serving"
    /\ \E t \in Tokens : Authorized(rows[n], t, {AdminCheck})
    /\ \E p \in Present(rows[n]) : \E i \in DOMAIN rows[n][p].grants :
          calls' = [calls EXCEPT ![a] =
             [at |-> "listed", node |-> NoNode, cmd |->
                RevokePrincipalGrantRequest(p, i, rows[n][p].grants[i],
                                            Revokes(p, applied[n]))]]
    /\ UNCHANGED <<leader, authLog, applied, rows, phase, guarded, retired, misrevoked>>

\* RevokePrincipalGrant names the grant by its place.
CallRevoke(a, n) ==
    /\ calls[a].at = "listed" /\ \E t \in Tokens : Admitted(n, t)
    /\ calls' = [calls EXCEPT ![a].at = "admitted", ![a].node = n]
    /\ UNCHANGED <<leader, authLog, applied, rows, phase, guarded, retired, misrevoked>>

\* The handler proposes; the answer is the entry's result.
ProposeCall(a) ==
    /\ calls[a].at = "admitted"
    /\ Commit(calls[a].node, calls[a].cmd)
    /\ calls' = [calls EXCEPT ![a] = IdleCall]
    /\ UNCHANGED <<leader, phase, guarded>>

\* The proposal is answered with an error.
CallFails(a) ==
    /\ calls[a].at = "admitted" /\ leader # calls[a].node
    /\ calls' = [calls EXCEPT ![a] = IdleCall]
    /\ \/ UNCHANGED authLog
       \/ Len(authLog) < MaxAuthLog /\ authLog' = Append(authLog, calls[a].cmd)
    /\ UNCHANGED <<leader, applied, rows, phase, guarded, retired, misrevoked>>

-----------------------------------------------------------------------------
(* cmdServe                                                                *)

Enter(n, p) == phase' = [phase EXCEPT ![n] = p]

Open(n) ==
    /\ phase[n] = "down" /\ Enter(n, "opened")
    /\ UNCHANGED <<leader, authLog, applied, rows, guarded, calls, retired, misrevoked>>

\* WaitClusterLeader, then the two reads of BootstrapAuthAdmin.
Boot(n) ==
    /\ phase[n] = "opened" /\ leader # NoNode
    /\ Enter(n, IF ~guarded[n] THEN "serving"
                ELSE IF AuthEnabled(rows[n]) \/ leader # n THEN "waiting"
                ELSE "creating")
    /\ UNCHANGED <<leader, authLog, applied, rows, guarded, calls, retired, misrevoked>>

BootstrapCmd == [op |-> "create", name |-> BootstrapAdminPrincipal, token |-> BootToken,
                 tags |-> {"administrator"},
                 grants |-> <<[lanes |-> Lanes \cup {Unnamed},
                               groups |-> Groups \cup {Unnamed}, actions |-> {"admin"}]>>]

\* The administrator's row; serve gives up when it exists by now.
Bootstrap(n) ==
    /\ phase[n] = "creating"
    /\ Enter(n, IF rows[n][BootstrapAdminPrincipal] = Absent THEN "waiting" ELSE "down")
    /\ Commit(n, BootstrapCmd)
    /\ UNCHANGED <<leader, guarded, calls>>

\* waitAuthEnabled.
Serve(n) ==
    /\ phase[n] = "waiting" /\ AuthEnabled(rows[n]) /\ Enter(n, "serving")
    /\ UNCHANGED <<leader, authLog, applied, rows, guarded, calls, retired, misrevoked>>

\* A wait that runs out, a proposal that fails, or a crash; calls in it fail.
Exit(n) ==
    /\ phase[n] # "down" /\ Enter(n, "down")
    /\ leader' = IF leader = n THEN NoNode ELSE leader
    /\ UNCHANGED <<authLog, applied, rows, guarded, calls, retired, misrevoked>>

\* Raft moves the leadership; entries that committed are kept.
Elect(n) ==
    /\ phase[n] # "down" /\ leader # n /\ leader' = n
    /\ UNCHANGED <<authLog, applied, rows, phase, guarded, calls, retired, misrevoked>>

-----------------------------------------------------------------------------
(* Specification                                                           *)

AuthInit ==
    /\ leader = NoNode /\ authLog = << >>
    /\ applied = [n \in Nodes |-> 0]
    /\ rows = [n \in Nodes |-> [p \in Names |-> Absent]]
    /\ phase = [n \in Nodes |-> "down"] /\ guarded \in [Nodes -> BOOLEAN]
    /\ calls = [a \in Admins |-> IdleCall]
    /\ retired = [n \in Nodes |-> {}] /\ misrevoked = FALSE

AuthNext ==
    \/ \E n \in Nodes :
          \/ Open(n) \/ Boot(n) \/ Bootstrap(n) \/ Serve(n) \/ Exit(n) \/ Elect(n)
          \/ CatchUp(n)
          \/ \E a \in Admins : Call(a, n) \/ List(a, n) \/ CallRevoke(a, n)
    \/ \E a \in Admins : ProposeCall(a) \/ CallFails(a)

AuthSpec == AuthInit /\ [][AuthNext]_authVars

-----------------------------------------------------------------------------
(* Properties                                                              *)

\* Types.
AuthTypeOK ==
    /\ leader \in Nodes \cup {NoNode}
    /\ \A n \in Nodes : applied[n] \in 0..Len(authLog)
    /\ \A n \in Nodes : \A p \in Present(rows[n]) : rows[n][p] \in AuthPrincipal
    /\ phase \in [Nodes -> {"down", "opened", "creating", "waiting", "serving"}]
    /\ guarded \in [Nodes -> BOOLEAN] /\ misrevoked \in BOOLEAN

\* A token that was rotated away is never again the principal's, on any node:
\* a node that boots or takes the lead late and finds no principal in its own
\* rows does not put the bootstrap token back.
RotationSticks ==
    \A n \in Nodes : \A p \in Present(rows[n]) :
        <<p, rows[n][p].token>> \notin retired[n]

\* A revoke by place takes the grant the administrator saw there, whatever was
\* granted since, unless another revoke came first.
RevokesNamed == ~misrevoked
=============================================================================
