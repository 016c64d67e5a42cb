----------------------------- MODULE RbacPolicy -----------------------------
(***************************************************************************)
(* Roles and what they grant: the casbin policy (internal/rbac), kept in   *)
(* the casbin_rule table and in the memory of the enforcer of every        *)
(* replica, with a Redis channel on which a replica that has changed the   *)
(* policy tells the others to load it again.                               *)
(*                                                                         *)
(* An edit clears the rules of its subject and adds the new ones one at a  *)
(* time, each a statement of its own and no transaction around them.  The  *)
(* steps of casbin's SyncedEnforcer (not in this repository) are those its *)
(* use relies on: a change writes the table, then the memory, then tells   *)
(* the others, and only when the memory has changed; a load reads the      *)
(* table and replaces the memory, and a change may come in between.        *)
(***************************************************************************)
EXTENDS Naturals, FiniteSets, Sequences

CONSTANTS
    Roles, SystemRoles, Users,
    Rights,     \* (object, action) pairs: of requests, of rules and of the catalog
    Perms,      \* those of the catalog
    NoPerm,     \* an id that is not in the catalog
    Matches,    \* <<q, p>>: q matches a rule for p, by keyMatch2 of the objects and
                \* by the action, which "*" in a rule leaves open
    Seed,       \* the rules the migrations insert
    Replicas,   \* API processes
    Admins,     \* concurrent edits
    MaxEdits,   \* bound: edits
    Faults      \* "db": a statement fails, "net": a message is not sent or lost,
                \* "crash": a replica restarts

ASSUME RbacAssumption ==
    /\ SystemRoles \subseteq Roles
    /\ Roles \cap Users = {} /\ Roles \cap Rights = {}
    /\ Perms \subseteq Rights
    /\ NoPerm \notin Perms
    /\ Matches \subseteq Rights \X Rights
    /\ \A p \in Perms : <<p, p>> \in Matches
    /\ Seed \subseteq (SystemRoles \X Rights) \cup (Users \X SystemRoles)
    /\ MaxEdits \in Nat
    /\ Faults \subseteq {"db", "net", "crash"}

\* p-rules and g-rules.  A p-rule may be for more than the catalog shows: the seed
\* gives admin everything under /api/v1 and inspector paths of his own.
Rules == (Roles \X Rights) \cup (Users \X Roles)

VARIABLES
    role,    \* roles rows
    rules,   \* casbin_rule
    memory,  \* the policy of each enforcer
    mail,    \* messages each replica has yet to take
    reload,  \* LoadPolicy of a replica: what it has read
    edit,    \* requests that change the policy
    edits,   \* edits so far (bound)
    wanted,  \* history: the rules the edits asked for
    clean    \* history: no edit was disturbed, by a fault or by another edit

vars == <<role, rules, memory, mail, reload, edit, edits, wanted, clean>>

Edits == [on : BOOLEAN, at : Replicas, clear : Seq(SUBSET Rules), add : SUBSET Rules]
Reloads == [on : BOOLEAN, read : SUBSET Rules]
NoReload == [on |-> FALSE, read |-> {}]
NoEdit(x) == [on |-> FALSE, at |-> x, clear |-> <<>>, add |-> {}]

TypeOK ==
    /\ role \in [Roles -> {"absent", "live", "deleted"}]
    /\ rules \in SUBSET Rules
    /\ memory \in [Replicas -> SUBSET Rules]
    /\ mail \in [Replicas -> Nat]
    /\ reload \in [Replicas -> Reloads]
    /\ edit \in [Admins -> Edits]
    /\ edits \in 0..MaxEdits
    /\ wanted \in SUBSET Rules
    /\ clean \in BOOLEAN

Init ==
    /\ role = [r \in Roles |-> IF r \in SystemRoles THEN "live" ELSE "absent"]
    /\ rules = Seed
    /\ memory = [x \in Replicas |-> Seed]
    /\ mail = [x \in Replicas |-> 0]
    /\ reload = [x \in Replicas |-> NoReload]
    /\ edit \in [Admins -> {NoEdit(x) : x \in Replicas}]
    /\ edits = 0
    /\ wanted = Seed
    /\ clean = TRUE

Idle(x) == mail[x] = 0 /\ ~reload[x].on
Busy(x) == \E a \in Admins : edit[a].on /\ edit[a].at = x

-----------------------------------------------------------------------------
(* The operations of the service: what they clear and what they add.       *)

GetRole(r) == role[r] = "live"
GetRoleByCode(r) == role[r] = "live"
RolesByIDs(asked) == {r \in asked : GetRole(r)}
PermissionsByIDs(asked) == asked \cap Perms
ListPermissions == Perms

\* The check asks for a live role; the UNIQUE code refuses that of a deleted one.
RoleCodeExists(r) == role[r] = "live"
InsertRole(r) == role[r] = "absent" /\ role' = [role EXCEPT ![r] = "live"]
SoftDeleteRole(r) == role' = [role EXCEPT ![r] = "deleted"]

HeldBy(s) == {g \in Rules : g[1] = s}

Cleared(clear) == UNION {clear[i] : i \in DOMAIN clear}

\* The replica x starts an edit.  It is disturbed by one of the same rules, and
\* by news of the others that x has yet to load.
Start(a, x, clear, add) ==
    /\ ~edit[a].on
    /\ edits < MaxEdits
    /\ edits' = edits + 1
    /\ edit' = [edit EXCEPT ![a] = [on |-> TRUE, at |-> x, clear |-> clear, add |-> add]]
    /\ clean' = (/\ clean /\ Idle(x)
                 /\ \A b \in Admins : edit[b].on =>
                       Cleared(clear) \cap (Cleared(edit[b].clear) \cup edit[b].add) = {})
    /\ UNCHANGED <<rules, memory, mail, reload>>

\* Mutant: the arguments of AddPolicy in another order.
SetPermissionsSwapped(a, x, r, perms) == Start(a, x, <<HeldBy(r)>>, perms \X {r})

SetPermissionsForRole(a, x, r, perms) == Start(a, x, <<HeldBy(r)>>, {r} \X perms)

SetRolesForUser(a, x, u, roles) == Start(a, x, <<HeldBy(u)>>, {u} \X roles)

\* Mutant: RemoveFilteredGroupingPolicy with the field of the user.
RemoveRoleAsUser(a, x, r) ==
    Start(a, x, <<HeldBy(r), HeldBy(r)>>, {})

\* The p-rules, then the g-rules.
RemoveRole(a, x, r) == Start(a, x, <<HeldBy(r), Users \X {r}>>, {})

CreateRole(r) ==
    /\ ~RoleCodeExists(r)
    /\ InsertRole(r)
    /\ UNCHANGED <<rules, memory, mail, reload, edit, edits, wanted, clean>>

\* PermissionsByIDs drops what is not in the catalog.
SetRolePermissions(a, x) ==
    \E r \in Roles, asked \in SUBSET (Perms \cup {NoPerm}) :
        /\ GetRole(r)
        /\ SetPermissionsForRole(a, x, r, PermissionsByIDs(asked))
        /\ wanted' = (wanted \ HeldBy(r)) \cup ({r} \X (asked \ {NoPerm}))
        /\ UNCHANGED role

\* RolesByIDs drops the roles that are deleted.
SetUserRoles(a, x) ==
    \E u \in Users, asked \in SUBSET Roles :
        /\ SetRolesForUser(a, x, u, RolesByIDs(asked))
        /\ wanted' = (wanted \ HeldBy(u)) \cup ({u} \X {r \in asked : role[r] = "live"})
        /\ UNCHANGED role

DeleteRole(a, x) ==
    \E r \in Roles \ SystemRoles :
        /\ GetRole(r)
        /\ SoftDeleteRole(r)
        /\ RemoveRole(a, x, r)
        /\ wanted' = {g \in wanted : r \notin {g[1], g[2]}}

-----------------------------------------------------------------------------
(* The steps of an edit, each under the lock of the enforcer of its replica. *)

\* What is left of a's edit; one with nothing left is over.
Continue(a, clear, add) ==
    edit' = [edit EXCEPT ![a] = IF clear = <<>> /\ add = {} THEN NoEdit(@.at)
                                ELSE [@ EXCEPT !.clear = clear, !.add = add]]

\* The others are told; one that is in the middle of an edit will load what it
\* is changing.
Tell(x) ==
    /\ mail' = [y \in Replicas |-> IF y = x THEN mail[y] ELSE mail[y] + 1]
    /\ clean' = (clean /\ \A y \in Replicas \ {x} : ~Busy(y))

\* RemoveFilteredPolicy and RemoveFilteredGroupingPolicy.
Clear(a) ==
    /\ edit[a].on /\ edit[a].clear # <<>>
    /\ LET x == edit[a].at
           gone == Head(edit[a].clear) IN
       /\ rules' = rules \ gone
       /\ memory' = [memory EXCEPT ![x] = @ \ gone]
       /\ IF memory[x] \cap gone # {} THEN Tell(x) ELSE UNCHANGED <<mail, clean>>
    /\ Continue(a, Tail(edit[a].clear), edit[a].add)
    /\ UNCHANGED <<role, reload, edits, wanted>>

\* AddPolicy and AddRoleForUser: a rule the memory has is not written.
Add(a) ==
    /\ edit[a].on /\ edit[a].clear = <<>>
    /\ \E g \in edit[a].add :
          /\ LET x == edit[a].at IN
             IF g \in memory[x] THEN UNCHANGED <<rules, memory, mail, clean>>
             ELSE /\ rules' = rules \cup {g}
                  /\ memory' = [memory EXCEPT ![x] = @ \cup {g}]
                  /\ Tell(x)
          /\ Continue(a, <<>>, edit[a].add \ {g})
    /\ UNCHANGED <<role, reload, edits, wanted>>

\* A statement fails: the edit stops where it is.
EditFails(a) ==
    /\ "db" \in Faults /\ edit[a].on
    /\ edit' = [edit EXCEPT ![a] = NoEdit(@.at)]
    /\ clean' = FALSE
    /\ UNCHANGED <<role, rules, memory, mail, reload, edits, wanted>>

-----------------------------------------------------------------------------
(* The watcher and its callback, LoadPolicy.                               *)

ReadPolicy(x) ==
    /\ mail[x] > 0 /\ ~reload[x].on
    /\ mail' = [mail EXCEPT ![x] = @ - 1]
    /\ reload' = [reload EXCEPT ![x] = [on |-> TRUE, read |-> rules]]
    /\ UNCHANGED <<role, rules, memory, edit, edits, wanted, clean>>

ApplyPolicy(x) ==
    /\ reload[x].on
    /\ memory' = [memory EXCEPT ![x] = reload[x].read]
    /\ reload' = [reload EXCEPT ![x] = NoReload]
    /\ UNCHANGED <<role, rules, mail, edit, edits, wanted, clean>>

\* The message is lost, or the load it asks for fails, which is ignored.
MissMessage(x) ==
    /\ "net" \in Faults /\ mail[x] > 0
    /\ mail' = [mail EXCEPT ![x] = @ - 1]
    /\ clean' = FALSE
    /\ UNCHANGED <<role, rules, memory, reload, edit, edits, wanted>>

\* NewEnforcer loads the policy before it listens.
Restart(x) ==
    /\ "crash" \in Faults
    /\ memory' = [memory EXCEPT ![x] = rules]
    /\ mail' = [mail EXCEPT ![x] = 0]
    /\ reload' = [reload EXCEPT ![x] = NoReload]
    /\ edit' = [a \in Admins |-> IF edit[a].at = x THEN NoEdit(x) ELSE edit[a]]
    /\ clean' = (clean /\ ~Busy(x))
    /\ UNCHANGED <<role, rules, edits, wanted>>

-----------------------------------------------------------------------------
(* What the replica x answers, from its memory and the roles rows.         *)

\* A role that is deleted is left out.
GetUserRoles(x, u) == {r \in Roles : GetRoleByCode(r) /\ <<u, r>> \in memory[x]}

\* What of the catalog is written in a rule of the role as it stands there.
GetRolePermissions(x, r) == {p \in ListPermissions : <<r, p>> \in memory[x]}

\* The matcher of the model, which knows nothing of the roles rows: a rule of a
\* role of the user matches.
Enforce(x, u, q) ==
    \E r \in Roles, p \in Rights :
        <<u, r>> \in memory[x] /\ <<r, p>> \in memory[x] /\ <<q, p>> \in Matches

\* GET /auth/me: every permission of the catalog is put to the enforcer, so that
\* what other rules match is among them.
Me(x, u) == [roles |-> GetUserRoles(x, u), permissions |-> {p \in ListPermissions : Enforce(x, u, p)}]

-----------------------------------------------------------------------------
Next ==
    \/ \E r \in Roles : CreateRole(r)
    \/ \E a \in Admins, x \in Replicas :
          SetRolePermissions(a, x) \/ SetUserRoles(a, x) \/ DeleteRole(a, x)
    \/ \E a \in Admins : Clear(a) \/ Add(a) \/ EditFails(a)
    \/ \E x \in Replicas : ReadPolicy(x) \/ ApplyPolicy(x) \/ MissMessage(x) \/ Restart(x)

Spec == Init /\ [][Next]_vars

-----------------------------------------------------------------------------
\* PolicyIsAsEdited: once the edits and the messages are through, the table is
\* what the edits asked for, and so are the decisions and the answers of every
\* replica, whatever edits ran at once on one replica and one after the other on
\* several (enforcer.go: a policy edited on one replica reloads the others, and an
\* edit replaces what its subject holds).  A user may do what matches a rule, as
\* last set, of a role that he was given and that still exists; /auth/me tells
\* the console just that; and of what it shows of a role nothing is denied.
PolicyIsAsEdited ==
    clean /\ (\A a \in Admins : ~edit[a].on) /\ (\A x \in Replicas : Idle(x)) =>
        /\ rules = wanted
        /\ \A x \in Replicas :
              /\ \A r \in Roles : GetRolePermissions(x, r) = {p \in Perms : <<r, p>> \in wanted}
              /\ \A u \in Users :
                    LET given == {r \in Roles : <<u, r>> \in wanted}
                        granted == {p \in Rights : \E r \in given : <<r, p>> \in wanted}
                        allowed == {q \in Rights : \E p \in granted : <<q, p>> \in Matches} IN
                    /\ \A r \in given : GetRole(r)
                    /\ {q \in Rights : Enforce(x, u, q)} = allowed
                    /\ Me(x, u) = [roles |-> given, permissions |-> allowed \cap Perms]
                    /\ \A r \in given : GetRolePermissions(x, r) \subseteq Me(x, u).permissions
=============================================================================
