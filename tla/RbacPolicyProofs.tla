-------------------------- MODULE RbacPolicyProofs --------------------------
(***************************************************************************)
(* Proofs about RbacPolicy, for every set of roles, users, permissions and *)
(* replicas and any number of concurrent edits: once everything that was   *)
(* started is through, all replicas decide what the edits asked for.       *)
(***************************************************************************)
EXTENDS RbacPolicy, SequenceTheorems, TLAPS

-----------------------------------------------------------------------------
(* The inductive invariant.                                                *)

\* What the edits under way have yet to clear and to add.
Doing == {a \in Admins : edit[a].on}
ToClear == UNION {Cleared(edit[a].clear) : a \in Doing}
ToAdd == UNION {edit[a].add : a \in Doing}

\* A replica with no news to load has the table in its memory, and one that
\* has taken the last of them is about to.
MemoryInv ==
    \A x \in Replicas :
        /\ Idle(x) => memory[x] = rules
        /\ reload[x].on /\ mail[x] = 0 => reload[x].read = rules

\* Edits run where there are no news, each on rules of its own.
EditInv ==
    /\ \A a \in Doing : Idle(edit[a].at)
    /\ \A a, b \in Doing : a # b => Cleared(edit[a].clear) \cap edit[b].add = {}

\* The table, when all that is under way is done.
TableInv == wanted = (rules \ ToClear) \cup ToAdd

\* What is wanted names no role that is deleted.
WantedInv == \A u \in Users, r \in Roles : <<u, r>> \in wanted => GetRole(r)

IInv ==
    /\ TypeOK
    /\ clean => MemoryInv /\ EditInv /\ TableInv
    /\ WantedInv

-----------------------------------------------------------------------------
(* What is left of an edit.                                                *)

LEMMA ClearedEmpty == Cleared(<<>>) = {}
BY DEF Cleared

LEMMA ClearedTail ==
    ASSUME NEW s \in Seq(SUBSET Rules), s # <<>>
    PROVE  Cleared(s) = Head(s) \cup Cleared(Tail(s))
<1>1. /\ Len(s) \in Nat \ {0} /\ DOMAIN s = 1..Len(s)
      /\ Tail(s) \in Seq(SUBSET Rules) /\ Len(Tail(s)) = Len(s) - 1
      /\ \A i \in 1..Len(Tail(s)) : Tail(s)[i] = s[i + 1]
      /\ DOMAIN Tail(s) = 1..Len(Tail(s))
  BY HeadTailProperties, LenProperties, EmptySeq
<1>2. Head(s) = s[1]
  BY <1>1
<1>3. \A i \in DOMAIN s : i = 1 \/ (i - 1 \in DOMAIN Tail(s) /\ Tail(s)[i - 1] = s[i])
  BY <1>1
<1>4. \A i \in DOMAIN Tail(s) : i + 1 \in DOMAIN s /\ Tail(s)[i] = s[i + 1]
  BY <1>1
<1>5. ASSUME NEW g \in Cleared(s) PROVE g \in Head(s) \cup Cleared(Tail(s))
  BY <1>2, <1>3 DEF Cleared
<1>6. ASSUME NEW g \in Head(s) \cup Cleared(Tail(s)) PROVE g \in Cleared(s)
  BY <1>1, <1>2, <1>4 DEF Cleared
<1> QED
  BY <1>5, <1>6

LEMMA ClearedOneOrTwo ==
    ASSUME NEW S \in SUBSET Rules, NEW T \in SUBSET Rules
    PROVE  /\ <<S>> \in Seq(SUBSET Rules) /\ Cleared(<<S>>) = S
           /\ <<S, T>> \in Seq(SUBSET Rules) /\ Cleared(<<S, T>>) = S \cup T
<1>1. DOMAIN <<S>> = {1} /\ DOMAIN <<S, T>> = {1, 2}
  OBVIOUS
<1> QED
  BY <1>1 DEF Cleared

ClearedBy(A) == UNION {Cleared(edit[b].clear) : b \in A}
AddedBy(A) == UNION {edit[b].add : b \in A}

\* An edit moves on: of the others nothing changes.
LEMMA ContinueStep ==
    ASSUME TypeOK, NEW a \in Doing, NEW clear \in Seq(SUBSET Rules), NEW add \in SUBSET Rules,
           Continue(a, clear, add)
    PROVE  /\ edit' \in [Admins -> Edits]
           /\ \A b \in Doing' : /\ b \in Doing
                                /\ edit'[b].at = edit[b].at
                                /\ b # a => edit'[b] = edit[b]
                                /\ b = a => edit'[b].clear = clear /\ edit'[b].add = add
           /\ ToClear' = ClearedBy(Doing \ {a}) \cup Cleared(clear)
           /\ ToAdd' = AddedBy(Doing \ {a}) \cup add
<1>1. /\ a \in Admins /\ edit[a] \in Edits /\ edit[a].at \in Replicas /\ edit[a].on
  BY DEF TypeOK, Edits, Doing
<1>2. /\ \A b \in Admins \ {a} : edit'[b] = edit[b]
      /\ edit'[a] = IF clear = <<>> /\ add = {} THEN NoEdit(edit[a].at)
                    ELSE [edit[a] EXCEPT !.clear = clear, !.add = add]
      /\ DOMAIN edit' = Admins
      /\ edit' = [edit EXCEPT ![a] = edit'[a]]
  BY <1>1 DEF Continue, TypeOK
<1>3. CASE clear = <<>> /\ add = {}
  <2>1. edit'[a] \in Edits /\ ~edit'[a].on
    BY <1>1, <1>2, <1>3, EmptySeq DEF NoEdit, Edits
  <2>2. Doing' = Doing \ {a}
    BY <1>2, <2>1 DEF Doing
  <2>3. edit' \in [Admins -> Edits]
    BY <1>2, <2>1 DEF TypeOK
  <2>4. Cleared(clear) = {}
    BY <1>3, ClearedEmpty
  <2> QED
    BY <1>2, <1>3, <2>2, <2>3, <2>4 DEF ToClear, ToAdd, ClearedBy, AddedBy, Doing
<1>4. CASE ~(clear = <<>> /\ add = {})
  <2>1. /\ edit'[a] \in Edits /\ edit'[a].on /\ edit'[a].at = edit[a].at
        /\ edit'[a].clear = clear /\ edit'[a].add = add
    BY <1>1, <1>2, <1>4 DEF Edits
  <2>2. Doing' = Doing
    BY <1>1, <1>2, <2>1 DEF Doing
  <2>3. edit' \in [Admins -> Edits]
    BY <1>2, <2>1 DEF TypeOK
  <2>4. \A b \in Doing \ {a} : edit'[b] = edit[b]
    BY <1>2 DEF Doing
  <2>5. ToClear' = ClearedBy(Doing \ {a}) \cup Cleared(clear)
    BY <2>1, <2>2, <2>4 DEF ToClear, ClearedBy, Cleared
  <2>6. ToAdd' = AddedBy(Doing \ {a}) \cup add
    BY <2>1, <2>2, <2>4 DEF ToAdd, AddedBy
  <2> QED
    BY <2>1, <2>2, <2>3, <2>4, <2>5, <2>6
<1> QED
  BY <1>3, <1>4

-----------------------------------------------------------------------------
(* The start of an edit.                                                   *)

LEMMA StartStep ==
    ASSUME IInv, NEW a \in Admins, NEW x \in Replicas,
           NEW clear \in Seq(SUBSET Rules), NEW add \in SUBSET Rules, add \subseteq Cleared(clear),
           Start(a, x, clear, add),
           wanted' = (wanted \ Cleared(clear)) \cup add, wanted' \in SUBSET Rules,
           role' \in [Roles -> {"absent", "live", "deleted"}], WantedInv'
    PROVE  IInv'
<1> DEFINE e == [on |-> TRUE, at |-> x, clear |-> clear, add |-> add]
<1>1. /\ a \notin Doing /\ edits' = edits + 1 /\ edits < MaxEdits
      /\ edit' = [edit EXCEPT ![a] = e]
      /\ rules' = rules /\ memory' = memory /\ mail' = mail /\ reload' = reload
      /\ clean' \in BOOLEAN
      /\ clean' => /\ clean /\ Idle(x)
                   /\ \A b \in Doing :
                         Cleared(clear) \cap (Cleared(edit[b].clear) \cup edit[b].add) = {}
  BY DEF Start, Doing
<1>2. e \in Edits
  BY DEF Edits
<1>3. TypeOK'
  BY <1>1, <1>2, RbacAssumption DEF IInv, TypeOK, RbacAssumption
<1>4. /\ edit'[a] = e /\ \A b \in Admins \ {a} : edit'[b] = edit[b]
      /\ Doing' = Doing \cup {a}
  BY <1>1, <1>2 DEF IInv, TypeOK, Doing
<1> USE <1>4
<1>5. ASSUME clean' PROVE MemoryInv' /\ EditInv' /\ TableInv'
  <2>1. /\ MemoryInv /\ EditInv /\ TableInv /\ Idle(x)
        /\ \A b \in Doing : Cleared(clear) \cap (Cleared(edit[b].clear) \cup edit[b].add) = {}
    BY <1>1, <1>5 DEF IInv
  <2>2. MemoryInv'
    BY <1>1, <2>1 DEF MemoryInv, Idle
  <2>3. \A b \in Doing : edit'[b] = edit[b]
    BY <1>1 DEF Doing
  <2>4. \A b \in Doing' : edit'[b].at = x \/ (b \in Doing /\ edit'[b] = edit[b])
    BY <1>1, <2>3
  <2>5. EditInv'
    <3>1. \A b \in Doing' : Idle(edit[b].at)'
      BY <1>1, <2>1, <2>4 DEF EditInv, Idle
    <3>2. \A b, c \in Doing' : b # c => Cleared(edit'[b].clear) \cap edit'[c].add = {}
      BY <1>1, <2>1, <2>3 DEF EditInv
    <3> QED
      BY <3>1, <3>2 DEF EditInv, Cleared
  <2>6. ToClear' = ToClear \cup Cleared(clear) /\ ToAdd' = ToAdd \cup add
    BY <1>4, <2>3 DEF ToClear, ToAdd, Cleared
  <2>7. Cleared(clear) \cap ToAdd = {}
    BY <2>1 DEF ToAdd
  <2>8. TableInv'
    BY <1>1, <2>1, <2>6, <2>7 DEF TableInv
  <2> QED
    BY <2>2, <2>5, <2>8
<1> QED
  BY <1>3, <1>5 DEF IInv

LEMMA HeldRules ==
    /\ \A s : HeldBy(s) \in SUBSET Rules
    /\ \A r \in Roles, P \in SUBSET Rights : {r} \X P \in SUBSET Rules /\ {r} \X P \subseteq HeldBy(r)
    /\ \A u \in Users, R \in SUBSET Roles : {u} \X R \in SUBSET Rules /\ {u} \X R \subseteq HeldBy(u)
    /\ \A r \in Roles : Users \X {r} \in SUBSET Rules
BY DEF HeldBy, Rules

LEMMA SetRolePermissionsStep ==
    ASSUME IInv, NEW a \in Admins, NEW x \in Replicas, SetRolePermissions(a, x)
    PROVE  IInv'
<1>1. PICK r \in Roles, asked \in SUBSET (Perms \cup {NoPerm}) :
         /\ Start(a, x, <<HeldBy(r)>>, {r} \X (asked \cap Perms))
         /\ wanted' = (wanted \ HeldBy(r)) \cup ({r} \X (asked \ {NoPerm}))
         /\ role' = role
  BY DEF SetRolePermissions, SetPermissionsForRole, PermissionsByIDs
<1> DEFINE add == {r} \X (asked \cap Perms)
<1>2. /\ <<HeldBy(r)>> \in Seq(SUBSET Rules) /\ Cleared(<<HeldBy(r)>>) = HeldBy(r)
      /\ add \in SUBSET Rules /\ add \subseteq HeldBy(r)
  <2>1. asked \cap Perms \in SUBSET Rights
    BY RbacAssumption DEF RbacAssumption
  <2> QED
    BY <2>1, HeldRules, ClearedOneOrTwo
<1>3. asked \cap Perms = asked \ {NoPerm}
  BY RbacAssumption DEF RbacAssumption
<1>4. wanted' = (wanted \ HeldBy(r)) \cup add /\ wanted' \in SUBSET Rules
  BY <1>1, <1>2, <1>3 DEF IInv, TypeOK
<1>5. WantedInv'
  <2>1. \A u \in Users, s \in Roles : <<u, s>> \notin add
    BY RbacAssumption DEF RbacAssumption
  <2> QED
    BY <1>1, <1>4, <2>1 DEF IInv, WantedInv, GetRole
<1>6. role' \in [Roles -> {"absent", "live", "deleted"}]
  BY <1>1 DEF IInv, TypeOK
<1> DEFINE clear == <<HeldBy(r)>>
<1>7. /\ clear \in Seq(SUBSET Rules) /\ add \in SUBSET Rules /\ add \subseteq Cleared(clear)
      /\ Start(a, x, clear, add)
      /\ wanted' = (wanted \ Cleared(clear)) \cup add
  BY <1>1, <1>2, <1>4
<1> HIDE DEF clear, add
<1> QED
  BY <1>4, <1>5, <1>6, <1>7, StartStep

LEMMA SetUserRolesStep ==
    ASSUME IInv, NEW a \in Admins, NEW x \in Replicas, SetUserRoles(a, x)
    PROVE  IInv'
<1>1. PICK u \in Users, asked \in SUBSET Roles :
         /\ Start(a, x, <<HeldBy(u)>>, {u} \X RolesByIDs(asked))
         /\ wanted' = (wanted \ HeldBy(u)) \cup ({u} \X {r \in asked : role[r] = "live"})
         /\ role' = role
  BY DEF SetUserRoles, SetRolesForUser
<1> DEFINE add == {u} \X RolesByIDs(asked)
<1>2. RolesByIDs(asked) \in SUBSET Roles /\ \A r \in RolesByIDs(asked) : GetRole(r)
  BY DEF RolesByIDs
<1>3. /\ <<HeldBy(u)>> \in Seq(SUBSET Rules) /\ Cleared(<<HeldBy(u)>>) = HeldBy(u)
      /\ add \in SUBSET Rules /\ add \subseteq HeldBy(u)
  BY <1>2, HeldRules, ClearedOneOrTwo
<1>4. wanted' = (wanted \ HeldBy(u)) \cup add /\ wanted' \in SUBSET Rules
  BY <1>1, <1>3 DEF IInv, TypeOK, RolesByIDs, GetRole
<1>5. WantedInv'
  BY <1>1, <1>2, <1>4 DEF IInv, WantedInv, GetRole
<1>6. role' \in [Roles -> {"absent", "live", "deleted"}]
  BY <1>1 DEF IInv, TypeOK
<1> DEFINE clear == <<HeldBy(u)>>
<1>7. /\ clear \in Seq(SUBSET Rules) /\ add \in SUBSET Rules /\ add \subseteq Cleared(clear)
      /\ Start(a, x, clear, add)
      /\ wanted' = (wanted \ Cleared(clear)) \cup add
  BY <1>1, <1>3, <1>4
<1> HIDE DEF clear, add
<1> QED
  BY <1>4, <1>5, <1>6, <1>7, StartStep

LEMMA DeleteRoleStep ==
    ASSUME IInv, NEW a \in Admins, NEW x \in Replicas, DeleteRole(a, x)
    PROVE  IInv'
<1>1. PICK r \in Roles :
         /\ SoftDeleteRole(r)
         /\ Start(a, x, <<HeldBy(r), Users \X {r}>>, {})
         /\ wanted' = {g \in wanted : r \notin {g[1], g[2]}}
  BY DEF DeleteRole, RemoveRole
<1> DEFINE clear == <<HeldBy(r), Users \X {r}>>
<1>2. clear \in Seq(SUBSET Rules) /\ Cleared(clear) = HeldBy(r) \cup (Users \X {r})
  BY HeldRules, ClearedOneOrTwo
<1>3. ASSUME NEW g \in Rules PROVE r \in {g[1], g[2]} <=> g \in Cleared(clear)
  BY <1>2, RbacAssumption DEF Rules, HeldBy, RbacAssumption
<1>4. wanted' = (wanted \ Cleared(clear)) \cup {} /\ wanted' \in SUBSET Rules
  BY <1>1, <1>3 DEF IInv, TypeOK
<1>5. role' \in [Roles -> {"absent", "live", "deleted"}]
  BY <1>1 DEF SoftDeleteRole, IInv, TypeOK
<1>6. WantedInv'
  <2>1. ASSUME NEW u \in Users, NEW s \in Roles, <<u, s>> \in wanted' PROVE GetRole(s)'
    <3>1. <<u, s>> \in wanted /\ s # r
      BY <1>1, <2>1
    <3> QED
      BY <1>1, <3>1 DEF IInv, TypeOK, WantedInv, GetRole, SoftDeleteRole
  <2> QED
    BY <2>1 DEF WantedInv
<1>7. Start(a, x, clear, {})
  BY <1>1
<1> HIDE DEF clear
<1>8. {} \in SUBSET Rules /\ {} \subseteq Cleared(clear)
  OBVIOUS
<1> QED
  BY <1>2, <1>4, <1>5, <1>6, <1>7, <1>8, StartStep

LEMMA CreateRoleStep ==
    ASSUME IInv, NEW r \in Roles, CreateRole(r)
    PROVE  IInv'
<1>1. /\ role' = [role EXCEPT ![r] = "live"]
      /\ UNCHANGED <<rules, memory, mail, reload, edit, edits, wanted, clean>>
  BY DEF CreateRole, InsertRole
<1>2. TypeOK'
  BY <1>1 DEF IInv, TypeOK
<1>3. clean => MemoryInv' /\ EditInv' /\ TableInv'
  BY <1>1 DEF IInv, MemoryInv, EditInv, TableInv, ToClear, ToAdd, Doing, Cleared, Idle
<1>4. WantedInv'
  BY <1>1 DEF IInv, TypeOK, WantedInv, GetRole
<1> QED
  BY <1>1, <1>2, <1>3, <1>4 DEF IInv

-----------------------------------------------------------------------------
(* The steps of an edit.                                                   *)

\* A change that concerns the memory of x is told to the others; one that does
\* not is none.
Changes(x) ==
    \/ UNCHANGED <<rules, memory, mail, clean>>
    \/ /\ memory' = [memory EXCEPT ![x] = memory'[x]]
       /\ memory[x] = rules => memory'[x] = rules'
       /\ Tell(x)

LEMMA ChangeStep ==
    ASSUME IInv, NEW a \in Doing, NEW x \in Replicas, x = edit[a].at,
           Changes(x), reload' = reload, clean',
           \A b \in Doing' : b \in Doing /\ edit'[b].at = edit[b].at
    PROVE  /\ clean /\ MemoryInv /\ EditInv /\ TableInv /\ memory[x] = rules
           /\ MemoryInv' /\ \A b \in Doing' : Idle(edit[b].at)'
<1>1. TypeOK /\ a \in Admins /\ edit[a].on
  BY DEF IInv, TypeOK, Edits, Doing
<1>2. clean
  BY DEF Changes, Tell
<1>3. MemoryInv /\ EditInv /\ TableInv
  BY <1>2 DEF IInv
<1>4. Idle(x) /\ memory[x] = rules
  BY <1>1, <1>3 DEF EditInv, MemoryInv
<1>5. CASE UNCHANGED <<rules, memory, mail, clean>>
  BY <1>3, <1>5 DEF MemoryInv, EditInv, Idle
<1>6. CASE Tell(x) /\ memory' = [memory EXCEPT ![x] = memory'[x]] /\ memory'[x] = rules'
  <2>1. /\ mail'[x] = mail[x]
        /\ \A y \in Replicas \ {x} : mail'[y] > 0
    BY <1>1, <1>6 DEF Tell, TypeOK
  <2>2. MemoryInv'
    BY <1>1, <1>4, <1>6, <2>1 DEF MemoryInv, Idle
  <2>3. \A b \in Doing : edit[b].at = x
    BY <1>1, <1>6 DEF Tell, Busy, Doing, TypeOK, Edits
  <2>4. Idle(x)'
    BY <1>4, <2>1 DEF Idle
  <2> QED
    BY <1>2, <1>3, <1>4, <2>2, <2>3, <2>4 DEF Idle
<1>7. \/ UNCHANGED <<rules, memory, mail, clean>>
      \/ Tell(x) /\ memory' = [memory EXCEPT ![x] = memory'[x]] /\ memory'[x] = rules'
  BY <1>4 DEF Changes
<1> QED
  BY <1>2, <1>3, <1>4, <1>5, <1>6, <1>7

LEMMA TellTyped ==
    ASSUME TypeOK, NEW x \in Replicas, Changes(x) \/ UNCHANGED <<mail, clean>> \/ Tell(x)
    PROVE  mail' \in [Replicas -> Nat] /\ clean' \in BOOLEAN
<1>1. CASE UNCHANGED <<mail, clean>>
  BY <1>1 DEF TypeOK
<1>2. CASE Tell(x)
  <2>1. mail' \in [Replicas -> Nat]
    BY <1>2 DEF TypeOK, Tell
  <2> QED
    BY <1>2, <2>1 DEF Tell
<1> QED
  BY <1>1, <1>2 DEF Changes

LEMMA ClearStep ==
    ASSUME IInv, NEW a \in Admins, Clear(a)
    PROVE  IInv'
<1>0. PICK x \in Replicas, s \in Seq(SUBSET Rules) : x = edit[a].at /\ s = edit[a].clear
  BY DEF IInv, TypeOK, Edits
<1> DEFINE gone == Head(s)
<1>1. /\ TypeOK /\ a \in Doing /\ edit[a] \in Edits
      /\ s \in Seq(SUBSET Rules) /\ s # <<>> /\ edit[a].add \in SUBSET Rules
  BY <1>0 DEF Clear, IInv, TypeOK, Edits, Doing
<1>2. gone \in SUBSET Rules /\ Tail(s) \in Seq(SUBSET Rules) /\ Cleared(s) = gone \cup Cleared(Tail(s))
  BY <1>1, HeadTailProperties, ClearedTail
<1>3. /\ rules' = rules \ gone
      /\ memory' = [memory EXCEPT ![x] = @ \ gone]
      /\ IF memory[x] \cap gone # {} THEN Tell(x) ELSE UNCHANGED <<mail, clean>>
      /\ Continue(a, Tail(s), edit[a].add)
      /\ UNCHANGED <<role, reload, edits, wanted>>
  BY <1>0 DEF Clear
<1>4. /\ edit' \in [Admins -> Edits]
      /\ \A b \in Doing' : /\ b \in Doing
                           /\ edit'[b].at = edit[b].at
                           /\ b # a => edit'[b] = edit[b]
                           /\ b = a => edit'[b].clear = Tail(s) /\ edit'[b].add = edit[a].add
      /\ ToClear' = ClearedBy(Doing \ {a}) \cup Cleared(Tail(s))
      /\ ToAdd' = AddedBy(Doing \ {a}) \cup edit[a].add
  BY <1>1, <1>2, <1>3, ContinueStep
<1>5. TypeOK'
  BY <1>1, <1>2, <1>3, <1>4, TellTyped DEF TypeOK
<1>6. WantedInv'
  BY <1>3 DEF IInv, WantedInv, GetRole
<1>7. ASSUME clean' PROVE MemoryInv' /\ EditInv' /\ TableInv'
  <2>1. clean
    BY <1>3, <1>7 DEF Tell
  <2>2. memory[x] = rules
    BY <1>0, <1>1, <2>1 DEF IInv, EditInv, MemoryInv
  <2>3. Changes(x)
    <3>1. CASE memory[x] \cap gone # {}
      BY <1>1, <1>3, <3>1 DEF Changes, TypeOK
    <3>2. CASE memory[x] \cap gone = {}
      BY <1>1, <1>3, <2>2, <3>2 DEF Changes, TypeOK
    <3> QED
      BY <3>1, <3>2
  <2>4. /\ EditInv /\ TableInv
        /\ MemoryInv' /\ \A b \in Doing' : Idle(edit[b].at)'
    BY <1>0, <1>1, <1>3, <1>4, <1>7, <2>3, ChangeStep
  <2>5. \A b \in Doing' : /\ Cleared(edit'[b].clear) \subseteq Cleared(edit[b].clear)
                          /\ edit'[b].add = edit[b].add
    BY <1>0, <1>2, <1>4
  <2>6. EditInv'
    BY <1>4, <2>4, <2>5 DEF EditInv, Cleared
  <2>7. ToClear = ClearedBy(Doing \ {a}) \cup Cleared(s) /\ ToAdd = AddedBy(Doing \ {a}) \cup edit[a].add
    BY <1>0, <1>1 DEF ToClear, ToAdd, ClearedBy, AddedBy
  <2>8. TableInv'
    BY <1>2, <1>3, <1>4, <2>4, <2>7 DEF TableInv
  <2> QED
    BY <2>4, <2>6, <2>8
<1> QED
  BY <1>5, <1>6, <1>7 DEF IInv

LEMMA AddStep ==
    ASSUME IInv, NEW a \in Admins, Add(a)
    PROVE  IInv'
<1>0. PICK x \in Replicas : x = edit[a].at
  BY DEF IInv, TypeOK, Edits
<1>1. /\ TypeOK /\ a \in Doing /\ edit[a] \in Edits
      /\ edit[a].clear = <<>> /\ edit[a].add \in SUBSET Rules
  BY DEF Add, IInv, TypeOK, Edits, Doing
<1>2. PICK g \in edit[a].add :
         /\ IF g \in memory[x] THEN UNCHANGED <<rules, memory, mail, clean>>
            ELSE /\ rules' = rules \cup {g}
                 /\ memory' = [memory EXCEPT ![x] = @ \cup {g}]
                 /\ Tell(x)
         /\ Continue(a, <<>>, edit[a].add \ {g})
  BY <1>0 DEF Add
<1> DEFINE add == edit[a].add \ {g}
<1>3. UNCHANGED <<role, reload, edits, wanted>>
  BY DEF Add
<1>4. /\ edit' \in [Admins -> Edits]
      /\ \A b \in Doing' : /\ b \in Doing
                           /\ edit'[b].at = edit[b].at
                           /\ b # a => edit'[b] = edit[b]
                           /\ b = a => edit'[b].clear = <<>> /\ edit'[b].add = add
      /\ ToClear' = ClearedBy(Doing \ {a}) \cup Cleared(<<>>)
      /\ ToAdd' = AddedBy(Doing \ {a}) \cup add
  <2>1. <<>> \in Seq(SUBSET Rules) /\ add \in SUBSET Rules
    BY <1>1, EmptySeq
  <2>2. Continue(a, <<>>, add)
    BY <1>2
  <2> HIDE DEF add
  <2> QED
    BY <1>1, <2>1, <2>2, ContinueStep
<1>5. Changes(x)
  BY <1>1, <1>2 DEF Changes, TypeOK
<1>6. TypeOK'
  <2>1. g \in Rules
    BY <1>1, <1>2
  <2>2. rules' \in SUBSET Rules /\ memory' \in [Replicas -> SUBSET Rules]
    BY <1>1, <1>2, <2>1 DEF TypeOK
  <2>3. mail' \in [Replicas -> Nat] /\ clean' \in BOOLEAN
    BY <1>1, <1>5, TellTyped
  <2> QED
    BY <1>1, <1>3, <1>4, <2>2, <2>3 DEF TypeOK
<1>7. WantedInv'
  BY <1>3 DEF IInv, WantedInv, GetRole
<1>8. ASSUME clean' PROVE MemoryInv' /\ EditInv' /\ TableInv'
  <2>1. /\ EditInv /\ TableInv /\ memory[x] = rules
        /\ MemoryInv' /\ \A b \in Doing' : Idle(edit[b].at)'
    BY <1>0, <1>1, <1>3, <1>4, <1>5, <1>8, ChangeStep
  <2>2. \A b \in Doing' : edit'[b].clear = edit[b].clear /\ edit'[b].add \subseteq edit[b].add
    BY <1>1, <1>4
  <2>3. EditInv'
    BY <1>4, <2>1, <2>2 DEF EditInv, Cleared
  <2>4. /\ ToClear = ClearedBy(Doing \ {a}) /\ ToAdd = AddedBy(Doing \ {a}) \cup edit[a].add
        /\ ToClear' = ClearedBy(Doing \ {a})
    BY <1>1, <1>4, ClearedEmpty DEF ToClear, ToAdd, ClearedBy, AddedBy
  <2>5. g \notin ClearedBy(Doing \ {a})
    BY <1>1, <2>1 DEF EditInv, ClearedBy
  <2>6. rules' = rules \cup {g}
    BY <1>2, <2>1
  <2>7. TableInv'
    BY <1>3, <1>4, <2>1, <2>4, <2>5, <2>6 DEF TableInv
  <2> QED
    BY <2>1, <2>3, <2>7
<1> QED
  BY <1>6, <1>7, <1>8 DEF IInv

LEMMA EditFailsStep ==
    ASSUME IInv, NEW a \in Admins, EditFails(a)
    PROVE  IInv'
<1>1. /\ edit' = [edit EXCEPT ![a] = NoEdit(@.at)] /\ clean' = FALSE
      /\ UNCHANGED <<role, rules, memory, mail, reload, edits, wanted>>
  BY DEF EditFails
<1>2. NoEdit(edit[a].at) \in Edits
  BY EmptySeq DEF IInv, TypeOK, Edits, NoEdit
<1> QED
  BY <1>1, <1>2 DEF IInv, TypeOK, WantedInv, GetRole

-----------------------------------------------------------------------------
(* News.                                                                   *)

LEMMA ReadPolicyStep ==
    ASSUME IInv, NEW x \in Replicas, ReadPolicy(x)
    PROVE  IInv'
<1> DEFINE r == [on |-> TRUE, read |-> rules]
<1>1. /\ mail[x] > 0 /\ ~reload[x].on
      /\ mail' = [mail EXCEPT ![x] = @ - 1]
      /\ reload' = [reload EXCEPT ![x] = r]
      /\ UNCHANGED <<role, rules, memory, edit, edits, wanted, clean>>
  BY DEF ReadPolicy
<1>2. TypeOK'
  <2>1. r \in Reloads /\ mail[x] - 1 \in Nat
    BY <1>1 DEF IInv, TypeOK, Reloads
  <2> QED
    BY <1>1, <2>1 DEF IInv, TypeOK
<1>3. /\ reload'[x].on /\ reload'[x].read = rules
      /\ \A y \in Replicas \ {x} : mail'[y] = mail[y] /\ reload'[y] = reload[y]
  BY <1>1 DEF IInv, TypeOK
<1>4. ASSUME clean PROVE MemoryInv' /\ EditInv' /\ TableInv'
  <2>1. MemoryInv'
    BY <1>1, <1>3, <1>4 DEF IInv, MemoryInv, Idle
  <2>2. \A a \in Doing : edit[a].at # x
    BY <1>1, <1>4 DEF IInv, EditInv, Idle
  <2>3. \A a \in Doing : edit[a].at \in Replicas
    BY DEF IInv, TypeOK, Edits, Doing
  <2>4. EditInv'
    BY <1>1, <1>3, <1>4, <2>2, <2>3 DEF IInv, EditInv, Idle, Doing, Cleared
  <2>5. TableInv'
    BY <1>1, <1>4 DEF IInv, TableInv, ToClear, ToAdd, Doing, Cleared
  <2> QED
    BY <2>1, <2>4, <2>5
<1>5. WantedInv'
  BY <1>1 DEF IInv, WantedInv, GetRole
<1> QED
  BY <1>1, <1>2, <1>4, <1>5 DEF IInv

LEMMA ApplyPolicyStep ==
    ASSUME IInv, NEW x \in Replicas, ApplyPolicy(x)
    PROVE  IInv'
<1>1. /\ reload[x].on
      /\ memory' = [memory EXCEPT ![x] = reload[x].read]
      /\ reload' = [reload EXCEPT ![x] = NoReload]
      /\ UNCHANGED <<role, rules, mail, edit, edits, wanted, clean>>
  BY DEF ApplyPolicy
<1>2. TypeOK'
  <2>1. NoReload \in Reloads /\ reload[x].read \in SUBSET Rules
    BY DEF IInv, TypeOK, Reloads, NoReload
  <2> QED
    BY <1>1, <2>1 DEF IInv, TypeOK
<1>3. /\ ~reload'[x].on /\ memory'[x] = reload[x].read
      /\ \A y \in Replicas \ {x} : memory'[y] = memory[y] /\ reload'[y] = reload[y]
  BY <1>1 DEF IInv, TypeOK, NoReload
<1>4. ASSUME clean PROVE MemoryInv' /\ EditInv' /\ TableInv'
  <2>1. MemoryInv'
    BY <1>1, <1>3, <1>4 DEF IInv, MemoryInv, Idle
  <2>2. \A a \in Doing : edit[a].at # x
    BY <1>1, <1>4 DEF IInv, EditInv, Idle
  <2>3. \A a \in Doing : edit[a].at \in Replicas
    BY DEF IInv, TypeOK, Edits, Doing
  <2>4. EditInv'
    BY <1>1, <1>3, <1>4, <2>2, <2>3 DEF IInv, EditInv, Idle, Doing, Cleared
  <2>5. TableInv'
    BY <1>1, <1>4 DEF IInv, TableInv, ToClear, ToAdd, Doing, Cleared
  <2> QED
    BY <2>1, <2>4, <2>5
<1>5. WantedInv'
  BY <1>1 DEF IInv, WantedInv, GetRole
<1> QED
  BY <1>1, <1>2, <1>4, <1>5 DEF IInv

LEMMA MissMessageStep ==
    ASSUME IInv, NEW x \in Replicas, MissMessage(x)
    PROVE  IInv'
<1>1. /\ mail[x] > 0 /\ mail' = [mail EXCEPT ![x] = @ - 1] /\ clean' = FALSE
      /\ UNCHANGED <<role, rules, memory, reload, edit, edits, wanted>>
  BY DEF MissMessage
<1>2. mail' \in [Replicas -> Nat]
  BY <1>1 DEF IInv, TypeOK
<1> QED
  BY <1>1, <1>2 DEF IInv, TypeOK, WantedInv, GetRole

\* A replica that starts has the table and no news; its edits are lost with it.
LEMMA RestartStep ==
    ASSUME IInv, NEW x \in Replicas, Restart(x)
    PROVE  IInv'
<1>1. /\ memory' = [memory EXCEPT ![x] = rules]
      /\ mail' = [mail EXCEPT ![x] = 0]
      /\ reload' = [reload EXCEPT ![x] = NoReload]
      /\ edit' = [a \in Admins |-> IF edit[a].at = x THEN NoEdit(x) ELSE edit[a]]
      /\ clean' = (clean /\ ~Busy(x))
      /\ UNCHANGED <<role, rules, edits, wanted>>
  BY DEF Restart
<1>2. TypeOK'
  <2>1. NoReload \in Reloads /\ NoEdit(x) \in Edits
    BY EmptySeq DEF Reloads, NoReload, Edits, NoEdit
  <2>2. edit' \in [Admins -> Edits]
    BY <1>1, <2>1 DEF IInv, TypeOK
  <2>3. /\ memory' \in [Replicas -> SUBSET Rules] /\ mail' \in [Replicas -> Nat]
        /\ reload' \in [Replicas -> Reloads]
    BY <1>1, <2>1 DEF IInv, TypeOK
  <2>4. clean' \in BOOLEAN
    BY <1>1
  <2> QED
    BY <1>1, <2>2, <2>3, <2>4 DEF IInv, TypeOK
<1>3. /\ ~reload'[x].on /\ memory'[x] = rules
      /\ \A y \in Replicas \ {x} : /\ memory'[y] = memory[y] /\ reload'[y] = reload[y]
                                   /\ mail'[y] = mail[y]
  BY <1>1 DEF IInv, TypeOK, NoReload
<1>4. ASSUME clean, ~Busy(x) PROVE MemoryInv' /\ EditInv' /\ TableInv'
  <2>1. MemoryInv'
    BY <1>1, <1>3, <1>4 DEF IInv, MemoryInv, Idle
  <2>2. \A a \in Doing : edit[a].at # x /\ edit[a].at \in Replicas
    BY <1>4 DEF Busy, IInv, TypeOK, Edits, Doing
  <2>3. Doing' = Doing /\ \A a \in Doing : edit'[a] = edit[a]
    BY <1>1, <2>2 DEF Doing, NoEdit
  <2>4. \A a \in Doing' : Idle(edit[a].at)'
    BY <1>3, <1>4, <2>2, <2>3 DEF IInv, EditInv, Idle
  <2>5. \A a, b \in Doing' : a # b => Cleared(edit'[a].clear) \cap edit'[b].add = {}
    BY <1>4, <2>3 DEF IInv, EditInv
  <2>6. EditInv'
    BY <2>4, <2>5 DEF EditInv, Cleared
  <2>7. ToClear' = ToClear /\ ToAdd' = ToAdd
    BY <2>3 DEF ToClear, ToAdd, Cleared
  <2>8. TableInv'
    BY <1>1, <1>4, <2>7 DEF IInv, TableInv
  <2> QED
    BY <2>1, <2>6, <2>8
<1>5. WantedInv'
  BY <1>1 DEF IInv, WantedInv, GetRole
<1> QED
  BY <1>1, <1>2, <1>4, <1>5 DEF IInv

-----------------------------------------------------------------------------
(* The theorems.                                                           *)

LEMMA InitOK == Init => IInv
<1> SUFFICES ASSUME Init PROVE IInv
  OBVIOUS
<1>1. PICK where \in [Admins -> Replicas] : edit = [a \in Admins |-> NoEdit(where[a])]
  <2>1. edit \in [Admins -> {NoEdit(x) : x \in Replicas}]
    BY DEF Init
  <2>2. \A a \in Admins : \E x \in Replicas : edit[a] = NoEdit(x)
    BY <2>1
  <2> DEFINE w == [a \in Admins |-> CHOOSE x \in Replicas : edit[a] = NoEdit(x)]
  <2>3. w \in [Admins -> Replicas] /\ edit = [a \in Admins |-> NoEdit(w[a])]
    BY <2>1, <2>2
  <2> QED
    BY <2>3
<1>2. /\ edit \in [Admins -> Edits] /\ Doing = {}
  <2>1. \A x \in Replicas : NoEdit(x) \in Edits /\ ~NoEdit(x).on
    BY EmptySeq DEF NoEdit, Edits
  <2> QED
    BY <1>1, <2>1 DEF Doing
<1>3. TypeOK
  <2>1. NoReload \in Reloads
    BY DEF NoReload, Reloads
  <2>2. Seed \in SUBSET Rules
    BY RbacAssumption DEF RbacAssumption, Rules
  <2> QED
    BY <1>2, <2>1, <2>2, RbacAssumption DEF Init, TypeOK, RbacAssumption
<1>4. MemoryInv /\ WantedInv
  <2>1. \A u \in Users, r \in Roles : <<u, r>> \in Seed => r \in SystemRoles
    BY RbacAssumption DEF RbacAssumption
  <2>2. WantedInv
    BY <2>1 DEF Init, WantedInv, GetRole
  <2> QED
    BY <2>2 DEF Init, MemoryInv, NoReload, Idle
<1>5. EditInv /\ TableInv
  BY <1>2 DEF Init, EditInv, TableInv, ToClear, ToAdd
<1> QED
  BY <1>3, <1>4, <1>5 DEF IInv

LEMMA NextOK == IInv /\ [Next]_vars => IInv'
<1> SUFFICES ASSUME IInv, [Next]_vars PROVE IInv'
  OBVIOUS
<1>1. ASSUME NEW r \in Roles, CreateRole(r) PROVE IInv'
  BY <1>1, CreateRoleStep
<1>2. ASSUME NEW a \in Admins, NEW x \in Replicas,
             SetRolePermissions(a, x) \/ SetUserRoles(a, x) \/ DeleteRole(a, x)
      PROVE  IInv'
  BY <1>2, SetRolePermissionsStep, SetUserRolesStep, DeleteRoleStep
<1>3. ASSUME NEW a \in Admins, Clear(a) \/ Add(a) \/ EditFails(a) PROVE IInv'
  BY <1>3, ClearStep, AddStep, EditFailsStep
<1>4. ASSUME NEW x \in Replicas,
             ReadPolicy(x) \/ ApplyPolicy(x) \/ MissMessage(x) \/ Restart(x)
      PROVE  IInv'
  BY <1>4, ReadPolicyStep, ApplyPolicyStep, MissMessageStep, RestartStep
<1>5. CASE UNCHANGED vars
  BY <1>5 DEF vars, IInv, TypeOK, MemoryInv, EditInv, TableInv, WantedInv, ToClear, ToAdd, Doing,
              Cleared, Idle, GetRole
<1> QED
  BY <1>1, <1>2, <1>3, <1>4, <1>5 DEF Next

THEOREM Invariance == Spec => []IInv
BY InitOK, NextOK, PTL DEF Spec

\* Rows, rules, messages and edits stay of their types, and edits in their bound.
THEOREM TypeCorrect == Spec => []TypeOK
<1>1. IInv => TypeOK
  BY DEF IInv
<1> QED
  BY <1>1, Invariance, PTL

LEMMA AllIsThrough == IInv => PolicyIsAsEdited
<1> SUFFICES ASSUME IInv, clean, \A a \in Admins : ~edit[a].on, \A x \in Replicas : Idle(x)
             PROVE  PolicyIsAsEdited
  BY DEF PolicyIsAsEdited
<1>1. Doing = {}
  BY DEF Doing
<1>2. rules = wanted
  <2>1. ToClear = {} /\ ToAdd = {}
    BY <1>1 DEF ToClear, ToAdd
  <2>2. TableInv
    BY DEF IInv
  <2> QED
    BY <2>1, <2>2 DEF TableInv
<1>3. \A x \in Replicas : memory[x] = wanted
  BY <1>2 DEF IInv, MemoryInv
<1>4. ASSUME NEW x \in Replicas, NEW r \in Roles
      PROVE  GetRolePermissions(x, r) = {p \in Perms : <<r, p>> \in wanted}
  BY <1>3 DEF GetRolePermissions, ListPermissions
<1>5. ASSUME NEW x \in Replicas, NEW u \in Users
      PROVE  LET given == {r \in Roles : <<u, r>> \in wanted}
                 granted == {p \in Rights : \E r \in given : <<r, p>> \in wanted}
                 allowed == {q \in Rights : \E p \in granted : <<q, p>> \in Matches} IN
             /\ \A r \in given : GetRole(r)
             /\ {q \in Rights : Enforce(x, u, q)} = allowed
             /\ Me(x, u) = [roles |-> given, permissions |-> allowed \cap Perms]
             /\ \A r \in given : GetRolePermissions(x, r) \subseteq Me(x, u).permissions
  <2> DEFINE given == {r \in Roles : <<u, r>> \in wanted}
             granted == {p \in Rights : \E r \in given : <<r, p>> \in wanted}
             allowed == {q \in Rights : \E p \in granted : <<q, p>> \in Matches}
  <2>1. \A r \in given : GetRole(r)
    BY DEF IInv, WantedInv
  <2>2. GetUserRoles(x, u) = given
    BY <1>3, <2>1 DEF GetUserRoles, GetRoleByCode, GetRole
  <2>3. ASSUME NEW q \in Rights PROVE Enforce(x, u, q) <=> q \in allowed
    BY <1>3 DEF Enforce
  <2>4. Perms \subseteq Rights /\ \A p \in Perms : <<p, p>> \in Matches
    BY RbacAssumption DEF RbacAssumption
  <2>5. \A r \in given : GetRolePermissions(x, r) \subseteq allowed \cap Perms
    BY <1>4, <2>4
  <2> HIDE DEF given, allowed
  <2>6. {q \in Rights : Enforce(x, u, q)} = allowed
    BY <2>3 DEF allowed
  <2>7. {p \in ListPermissions : Enforce(x, u, p)} = allowed \cap Perms
    BY <2>3, <2>4 DEF ListPermissions
  <2>8. Me(x, u) = [roles |-> given, permissions |-> allowed \cap Perms]
    BY <2>2, <2>7 DEF Me
  <2>9. Me(x, u).permissions = allowed \cap Perms
    BY <2>8
  <2> QED
    BY <2>1, <2>5, <2>6, <2>8, <2>9 DEF given, allowed
<1> QED
  BY <1>2, <1>4, <1>5 DEF PolicyIsAsEdited

\* When no edit and no message is under way, every replica decides and shows
\* what the edits asked for, however many ran at once on one replica or one
\* after the other on several: what matches a rule, under any relation of
\* matching, of a role that is given and not deleted.  It takes that no fault and
\* no other edit of the same rules disturbed them.
THEOREM PolicyAlwaysAsEdited == Spec => []PolicyIsAsEdited
BY AllIsThrough, Invariance, PTL

=============================================================================
